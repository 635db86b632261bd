---------------------------- MODULE KustomerOnce ----------------------------
(***************************************************************************)
(* Proof that a start without updates and failures fetches once, for every *)
(* number of initializations, with and without auto refresh.               *)
(*                                                                         *)
(* The publications of all generations are counted by the number of        *)
(* generations that have published.  That a generation does not publish    *)
(* again follows from the number of its triggers: with auto refresh, the   *)
(* watcher's `first`, its send and the trigger channel hold at most one    *)
(* trigger between them, and none once the refresher has taken it.         *)
(***************************************************************************)
EXTENDS KustomerRefines, FiniteSetTheorems

\* Neither an update nor a failure so far.
Calm == version = 1 /\ faults = 0

\* The refresher has what it needs for a fetch.
Fetching(g) == refresh[g] \in {"begin", "fetch", "publish", "retry", "ready", "idle"}

\* A stream brings only its hello, and it is `first` that a request which was
\* refused leaves behind.
StreamOK(g) ==
  /\ ~Has(events[g], "claims-updated")
  /\ notifier[g] = "failed"
       => /\ events[g] = <<>>
          /\ watcher[g] = "done" \/ (watcher[g] = "select" /\ watchFirst[g])
  /\ watcher[g] = "backoff" => watchFirst[g]

\* One trigger for each generation
TriggerOK(g) ==
  autoRefresh =>
    /\ watchFirst[g] => watcher[g] # "send"
    /\ watchFirst[g] \/ watcher[g] = "send" => trigger[g] = 0
    /\ watchFirst[g] \/ watcher[g] = "send" \/ trigger[g] > 0 => ~Fetching(g)

\* One publication for each generation
RefreshOK(g) ==
  /\ readyClosed[g] => refresh[g] \in {"idle", "done"}
  /\ refresh[g] = "idle" => autoRefresh

CalmInv == Calm => \A g \in Gens : StreamOK(g) /\ TriggerOK(g) /\ RefreshOK(g)

-----------------------------------------------------------------------------
(* A step that leaves the instance without updates and failures finds it so, and
   is no update and no broken stream. *)
LEMMA CalmBefore ==
  ASSUME TypeOK, [Next]_vars, Calm'
  PROVE  /\ Calm
         /\ ~DaemonUpdate
         /\ \A g \in Gens : ~StreamBreak(g)
<1> USE KustomerAssumption
    DEF KustomerAssumption, Calm, TypeOK, EnvTypeOK, Versions, envVars
<1>1. CASE UNCHANGED vars
  BY <1>1 DEF vars, DaemonUpdate, StreamBreak
<1>2. CASE Initialize \/ InitializeAbsError \/ Uninitialize \/ ParentCancel
  <2>1. version' = version /\ faults' = faults
    BY <1>2 DEF Initialize, InitializeAbsError, Uninitialize, ParentCancel
  <2> QED
    BY <2>1 DEF DaemonUpdate, StreamBreak
<1>3. ~DaemonUpdate
  BY DEF DaemonUpdate
<1>4. ASSUME NEW g \in Gens
      PROVE  ~StreamBreak(g)
  BY DEF StreamBreak
<1>5. ASSUME NEW g \in Gens, Watcher(g)
      PROVE  version' = version /\ faults' = faults
  BY <1>5 DEF Watcher, WatchStart, WatchEvent, WatchSend, WatchError, WatchReconnect,
              WatchDone
<1>6. ASSUME NEW g \in Gens, StreamOpen(g) \/ StreamRefused(g)
      PROVE  version' = version /\ faults' = faults
  BY <1>6 DEF StreamOpen, StreamRefused
<1>7. ASSUME NEW g \in Gens, Refresher(g)
      PROVE  version' = version /\ faults' = faults
  BY <1>7 DEF Refresher, RefreshTop, RefreshTriggered, RefreshBegin, FetchOK, FetchFail,
              RefreshRetry, Publish, SignalReady, RefreshDone
<1> QED
  BY <1>1, <1>2, <1>3, <1>4, <1>5, <1>6, <1>7 DEF Next

(* The steps of the callers. *)
LEMMA CalmCalls ==
  ASSUME TypeOK, ConnectInv, StartInv, NEW g \in Gens,
         StreamOK(g), TriggerOK(g), RefreshOK(g),
         Initialize \/ InitializeAbsError \/ Uninitialize \/ ParentCancel \/ UNCHANGED vars
  PROVE  (StreamOK(g) /\ TriggerOK(g) /\ RefreshOK(g))'
<1> USE DEF instVars, genVars, watchVars, refreshVars, envVars
<1>1. CASE Initialize
  BY <1>1 DEF Initialize, TypeOK, InstTypeOK, WatchTypeOK, RefreshTypeOK, ConnectInv,
              StartInv, Gens, StreamOK, TriggerOK, RefreshOK, Fetching, Has
<1>2. CASE ~Initialize
  <2>1. UNCHANGED <<autoRefresh, readyClosed, trigger, watcher, watchFirst, notifier, events,
                    refresh>>
    BY <1>2 DEF InitializeAbsError, Uninitialize, ParentCancel, vars
  <2> QED
    BY <2>1 DEF StreamOK, TriggerOK, RefreshOK, Fetching, Has
<1> QED
  BY <1>1, <1>2

(* The steps of the watchers and notifiers. *)
LEMMA CalmWatcher ==
  ASSUME TypeOK, ConnectInv, NEW g \in Gens, NEW h \in Gens,
         StreamOK(g), TriggerOK(g), RefreshOK(g), Calm, Calm',
         Watcher(h) \/ StreamOpen(h) \/ StreamRefused(h)
  PROVE  (StreamOK(g) /\ TriggerOK(g) /\ RefreshOK(g))'
<1> USE DEF TypeOK, InstTypeOK, GenTypeOK, WatchTypeOK, instVars, genVars, refreshVars
<1>1. RefreshOK(g)'
  BY DEF Watcher, WatchStart, WatchEvent, WatchSend, WatchError, WatchReconnect, WatchDone,
         StreamOpen, StreamRefused, RefreshOK
<1> USE DEF StreamOK, TriggerOK, Fetching
<1>2. CASE WatchStart(h)
  BY <1>1, <1>2 DEF WatchStart, Connect, Has, ConnectInv
<1>3. CASE WatchEvent(h)
  <2>1. Has(events'[g], "claims-updated") => Has(events[g], "claims-updated")
    BY <1>3 DEF WatchEvent, Has
  <2>2. h = g => Head(events[g]) = "hello"
    BY <1>3 DEF WatchEvent, Has
  <2> QED
    BY <1>1, <1>3, <2>1, <2>2 DEF WatchEvent
<1>4. CASE WatchSend(h)
  BY <1>1, <1>4 DEF WatchSend, TriggerCap
<1>5. CASE WatchError(h)
  BY <1>1, <1>5 DEF WatchError
<1>6. CASE WatchReconnect(h)
  BY <1>1, <1>6 DEF WatchReconnect, Connect, Has
<1>7. CASE WatchDone(h)
  BY <1>1, <1>7 DEF WatchDone
<1>8. CASE StreamOpen(h)
  BY <1>1, <1>8 DEF StreamOpen, Has
<1>9. CASE StreamRefused(h)
  BY <1>1, <1>9 DEF StreamRefused, ConnectInv
<1> QED
  BY <1>2, <1>3, <1>4, <1>5, <1>6, <1>7, <1>8, <1>9 DEF Watcher

(* The steps of the refreshers. *)
LEMMA CalmRefresher ==
  ASSUME TypeOK, ReadyInv, NEW g \in Gens, NEW h \in Gens,
         StreamOK(g), TriggerOK(g), RefreshOK(g), Refresher(h)
  PROVE  (StreamOK(g) /\ TriggerOK(g) /\ RefreshOK(g))'
<1> USE DEF TypeOK, InstTypeOK, GenTypeOK, WatchTypeOK, RefreshTypeOK, instVars, genVars,
            watchVars
<1>1. UNCHANGED <<autoRefresh, watcher, watchFirst, notifier, events>>
  BY DEF Refresher, RefreshTop, RefreshTriggered, RefreshBegin, FetchOK, FetchFail,
         RefreshRetry, Publish, SignalReady, RefreshDone
<1>2. StreamOK(g)'
  BY <1>1 DEF StreamOK, Has
<1> USE DEF TriggerOK, RefreshOK, Fetching
<1>3. CASE RefreshTop(h)
  BY <1>1, <1>2, <1>3 DEF RefreshTop, AfterReset, ReadyInv
<1>4. CASE RefreshTriggered(h)
  BY <1>1, <1>2, <1>4 DEF RefreshTriggered, TriggerCap
<1>5. CASE RefreshBegin(h)
  BY <1>1, <1>2, <1>5 DEF RefreshBegin
<1>6. CASE FetchOK(h)
  BY <1>1, <1>2, <1>6 DEF FetchOK
<1>7. CASE FetchFail(h)
  BY <1>1, <1>2, <1>7 DEF FetchFail, AfterError
<1>8. CASE RefreshRetry(h)
  BY <1>1, <1>2, <1>8 DEF RefreshRetry
<1>9. CASE Publish(h)
  BY <1>1, <1>2, <1>9 DEF Publish, AfterPublish, AfterFetch, ReadyInv
<1>10. CASE SignalReady(h)
  BY <1>1, <1>2, <1>10 DEF SignalReady, AfterFetch
<1>11. CASE RefreshDone(h)
  BY <1>1, <1>2, <1>11 DEF RefreshDone
<1> QED
  BY <1>3, <1>4, <1>5, <1>6, <1>7, <1>8, <1>9, <1>10, <1>11 DEF Refresher

(* CalmInv is inductive together with the earlier invariants. *)
LEMMA CalmStep ==
  ASSUME TypeOK, ReadyInv, ConnectInv, StartInv, CalmInv, [Next]_vars
  PROVE  CalmInv'
<1> SUFFICES ASSUME Calm', NEW g \in Gens
             PROVE  (StreamOK(g) /\ TriggerOK(g) /\ RefreshOK(g))'
  BY DEF CalmInv
<1>1. /\ Calm /\ ~DaemonUpdate /\ \A h \in Gens : ~StreamBreak(h)
      /\ StreamOK(g) /\ TriggerOK(g) /\ RefreshOK(g)
  BY CalmBefore DEF CalmInv
<1> QED
  BY <1>1, CalmCalls, CalmWatcher, CalmRefresher DEF Next

-----------------------------------------------------------------------------
(* What has published is a finite set of generations that were started. *)
LEMMA PublishedFinite ==
  ASSUME TypeOK, StartInv
  PROVE  IsFiniteSet(Published)
<1>1. gen \in Nat /\ Published \subseteq 1..gen
  BY KustomerAssumption DEF KustomerAssumption, TypeOK, InstTypeOK, StartInv, Published, Gens
<1>2. IsFiniteSet(1..gen)
  BY <1>1, FS_Interval
<1> QED
  BY <1>1, <1>2, FS_Subset

(* Only Publish adds to them and counts. *)
LEMMA OnlyPublishCounts ==
  ASSUME TypeOK, StartInv, [Next]_vars, \A g \in Gens : ~Publish(g)
  PROVE  Published' = Published /\ updated' = updated
<1> USE DEF TypeOK, GenTypeOK, RefreshTypeOK, instVars, genVars, refreshVars, Published
<1>1. CASE Initialize
  BY <1>1 DEF Initialize, StartInv, InstTypeOK, Gens
<1>2. ASSUME NEW g \in Gens, SignalReady(g)
      PROVE  Published' = Published /\ updated' = updated
  BY <1>2 DEF SignalReady, AfterFetch
<1>3. ASSUME NEW g \in Gens, Refresher(g), ~SignalReady(g)
      PROVE  Published' = Published /\ updated' = updated
  BY <1>3, RefresherStutters DEF Promise!vars
<1>4. ASSUME NEW g \in Gens,
             Watcher(g) \/ StreamOpen(g) \/ StreamRefused(g) \/ StreamBreak(g)
      PROVE  Published' = Published /\ updated' = updated
  BY <1>4 DEF Watcher, WatchStart, WatchEvent, WatchSend, WatchError, WatchReconnect,
              WatchDone, StreamOpen, StreamRefused, StreamBreak
<1>5. CASE InitializeAbsError \/ Uninitialize \/ ParentCancel \/ DaemonUpdate
           \/ UNCHANGED vars
  BY <1>5 DEF InitializeAbsError, Uninitialize, ParentCancel, DaemonUpdate, vars
<1> QED
  BY <1>1, <1>2, <1>3, <1>4, <1>5 DEF Next

(* The count is inductive together with CalmInv. *)
LEMMA CountStep ==
  ASSUME TypeOK, ReadyInv, StartInv, CalmInv, NoDoubleFetch, [Next]_vars
  PROVE  NoDoubleFetch'
<1> SUFFICES ASSUME Calm' PROVE updated' = Cardinality(Published')
  BY DEF NoDoubleFetch, Calm, Published
<1>1. Calm /\ updated = Cardinality(Published)
  BY CalmBefore DEF NoDoubleFetch, Calm
<1>2. ASSUME NEW g \in Gens, Publish(g)
      PROVE  updated' = Cardinality(Published')
  <2>1. g \notin Published
    BY <1>1, <1>2 DEF Publish, CalmInv, RefreshOK, Published
  <2>2. Published' = Published \cup {g}
    BY <1>2, <2>1
       DEF Publish, AfterPublish, ReadyInv, Published, TypeOK, RefreshTypeOK, genVars
  <2>3. Cardinality(Published \cup {g}) = Cardinality(Published) + 1
    BY <2>1, PublishedFinite, FS_AddElement
  <2> QED
    BY <1>1, <1>2, <2>2, <2>3 DEF Publish
<1> QED
  BY <1>1, <1>2, OnlyPublishCounts

(* Without an update and without a failure there are as many publications as
   generations that have published, so that every one of them published once:
   the hello's trigger leads to the first fetch and not to a second one
   (kustomer.go:206-218, 248-258). *)
THEOREM FetchedOnce == Spec => []NoDoubleFetch
<1>1. Init => ConnectInv /\ StartInv /\ CalmInv /\ NoDoubleFetch
  <2> SUFFICES ASSUME Init PROVE ConnectInv /\ StartInv /\ CalmInv /\ NoDoubleFetch
    OBVIOUS
  <2>1. ConnectInv /\ StartInv
    BY DEF Init, ConnectInv, StartInv
  <2>2. CalmInv
    BY DEF Init, CalmInv, StreamOK, TriggerOK, RefreshOK, Fetching, Has
  <2>3. Published = {} /\ updated = 0
    BY DEF Init, Published
  <2> QED
    BY <2>1, <2>2, <2>3, FS_EmptySet DEF NoDoubleFetch, Calm
<1> QED
  BY <1>1, ConnectStep, StartStep, CalmStep, CountStep, TypeCorrect, ReadyInductive,
     PTL DEF Spec

=============================================================================
