--------------------------- MODULE KustomerProofs ---------------------------
(***************************************************************************)
(* Proofs about module Kustomer, for every number of initializations,      *)
(* claims versions and failures.                                           *)
(***************************************************************************)
EXTENDS Kustomer, TLAPS

-----------------------------------------------------------------------------
(* The inductive invariants.  None of the safety invariants is inductive by
   itself; each of the following is inductive together with TypeOK. *)

\* A response is only published after a fetch, and `first` says whether the
\* ready channel is still open.
ReadyInv ==
  \A g \in Gens :
    /\ refreshFirst[g] <=> ~readyClosed[g]
    /\ refresh[g] = "publish" => resp[g] > 0
    /\ refresh[g] = "ready" => refreshFirst[g] /\ kpc.version > 0
    /\ readyClosed[g] => kpc.version > 0

\* Nothing is newer than the daemon, and a refresher about to publish does not
\* hold anything older than what its generation published before.
VersionInv ==
  /\ kpc.version <= version
  /\ \A g \in Gens :
       /\ resp[g] <= version
       /\ refresh[g] = "publish" /\ kpc.gen = g => kpc.version <= resp[g]

Has(s, e) == \E i \in 1..Len(s) : s[i] = e

\* A fetch after now is certain: its trigger is in the channel or on its way.
Owed(g) ==
  \/ trigger[g] > 0
  \/ Has(events[g], "claims-updated")
  \/ watchFirst[g] /\ Has(events[g], "hello")

\* The refresher is past its fetch, and the watcher is receiving a stream.
Listening(g) ==
  /\ refresh[g] \in {"publish", "ready", "idle"}
  /\ watcher[g] = "select"
  /\ notifier[g] = "stream"

\* What is not started has done nothing, and `first` is set whenever a stream is
\* requested.
ConnectInv ==
  \A g \in Gens :
    /\ g > gen => watcher[g] = "none" /\ notifier[g] = "none" /\ watchFirst[g]
    /\ watcher[g] = "start" => watchFirst[g] /\ notifier[g] = "none"
    /\ notifier[g] = "request"
         => /\ events[g] = <<>>
            /\ watcher[g] = "done" \/ (watcher[g] = "select" /\ watchFirst[g])

\* A refresher past its fetch has the active version or owes another fetch.
UpdateInv == \A g \in Gens : Listening(g) => resp[g] = version \/ Owed(g)

-----------------------------------------------------------------------------
(* A part of the type invariant holds on when its variables do not change. *)
LEMMA TypeUnchanged ==
  /\ InstTypeOK /\ UNCHANGED instVars => InstTypeOK'
  /\ GenTypeOK /\ UNCHANGED genVars => GenTypeOK'
  /\ WatchTypeOK /\ UNCHANGED watchVars => WatchTypeOK'
  /\ RefreshTypeOK /\ UNCHANGED refreshVars => RefreshTypeOK'
  /\ EnvTypeOK /\ UNCHANGED envVars => EnvTypeOK'
<1>1. InstTypeOK /\ UNCHANGED instVars => InstTypeOK'
  BY DEF InstTypeOK, instVars
<1>2. GenTypeOK /\ UNCHANGED genVars => GenTypeOK'
  BY DEF GenTypeOK, genVars
<1>3. WatchTypeOK /\ UNCHANGED watchVars => WatchTypeOK'
  BY DEF WatchTypeOK, watchVars
<1>4. RefreshTypeOK /\ UNCHANGED refreshVars => RefreshTypeOK'
  BY DEF RefreshTypeOK, refreshVars
<1>5. EnvTypeOK /\ UNCHANGED envVars => EnvTypeOK'
  BY DEF EnvTypeOK, envVars
<1> QED
  BY <1>1, <1>2, <1>3, <1>4, <1>5

(* The types after the steps of the exported operations and of the daemon. *)
LEMMA TypeCalls ==
  ASSUME TypeOK,
         Initialize \/ InitializeAbsError \/ Uninitialize \/ ParentCancel \/ DaemonUpdate
  PROVE  TypeOK'
<1> USE KustomerAssumption, TypeUnchanged DEF KustomerAssumption, Gens, TypeOK
<1>1. CASE Initialize
  <2>1. InstTypeOK'
    BY <1>1 DEF Initialize, InstTypeOK
  <2>2. WatchTypeOK'
    BY <1>1 DEF Initialize, WatchTypeOK, WatcherStates
  <2>3. RefreshTypeOK'
    BY <1>1 DEF Initialize, RefreshTypeOK, RefreshStates
  <2> QED
    BY <1>1, <2>1, <2>2, <2>3 DEF Initialize
<1>2. CASE InitializeAbsError
  <2>1. InstTypeOK'
    BY <1>2 DEF InitializeAbsError, InstTypeOK
  <2> QED
    BY <1>2, <2>1 DEF InitializeAbsError
<1>3. CASE Uninitialize
  <2>1. InstTypeOK'
    BY <1>3 DEF Uninitialize, InstTypeOK
  <2>2. GenTypeOK'
    BY <1>3 DEF Uninitialize, GenTypeOK
  <2> QED
    BY <1>3, <2>1, <2>2 DEF Uninitialize
<1>4. CASE ParentCancel
  <2>1. GenTypeOK'
    BY <1>4 DEF ParentCancel, GenTypeOK
  <2> QED
    BY <1>4, <2>1 DEF ParentCancel
<1>5. CASE DaemonUpdate
  <2>1. \A g \in Gens : events'[g] \in Seq(Events)
    BY <1>5 DEF DaemonUpdate, WatchTypeOK, Events
  <2>2. WatchTypeOK'
    BY <1>5, <2>1 DEF DaemonUpdate, WatchTypeOK
  <2>3. EnvTypeOK'
    BY <1>5 DEF DaemonUpdate, EnvTypeOK, Versions
  <2> QED
    BY <1>5, <2>2, <2>3 DEF DaemonUpdate
<1> QED
  BY <1>1, <1>2, <1>3, <1>4, <1>5

(* The types after the steps of the watcher and of the notifier. *)
LEMMA TypeWatcher ==
  ASSUME TypeOK, NEW g \in Gens,
         Watcher(g) \/ StreamOpen(g) \/ StreamRefused(g) \/ StreamBreak(g)
  PROVE  TypeOK'
<1> USE KustomerAssumption, TypeUnchanged DEF KustomerAssumption, TypeOK
<1>1. CASE WatchStart(g)
  <2>1. CASE ~autoRefresh \/ gen # g \/ ~initialized
    BY <1>1, <2>1 DEF WatchStart, WatchTypeOK, WatcherStates
  <2>2. CASE ~(~autoRefresh \/ gen # g \/ ~initialized)
    <3>1. Connect(g) /\ UNCHANGED watchFirst
      BY <1>1, <2>2 DEF WatchStart
    <3>2. WatchTypeOK'
      BY <3>1 DEF Connect, WatchTypeOK, WatcherStates, NotifierStates
    <3> QED
      BY <1>1, <3>2 DEF WatchStart
  <2> QED
    BY <2>1, <2>2
<1>2. CASE WatchEvent(g)
  <2>1. Tail(events[g]) \in Seq(Events)
    BY <1>2 DEF WatchEvent, WatchTypeOK
  <2>2. WatchTypeOK'
    BY <1>2, <2>1 DEF WatchEvent, WatchTypeOK, WatcherStates
  <2>3. GenTypeOK'
    BY <1>2 DEF WatchEvent, GenTypeOK, Offer, TriggerCap
  <2> QED
    BY <1>2, <2>2, <2>3 DEF WatchEvent
<1>3. CASE WatchSend(g)
  <2>1. WatchTypeOK'
    BY <1>3 DEF WatchSend, WatchTypeOK, WatcherStates
  <2>2. GenTypeOK'
    BY <1>3 DEF WatchSend, GenTypeOK, TriggerCap
  <2> QED
    BY <1>3, <2>1, <2>2 DEF WatchSend
<1>4. CASE WatchError(g)
  <2>1. WatchTypeOK'
    BY <1>4 DEF WatchError, WatchTypeOK, WatcherStates, NotifierStates
  <2> QED
    BY <1>4, <2>1 DEF WatchError
<1>5. CASE WatchReconnect(g)
  <2>1. WatchTypeOK'
    BY <1>5 DEF WatchReconnect, Connect, WatchTypeOK, WatcherStates, NotifierStates
  <2> QED
    BY <1>5, <2>1 DEF WatchReconnect
<1>6. CASE WatchDone(g)
  <2>1. WatchTypeOK'
    BY <1>6 DEF WatchDone, WatchTypeOK, WatcherStates
  <2> QED
    BY <1>6, <2>1 DEF WatchDone
<1>7. CASE StreamOpen(g)
  <2>1. WatchTypeOK'
    BY <1>7 DEF StreamOpen, WatchTypeOK, NotifierStates, Events
  <2> QED
    BY <1>7, <2>1 DEF StreamOpen
<1>8. CASE StreamRefused(g)
  <2>1. WatchTypeOK'
    BY <1>8 DEF StreamRefused, WatchTypeOK, NotifierStates
  <2>2. EnvTypeOK'
    BY <1>8 DEF StreamRefused, EnvTypeOK
  <2> QED
    BY <1>8, <2>1, <2>2 DEF StreamRefused
<1>9. CASE StreamBreak(g)
  <2>1. \A n \in 0..Len(events[g]) : SubSeq(events[g], 1, n) \in Seq(Events)
    BY DEF WatchTypeOK
  <2>2. WatchTypeOK'
    BY <1>9, <2>1 DEF StreamBreak, WatchTypeOK, NotifierStates
  <2>3. EnvTypeOK'
    BY <1>9 DEF StreamBreak, EnvTypeOK
  <2> QED
    BY <1>9, <2>2, <2>3 DEF StreamBreak
<1> QED
  BY <1>1, <1>2, <1>3, <1>4, <1>5, <1>6, <1>7, <1>8, <1>9 DEF Watcher

(* The types after the steps of the refresher. *)
LEMMA TypeRefresher ==
  ASSUME TypeOK, NEW g \in Gens, Refresher(g)
  PROVE  TypeOK'
<1> USE KustomerAssumption, TypeUnchanged DEF KustomerAssumption, TypeOK
<1>1. CASE RefreshTop(g)
  <2>1. InstTypeOK'
    BY <1>1 DEF RefreshTop, InstTypeOK
  <2>2. RefreshTypeOK'
    BY <1>1 DEF RefreshTop, RefreshTypeOK, AfterReset, RefreshStates
  <2> QED
    BY <1>1, <2>1, <2>2 DEF RefreshTop
<1>2. CASE RefreshTriggered(g)
  <2>1. GenTypeOK'
    BY <1>2 DEF RefreshTriggered, GenTypeOK, TriggerCap
  <2>2. RefreshTypeOK'
    BY <1>2 DEF RefreshTriggered, RefreshTypeOK, RefreshStates
  <2> QED
    BY <1>2, <2>1, <2>2 DEF RefreshTriggered
<1>3. CASE RefreshBegin(g)
  <2>1. PICK c \in g..gen : fetchCtx' = [fetchCtx EXCEPT ![g] = c]
    BY <1>3 DEF RefreshBegin
  <2>2. c \in 0..MaxInit
    BY DEF Gens, InstTypeOK
  <2>3. RefreshTypeOK'
    BY <1>3, <2>1, <2>2 DEF RefreshBegin, RefreshTypeOK, RefreshStates
  <2> QED
    BY <1>3, <2>3 DEF RefreshBegin
<1>4. CASE FetchOK(g)
  <2>1. RefreshTypeOK'
    BY <1>4 DEF FetchOK, RefreshTypeOK, RefreshStates, EnvTypeOK, Versions
  <2> QED
    BY <1>4, <2>1 DEF FetchOK
<1>5. CASE FetchFail(g)
  <2>1. RefreshTypeOK'
    BY <1>5 DEF FetchFail, AfterError, RefreshTypeOK, RefreshStates
  <2>2. EnvTypeOK'
    BY <1>5 DEF FetchFail, EnvTypeOK
  <2> QED
    BY <1>5, <2>1, <2>2 DEF FetchFail
<1>6. CASE RefreshRetry(g)
  <2>1. RefreshTypeOK'
    BY <1>6 DEF RefreshRetry, RefreshTypeOK, RefreshStates
  <2> QED
    BY <1>6, <2>1 DEF RefreshRetry
<1>7. CASE Publish(g)
  <2>1. InstTypeOK'
    BY <1>7 DEF Publish, InstTypeOK, RefreshTypeOK, Gens
  <2>2. RefreshTypeOK'
    BY <1>7 DEF Publish, AfterPublish, AfterFetch, RefreshTypeOK, RefreshStates
  <2> QED
    BY <1>7, <2>1, <2>2 DEF Publish
<1>8. CASE SignalReady(g)
  <2>1. GenTypeOK'
    BY <1>8 DEF SignalReady, GenTypeOK
  <2>2. RefreshTypeOK'
    BY <1>8 DEF SignalReady, AfterFetch, RefreshTypeOK, RefreshStates
  <2> QED
    BY <1>8, <2>1, <2>2 DEF SignalReady
<1>9. CASE RefreshDone(g)
  <2>1. RefreshTypeOK'
    BY <1>9 DEF RefreshDone, RefreshTypeOK, RefreshStates
  <2> QED
    BY <1>9, <2>1 DEF RefreshDone
<1> QED
  BY <1>1, <1>2, <1>3, <1>4, <1>5, <1>6, <1>7, <1>8, <1>9 DEF Refresher

(* The types at the start ... *)
LEMMA TypeInit == Init => TypeOK
<1> SUFFICES ASSUME Init PROVE TypeOK
  OBVIOUS
<1> USE KustomerAssumption DEF KustomerAssumption, Init
<1>1. kpc \in [gen : 0..MaxInit, version : 0..MaxVersion]
  BY DEF NoProductClaims
<1>2. /\ gen \in 0..MaxInit
      /\ currentClaims \in 0..MaxVersion
      /\ updated \in Nat
      /\ GenTypeOK
  BY DEF GenTypeOK, TriggerCap
<1>3. InstTypeOK
  BY <1>1, <1>2, Zenon DEF InstTypeOK
<1>4. WatchTypeOK
  BY DEF WatchTypeOK, WatcherStates, NotifierStates
<1>5. RefreshTypeOK
  BY DEF RefreshTypeOK, RefreshStates
<1>6. EnvTypeOK
  BY DEF EnvTypeOK, Versions
<1> QED
  BY <1>2, <1>3, <1>4, <1>5, <1>6 DEF TypeOK

(* ... and after every step. *)
LEMMA TypeStep == TypeOK /\ [Next]_vars => TypeOK'
<1> SUFFICES ASSUME TypeOK, [Next]_vars PROVE TypeOK'
  OBVIOUS
<1>1. CASE UNCHANGED vars
  BY <1>1, TypeUnchanged DEF TypeOK, vars
<1>2. CASE Next
  BY <1>2, TypeCalls, TypeWatcher, TypeRefresher DEF Next
<1> QED
  BY <1>1, <1>2

(* Every variable keeps its type, the trigger channel its capacity
   (kustomer.go:28-53, 108-304). *)
THEOREM TypeCorrect == Spec => []TypeOK
<1> QED
  BY TypeInit, TypeStep, PTL DEF Spec

-----------------------------------------------------------------------------
(* Claims behind ready (kustomer.go:263-291). *)

(* Only Initialize and the refreshers change what the invariants below say of
   the refreshers; nothing makes the daemon's claims older. *)
LEMMA OtherSteps ==
  ASSUME [Next]_vars, ~Initialize, \A g \in Gens : ~Refresher(g)
  PROVE  /\ UNCHANGED <<refresh, refreshFirst, resp, readyClosed, kpc>>
         /\ version' = version \/ version' = version + 1
<1> USE DEF instVars, genVars, watchVars, refreshVars, envVars
<1>1. CASE UNCHANGED vars
  BY <1>1 DEF vars
<1>2. CASE InitializeAbsError
  BY <1>2 DEF InitializeAbsError
<1>3. CASE Uninitialize
  BY <1>3 DEF Uninitialize
<1>4. CASE ParentCancel
  BY <1>4 DEF ParentCancel
<1>5. CASE DaemonUpdate
  BY <1>5 DEF DaemonUpdate
<1>6. ASSUME NEW g \in Gens, Watcher(g)
      PROVE  UNCHANGED <<refresh, refreshFirst, resp, readyClosed, kpc, version>>
  BY <1>6 DEF Watcher, WatchStart, WatchEvent, WatchSend, WatchError,
              WatchReconnect, WatchDone
<1>7. ASSUME NEW g \in Gens, StreamOpen(g) \/ StreamRefused(g) \/ StreamBreak(g)
      PROVE  UNCHANGED <<refresh, refreshFirst, resp, readyClosed, kpc, version>>
  BY <1>7 DEF StreamOpen, StreamRefused, StreamBreak
<1> QED
  BY <1>1, <1>2, <1>3, <1>4, <1>5, <1>6, <1>7 DEF Next

(* ReadyInv is inductive. *)
LEMMA ReadyStep ==
  ASSUME TypeOK, ReadyInv, [Next]_vars
  PROVE  ReadyInv'
<1> USE DEF ReadyInv, TypeOK, GenTypeOK, RefreshTypeOK, instVars, genVars
<1>1. CASE Initialize
  BY <1>1 DEF Initialize
<1>2. ASSUME NEW g \in Gens, Refresher(g)
      PROVE  ReadyInv'
  <2>1. CASE RefreshTop(g)
    BY <2>1 DEF RefreshTop, AfterReset
  <2>2. CASE RefreshTriggered(g)
    BY <2>2 DEF RefreshTriggered
  <2>3. CASE RefreshBegin(g)
    BY <2>3 DEF RefreshBegin
  <2>4. CASE FetchOK(g)
    BY <2>4 DEF FetchOK, EnvTypeOK, Versions
  <2>5. CASE FetchFail(g)
    BY <2>5 DEF FetchFail, AfterError
  <2>6. CASE RefreshRetry(g)
    BY <2>6 DEF RefreshRetry
  <2>7. CASE Publish(g)
    <3>1. kpc'.version > 0
      BY <2>7 DEF Publish
    <3> QED
      BY <2>7, <3>1 DEF Publish, AfterPublish, AfterFetch
  <2>8. CASE SignalReady(g)
    BY <2>8 DEF SignalReady, AfterFetch
  <2>9. CASE RefreshDone(g)
    BY <2>9 DEF RefreshDone
  <2> QED
    BY <1>2, <2>1, <2>2, <2>3, <2>4, <2>5, <2>6, <2>7, <2>8, <2>9 DEF Refresher
<1>3. CASE ~Initialize /\ \A g \in Gens : ~Refresher(g)
  BY <1>3, OtherSteps
<1> QED
  BY <1>1, <1>2, <1>3

(* Hence it always holds. *)
LEMMA ReadyInductive == Spec => []ReadyInv
<1>1. Init => ReadyInv
  BY DEF Init, ReadyInv
<1> QED
  BY <1>1, ReadyStep, TypeCorrect, PTL DEF Spec

(* Nobody whom a ready channel lets go finds the instance without fetched
   claims (kustomer.go:278-291, 328-348). *)
THEOREM ReadyMeansClaims == Spec => []ReadyHasClaims
<1>1. TypeOK /\ ReadyInv => ReadyHasClaims
  BY DEF TypeOK, InstTypeOK, ReadyInv, ReadyHasClaims, NoProductClaims
<1> QED
  BY <1>1, ReadyInductive, TypeCorrect, PTL

(* close(ready) never panics (kustomer.go:287-291). *)
THEOREM ReadyNeverClosedTwice == Spec => []ReadyClosedOnce
<1>1. ReadyInv => ReadyClosedOnce
  BY DEF ReadyInv, ReadyClosedOnce
<1> QED
  BY <1>1, ReadyInductive, PTL

-----------------------------------------------------------------------------
(* Published versions (kustomer.go:260-285). *)

(* VersionInv is inductive. *)
LEMMA VersionStep ==
  ASSUME TypeOK, VersionInv, [Next]_vars
  PROVE  VersionInv'
<1> USE DEF VersionInv, TypeOK, InstTypeOK, RefreshTypeOK, EnvTypeOK, Versions,
            instVars, refreshVars, envVars
<1>1. CASE Initialize
  BY <1>1 DEF Initialize
<1>2. ASSUME NEW g \in Gens, Refresher(g)
      PROVE  VersionInv'
  <2>1. CASE RefreshTop(g)
    BY <2>1 DEF RefreshTop, AfterReset
  <2>2. CASE RefreshTriggered(g)
    BY <2>2 DEF RefreshTriggered
  <2>3. CASE RefreshBegin(g)
    BY <2>3 DEF RefreshBegin
  <2>4. CASE FetchOK(g)
    BY <2>4 DEF FetchOK
  <2>5. CASE FetchFail(g)
    BY <2>5 DEF FetchFail, AfterError
  <2>6. CASE RefreshRetry(g)
    BY <2>6 DEF RefreshRetry
  <2>7. CASE Publish(g)
    <3>1. kpc'.version = resp[g] /\ kpc'.gen = g
      BY <2>7 DEF Publish
    <3>2. \A h \in Gens : refresh'[h] = "publish" => refresh[h] = "publish" /\ h # g
      BY <2>7 DEF Publish, AfterPublish, AfterFetch
    <3> QED
      BY <2>7, <3>1, <3>2 DEF Publish
  <2>8. CASE SignalReady(g)
    BY <2>8 DEF SignalReady, AfterFetch
  <2>9. CASE RefreshDone(g)
    BY <2>9 DEF RefreshDone
  <2> QED
    BY <1>2, <2>1, <2>2, <2>3, <2>4, <2>5, <2>6, <2>7, <2>8, <2>9 DEF Refresher
<1>3. CASE ~Initialize /\ \A g \in Gens : ~Refresher(g)
  BY <1>3, OtherSteps
<1> QED
  BY <1>1, <1>2, <1>3

(* Only Publish stores product claims. *)
LEMMA OnlyPublishStores ==
  ASSUME [Next]_vars, \A g \in Gens : ~Publish(g)
  PROVE  kpc' = kpc
<1> USE DEF instVars
<1>1. CASE Initialize
  BY <1>1 DEF Initialize
<1>2. ASSUME NEW g \in Gens, Refresher(g)
      PROVE  kpc' = kpc
  BY <1>2 DEF Refresher, RefreshTop, RefreshTriggered, RefreshBegin, FetchOK,
              FetchFail, RefreshRetry, SignalReady, RefreshDone
<1>3. CASE ~Initialize /\ \A g \in Gens : ~Refresher(g)
  BY <1>3, OtherSteps
<1> QED
  BY <1>1, <1>2, <1>3

(* Hence it always holds. *)
LEMMA VersionInductive == Spec => []VersionInv
<1>1. Init => VersionInv
  BY DEF Init, VersionInv, NoProductClaims
<1> QED
  BY <1>1, VersionStep, TypeCorrect, PTL DEF Spec

(* While one generation publishes, readers of the product claims never see an
   older version after a newer one (kustomer.go:260-285). *)
THEOREM PublishedNeverOlder == Spec => SameGenMonotone
<1>1. TypeOK /\ VersionInv /\ [Next]_vars
        => [kpc'.gen = kpc.gen => kpc.version <= kpc'.version]_vars
  <2> SUFFICES ASSUME TypeOK, VersionInv, [Next]_vars, kpc'.gen = kpc.gen
               PROVE  kpc.version <= kpc'.version
    OBVIOUS
  <2>1. ASSUME NEW g \in Gens, Publish(g)
        PROVE  kpc.version <= kpc'.version
    <3>1. kpc'.gen = g /\ kpc'.version = resp[g]
      BY <2>1 DEF Publish
    <3> QED
      BY <2>1, <3>1 DEF Publish, VersionInv
  <2>2. CASE \A g \in Gens : ~Publish(g)
    BY <2>2, OnlyPublishStores DEF TypeOK, InstTypeOK
  <2> QED
    BY <2>1, <2>2
<1> QED
  BY <1>1, VersionInductive, TypeCorrect, PTL DEF Spec, SameGenMonotone

-----------------------------------------------------------------------------
(* No update is missed (kustomer.go:166-231, 260-302). *)

(* An event is found where it was put, and as long as it is not received. *)
LEMMA HasAppend ==
  ASSUME NEW s \in Seq(Events), NEW e \in Events
  PROVE  Has(Append(s, e), e)
BY DEF Has

(* Receiving one event keeps the others. *)
LEMMA HasTail ==
  ASSUME NEW s \in Seq(Events), NEW e, s # <<>>, Head(s) # e, Has(s, e)
  PROVE  Has(Tail(s), e)
<1>1. PICK i \in 1..Len(s) : s[i] = e
  BY DEF Has
<1>2. i # 1
  BY <1>1
<1>3. i - 1 \in 1..Len(Tail(s)) /\ Tail(s)[i - 1] = e
  BY <1>1, <1>2
<1> QED
  BY <1>3 DEF Has

(* A trigger that is offered is in the channel, then or before. *)
LEMMA OfferFills ==
  ASSUME NEW n \in 0..1
  PROVE  Offer(n) = 1
BY DEF Offer, TriggerCap

(* The steps of the refreshers and of the callers leave the watchers alone. *)
LEMMA WatchUnchanged ==
  ASSUME \/ \E g \in Gens : Refresher(g)
         \/ InitializeAbsError \/ Uninitialize \/ ParentCancel
         \/ UNCHANGED vars
  PROVE  /\ UNCHANGED <<watcher, watchFirst, notifier, events>>
         /\ gen' = gen \/ gen' = gen + 1
BY DEF Refresher, RefreshTop, RefreshTriggered, RefreshBegin, FetchOK, FetchFail,
       RefreshRetry, Publish, SignalReady, RefreshDone, InitializeAbsError,
       Uninitialize, ParentCancel, vars, instVars, watchVars

(* ConnectInv is inductive. *)
LEMMA ConnectStep ==
  ASSUME TypeOK, ConnectInv, [Next]_vars
  PROVE  ConnectInv'
<1> USE DEF TypeOK, InstTypeOK, WatchTypeOK, instVars, Gens
<1>1. CASE Initialize
  BY <1>1 DEF ConnectInv, Initialize
<1>2. CASE DaemonUpdate
  BY <1>2 DEF ConnectInv, DaemonUpdate
<1>3. ASSUME NEW g \in Gens, Watcher(g)
      PROVE  ConnectInv'
  <2>1. CASE WatchStart(g)
    BY <2>1 DEF ConnectInv, WatchStart, Connect
  <2>2. CASE WatchEvent(g)
    BY <2>2 DEF ConnectInv, WatchEvent
  <2>3. CASE WatchSend(g)
    BY <2>3 DEF ConnectInv, WatchSend
  <2>4. CASE WatchError(g)
    BY <2>4 DEF ConnectInv, WatchError
  <2>5. CASE WatchReconnect(g)
    BY <2>5 DEF ConnectInv, WatchReconnect, Connect
  <2>6. CASE WatchDone(g)
    BY <2>6 DEF ConnectInv, WatchDone
  <2> QED
    BY <1>3, <2>1, <2>2, <2>3, <2>4, <2>5, <2>6 DEF Watcher
<1>4. ASSUME NEW g \in Gens, StreamOpen(g) \/ StreamRefused(g) \/ StreamBreak(g)
      PROVE  ConnectInv'
  BY <1>4 DEF ConnectInv, StreamOpen, StreamRefused, StreamBreak
<1>5. CASE UNCHANGED <<watcher, watchFirst, notifier, events>> /\ (gen' = gen \/ gen' = gen + 1)
  BY <1>5 DEF ConnectInv
<1> QED
  BY <1>1, <1>2, <1>3, <1>4, <1>5, WatchUnchanged DEF Next

(* UpdateInv is inductive together with ConnectInv. *)
LEMMA UpdateStep ==
  ASSUME TypeOK, ConnectInv, UpdateInv, [Next]_vars
  PROVE  UpdateInv'
<1> USE DEF TypeOK, GenTypeOK, WatchTypeOK, RefreshTypeOK, instVars, genVars,
            watchVars, refreshVars, envVars, UpdateInv, Listening, Owed
<1>1. CASE Initialize
  BY <1>1 DEF Initialize
<1>2. CASE DaemonUpdate
  <2>1. ASSUME NEW g \in Gens, notifier[g] = "stream"
        PROVE  Has(events'[g], "claims-updated")
    BY <1>2, <2>1, HasAppend DEF DaemonUpdate, Events
  <2> QED
    BY <1>2, <2>1 DEF DaemonUpdate
<1>3. ASSUME NEW g \in Gens, Watcher(g)
      PROVE  UpdateInv'
  <2>1. CASE WatchStart(g)
    BY <2>1 DEF WatchStart, Connect
  <2>2. CASE WatchEvent(g)
    <3>1. \A h \in Gens \ {g} : Listening(h)' => resp'[h] = version' \/ Owed(h)'
      BY <2>2 DEF WatchEvent
    <3>2. CASE Head(events[g]) = "hello"
      <4>1. ASSUME Has(events[g], "claims-updated")
            PROVE  Has(events'[g], "claims-updated")
        BY <2>2, <3>2, <4>1, HasTail DEF WatchEvent
      <4> QED
        BY <2>2, <3>1, <3>2, <4>1 DEF WatchEvent
    <3>3. CASE Head(events[g]) = "claims-updated"
      <4>1. trigger' = [trigger EXCEPT ![g] = Offer(@)]
        BY <2>2, <3>3 DEF WatchEvent
      <4>2. Offer(trigger[g]) = 1
        BY OfferFills
      <4> QED
        BY <3>1, <4>1, <4>2
    <3> QED
      BY <2>2, <3>2, <3>3 DEF WatchEvent
  <2>3. CASE WatchSend(g)
    <3>1. trigger[g] \in 0..1
      OBVIOUS
    <3>2. trigger' = [trigger EXCEPT ![g] = trigger[g] + 1] /\ trigger[g] + 1 > 0
      BY <2>3, <3>1 DEF WatchSend
    <3> QED
      BY <2>3, <3>2 DEF WatchSend
  <2>4. CASE WatchError(g)
    BY <2>4 DEF WatchError
  <2>5. CASE WatchReconnect(g)
    BY <2>5 DEF WatchReconnect, Connect
  <2>6. CASE WatchDone(g)
    BY <2>6 DEF WatchDone
  <2> QED
    BY <1>3, <2>1, <2>2, <2>3, <2>4, <2>5, <2>6 DEF Watcher
<1>4. ASSUME NEW g \in Gens, StreamOpen(g)
      PROVE  UpdateInv'
  <2>1. Has(events'[g], "hello") /\ watchFirst' = watchFirst
    BY <1>4 DEF StreamOpen, Has
  <2>2. watcher[g] = "select" => watchFirst[g]
    BY <1>4 DEF StreamOpen, ConnectInv
  <2> QED
    BY <1>4, <2>1, <2>2 DEF StreamOpen
<1>5. ASSUME NEW g \in Gens, StreamRefused(g) \/ StreamBreak(g)
      PROVE  UpdateInv'
  BY <1>5 DEF StreamRefused, StreamBreak
<1>6. ASSUME NEW g \in Gens, Refresher(g)
      PROVE  UpdateInv'
  <2>1. CASE RefreshTop(g)
    BY <2>1 DEF RefreshTop, AfterReset
  <2>2. CASE RefreshTriggered(g)
    BY <2>2 DEF RefreshTriggered
  <2>3. CASE RefreshBegin(g)
    BY <2>3 DEF RefreshBegin
  <2>4. CASE FetchOK(g)
    BY <2>4 DEF FetchOK
  <2>5. CASE FetchFail(g)
    BY <2>5 DEF FetchFail, AfterError
  <2>6. CASE RefreshRetry(g)
    BY <2>6 DEF RefreshRetry
  <2>7. CASE Publish(g)
    BY <2>7 DEF Publish, AfterPublish, AfterFetch
  <2>8. CASE SignalReady(g)
    BY <2>8 DEF SignalReady, AfterFetch
  <2>9. CASE RefreshDone(g)
    BY <2>9 DEF RefreshDone
  <2> QED
    BY <1>6, <2>1, <2>2, <2>3, <2>4, <2>5, <2>6, <2>7, <2>8, <2>9 DEF Refresher
<1>7. CASE InitializeAbsError \/ Uninitialize \/ ParentCancel \/ UNCHANGED vars
  BY <1>7 DEF InitializeAbsError, Uninitialize, ParentCancel, vars
<1> QED
  BY <1>1, <1>2, <1>3, <1>4, <1>5, <1>6, <1>7 DEF Next

(* Whatever order updates, events, triggers, fetches, failures and reconnects
   come in, a quiet refresher holds the daemon's active version
   (kustomer.go:184-225, 263-302). *)
THEOREM UpdatesReach == Spec => []NoUpdateMissed
<1>1. Init => ConnectInv /\ UpdateInv
  BY DEF Init, ConnectInv, UpdateInv, Listening
<1>2. TypeOK /\ UpdateInv => NoUpdateMissed
  <2> SUFFICES ASSUME TypeOK, UpdateInv, NEW g \in Gens, Quiet(g)
               PROVE  resp[g] = version
    BY DEF NoUpdateMissed
  <2>1. ~Owed(g)
    BY DEF Quiet, Owed, Has
  <2> QED
    BY <2>1 DEF Quiet, UpdateInv, Listening
<1> QED
  BY <1>1, <1>2, ConnectStep, UpdateStep, TypeCorrect, PTL DEF Spec

=============================================================================
