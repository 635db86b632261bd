-------------------------- MODULE KustomerRefines --------------------------
(***************************************************************************)
(* Proof that module Kustomer implements module Instance, for every number *)
(* of initializations, claims versions and failures.                       *)
(***************************************************************************)
EXTENDS KustomerProofs

\* Generations start in order, and without auto refresh a refresher that has
\* announced its claims is done.
StartInv ==
  \A g \in Gens :
    /\ g > gen => refresh[g] = "none" /\ ~readyClosed[g]
    /\ ~autoRefresh /\ readyClosed[g] => refresh[g] = "done"

(* What the steps of the callers, the daemon and the watchers leave alone. *)
LEMMA RefresherAlone ==
  ASSUME [Next]_vars, ~Initialize, \A g \in Gens : ~Refresher(g)
  PROVE  UNCHANGED <<autoRefresh, refresh, readyClosed>>
         /\ (gen' = gen \/ gen' = gen + 1)
<1> USE DEF instVars, genVars, watchVars, refreshVars, envVars
<1>1. CASE UNCHANGED vars
  BY <1>1 DEF vars
<1>2. CASE InitializeAbsError \/ Uninitialize \/ ParentCancel \/ DaemonUpdate
  BY <1>2 DEF InitializeAbsError, Uninitialize, ParentCancel, DaemonUpdate
<1>3. ASSUME NEW g \in Gens,
             Watcher(g) \/ StreamOpen(g) \/ StreamRefused(g) \/ StreamBreak(g)
      PROVE  UNCHANGED <<autoRefresh, refresh, readyClosed, gen>>
  BY <1>3 DEF Watcher, WatchStart, WatchEvent, WatchSend, WatchError,
              WatchReconnect, WatchDone, StreamOpen, StreamRefused, StreamBreak
<1> QED
  BY <1>1, <1>2, <1>3 DEF Next

(* StartInv is inductive. *)
LEMMA StartStep ==
  ASSUME TypeOK, ReadyInv, StartInv, [Next]_vars
  PROVE  StartInv'
<1> USE DEF StartInv, TypeOK, InstTypeOK, GenTypeOK, RefreshTypeOK, instVars,
            genVars, Gens
<1>1. CASE Initialize
  BY <1>1 DEF Initialize
<1>2. ASSUME NEW g \in Gens, Refresher(g)
      PROVE  StartInv'
  <2>1. CASE RefreshTop(g)
    BY <2>1 DEF RefreshTop, AfterReset
  <2>2. CASE RefreshTriggered(g)
    BY <2>2 DEF RefreshTriggered
  <2>3. CASE RefreshBegin(g)
    BY <2>3 DEF RefreshBegin
  <2>4. CASE FetchOK(g)
    BY <2>4 DEF FetchOK
  <2>5. CASE FetchFail(g)
    BY <2>5 DEF FetchFail, AfterError
  <2>6. CASE RefreshRetry(g)
    BY <2>6 DEF RefreshRetry
  <2>7. CASE Publish(g)
    BY <2>7 DEF Publish, AfterPublish, AfterFetch
  <2>8. CASE SignalReady(g)
    BY <2>8 DEF SignalReady, AfterFetch
  <2>9. CASE RefreshDone(g)
    BY <2>9 DEF RefreshDone
  <2> QED
    BY <1>2, <2>1, <2>2, <2>3, <2>4, <2>5, <2>6, <2>7, <2>8, <2>9 DEF Refresher
<1>3. CASE ~Initialize /\ \A g \in Gens : ~Refresher(g)
  <2>1. UNCHANGED <<autoRefresh, refresh, readyClosed>>
    BY <1>3, RefresherAlone
  <2>2. \A g \in Gens : g > gen' => g > gen
    BY <1>3, RefresherAlone
  <2> QED
    BY <2>1, <2>2
<1> QED
  BY <1>1, <1>2, <1>3

-----------------------------------------------------------------------------
(* The steps of the refresher that are none of Instance. *)
LEMMA RefresherStutters ==
  ASSUME TypeOK, NEW g \in Gens, Refresher(g), ~Publish(g), ~SignalReady(g)
  PROVE  UNCHANGED Promise!vars
<1> SUFFICES Published' = Published /\ UNCHANGED <<autoRefresh, initialized, gen, kpc,
                                               updated, ctxDone, readyClosed>>
  BY DEF Promise!vars, Published
<1> USE DEF TypeOK, RefreshTypeOK, instVars, genVars, Published
<1>1. CASE RefreshTop(g)
  BY <1>1 DEF RefreshTop, AfterReset
<1>2. CASE RefreshTriggered(g)
  BY <1>2 DEF RefreshTriggered
<1>3. CASE RefreshBegin(g)
  BY <1>3 DEF RefreshBegin
<1>4. CASE FetchOK(g)
  BY <1>4 DEF FetchOK
<1>5. CASE FetchFail(g)
  BY <1>5 DEF FetchFail, AfterError
<1>6. CASE RefreshRetry(g)
  BY <1>6 DEF RefreshRetry
<1>7. CASE RefreshDone(g)
  BY <1>7 DEF RefreshDone
<1> QED
  BY <1>1, <1>2, <1>3, <1>4, <1>5, <1>6, <1>7 DEF Refresher

(* Every step is one of Instance or changes nothing there. *)
LEMMA StepRefines ==
  ASSUME TypeOK, ReadyInv, VersionInv, StartInv, [Next]_vars
  PROVE  [Promise!Next]_(Promise!vars)
<1> USE DEF TypeOK, InstTypeOK, GenTypeOK, RefreshTypeOK, instVars, genVars,
            watchVars, refreshVars, envVars
<1>1. CASE Initialize
  <2>1. Published' = Published
    BY <1>1 DEF Initialize, StartInv, Published, Gens
  <2>2. Promise!Initialize
    BY <1>1, <2>1 DEF Initialize, Promise!Initialize, Published
  <2> QED
    BY <2>2 DEF Promise!Next
<1>2. CASE InitializeAbsError
  <2>1. Promise!Initialize
    BY <1>2 DEF InitializeAbsError, Promise!Initialize, Published
  <2> QED
    BY <2>1 DEF Promise!Next
<1>3. CASE Uninitialize
  <2>1. Promise!Uninitialize
    BY <1>3 DEF Uninitialize, Promise!Uninitialize, Published
  <2> QED
    BY <2>1 DEF Promise!Next
<1>4. CASE ParentCancel
  <2>1. Promise!Cancel
    BY <1>4 DEF ParentCancel, Promise!Cancel, Published
  <2> QED
    BY <2>1 DEF Promise!Next
<1>5. ASSUME NEW g \in Gens, Publish(g)
      PROVE  Promise!Next
  <2>1. g <= gen /\ (autoRefresh \/ g \notin Published)
    BY <1>5 DEF Publish, StartInv, Published, Gens
  <2>2. Published' = Published \cup {g}
    BY <1>5 DEF Publish, AfterPublish, AfterFetch, ReadyInv, Published
  <2>3. resp[g] \in Promise!Versions /\ (kpc.gen = g => kpc.version <= resp[g])
    BY <1>5 DEF Publish, ReadyInv, VersionInv, Promise!Versions
  <2>4. Promise!Publish(g)
    BY <1>5, <2>1, <2>2, <2>3 DEF Publish, Promise!Publish, Published
  <2> QED
    BY <2>4 DEF Promise!Next, Promise!Gens, Gens
<1>6. ASSUME NEW g \in Gens, SignalReady(g)
      PROVE  Promise!Next
  <2>1. g \in Published /\ ~readyClosed[g]
    BY <1>6 DEF SignalReady, ReadyInv, Published
  <2>2. Published' = Published
    BY <1>6 DEF SignalReady, AfterFetch, Published
  <2>3. Promise!SignalReady(g)
    BY <1>6, <2>1, <2>2 DEF SignalReady, Promise!SignalReady, Published
  <2> QED
    BY <2>3 DEF Promise!Next, Promise!Gens, Gens
<1>7. ASSUME NEW g \in Gens, Refresher(g), ~Publish(g), ~SignalReady(g)
      PROVE  UNCHANGED Promise!vars
  BY <1>7, RefresherStutters
<1>8. ASSUME NEW g \in Gens,
             Watcher(g) \/ StreamOpen(g) \/ StreamRefused(g) \/ StreamBreak(g)
      PROVE  UNCHANGED Promise!vars
  BY <1>8 DEF Promise!vars, Published, Watcher, WatchStart, WatchEvent, WatchSend, WatchError,
              WatchReconnect, WatchDone, StreamOpen, StreamRefused, StreamBreak
<1>9. CASE DaemonUpdate \/ UNCHANGED vars
  BY <1>9 DEF Promise!vars, Published, DaemonUpdate, vars
<1> QED
  BY <1>1, <1>2, <1>3, <1>4, <1>5, <1>6, <1>7, <1>8, <1>9 DEF Next

(* The goroutines, requests, failures and reconnects of a Kustomer implement
   what it promises its callers (kustomer.go:108-323). *)
THEOREM InstanceImplemented == Spec => ImplementsInstance
<1>1. Init => StartInv /\ Promise!Init
  BY DEF Init, StartInv, NoProductClaims, Published, Promise!Init, Promise!Gens, Gens
<1>2. Spec => []StartInv
  BY <1>1, StartStep, TypeCorrect, ReadyInductive, PTL DEF Spec
<1> QED
  BY <1>1, <1>2, StepRefines, TypeCorrect, ReadyInductive, VersionInductive, PTL
     DEF Spec, ImplementsInstance, Promise!Spec

=============================================================================
