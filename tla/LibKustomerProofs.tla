-------------------------- MODULE LibKustomerProofs --------------------------
(***************************************************************************)
(* Proofs about module LibKustomer, for every number of instances,         *)
(* publications and registrations, every capacity of the event channel and *)
(* every set of callers.                                                   *)
(***************************************************************************)
EXTENDS LibKustomer, TLAPS

-----------------------------------------------------------------------------
(* The inductive invariants that the properties rest on. *)

\* Only a published instance is ready, and whoever saw that it is.
CallInv ==
  /\ \A k \in Instances : ready[k] => published[k] > 0
  /\ ResultsHaveClaims

\* The global instance and those of InstantEnsure are different ones.
OwnerInv ==
  /\ InstancesOwned
  /\ \A k \in Instances : initialized[k] => k <= made
  /\ \A c \in Callers : call[c] \in {"instant", "claims"} => target[c] # instance

Count(r) == updates[r] + One(consumer[r] = "update") + eventCh[r]

\* A producer that waits or sends has not sent for the channel it has read.
EventOK(r) ==
  /\ Count(r) <= published[source[r]]
  /\ producer[r] \in {"select", "send"} => Count(r) < watched[r]
  /\ producer[r] = "send" => watched[r] <= published[source[r]]

EventInv == \A r \in 1..registered : EventOK(r)

\* The producer of r has left the slot behind, whoever was in it.
Cleared(r) == producer[r] \in {"cancel", "done"}

\* A registration that nothing has ended, and that nobody is unsetting, is the one
\* in the slot unless another one has ended and cleared it.
OnlyOthersForget ==
  \A r \in 1..registered : ~NotifyDone(r) /\ r \notin unsetting =>
    notifyCancel = r \/ \E q \in (1..registered) \ {r} : NotifyDone(q) /\ Cleared(q)

\* A send ends the process only when the sender's registration has ended.
OnlyEndedPanics ==
  crashed = "send on closed channel" =>
    \E r \in 1..registered : NotifyDone(r) /\ Closed(r) /\ producer[r] = "send"

\* What is stopped has its context cancelled, and goroutines end with theirs only.
ContextsDone == \A k \in Instances : k <= made /\ ~initialized[k] => ctxDone[k]
EndsAreDone ==
  \A r \in 1..registered :
    Closed(r) \/ Cleared(r) \/ producer[r] = "cleanup" => NotifyDone(r)

EndInv == ContextsDone /\ EndsAreDone /\ OnlyOthersForget /\ OnlyEndedPanics

-----------------------------------------------------------------------------
(* The types. *)

(* The number of instances only grows, and what nobody changes keeps its type. *)
LEMMA LibUnchanged ==
  ASSUME LibTypeOK
  PROVE  /\ UNCHANGED insts => InstTypeOK'
         /\ UNCHANGED <<globals, registered>> /\ (made' = made \/ made' = made + 1)
              => GlobalTypeOK'
         /\ UNCHANGED <<registered, source, cancelled, unsetting>>
              /\ (made' = made \/ made' = made + 1) => ContextTypeOK'
         /\ UNCHANGED <<producer, watched, eventCh, consumer, view, updates>>
              => NotifyTypeOK'
         /\ UNCHANGED <<registered, producer, eventCh, consumer>> => StartedOK'
         /\ UNCHANGED <<calls, crashed>> /\ (made' = made \/ made' = made + 1)
              => CallTypeOK'
<1> USE LibAssumption DEF LibAssumption, LibTypeOK
<1>1. made \in Nat /\ registered \in Nat
  BY DEF InstTypeOK, ContextTypeOK
<1>2. UNCHANGED insts => InstTypeOK'
  BY DEF InstTypeOK, insts
<1>3. UNCHANGED <<globals, registered>> /\ (made' = made \/ made' = made + 1)
        => GlobalTypeOK'
  BY <1>1 DEF GlobalTypeOK, globals
<1>4. UNCHANGED <<registered, source, cancelled, unsetting>>
        /\ (made' = made \/ made' = made + 1) => ContextTypeOK'
  BY <1>1 DEF ContextTypeOK
<1>5. UNCHANGED <<producer, watched, eventCh, consumer, view, updates>>
        => NotifyTypeOK'
  BY DEF NotifyTypeOK
<1>6. ASSUME UNCHANGED <<calls, crashed>>, made' = made \/ made' = made + 1
      PROVE  CallTypeOK'
  <2>1. target \in [Callers -> Nat] /\ \A c \in Callers : target[c] <= made
    BY DEF CallTypeOK
  <2>2. \A c \in Callers : target'[c] <= made'
    BY <1>1, <1>6, <2>1 DEF calls
  <2> QED
    BY <1>6, <2>2 DEF CallTypeOK, calls
<1>7. UNCHANGED <<registered, producer, eventCh, consumer>> => StartedOK'
  BY DEF StartedOK
<1> QED
  BY <1>2, <1>3, <1>4, <1>5, <1>6, <1>7

(* A new instance, and one that is shut down. *)
LEMMA InstanceTypes ==
  ASSUME LibTypeOK
  PROVE  /\ \A flag \in BOOLEAN :
              NewInstance(flag) /\ dropped' \subseteq dropped \cup {made + 1}
                => InstTypeOK' /\ made' = made + 1
         /\ \A k \in Instances : Shutdown(k) => InstTypeOK' /\ made' = made
<1> USE LibAssumption DEF LibAssumption, LibTypeOK, InstTypeOK, Instances
<1>1. ASSUME NEW flag \in BOOLEAN, NewInstance(flag), dropped' \subseteq dropped \cup {made + 1}
      PROVE  InstTypeOK' /\ made' = made + 1
  BY <1>1 DEF NewInstance
<1>2. ASSUME NEW k \in Instances, Shutdown(k)
      PROVE  InstTypeOK' /\ made' = made
  BY <1>2 DEF Shutdown
<1> QED
  BY <1>1, <1>2

(* The steps of the instances, and the global state they are made in. *)
LEMMA TypeInstances ==
  ASSUME LibTypeOK,
         \/ Initialize \/ InitializeError \/ Uninitialize
         \/ \E k \in Instances : Instance(k)
  PROVE  LibTypeOK'
<1> USE DEF LibTypeOK, notify
<1>1. CASE Initialize
  <2>1. PICK flag \in BOOLEAN : NewInstance(flag)
    BY <1>1 DEF Initialize
  <2>2. InstTypeOK' /\ made' = made + 1
    BY <1>1, <2>1, InstanceTypes DEF Initialize
  <2>3. GlobalTypeOK'
    BY <1>1, <2>2 DEF Initialize, GlobalTypeOK, InstTypeOK
  <2> QED
    BY <1>1, <2>2, <2>3, LibUnchanged DEF Initialize
<1>4. CASE InitializeError
  <2>1. PICK flag \in BOOLEAN : NewInstance(flag)
    BY <1>4 DEF InitializeError
  <2>2. InstTypeOK' /\ made' = made + 1
    BY <1>4, <2>1, InstanceTypes DEF InitializeError
  <2> QED
    BY <1>4, <2>2, LibUnchanged DEF InitializeError
<1>2. CASE Uninitialize
  <2>1. instance \in Instances
    BY <1>2, LibAssumption
       DEF Uninitialize, GlobalTypeOK, InstTypeOK, Instances, LibAssumption
  <2>2. InstTypeOK' /\ made' = made
    BY <1>2, <2>1, InstanceTypes DEF Uninitialize
  <2>3. GlobalTypeOK'
    BY <1>2, <2>2 DEF Uninitialize, GlobalTypeOK, InstTypeOK
  <2> QED
    BY <1>2, <2>2, <2>3, LibUnchanged DEF Uninitialize
<1>3. ASSUME NEW k \in Instances, Instance(k)
      PROVE  LibTypeOK'
  <2> USE DEF InstTypeOK
  <2>1. CASE ParentCancel(k)
    BY <2>1, LibUnchanged DEF ParentCancel
  <2>2. CASE Publish(k)
    <3>1. published' \in [Instances -> Nat]
      BY <2>2 DEF Publish
    <3> QED
      BY <2>2, <3>1, LibUnchanged DEF Publish
  <2>3. CASE SignalReady(k)
    BY <2>3, LibUnchanged DEF SignalReady
  <2> QED
    BY <1>3, <2>1, <2>2, <2>3 DEF Instance
<1> QED
  BY <1>1, <1>2, <1>3, <1>4

(* A call that goes from one step to another keeps the types. *)
LEMMA CallTypes ==
  ASSUME InstTypeOK, CallTypeOK, made' = made \/ made' = made + 1, UNCHANGED crashed,
         NEW c \in Callers, NEW step \in CallStates, NEW k \in 0..made',
         step # "idle" => k # 0,
         call' = [call EXCEPT ![c] = step], target' = [target EXCEPT ![c] = k]
  PROVE  CallTypeOK'
<1>1. made \in Nat
  BY DEF InstTypeOK
<1>2. target \in [Callers -> Nat] /\ \A d \in Callers : target[d] <= made
  BY DEF CallTypeOK
<1>5. target' \in [Callers -> Nat] /\ \A d \in Callers : target'[d] <= made'
  BY <1>1, <1>2
<1>3. call' \in [Callers -> CallStates]
  BY DEF CallTypeOK
<1>4. \A d \in Callers : call'[d] # "idle" => target'[d] # 0
  BY DEF CallTypeOK
<1> QED
  BY <1>5, <1>3, <1>4 DEF CallTypeOK

(* The calls. *)
LEMMA TypeCalls ==
  ASSUME LibTypeOK, NEW c \in Callers, Caller(c)
  PROVE  LibTypeOK'
<1> USE DEF LibTypeOK
<1>1. /\ target \in [Callers -> Nat]
      /\ target[c] <= made /\ (call[c] # "idle" => target[c] # 0)
  BY DEF CallTypeOK
<1>2. /\ made \in Nat
      /\ target[c] \in 0..made
      /\ call[c] # "idle" => target[c] # 0 /\ target[c] \in Instances
      /\ target = [target EXCEPT ![c] = target[c]]
  BY <1>1, LibAssumption DEF InstTypeOK, Instances, LibAssumption
<1> USE DEF CallStates
<1>6. CASE WaitUntilReady(c)
  <2>1. CallTypeOK'
    BY <1>2, <1>6, CallTypes DEF WaitUntilReady, HasInstance, GlobalTypeOK, insts
  <2> QED
    BY <1>6, <2>1, LibUnchanged DEF WaitUntilReady, notify, insts
<1>3. CASE WaitLook(c) \/ WaitDone(c) \/ WaitReturn(c) \/ WaitTimeout(c) \/ InstantReady(c)
  <2> USE DEF WaitLook, WaitDone, WaitReturn, WaitTimeout, InstantReady
  <2>1. \/ Return(c)
        \/ \E step \in CallStates : call[c] # "idle" /\ Goto(c, step)
    BY <1>3
  <2>2. UNCHANGED <<globals, insts, notify, crashed>>
    BY <1>3
  <2>3. CallTypeOK'
    BY <1>2, <2>1, <2>2, CallTypes DEF Return, Goto, insts
  <2> QED
    BY <2>2, <2>3, LibUnchanged DEF notify, insts
<1>4. CASE InstantEnsure(c)
  <2>1. InstTypeOK' /\ made' = made + 1
    BY <1>4, InstanceTypes DEF InstantEnsure
  <2>2. made + 1 \in 0..made' /\ made + 1 # 0 /\ "instant" \in CallStates
    BY <1>2, <2>1
  <2>3. CallTypeOK'
    BY <1>4, <2>1, <2>2, CallTypes DEF InstantEnsure
  <2> QED
    BY <1>4, <2>1, <2>3, LibUnchanged DEF InstantEnsure, notify, globals
<1>5. CASE InstantClaims(c) \/ InstantFailed(c)
  <2> USE DEF InstantClaims, InstantFailed, InstantError
  <2>1. InstTypeOK' /\ made' = made
    BY <1>2, <1>5, InstanceTypes DEF Release
  <2>2. CallTypeOK'
    BY <1>2, <1>5, <2>1, CallTypes DEF Return
  <2> QED
    BY <1>5, <2>1, <2>2, LibUnchanged DEF notify, globals
<1> QED
  BY <1>3, <1>4, <1>5, <1>6 DEF Caller, Wait

(* A registration, and its end by UnsetNotifyWhenUpdated. *)
LEMMA TypeRegistrations ==
  ASSUME LibTypeOK,
         \/ SetNotifyWhenUpdated \/ UnsetNotifyWhenUpdated
         \/ \E r \in Registrations : UnsetCancel(r)
  PROVE  LibTypeOK'
<1> USE DEF LibTypeOK
<1>1. /\ made \in 0..MaxInstances /\ made \in Nat
      /\ registered \in 0..MaxRegistrations /\ registered \in Nat
      /\ instance \in 0..made /\ notifyCancel \in 0..registered
  BY LibAssumption DEF InstTypeOK, ContextTypeOK, GlobalTypeOK, LibAssumption
<1>2. CASE SetNotifyWhenUpdated /\ instance = 0
  <2>1. CallTypeOK'
    BY <1>2 DEF SetNotifyWhenUpdated, CallTypeOK, calls, insts
  <2> QED
    BY <1>2, <2>1, LibUnchanged DEF SetNotifyWhenUpdated, notify, insts
<1>3. CASE SetNotifyWhenUpdated /\ instance # 0
  <2> DEFINE r == registered + 1
  <2>1. /\ r \in Registrations /\ r \in 0..MaxRegistrations
        /\ instance \in Instances /\ instance \in 1..made
        /\ instance \in 0..MaxInstances
    BY <1>1, <1>3, LibAssumption
       DEF SetNotifyWhenUpdated, Registrations, Instances, LibAssumption
  <2>2. /\ registered' = r /\ notifyCancel' = r
        /\ UNCHANGED <<instance, insts, calls, cancelled, unsetting, watched, eventCh, view,
                       crashed>>
        /\ source' = [source EXCEPT ![r] = instance]
        /\ updates' = [updates EXCEPT ![r] = published[instance]]
        /\ producer' = [producer EXCEPT ![r] = "top"]
        /\ consumer' = [consumer EXCEPT ![r] = "select"]
    BY <1>3 DEF SetNotifyWhenUpdated
  <2> HIDE DEF r
  <2>3. GlobalTypeOK'
    <3>1. made' = made /\ r \in 0..r
      BY <1>1, <2>2 DEF insts, r
    <3> QED
      BY <1>1, <2>2, <3>1 DEF GlobalTypeOK
  <2>4. ContextTypeOK'
    <3>1. source' \in [Registrations -> 0..MaxInstances]
      BY <2>1, <2>2 DEF ContextTypeOK
    <3>2. source \in [Registrations -> 0..MaxInstances] /\ \A s \in 1..registered : source[s] \in 1..made
      BY DEF ContextTypeOK
    <3>3. \A s \in 1..r : source'[s] \in 1..made
      <4> TAKE s \in 1..r
      <4>1. CASE s = r
        BY <2>1, <2>2, <3>2, <4>1
      <4>2. CASE s # r
        <5>1. s \in 1..registered
          BY <1>1, <4>2 DEF r
        <5> QED
          BY <2>2, <3>2, <4>2, <5>1
      <4> QED
        BY <4>1, <4>2
    <3>4. unsetting' \subseteq 1..r
      BY <1>1, <2>2 DEF ContextTypeOK, r
    <3>5. made' = made
      BY <2>2 DEF insts
    <3> QED
      BY <2>1, <2>2, <3>1, <3>3, <3>4, <3>5 DEF ContextTypeOK
  <2>5. NotifyTypeOK'
    <3>1. published[instance] \in Nat
      BY <2>1 DEF InstTypeOK
    <3> QED
      BY <2>2, <3>1 DEF NotifyTypeOK, ProducerStates, ConsumerStates
  <2>6. made' = made
    BY <2>2 DEF insts
  <2>7. StartedOK'
    <3>1. \A s \in Registrations : s <= r <=> s <= registered \/ s = r
      BY <1>1 DEF Registrations, r
    <3> QED
      BY <2>2, <3>1 DEF StartedOK, NotifyTypeOK, ProducerStates, ConsumerStates
  <2> QED
    BY <2>2, <2>3, <2>4, <2>5, <2>6, <2>7, LibUnchanged
<1>4. CASE UnsetNotifyWhenUpdated
  <2>1. notifyCancel \in 1..registered
    BY <1>1, <1>4 DEF UnsetNotifyWhenUpdated
  <2>2. GlobalTypeOK'
    BY <1>1, <1>4 DEF UnsetNotifyWhenUpdated, GlobalTypeOK, insts
  <2>3. ContextTypeOK'
    BY <1>1, <1>4, <2>1 DEF UnsetNotifyWhenUpdated, ContextTypeOK, insts
  <2>4. made' = made
    BY <1>4 DEF UnsetNotifyWhenUpdated, insts
  <2> QED
    BY <1>4, <2>2, <2>3, <2>4, LibUnchanged DEF UnsetNotifyWhenUpdated
<1>5. ASSUME NEW r \in Registrations, UnsetCancel(r)
      PROVE  LibTypeOK'
  <2>1. ContextTypeOK'
    BY <1>5 DEF UnsetCancel, ContextTypeOK, insts
  <2>2. made' = made
    BY <1>5 DEF UnsetCancel, insts
  <2> QED
    BY <1>5, <2>1, <2>2, LibUnchanged DEF UnsetCancel, globals
<1> QED
  BY <1>2, <1>3, <1>4, <1>5

(* The goroutines of a registration. *)
LEMMA TypeGoroutines ==
  ASSUME LibTypeOK, NEW r \in Registrations, Producer(r) \/ Consumer(r)
  PROVE  LibTypeOK'
<1> USE DEF LibTypeOK
<1>1. /\ r \in 1..registered /\ source[r] \in Instances
      /\ published[source[r]] \in Nat
      /\ producer[r] # "none" /\ consumer[r] # "none"
  <2>1. producer[r] # "none" \/ consumer[r] # "none"
    BY DEF Producer, NotifyTop, NotifySelect, NotifySend, NotifyCleanup, NotifyCancel,
           Consumer, ConsumerReceive, UpdateCb, ConsumerExit
  <2>2. r <= registered /\ producer[r] # "none" /\ consumer[r] # "none"
    BY <2>1 DEF StartedOK
  <2>3. r \in 1..registered
    BY <2>2, LibAssumption DEF Registrations, ContextTypeOK, LibAssumption
  <2>4. source[r] \in 1..made
    BY <2>3 DEF ContextTypeOK
  <2>5. source[r] \in Instances
    BY <2>4, LibAssumption DEF InstTypeOK, Instances, LibAssumption
  <2> QED
    BY <2>2, <2>3, <2>5 DEF InstTypeOK
<1>2. /\ registered \in Nat /\ EventCap \in Nat /\ eventCh[r] \in 0..EventCap
      /\ updates[r] \in Nat
  BY LibAssumption DEF ContextTypeOK, NotifyTypeOK, LibAssumption
<1> USE <1>1, LibUnchanged DEF insts
<1>3. CASE NotifyTop(r) \/ NotifySelect(r)
  <2>1. UpdatedChannel(r) \in Nat
    BY <1>1 DEF UpdatedChannel
  <2>2. NotifyTypeOK'
    BY <1>3, <2>1 DEF NotifyTop, NotifySelect, AfterUpdate, NotifyTypeOK, ProducerStates
  <2>3. StartedOK'
    BY <1>3 DEF NotifyTop, NotifySelect, AfterUpdate, StartedOK, NotifyTypeOK
  <2> QED
    BY <1>3, <2>2, <2>3 DEF NotifyTop, NotifySelect
<1>4. CASE NotifySend(r)
  <2>1. eventCh[r] < EventCap => eventCh[r] + 1 \in 0..EventCap
    BY <1>2
  <2>2. NotifyTypeOK'
    BY <1>4, <2>1 DEF NotifySend, NotifyTypeOK, ProducerStates
  <2>3. StartedOK'
    BY <1>4 DEF NotifySend, StartedOK, NotifyTypeOK
  <2>4. CallTypeOK'
    BY <1>4 DEF NotifySend, CallTypeOK, calls
  <2> QED
    BY <1>4, <2>2, <2>3, <2>4 DEF NotifySend
<1>5. CASE NotifyCleanup(r) \/ NotifyCancel(r)
  <2>1. NotifyTypeOK'
    BY <1>5 DEF NotifyCleanup, NotifyCancel, NotifyTypeOK, ProducerStates
  <2>2. StartedOK'
    BY <1>5 DEF NotifyCleanup, NotifyCancel, StartedOK, NotifyTypeOK
  <2>3. GlobalTypeOK'
    BY <1>2, <1>5 DEF NotifyCleanup, NotifyCancel, SlotCleared, GlobalTypeOK, globals
  <2>4. ContextTypeOK'
    BY <1>5 DEF NotifyCleanup, NotifyCancel, ContextTypeOK
  <2> QED
    BY <1>5, <2>1, <2>2, <2>3, <2>4 DEF NotifyCleanup, NotifyCancel
<1>6. CASE Consumer(r)
  <2>1. eventCh[r] > 0 => eventCh[r] - 1 \in 0..EventCap
    BY <1>2
  <2>2. NotifyTypeOK'
    BY <1>2, <1>6, <2>1
       DEF Consumer, ConsumerReceive, UpdateCb, ConsumerExit, NotifyTypeOK, ConsumerStates
  <2>3. StartedOK'
    BY <1>6 DEF Consumer, ConsumerReceive, UpdateCb, ConsumerExit, StartedOK, NotifyTypeOK
  <2> QED
    BY <1>6, <2>2, <2>3 DEF Consumer, ConsumerReceive, UpdateCb, ConsumerExit
<1> QED
  BY <1>3, <1>4, <1>5, <1>6 DEF Producer

LEMMA LibTypeInit == Init => LibTypeOK
<1> SUFFICES ASSUME Init PROVE LibTypeOK
  OBVIOUS
<1> USE LibAssumption DEF LibAssumption, Init
<1>1. InstTypeOK /\ GlobalTypeOK /\ ContextTypeOK
  BY DEF InstTypeOK, GlobalTypeOK, ContextTypeOK
<1>2. NotifyTypeOK /\ CallTypeOK
  BY DEF NotifyTypeOK, CallTypeOK, ProducerStates, ConsumerStates, CallStates
<1>3. StartedOK
  BY DEF StartedOK, Registrations
<1> QED
  BY <1>1, <1>2, <1>3 DEF LibTypeOK

LEMMA LibTypeStep == LibTypeOK /\ [Next]_vars => LibTypeOK'
<1> SUFFICES ASSUME LibTypeOK, [Next]_vars PROVE LibTypeOK'
  OBVIOUS
<1>1. CASE UNCHANGED vars
  BY <1>1, LibUnchanged DEF vars, insts, globals, notify, calls, LibTypeOK
<1>2. CASE Next
  BY <1>2, TypeInstances, TypeCalls, TypeRegistrations, TypeGoroutines DEF Next, Global
<1> QED
  BY <1>1, <1>2

(***************************************************************************)
(* Every variable keeps its type, a registration its goroutines and a call *)
(* its instance, for any number of them (libkustomer.go:26-42, 180-391).   *)
(***************************************************************************)
THEOREM LibTypeCorrect == Spec => []LibTypeOK
<1>1. Init => LibTypeOK
  BY LibTypeInit
<1>2. LibTypeOK /\ [Next]_vars => LibTypeOK'
  BY LibTypeStep
<1> QED
  BY <1>1, <1>2, PTL DEF Spec

-----------------------------------------------------------------------------
(* What the steps outside of an invariant's variables leave alone. *)

LEMMA NotifyFrame ==
  ASSUME SetNotifyWhenUpdated \/ UnsetNotifyWhenUpdated
           \/ \E r \in Registrations : UnsetCancel(r) \/ Producer(r) \/ Consumer(r)
  PROVE  UNCHANGED <<instance, insts, calls>>
<1>1. CASE SetNotifyWhenUpdated
  BY <1>1 DEF SetNotifyWhenUpdated, globals
<1>2. CASE UnsetNotifyWhenUpdated
  BY <1>2 DEF UnsetNotifyWhenUpdated
<1>3. ASSUME NEW r \in Registrations, UnsetCancel(r) \/ Producer(r) \/ Consumer(r)
      PROVE  UNCHANGED <<instance, insts, calls>>
  BY <1>3 DEF UnsetCancel, Producer, NotifyTop, NotifySelect, NotifySend, NotifyCleanup,
              NotifyCancel, Consumer, ConsumerReceive, UpdateCb, ConsumerExit, globals
<1> QED
  BY <1>1, <1>2, <1>3

LEMMA CallerFrame ==
  ASSUME NEW c \in Callers, Caller(c)
  PROVE  UNCHANGED <<globals, published, notify, crashed>>
BY DEF Caller, Wait, WaitUntilReady, WaitLook, WaitDone, WaitReturn, WaitTimeout,
       InstantEnsure, InstantReady, InstantClaims, InstantFailed, InstantError, Release,
       Shutdown, NewInstance, insts

-----------------------------------------------------------------------------
(* The slot. *)

LEMMA SlotStep == LibTypeOK /\ SlotNotStale /\ [Next]_vars => SlotNotStale'
<1> SUFFICES ASSUME LibTypeOK, SlotNotStale, [Next]_vars PROVE SlotNotStale'
  OBVIOUS
<1>1. /\ registered \in Nat /\ producer \in [Registrations -> ProducerStates]
      /\ registered <= MaxRegistrations /\ MaxRegistrations \in Nat
      /\ notifyCancel \in 0..registered
  BY LibAssumption
     DEF LibTypeOK, ContextTypeOK, GlobalTypeOK, NotifyTypeOK, LibAssumption
<1>2. notifyCancel # 0 => notifyCancel \in Registrations
  BY <1>1 DEF Registrations
<1> USE DEF SlotNotStale
<1>3. CASE UNCHANGED <<notifyCancel, producer>>
  BY <1>3
<1>4. CASE SetNotifyWhenUpdated
  <2>1. CASE instance = 0
    BY <1>4, <2>1, <1>3 DEF SetNotifyWhenUpdated, globals, notify
  <2>2. CASE instance # 0
    <3>1. registered + 1 \in Registrations
      BY <1>1, <1>4, <2>2 DEF SetNotifyWhenUpdated, Registrations
    <3>2. notifyCancel' = registered + 1 /\ producer'[registered + 1] = "top"
      BY <1>1, <1>4, <2>2, <3>1 DEF SetNotifyWhenUpdated
    <3> QED
      BY <3>2
  <2> QED
    BY <2>1, <2>2
<1>5. CASE UnsetNotifyWhenUpdated
  BY <1>5 DEF UnsetNotifyWhenUpdated
<1>6. ASSUME NEW r \in Registrations, UnsetCancel(r) \/ Producer(r) \/ Consumer(r)
      PROVE  SlotNotStale'
  <2>1. CASE UnsetCancel(r) \/ Consumer(r)
    BY <2>1, <1>3
       DEF UnsetCancel, Consumer, ConsumerReceive, UpdateCb, ConsumerExit, globals
  <2>2. CASE NotifyTop(r) \/ NotifySelect(r) \/ NotifySend(r)
    <3>1. /\ notifyCancel' = notifyCancel
          /\ \/ producer' = producer
             \/ \E step \in {"top", "select", "send", "cleanup"} :
                  producer' = [producer EXCEPT ![r] = step]
      BY <2>2 DEF NotifyTop, NotifySelect, NotifySend, AfterUpdate, globals
    <3> QED
      BY <1>1, <1>2, <3>1
  <2>3. CASE NotifyCleanup(r)
    BY <2>3 DEF NotifyCleanup, SlotCleared
  <2>4. CASE NotifyCancel(r)
    BY <1>1, <1>2, <2>4 DEF NotifyCancel, globals
  <2> QED
    BY <1>6, <2>1, <2>2, <2>3, <2>4 DEF Producer
<1>7. CASE Initialize \/ InitializeError \/ Uninitialize \/ \E k \in Instances : Instance(k)
  BY <1>7, <1>3
     DEF Initialize, InitializeError, Uninitialize, Instance, ParentCancel, Publish,
         SignalReady, globals, notify
<1>8. CASE \E c \in Callers : Caller(c)
  BY <1>8, <1>3, CallerFrame DEF globals, notify
<1> QED
  BY <1>3, <1>4, <1>5, <1>6, <1>7, <1>8 DEF Next, Global, vars, globals, notify

(***************************************************************************)
(* The slot for the callback never stays with a registration that has      *)
(* ended, so that nobody could register again, whatever producers of       *)
(* earlier registrations still do (libkustomer.go:352-363).                *)
(***************************************************************************)
THEOREM SlotIsFreed == Spec => []SlotNotStale
<1>1. Init => LibTypeOK /\ SlotNotStale
  BY LibTypeInit DEF Init, SlotNotStale
<1>2. LibTypeOK /\ SlotNotStale /\ [Next]_vars => LibTypeOK' /\ SlotNotStale'
  BY LibTypeStep, SlotStep
<1> QED
  BY <1>1, <1>2, PTL DEF Spec

-----------------------------------------------------------------------------
(* Results have claims. *)

LEMMA CallStep == LibTypeOK /\ CallInv /\ [Next]_vars => CallInv'
<1> SUFFICES ASSUME LibTypeOK, CallInv, [Next]_vars PROVE CallInv'
  OBVIOUS
<1> USE DEF CallInv, ResultsHaveClaims
<1>1. /\ published \in [Instances -> Nat] /\ ready \in [Instances -> BOOLEAN]
      /\ made \in Nat /\ Instances = 1..MaxInstances
      /\ MaxInstances \in Nat /\ made <= MaxInstances
  BY LibAssumption DEF LibTypeOK, InstTypeOK, Instances, LibAssumption
<1>2. /\ call \in [Callers -> CallStates] /\ target \in [Callers -> Nat]
      /\ \A c \in Callers : call[c] # "idle" => target[c] \in Instances
  <2>1. /\ call \in [Callers -> CallStates] /\ target \in [Callers -> Nat]
        /\ \A c \in Callers : target[c] <= made /\ (call[c] # "idle" => target[c] # 0)
    BY DEF LibTypeOK, CallTypeOK
  <2> QED
    BY <1>1, <2>1
<1>3. CASE UNCHANGED <<insts, calls>>
  BY <1>3 DEF insts, calls
<1>4. CASE Initialize \/ InitializeError \/ Uninitialize
  BY <1>4 DEF Initialize, InitializeError, Uninitialize, NewInstance, Shutdown, calls
<1>5. ASSUME NEW k \in Instances, Instance(k)
      PROVE  CallInv'
  <2>1. CASE ParentCancel(k)
    BY <2>1 DEF ParentCancel, calls
  <2>2. CASE Publish(k)
    <3>1. \A j \in Instances : published[j] > 0 => published'[j] > 0
      BY <1>1, <2>2 DEF Publish
    <3> QED
      BY <1>2, <2>2, <3>1 DEF Publish, calls
  <2>3. CASE SignalReady(k)
    BY <1>1, <2>3 DEF SignalReady, calls
  <2> QED
    BY <1>5, <2>1, <2>2, <2>3 DEF Instance
<1>6. ASSUME NEW c \in Callers, Caller(c)
      PROVE  CallInv'
  <2>1. UNCHANGED <<published, ready>>
    BY <1>6 DEF Caller, Wait, WaitUntilReady, WaitLook, WaitDone, WaitReturn, WaitTimeout,
       InstantEnsure, InstantReady, InstantClaims, InstantFailed, InstantError, Release,
       Shutdown, NewInstance, insts
  <2>2. /\ \A d \in Callers \ {c} : call'[d] = call[d] /\ target'[d] = target[d]
        /\ call'[c] \in {"ready", "claims"} =>
             target'[c] = target[c] /\ call[c] # "idle" /\ ready[target[c]]
    BY <1>2, <1>6 DEF Caller, Wait, WaitUntilReady, WaitLook, WaitDone, WaitReturn,
       WaitTimeout, InstantEnsure, InstantReady, InstantClaims, InstantFailed, InstantError,
       Return, Goto
  <2> QED
    BY <1>2, <2>1, <2>2
<1> QED
  BY <1>3, <1>4, <1>5, <1>6, NotifyFrame DEF Next, Global, vars

(***************************************************************************)
(* WaitUntilReady returns without an error, and InstantEnsure with claims, *)
(* only after claims were fetched, for any number of calls and instances   *)
(* (libkustomer.go:227, 310-321).                                          *)
(***************************************************************************)
THEOREM NoEmptyResults == Spec => []ResultsHaveClaims
<1>1. Init => LibTypeOK /\ CallInv
  BY LibTypeInit DEF Init, CallInv, ResultsHaveClaims
<1>2. LibTypeOK /\ CallInv /\ [Next]_vars => LibTypeOK' /\ CallInv'
  BY LibTypeStep, CallStep
<1>3. CallInv => ResultsHaveClaims
  BY DEF CallInv
<1> QED
  BY <1>1, <1>2, <1>3, PTL DEF Spec

-----------------------------------------------------------------------------
(* Instances have owners. *)

LEMMA OwnerStep == LibTypeOK /\ OwnerInv /\ [Next]_vars => OwnerInv'
<1> SUFFICES ASSUME LibTypeOK, OwnerInv, [Next]_vars PROVE OwnerInv'
  OBVIOUS
<1> USE DEF OwnerInv, InstancesOwned, Runs
<1>1. /\ initialized \in [Instances -> BOOLEAN]
      /\ Instances = 1..MaxInstances /\ MaxInstances \in Nat
      /\ made \in Nat /\ made <= MaxInstances
      /\ instance \in Nat /\ instance <= made /\ dropped \subseteq 1..made
  BY LibAssumption DEF LibTypeOK, InstTypeOK, GlobalTypeOK, Instances, LibAssumption
<1>2. /\ call \in [Callers -> CallStates] /\ target \in [Callers -> Nat]
      /\ \A c \in Callers : target[c] <= made /\ (call[c] # "idle" => target[c] # 0)
  BY DEF LibTypeOK, CallTypeOK
<1>3. CASE UNCHANGED <<instance, insts, calls>>
  BY <1>3 DEF insts, calls
<1>4. CASE Initialize
  <2>1. /\ instance = 0 /\ instance' = made + 1 /\ made' = made + 1
        /\ initialized' = [initialized EXCEPT ![made + 1] = TRUE]
        /\ made + 1 \in Instances /\ UNCHANGED <<dropped, call, target>>
        /\ made + 1 \notin dropped
    BY <1>1, <1>4 DEF Initialize, NewInstance, calls
  <2>2. initialized'[made + 1] /\ \A k \in Instances : k # made + 1 => initialized'[k] = initialized[k]
    BY <1>1, <2>1
  <2>3. \A c \in Callers : target[c] # made + 1
    BY <1>1, <1>2
  <2>4. \A k \in Instances : initialized'[k] => k <= made'
    BY <1>1, <2>1, <2>2
  <2>5. \A k \in Instances : Runs(k)' => k = instance' \/
          \E c \in Callers : call'[c] \in {"instant", "claims"} /\ target'[c] = k
    <3>1. \A k \in Instances : k # 0
      BY <1>1
    <3> QED
      BY <2>1, <2>2, <3>1
  <2>6. instance' # 0 => Runs(instance)'
    BY <2>1, <2>2
  <2>7. \A c \in Callers : call'[c] \in {"instant", "claims"} => target'[c] # instance'
    BY <2>1, <2>3
  <2> QED
    BY <2>4, <2>5, <2>6, <2>7
<1>5. CASE Uninitialize
  <2>1. /\ instance # 0 /\ instance' = 0 /\ made' = made
        /\ initialized' = [initialized EXCEPT ![instance] = FALSE]
        /\ UNCHANGED <<dropped, call, target>>
    BY <1>5 DEF Uninitialize, Shutdown, calls
  <2>2. ~initialized'[instance]
        /\ \A k \in Instances : k # instance => initialized'[k] = initialized[k]
    BY <1>1, <2>1
  <2>3. \A c \in Callers : call[c] \in {"instant", "claims"} => target[c] # 0
    BY <1>2
  <2> QED
    BY <2>1, <2>2, <2>3
<1>8. CASE InitializeError
  <2>1. /\ made' = made + 1 /\ dropped' = dropped \cup {made + 1}
        /\ initialized' = [initialized EXCEPT ![made + 1] = TRUE]
        /\ UNCHANGED <<instance, call, target>>
    BY <1>8 DEF InitializeError, NewInstance, globals, calls
  <2>2. \A k \in Instances : k # made + 1 =>
          initialized'[k] = initialized[k] /\ (k \in dropped' <=> k \in dropped)
    BY <1>1, <2>1
  <2>3. instance # 0 => Runs(instance)'
    BY <1>1, <2>1, <2>2
  <2>4. \A k \in Instances : Runs(k)' => Runs(k)
    BY <2>1, <2>2
  <2>5. \A k \in Instances : initialized'[k] => k <= made'
    BY <1>1, <2>1, <2>2
  <2> QED
    BY <2>1, <2>3, <2>4, <2>5
<1>6. ASSUME NEW k \in Instances, Instance(k)
      PROVE  OwnerInv'
  BY <1>6 DEF Instance, ParentCancel, Publish, SignalReady, globals, calls
<1>7. ASSUME NEW c \in Callers, Caller(c)
      PROVE  OwnerInv'
  <2>1. instance' = instance
    BY <1>7, CallerFrame DEF globals
  <2>2. CASE WaitUntilReady(c) \/ Wait(c) \/ WaitTimeout(c) \/ InstantReady(c)
    <3>1. UNCHANGED insts
      BY <2>2 DEF WaitUntilReady, Wait, WaitLook, WaitDone, WaitReturn, WaitTimeout,
                  InstantReady
    <3>2. \A d \in Callers \ {c} : call'[d] = call[d] /\ target'[d] = target[d]
      BY <1>2, <2>2 DEF WaitUntilReady, Wait, WaitLook, WaitDone, WaitReturn, WaitTimeout,
                        InstantReady, Return, Goto
    <3>3. \/ call[c] \notin {"instant", "claims"} /\ call'[c] \notin {"instant", "claims"}
          \/ call[c] = "instant" /\ call'[c] = "claims" /\ target'[c] = target[c]
      BY <1>2, <2>2 DEF WaitUntilReady, Wait, WaitLook, WaitDone, WaitReturn, WaitTimeout,
                        InstantReady, Return, Goto
    <3> QED
      BY <2>1, <3>1, <3>2, <3>3 DEF insts
  <2>3. CASE InstantEnsure(c)
    <3>1. /\ call[c] = "idle" /\ made' = made + 1 /\ made + 1 \in Instances
          /\ initialized' = [initialized EXCEPT ![made + 1] = TRUE]
          /\ call' = [call EXCEPT ![c] = "instant"]
          /\ target' = [target EXCEPT ![c] = made + 1]
          /\ dropped' = dropped
      BY <1>1, <2>3 DEF InstantEnsure, NewInstance
    <3>2. initialized'[made + 1]
          /\ \A k \in Instances : k # made + 1 => initialized'[k] = initialized[k]
      BY <1>1, <3>1
    <3>3. /\ call'[c] = "instant" /\ target'[c] = made + 1
          /\ \A d \in Callers \ {c} : call'[d] = call[d] /\ target'[d] = target[d]
      BY <1>2, <3>1
    <3>4. made + 1 # instance /\ \A k \in Instances : initialized'[k] => k <= made'
      BY <1>1, <3>1, <3>2
    <3>5. instance # 0 => Runs(instance)'
      BY <1>1, <2>1, <3>1, <3>2, <3>4
    <3>6. \A k \in Instances : Runs(k)' => k = instance \/
            \E d \in Callers : call'[d] \in {"instant", "claims"} /\ target'[d] = k
      <4> TAKE k \in Instances
      <4> HAVE Runs(k)'
      <4>1. CASE k = made + 1
        BY <3>3, <4>1
      <4>2. CASE k # made + 1 /\ k # instance
        <5>1. PICK d \in Callers : call[d] \in {"instant", "claims"} /\ target[d] = k
          BY <3>1, <3>2, <4>2
        <5>2. d # c
          BY <3>1, <5>1
        <5> QED
          BY <3>3, <5>1, <5>2
      <4> QED
        BY <4>1, <4>2
    <3>7. \A d \in Callers : call'[d] \in {"instant", "claims"} => target'[d] # instance
      BY <3>3, <3>4
    <3> QED
      BY <2>1, <3>4, <3>5, <3>6, <3>7
  <2>4. CASE InstantClaims(c) \/ InstantFailed(c)
    <3>1. /\ call[c] \in {"instant", "claims"} /\ made' = made
          /\ initialized' = [initialized EXCEPT ![target[c]] = FALSE]
          /\ call' = [call EXCEPT ![c] = "idle"]
          /\ target' = [target EXCEPT ![c] = 0]
          /\ dropped' = dropped
      BY <2>4 DEF InstantClaims, InstantFailed, InstantError, Release, Return, Shutdown
    <3>2. target[c] \in Instances
      BY <1>1, <1>2, <3>1
    <3>3. /\ call'[c] = "idle"
          /\ \A d \in Callers \ {c} : call'[d] = call[d] /\ target'[d] = target[d]
      BY <1>2, <3>1
    <3>4. ~initialized'[target[c]]
          /\ \A k \in Instances : k # target[c] => initialized'[k] = initialized[k]
      BY <1>1, <3>1, <3>2
    <3>5. instance # 0 => Runs(instance)'
      BY <1>1, <2>1, <3>1, <3>4
    <3> QED
      BY <2>1, <3>1, <3>3, <3>4, <3>5
  <2> QED
    BY <1>7, <2>2, <2>3, <2>4 DEF Caller
<1> QED
  BY <1>3, <1>4, <1>5, <1>6, <1>7, <1>8, NotifyFrame DEF Next, Global, vars, globals

LEMMA OwnerInductive == Spec => []OwnerInv
<1>1. Init => LibTypeOK /\ OwnerInv
  BY LibTypeInit DEF Init, OwnerInv, InstancesOwned, Runs
<1>2. LibTypeOK /\ OwnerInv /\ [Next]_vars => LibTypeOK' /\ OwnerInv'
  BY LibTypeStep, OwnerStep
<1> QED
  BY <1>1, <1>2, PTL DEF Spec

(***************************************************************************)
(* No instance runs goroutines that nobody can stop, for any number of     *)
(* instances and of callers: it is the global one, or an InstantEnsure     *)
(* that has not returned will uninitialize it.  What a failed Initialize   *)
(* leaves initialized and gives to nobody has started none                 *)
(* (libkustomer.go:160-208, 301-308, kustomer.go:118-133).                 *)
(***************************************************************************)
THEOREM NoInstanceLost == Spec => []InstancesOwned
<1> QED
  BY OwnerInductive, PTL DEF OwnerInv

-----------------------------------------------------------------------------
(* Events stand for publications. *)

LEMMA EventTypes ==
  ASSUME LibTypeOK, NEW r \in 1..registered
  PROVE  /\ r \in Registrations /\ source[r] \in Instances
         /\ updates[r] \in Nat /\ eventCh[r] \in Nat /\ watched[r] \in Nat
         /\ published[source[r]] \in Nat
         /\ Count(r) \in Nat
<1>1. /\ r \in Registrations
      /\ source[r] \in 1..made /\ made \in 0..MaxInstances
  BY LibAssumption
     DEF LibTypeOK, ContextTypeOK, InstTypeOK, Registrations, LibAssumption
<1>2. source[r] \in Instances
  BY <1>1, LibAssumption DEF Instances, LibAssumption
<1>3. updates[r] \in Nat /\ eventCh[r] \in Nat /\ watched[r] \in Nat
  BY <1>1, LibAssumption DEF LibTypeOK, NotifyTypeOK, LibAssumption
<1>4. Count(r) \in Nat
  BY <1>3 DEF Count, One
<1>5. published[source[r]] \in Nat
  BY <1>2 DEF LibTypeOK, InstTypeOK
<1> QED
  BY <1>1, <1>2, <1>3, <1>4, <1>5

(* The steps of a registration's own goroutines. *)
LEMMA EventGoroutines ==
  ASSUME LibTypeOK, EventInv, NEW r \in 1..registered, Producer(r) \/ Consumer(r)
  PROVE  EventOK(r)'
<1>1. /\ r \in Registrations /\ source[r] \in Instances
      /\ updates[r] \in Nat /\ eventCh[r] \in Nat /\ watched[r] \in Nat
      /\ published[source[r]] \in Nat /\ Count(r) \in Nat
  BY EventTypes
<1>2. /\ producer \in [Registrations -> ProducerStates]
      /\ consumer \in [Registrations -> ConsumerStates]
      /\ watched \in [Registrations -> Nat]
      /\ eventCh \in [Registrations -> 0..EventCap]
      /\ updates \in [Registrations -> Nat]
  BY DEF LibTypeOK, NotifyTypeOK
<1>3. /\ Count(r) <= published[source[r]]
      /\ producer[r] \in {"select", "send"} => Count(r) < watched[r]
      /\ producer[r] = "send" => watched[r] <= published[source[r]]
  BY DEF EventInv, EventOK
<1>4. UNCHANGED <<source, published>>
  BY DEF Producer, NotifyTop, NotifySelect, NotifySend, NotifyCleanup, NotifyCancel,
         Consumer, ConsumerReceive, UpdateCb, ConsumerExit, insts
<1>5. CASE NotifyTop(r)
  <2>1. Count(r)' = Count(r)
    BY <1>5 DEF NotifyTop, Count
  <2>2. \/ producer'[r] = "select" /\ watched'[r] = published[source[r]] + 1
        \/ producer'[r] = "cleanup"
    BY <1>1, <1>2, <1>5 DEF NotifyTop, UpdatedChannel
  <2> QED
    BY <1>1, <1>3, <1>4, <2>1, <2>2 DEF EventOK
<1>6. CASE NotifySelect(r)
  <2>1. Count(r)' = Count(r)
    BY <1>6 DEF NotifySelect, Count
  <2>2. \/ /\ producer[r] = "select" /\ producer'[r] = "send"
           /\ watched' = watched /\ watched[r] <= published[source[r]]
        \/ producer'[r] = "cleanup"
    BY <1>1, <1>2, <1>6 DEF NotifySelect, AfterUpdate, Updated
  <2> QED
    BY <1>1, <1>3, <1>4, <2>1, <2>2 DEF EventOK
<1>7. CASE NotifySend(r)
  <2>1. CASE Closed(r)
    BY <1>3, <1>4, <1>7, <2>1 DEF NotifySend, EventOK, Count
  <2>2. CASE ~Closed(r)
    <3>1. eventCh'[r] = eventCh[r] + 1 /\ producer'[r] = "top" /\ producer[r] = "send"
          /\ UNCHANGED <<updates, consumer>>
      BY <1>1, <1>2, <1>7, <2>2 DEF NotifySend
    <3>2. Count(r)' = Count(r) + 1
      BY <1>1, <3>1 DEF Count, One
    <3> QED
      BY <1>1, <1>3, <1>4, <3>1, <3>2 DEF EventOK
  <2> QED
    BY <2>1, <2>2
<1>8. CASE NotifyCleanup(r) \/ NotifyCancel(r)
  <2>1. producer'[r] \in {"cancel", "done"} /\ UNCHANGED <<updates, eventCh, consumer>>
    BY <1>1, <1>2, <1>8 DEF NotifyCleanup, NotifyCancel
  <2> QED
    BY <1>3, <1>4, <2>1 DEF EventOK, Count
<1>9. CASE ConsumerReceive(r) \/ UpdateCb(r)
  <2>1. /\ UNCHANGED <<producer, watched>>
        /\ \/ /\ consumer[r] = "select" /\ consumer'[r] = "update"
              /\ eventCh'[r] = eventCh[r] - 1 /\ updates'[r] = updates[r]
           \/ /\ consumer[r] = "update" /\ consumer'[r] = "select"
              /\ eventCh'[r] = eventCh[r] /\ updates'[r] = updates[r] + 1
    BY <1>1, <1>2, <1>9 DEF ConsumerReceive, UpdateCb
  <2>2. Count(r)' = Count(r)
    BY <1>1, <2>1 DEF Count, One
  <2> QED
    BY <1>3, <1>4, <2>1, <2>2 DEF EventOK
<1>10. CASE ConsumerExit(r)
  <2>1. /\ UNCHANGED <<producer, watched>>
        /\ consumer'[r] = "done" /\ eventCh'[r] = 0 /\ updates'[r] = 0
    BY <1>1, <1>2, <1>10 DEF ConsumerExit
  <2>2. Count(r)' = 0
    BY <2>1 DEF Count, One
  <2> QED
    BY <1>1, <1>3, <1>4, <2>1, <2>2 DEF EventOK
<1> QED
  BY <1>5, <1>6, <1>7, <1>8, <1>9, <1>10 DEF Producer, Consumer

LEMMA EventStep == LibTypeOK /\ EventInv /\ [Next]_vars => EventInv'
<1> SUFFICES ASSUME LibTypeOK, EventInv, [Next]_vars PROVE EventInv'
  OBVIOUS
<1>1. /\ registered \in Nat /\ published \in [Instances -> Nat]
      /\ registered <= MaxRegistrations
  BY LibAssumption DEF LibTypeOK, ContextTypeOK, InstTypeOK, LibAssumption
<1>2. CASE UNCHANGED <<registered, source, published, producer, watched, eventCh,
                       consumer, updates>>
  BY <1>2 DEF EventInv, EventOK, Count
<1>3. CASE Initialize \/ InitializeError \/ Uninitialize \/ UnsetNotifyWhenUpdated
  BY <1>3, <1>2
     DEF Initialize, InitializeError, Uninitialize, UnsetNotifyWhenUpdated, NewInstance,
         Shutdown, notify, insts
<1>4. ASSUME NEW k \in Instances, Instance(k)
      PROVE  EventInv'
  <2>1. CASE ParentCancel(k) \/ SignalReady(k)
    BY <2>1, <1>2 DEF ParentCancel, SignalReady, notify
  <2>2. CASE Publish(k)
    <3>1. \A j \in Instances : published'[j] \in Nat /\ published[j] <= published'[j]
      BY <1>1, <2>2 DEF Publish
    <3>2. /\ UNCHANGED <<registered, source, producer, watched>>
          /\ \A r \in 1..registered : Count(r)' = Count(r)
      BY <2>2 DEF Publish, notify, Count
    <3>3. ASSUME NEW r \in 1..registered
          PROVE  EventOK(r)'
      <4>1. /\ published[source[r]] <= published'[source[r]]
            /\ Count(r) \in Nat /\ published[source[r]] \in Nat /\ watched[r] \in Nat
            /\ published'[source[r]] \in Nat
        BY <3>1, EventTypes
      <4>2. /\ Count(r) <= published[source[r]]
            /\ producer[r] \in {"select", "send"} => Count(r) < watched[r]
            /\ producer[r] = "send" => watched[r] <= published[source[r]]
        BY DEF EventInv, EventOK
      <4> QED
        BY <3>2, <4>1, <4>2 DEF EventOK
    <3> QED
      BY <3>2, <3>3 DEF EventInv
  <2> QED
    BY <1>4, <2>1, <2>2 DEF Instance
<1>5. CASE \E c \in Callers : Caller(c)
  BY <1>5, <1>2, CallerFrame DEF notify
<1>6. CASE SetNotifyWhenUpdated
  <2>1. CASE instance = 0
    BY <1>6, <2>1, <1>2 DEF SetNotifyWhenUpdated, notify, insts
  <2>2. CASE instance # 0
    <3>0. PICK r \in Nat : r = registered + 1
      BY <1>1
    <3>1. /\ registered' = r /\ r \in Registrations
          /\ UNCHANGED <<published, watched, eventCh>>
          /\ source' = [source EXCEPT ![r] = instance]
          /\ updates' = [updates EXCEPT ![r] = published[instance]]
          /\ producer' = [producer EXCEPT ![r] = "top"]
          /\ consumer' = [consumer EXCEPT ![r] = "select"]
      BY <1>1, <1>6, <2>2, <3>0, LibAssumption
         DEF SetNotifyWhenUpdated, Registrations, insts, LibAssumption
    <3>2. /\ source \in [Registrations -> 0..MaxInstances]
          /\ updates \in [Registrations -> Nat]
          /\ producer \in [Registrations -> ProducerStates]
          /\ consumer \in [Registrations -> ConsumerStates]
      BY DEF LibTypeOK, ContextTypeOK, NotifyTypeOK
    <3>3. EventOK(r)'
      <4>1. eventCh[r] = 0
        BY <1>1, <3>0, <3>1 DEF LibTypeOK, StartedOK
      <4>2. instance \in Instances
        BY <2>2, LibAssumption
           DEF LibTypeOK, GlobalTypeOK, InstTypeOK, Instances, LibAssumption
      <4>3. source'[r] = instance /\ updates'[r] = published[instance]
            /\ producer'[r] = "top" /\ consumer'[r] = "select" /\ eventCh'[r] = 0
        BY <3>1, <3>2, <4>1
      <4>4. published[instance] \in Nat
        BY <1>1, <4>2
      <4>5. Count(r)' = published[instance]
        BY <4>3, <4>4 DEF Count, One
      <4> QED
        BY <3>1, <4>3, <4>4, <4>5 DEF EventOK
    <3>4. ASSUME NEW s \in 1..registered
          PROVE  EventOK(s)'
      <4>1. s # r
        BY <1>1, <3>0
      <4>2. /\ source'[s] = source[s] /\ updates'[s] = updates[s]
            /\ producer'[s] = producer[s] /\ consumer'[s] = consumer[s]
        BY <3>1, <3>2, <4>1, EventTypes
      <4> QED
        BY <3>1, <4>2 DEF EventInv, EventOK, Count
    <3>5. \A s \in 1..registered' : s \in 1..registered \/ s = r
      BY <1>1, <3>0, <3>1
    <3>6. \A s \in 1..registered' : EventOK(s)'
      BY <3>3, <3>4, <3>5
    <3> QED
      BY <3>6 DEF EventInv
  <2> QED
    BY <2>1, <2>2
<1>7. ASSUME NEW r \in Registrations, UnsetCancel(r) \/ Producer(r) \/ Consumer(r)
      PROVE  EventInv'
  <2>1. CASE UnsetCancel(r)
    BY <2>1, <1>2 DEF UnsetCancel, insts
  <2>2. CASE Producer(r) \/ Consumer(r)
    <3> USE DEF Producer, NotifyTop, NotifySelect, NotifySend, NotifyCleanup,
                NotifyCancel, Consumer, ConsumerReceive, UpdateCb, ConsumerExit
    <3>1. UNCHANGED <<registered, source, published>>
      BY <2>2 DEF insts
    <3>2. ASSUME NEW s \in 1..registered, s # r
          PROVE  EventOK(s)'
      <4>1. /\ producer \in [Registrations -> ProducerStates]
            /\ consumer \in [Registrations -> ConsumerStates]
            /\ watched \in [Registrations -> Nat]
            /\ eventCh \in [Registrations -> 0..EventCap]
            /\ updates \in [Registrations -> Nat]
        BY DEF LibTypeOK, NotifyTypeOK
      <4>2. s \in Registrations
        BY EventTypes
      <4>3. producer'[s] = producer[s]
        BY <2>2, <3>2, <4>1, <4>2
      <4>4. consumer'[s] = consumer[s]
        BY <2>2, <3>2, <4>1, <4>2
      <4>5. watched'[s] = watched[s]
        BY <2>2, <3>2, <4>1, <4>2
      <4>6. eventCh'[s] = eventCh[s] /\ updates'[s] = updates[s]
        BY <2>2, <3>2, <4>1, <4>2
      <4>7. /\ producer'[s] = producer[s] /\ consumer'[s] = consumer[s]
            /\ watched'[s] = watched[s] /\ eventCh'[s] = eventCh[s]
            /\ updates'[s] = updates[s]
        BY <4>3, <4>4, <4>5, <4>6
      <4> QED
        BY <3>1, <4>7 DEF EventInv, EventOK, Count
    <3>3. r \in 1..registered => EventOK(r)'
      BY <2>2, EventGoroutines
    <3> QED
      BY <3>1, <3>2, <3>3 DEF EventInv
  <2> QED
    BY <1>7, <2>1, <2>2
<1> QED
  BY <1>2, <1>3, <1>4, <1>5, <1>6, <1>7 DEF Next, Global, vars, insts, notify

(***************************************************************************)
(* A callback is never called, and never will be by an event under way,    *)
(* more often than claims were published since it was registered, for any  *)
(* number of registrations and any capacity of the channel                 *)
(* (kustomer.go:357-374).                                                  *)
(***************************************************************************)
THEOREM NoSpuriousEvents == Spec => []EventsBacked
<1>1. Init => LibTypeOK /\ EventInv
  <2>1. Init => registered = 0
    BY DEF Init
  <2> QED
    BY <2>1, LibTypeInit DEF EventInv
<1>2. LibTypeOK /\ EventInv /\ [Next]_vars => LibTypeOK' /\ EventInv'
  BY LibTypeStep, EventStep
<1>3. LibTypeOK /\ EventInv => EventsBacked
  <2> SUFFICES ASSUME LibTypeOK, EventInv, NEW r \in 1..registered
               PROVE  Count(r) + One(producer[r] = "send") <= published[source[r]]
    BY DEF EventsBacked, Count
  <2>1. Count(r) \in Nat /\ published[source[r]] \in Nat /\ watched[r] \in Nat
    BY EventTypes
  <2> QED
    BY <2>1 DEF EventInv, EventOK, One
<1> QED
  BY <1>1, <1>2, <1>3, PTL DEF Spec

-----------------------------------------------------------------------------
(* What ends a registration. *)

(* Nothing that has ended begins again. *)
LEMMA DoneStays ==
  ASSUME LibTypeOK, [Next]_vars
  PROVE  /\ \A k \in Instances : ctxDone[k] => ctxDone'[k]
         /\ registered' \in Nat /\ registered <= registered'
         /\ \A r \in 1..registered : /\ source'[r] = source[r]
                                     /\ NotifyDone(r) => NotifyDone(r)'
<1> USE LibAssumption DEF LibAssumption
<1>1. /\ ctxDone \in [Instances -> BOOLEAN] /\ cancelled \in [Registrations -> BOOLEAN]
      /\ registered \in Nat /\ registered <= MaxRegistrations /\ MaxRegistrations \in Nat
      /\ source \in [Registrations -> 0..MaxInstances] /\ made \in 0..MaxInstances
      /\ \A r \in 1..registered : source[r] \in 1..made
      /\ Registrations = 1..MaxRegistrations /\ Instances = 1..MaxInstances
  BY DEF LibTypeOK, InstTypeOK, ContextTypeOK, Registrations, Instances
<1>2. \A k \in Instances : ctxDone[k] => ctxDone'[k]
  <2>1. \/ ctxDone' = ctxDone
        \/ \E k \in Nat : ctxDone' = [ctxDone EXCEPT ![k] = TRUE]
    <3>1. CASE UNCHANGED insts
      BY <3>1 DEF insts
    <3>2. CASE Initialize \/ InitializeError \/ Uninitialize
      BY <3>2, <1>1 DEF Initialize, InitializeError, Uninitialize, NewInstance, Shutdown, LibTypeOK, GlobalTypeOK
    <3>3. CASE \E k \in Instances : Instance(k)
      BY <3>3, <1>1 DEF Instance, ParentCancel, Publish, SignalReady
    <3>4. ASSUME NEW c \in Callers, Caller(c)
          PROVE  \/ ctxDone' = ctxDone
                 \/ \E k \in Nat : ctxDone' = [ctxDone EXCEPT ![k] = TRUE]
      <4>1. target[c] \in Nat
        BY DEF LibTypeOK, CallTypeOK
      <4> QED
        BY <3>4, <4>1
           DEF Caller, Wait, WaitUntilReady, WaitLook, WaitDone, WaitReturn, WaitTimeout,
               InstantEnsure, InstantReady, InstantClaims, InstantFailed, InstantError,
               Release, Shutdown, NewInstance, insts
    <3> QED
      BY <3>1, <3>2, <3>3, <3>4, NotifyFrame DEF Next, Global, vars
  <2> QED
    BY <1>1, <2>1
<1>3. /\ registered' = registered \/ (registered' = registered + 1)
      /\ \A r \in 1..registered : source'[r] = source[r] /\ (cancelled[r] => cancelled'[r])
  <2>1. CASE UNCHANGED notify
    BY <2>1 DEF notify
  <2>2. CASE SetNotifyWhenUpdated
    <3>1. CASE instance = 0
      BY <2>1, <2>2, <3>1 DEF SetNotifyWhenUpdated
    <3>2. CASE instance # 0
      <4>1. /\ registered' = registered + 1 /\ cancelled' = cancelled
            /\ source' = [source EXCEPT ![registered + 1] = instance]
        BY <2>2, <3>2 DEF SetNotifyWhenUpdated
      <4>2. \A r \in 1..registered : r # registered + 1 /\ r \in Registrations
        BY <1>1
      <4> QED
        BY <1>1, <4>1, <4>2
    <3> QED
      BY <3>1, <3>2
  <2>3. CASE UnsetNotifyWhenUpdated
    BY <2>3 DEF UnsetNotifyWhenUpdated
  <2>4. ASSUME NEW r \in Registrations, UnsetCancel(r) \/ Producer(r) \/ Consumer(r)
        PROVE  /\ UNCHANGED <<registered, source>>
               /\ cancelled' = cancelled \/ cancelled' = [cancelled EXCEPT ![r] = TRUE]
    BY <2>4 DEF UnsetCancel, Producer, NotifyTop, NotifySelect, NotifySend, NotifyCleanup,
                NotifyCancel, Consumer, ConsumerReceive, UpdateCb, ConsumerExit
  <2>5. CASE \E r \in Registrations : UnsetCancel(r) \/ Producer(r) \/ Consumer(r)
    BY <1>1, <2>4, <2>5
  <2>6. CASE Initialize \/ InitializeError \/ Uninitialize \/ (\E k \in Instances : Instance(k))
               \/ \E c \in Callers : Caller(c)
    BY <2>6, <2>1, CallerFrame
       DEF Initialize, InitializeError, Uninitialize, Instance, ParentCancel, Publish, SignalReady
  <2> QED
    BY <2>1, <2>2, <2>3, <2>5, <2>6 DEF Next, Global, vars
<1> QED
  BY <1>1, <1>2, <1>3 DEF NotifyDone

LEMMA ContextsStep == LibTypeOK /\ ContextsDone /\ [Next]_vars => ContextsDone'
<1> SUFFICES ASSUME LibTypeOK, ContextsDone, [Next]_vars PROVE ContextsDone'
  OBVIOUS
<1> USE DEF ContextsDone
<1>1. /\ ctxDone \in [Instances -> BOOLEAN] /\ initialized \in [Instances -> BOOLEAN]
      /\ made \in Nat /\ Instances = 1..MaxInstances
  BY LibAssumption DEF LibTypeOK, InstTypeOK, Instances, LibAssumption
<1>2. CASE UNCHANGED insts
  BY <1>2 DEF insts
<1>3. CASE \E refresh \in BOOLEAN : NewInstance(refresh)
  BY <1>1, <1>3 DEF NewInstance
<1>4. ASSUME NEW k, Shutdown(k)
      PROVE  ContextsDone'
  BY <1>1, <1>4 DEF Shutdown
<1>5. ASSUME NEW k \in Instances, Instance(k)
      PROVE  ContextsDone'
  BY <1>1, <1>5 DEF Instance, ParentCancel, Publish, SignalReady
<1>6. ASSUME NEW c \in Callers, Caller(c)
      PROVE  UNCHANGED insts \/ NewInstance(FALSE) \/ Shutdown(target[c])
  BY <1>6 DEF Caller, Wait, WaitUntilReady, WaitLook, WaitDone, WaitReturn, WaitTimeout,
              InstantEnsure, InstantReady, InstantClaims, InstantFailed, InstantError, Release
<1> QED
  BY <1>2, <1>3, <1>4, <1>5, <1>6, NotifyFrame
     DEF Next, Global, Initialize, InitializeError, Uninitialize, vars

LEMMA EndStep ==
  LibTypeOK /\ EndInv /\ [Next]_vars => EndsAreDone' /\ OnlyOthersForget' /\ OnlyEndedPanics'
<1> SUFFICES ASSUME LibTypeOK, EndInv, [Next]_vars
             PROVE  EndsAreDone' /\ OnlyOthersForget' /\ OnlyEndedPanics'
  OBVIOUS
<1>1. /\ registered \in Nat /\ registered <= MaxRegistrations /\ MaxRegistrations \in Nat
      /\ Registrations = 1..MaxRegistrations
      /\ producer \in [Registrations -> ProducerStates]
      /\ consumer \in [Registrations -> ConsumerStates]
      /\ cancelled \in [Registrations -> BOOLEAN]
      /\ \A r \in 1..registered : source[r] \in Instances /\ source[r] <= made
  BY LibAssumption DEF LibTypeOK, InstTypeOK, ContextTypeOK, NotifyTypeOK, Registrations,
                       Instances, LibAssumption
<1>2. /\ registered' \in Nat /\ registered <= registered'
      /\ \A r \in 1..registered : NotifyDone(r) => NotifyDone(r)'
  BY DoneStays
<1>3. \A r \in 1..registered : r \in Registrations /\ r \in 1..registered'
  BY <1>1, <1>2
<1> USE DEF EndInv
<1>4. CASE UNCHANGED <<notifyCancel, notify, crashed>>
  <2>1. \A r \in 1..registered : Cleared(r)' = Cleared(r) /\ Closed(r)' = Closed(r)
    BY <1>4 DEF Cleared, Closed, notify
  <2> QED
    BY <1>2, <1>4, <2>1 DEF EndsAreDone, OnlyOthersForget, OnlyEndedPanics, notify
<1>5. CASE SetNotifyWhenUpdated /\ instance # 0
  <2> DEFINE n == registered + 1
  <2>1. /\ notifyCancel = 0 /\ notifyCancel' = n /\ registered' = n
        /\ n \in Registrations /\ UNCHANGED <<unsetting, crashed>>
        /\ producer' = [producer EXCEPT ![n] = "top"]
        /\ consumer' = [consumer EXCEPT ![n] = "select"]
    BY <1>1, <1>5 DEF SetNotifyWhenUpdated
  <2>2. producer'[n] = "top" /\ consumer'[n] = "select"
    BY <1>1, <2>1
  <2>3. \A r \in 1..registered : r # n /\ producer'[r] = producer[r] /\ consumer'[r] = consumer[r]
    BY <1>1, <1>3, <2>1
  <2>4. \A r \in 1..registered' : r = n \/ r \in 1..registered
    BY <1>1, <2>1
  <2>5. EndsAreDone'
    BY <1>2, <2>2, <2>3, <2>4 DEF EndsAreDone, Cleared, Closed
  <2>6. ASSUME NEW r \in 1..registered', ~NotifyDone(r)', r \notin unsetting', r # n
        PROVE  \E q \in (1..registered') \ {r} : NotifyDone(q)' /\ Cleared(q)'
    <3>1. r \in 1..registered /\ ~NotifyDone(r) /\ r \notin unsetting /\ notifyCancel # r
      BY <1>1, <1>2, <2>1, <2>4, <2>6
    <3>2. PICK q \in (1..registered) \ {r} : NotifyDone(q) /\ Cleared(q)
      BY <3>1 DEF OnlyOthersForget
    <3> QED
      BY <1>2, <1>3, <2>3, <3>2 DEF Cleared
  <2>7. OnlyOthersForget'
    BY <2>1, <2>6 DEF OnlyOthersForget
  <2>8. OnlyEndedPanics'
    BY <1>2, <1>3, <2>1, <2>3 DEF OnlyEndedPanics, Closed
  <2> QED
    BY <2>5, <2>7, <2>8
<1>6. CASE SetNotifyWhenUpdated /\ instance = 0
  <2>1. UNCHANGED <<notifyCancel, notify>> /\ crashed' = "nil context"
    BY <1>6 DEF SetNotifyWhenUpdated, globals
  <2>2. \A r \in 1..registered : Cleared(r)' = Cleared(r) /\ Closed(r)' = Closed(r)
    BY <2>1 DEF Cleared, Closed, notify
  <2> QED
    BY <1>2, <2>1, <2>2 DEF EndsAreDone, OnlyOthersForget, OnlyEndedPanics, notify
<1>7. CASE UnsetNotifyWhenUpdated
  <2>1. /\ UNCHANGED <<registered, producer, consumer, crashed>>
        /\ unsetting' = unsetting \cup {notifyCancel}
    BY <1>7 DEF UnsetNotifyWhenUpdated
  <2>2. \A r \in 1..registered : Cleared(r)' = Cleared(r) /\ Closed(r)' = Closed(r)
    BY <2>1 DEF Cleared, Closed
  <2> QED
    BY <1>2, <2>1, <2>2 DEF EndsAreDone, OnlyOthersForget, OnlyEndedPanics
<1>8. ASSUME NEW r \in Registrations, UnsetCancel(r)
      PROVE  EndsAreDone' /\ OnlyOthersForget' /\ OnlyEndedPanics'
  <2>1. /\ UNCHANGED <<notifyCancel, registered, producer, consumer, crashed>>
        /\ unsetting' = unsetting \ {r} /\ NotifyDone(r)'
    BY <1>1, <1>8 DEF UnsetCancel, globals, NotifyDone
  <2>2. \A q \in 1..registered : Cleared(q)' = Cleared(q) /\ Closed(q)' = Closed(q)
    BY <2>1 DEF Cleared, Closed
  <2> QED
    BY <1>2, <2>1, <2>2 DEF EndsAreDone, OnlyOthersForget, OnlyEndedPanics
<1>9. ASSUME NEW r \in Registrations, Producer(r) \/ Consumer(r), crashed = "no"
      PROVE  EndsAreDone' /\ OnlyOthersForget' /\ OnlyEndedPanics'
  <2>1. r \in 1..registered
    <3>1. producer[r] # "none" \/ consumer[r] # "none"
      BY <1>9 DEF Producer, NotifyTop, NotifySelect, NotifySend, NotifyCleanup, NotifyCancel,
                  Consumer, ConsumerReceive, UpdateCb, ConsumerExit
    <3>2. r <= registered
      BY <3>1 DEF LibTypeOK, StartedOK
    <3> QED
      BY <1>1, <3>2
  <2>2. UNCHANGED <<registered, unsetting, insts>>
    BY <1>9 DEF Producer, NotifyTop, NotifySelect, NotifySend, NotifyCleanup, NotifyCancel,
                Consumer, ConsumerReceive, UpdateCb, ConsumerExit
  <2>3. \A q \in Registrations : q # r => producer'[q] = producer[q] /\ consumer'[q] = consumer[q]
    BY <1>1, <1>9 DEF Producer, NotifyTop, NotifySelect, NotifySend, NotifyCleanup,
                NotifyCancel, Consumer, ConsumerReceive, UpdateCb, ConsumerExit
  <2>4. Closed(r)' => Closed(r) \/ NotifyDone(r)
    BY <1>1, <1>9 DEF Producer, NotifyTop, NotifySelect, NotifySend, NotifyCleanup,
                NotifyCancel, Consumer, ConsumerReceive, UpdateCb, ConsumerExit, Closed
  <2>5. Cleared(r)' \/ producer'[r] = "cleanup" => NotifyDone(r)
    <3>1. ~initialized[source[r]] => ctxDone[source[r]]
      BY <1>1, <2>1 DEF ContextsDone
    <3>2. CASE NotifyTop(r)
      BY <1>1, <3>1, <3>2 DEF NotifyTop, NotifyDone, Cleared
    <3>3. CASE NotifySelect(r)
      BY <1>1, <3>3 DEF NotifySelect, NotifyEnds, AfterUpdate, Cleared
    <3>4. CASE NotifySend(r)
      BY <1>1, <2>1, <3>4 DEF NotifySend, Cleared
    <3>5. CASE NotifyCleanup(r) \/ NotifyCancel(r)
      BY <2>1, <3>5 DEF NotifyCleanup, NotifyCancel, EndsAreDone, Cleared
    <3>6. CASE Consumer(r)
      BY <2>1, <3>6 DEF Consumer, ConsumerReceive, UpdateCb, ConsumerExit, EndsAreDone, Cleared
    <3> QED
      BY <1>9, <3>2, <3>3, <3>4, <3>5, <3>6 DEF Producer
  <2>6. Cleared(r) => Cleared(r)'
    BY <1>1, <1>9 DEF Producer, NotifyTop, NotifySelect, NotifySend, NotifyCleanup,
                NotifyCancel, Consumer, ConsumerReceive, UpdateCb, ConsumerExit, Cleared
  <2>7. EndsAreDone'
    BY <1>2, <1>3, <2>1, <2>2, <2>3, <2>4, <2>5 DEF EndsAreDone, Cleared, Closed
  <2>8. notifyCancel' = notifyCancel \/ (Cleared(r)' /\ NotifyDone(r))
    <3>1. CASE NotifyCleanup(r)
      BY <1>1, <2>1, <3>1 DEF NotifyCleanup, Cleared, EndsAreDone
    <3> QED
      BY <1>9, <3>1 DEF Producer, NotifyTop, NotifySelect, NotifySend, NotifyCancel,
                Consumer, ConsumerReceive, UpdateCb, ConsumerExit, globals
  <2>9. \A q \in 1..registered : Cleared(q) => Cleared(q)'
    BY <1>3, <2>3, <2>6 DEF Cleared
  <2>10. OnlyOthersForget'
    <3> SUFFICES ASSUME NEW q \in 1..registered, ~NotifyDone(q)', q \notin unsetting,
                        notifyCancel' # q
                 PROVE  \E p \in (1..registered) \ {q} : NotifyDone(p)' /\ Cleared(p)'
      BY <2>2 DEF OnlyOthersForget
    <3>1. CASE notifyCancel' = notifyCancel
      <4>1. PICK p \in (1..registered) \ {q} : NotifyDone(p) /\ Cleared(p)
        BY <1>2, <3>1 DEF OnlyOthersForget
      <4> QED
        BY <1>2, <2>9, <4>1
    <3>2. CASE Cleared(r)' /\ NotifyDone(r)
      BY <1>2, <2>1, <3>2
    <3> QED
      BY <2>8, <3>1, <3>2
  <2>11. OnlyEndedPanics'
    <3>1. crashed' # "no" => NotifySend(r) /\ Closed(r)
      BY <1>9 DEF Producer, NotifyTop, NotifySelect, NotifySend, NotifyCleanup, NotifyCancel,
                  Consumer, ConsumerReceive, UpdateCb, ConsumerExit
    <3>2. NotifySend(r) /\ Closed(r) => UNCHANGED <<producer, consumer>> /\ producer[r] = "send"
      BY DEF NotifySend
    <3> QED
      BY <1>2, <2>1, <2>2, <3>1, <3>2 DEF OnlyEndedPanics, EndsAreDone, Closed
  <2> QED
    BY <2>7, <2>10, <2>11
<1>10. CASE Initialize \/ InitializeError \/ Uninitialize \/ \E k \in Instances : Instance(k)
  BY <1>10, <1>4
     DEF Initialize, InitializeError, Uninitialize, Instance, ParentCancel, Publish,
         SignalReady, globals
<1>11. CASE \E c \in Callers : Caller(c)
  BY <1>11, <1>4, CallerFrame DEF globals
<1> QED
  BY <1>4, <1>5, <1>6, <1>7, <1>8, <1>9, <1>10, <1>11 DEF Next, Global, vars, globals

LEMMA EndInductive == Spec => []EndInv
<1>1. Init => LibTypeOK /\ EndInv
  <2> SUFFICES ASSUME Init PROVE EndInv
    BY LibTypeInit
  <2>1. registered = 0 /\ made = 0 /\ crashed = "no"
    BY DEF Init
  <2> QED
    BY <2>1, LibAssumption DEF EndInv, ContextsDone, EndsAreDone, OnlyOthersForget,
                               OnlyEndedPanics, Instances, LibAssumption
<1>2. LibTypeOK /\ EndInv /\ [Next]_vars => LibTypeOK' /\ EndInv'
  BY LibTypeStep, ContextsStep, EndStep DEF EndInv
<1> QED
  BY <1>1, <1>2, PTL DEF Spec

(***************************************************************************)
(* A registration that nothing has ended and nobody is unsetting is in the *)
(* slot, where UnsetNotifyWhenUpdated finds it, unless the producer of     *)
(* another one, which has ended, has cleared the slot; so the first one    *)
(* can always be unset (libkustomer.go:335-363, 387-391).                  *)
(***************************************************************************)
THEOREM ForgottenByOthersOnly ==
  Spec => [](OnlyOthersForget /\ (registered <= 1 => CanBeUnset))
<1>1. LibTypeOK /\ EndInv => OnlyOthersForget /\ (registered <= 1 => CanBeUnset)
  <2> SUFFICES ASSUME LibTypeOK, EndInv, registered <= 1 PROVE CanBeUnset
    BY DEF EndInv
  <2>1. registered \in Nat
    BY LibAssumption DEF LibTypeOK, ContextTypeOK, LibAssumption
  <2>2. \A r \in 1..registered : (1..registered) \ {r} = {}
    BY <2>1
  <2> QED
    BY <2>2 DEF EndInv, OnlyOthersForget, CanBeUnset
<1> QED
  BY <1>1, EndInductive, LibTypeCorrect, PTL

(***************************************************************************)
(* A send on the closed channel takes a registration that was unset, or    *)
(* whose library or context is done, with its producer about to send:      *)
(* while nothing ends, updates and callbacks are safe, for any number of   *)
(* them and any capacity (libkustomer.go:352-380, kustomer.go:367-369).    *)
(***************************************************************************)
THEOREM EndedPanicsOnly == Spec => []OnlyEndedPanics
<1> QED
  BY EndInductive, PTL DEF EndInv

-----------------------------------------------------------------------------
(* Instances. *)

\* Instance k as module Instance sees it: one generation, whose claims are numbered
\* by its publications.
Own(k, refresh) == INSTANCE Instance WITH
  MaxInit <- 1,
  MaxVersion <- MaxPublish,
  autoRefresh <- refresh,
  initialized <- initialized[k],
  gen <- IF k <= made THEN 1 ELSE 0,
  kpc <- [gen |-> IF published[k] > 0 THEN 1 ELSE 0, version |-> published[k]],
  updated <- published[k],
  ctxDone <- [g \in 1..1 |-> ctxDone[k]],
  readyClosed <- [g \in 1..1 |-> ready[k]],
  fetched <- {g \in 1..1 : published[k] > 0}

(* For each instance, every step is one of its own or changes nothing there. *)
LEMMA OwnStep ==
  ASSUME LibTypeOK, OwnerInv, ContextsDone, [Next]_vars,
         NEW k \in Instances, NEW refresh \in BOOLEAN, k <= made' => auto'[k] = refresh
  PROVE  [Own(k, refresh)!Next]_(Own(k, refresh)!vars)
<1>1. /\ auto \in [Instances -> BOOLEAN] /\ initialized \in [Instances -> BOOLEAN]
      /\ ctxDone \in [Instances -> BOOLEAN] /\ published \in [Instances -> Nat]
      /\ ready \in [Instances -> BOOLEAN]
      /\ made \in Nat /\ k \in Nat /\ k > 0 /\ MaxPublish \in Nat
      /\ instance \in Nat /\ instance <= made
  BY LibAssumption
     DEF LibTypeOK, InstTypeOK, GlobalTypeOK, Instances, LibAssumption
<1>2. initialized[k] => k <= made
  BY DEF OwnerInv
<1>3. \A g \in 1..1 : g = 1
  OBVIOUS
<1>4. ASSUME UNCHANGED <<initialized[k], ctxDone[k], published[k], ready[k]>>,
             (k <= made') = (k <= made)
      PROVE  UNCHANGED Own(k, refresh)!vars
  BY <1>4 DEF Own!vars
<1>5. CASE UNCHANGED insts
  BY <1>4, <1>5 DEF insts
<1>6. ASSUME NEW b \in BOOLEAN, NewInstance(b)
      PROVE  [Own(k, refresh)!Next]_(Own(k, refresh)!vars)
  <2>1. CASE k = made + 1
    <3>1. /\ ~(k <= made) /\ k <= made' /\ initialized'[k] = TRUE /\ ~initialized[k]
          /\ UNCHANGED <<ctxDone, published, ready>>
      BY <1>1, <1>2, <1>6, <2>1 DEF NewInstance
    <3>2. Own(k, refresh)!Initialize
      BY <1>3, <3>1 DEF Own!Initialize
    <3> QED
      BY <3>2 DEF Own!Next
  <2>2. CASE k # made + 1
    BY <1>1, <1>4, <1>6, <2>2 DEF NewInstance
  <2> QED
    BY <2>1, <2>2
<1>7. ASSUME NEW j \in Nat, j <= made, Shutdown(j)
      PROVE  [Own(k, refresh)!Next]_(Own(k, refresh)!vars)
  <2>1. CASE j = k /\ initialized[k]
    <3>1. /\ k <= made /\ k <= made' /\ initialized'[k] = FALSE /\ ctxDone'[k] = TRUE
          /\ UNCHANGED <<published, ready>>
      BY <1>1, <1>2, <1>7, <2>1 DEF Shutdown
    <3>2. Own(k, refresh)!Uninitialize
      BY <1>3, <2>1, <3>1 DEF Own!Uninitialize
    <3> QED
      BY <3>2 DEF Own!Next
  <2>2. CASE j # k \/ ~initialized[k]
    BY <1>1, <1>4, <1>7, <2>2 DEF Shutdown, ContextsDone
  <2> QED
    BY <2>1, <2>2
<1>8. ASSUME NEW j \in Instances, Instance(j), j # k
      PROVE  [Own(k, refresh)!Next]_(Own(k, refresh)!vars)
  BY <1>1, <1>4, <1>8 DEF Instance, ParentCancel, Publish, SignalReady
<1>9. CASE ParentCancel(k)
  <2>1. k <= made /\ made' = made /\ ctxDone'[k] = TRUE /\ initialized[k]
        /\ UNCHANGED <<initialized, published, ready>>
    BY <1>1, <1>2, <1>9 DEF ParentCancel
  <2>2. Own(k, refresh)!Cancel
    BY <1>3, <2>1 DEF Own!Cancel
  <2> QED
    BY <2>2 DEF Own!Next
<1>10. CASE Publish(k)
  <2>1. /\ k <= made /\ made' = made
        /\ refresh \/ published[k] = 0
        /\ published'[k] = published[k] + 1 /\ published[k] < MaxPublish
        /\ UNCHANGED <<initialized, ctxDone, ready>>
    BY <1>1, <1>10 DEF Publish
  <2>2. published[k] + 1 \in 1..MaxPublish /\ published[k] <= published[k] + 1
        /\ published[k] + 1 > 0
    BY <1>1, <2>1
  <2>3. /\ [gen |-> IF published'[k] > 0 THEN 1 ELSE 0, version |-> published'[k]]
             = [gen |-> 1, version |-> published[k] + 1]
        /\ {g \in 1..1 : published'[k] > 0} = {g \in 1..1 : published[k] > 0} \cup {1}
        /\ published[k] = 0 => 1 \notin {g \in 1..1 : published[k] > 0}
    BY <1>1, <1>3, <2>1, <2>2
  <2>4. /\ 1 <= (IF k <= made THEN 1 ELSE 0)
        /\ refresh \/ 1 \notin {g \in 1..1 : published[k] > 0}
        /\ UNCHANGED (IF k <= made THEN 1 ELSE 0)
    BY <2>1, <2>3
  <2>5. [g \in 1..1 |-> ctxDone[k]]' = [g \in 1..1 |-> ctxDone[k]]
        /\ [g \in 1..1 |-> ready[k]]' = [g \in 1..1 |-> ready[k]]
    BY <2>1
  <2>6. \E v \in 1..MaxPublish :
          /\ [gen |-> IF published[k] > 0 THEN 1 ELSE 0, version |-> published[k]].gen = 1
               => [gen |-> IF published[k] > 0 THEN 1 ELSE 0, version |-> published[k]].version <= v
          /\ [gen |-> IF published'[k] > 0 THEN 1 ELSE 0, version |-> published'[k]]
               = [gen |-> 1, version |-> v]
    BY <2>2, <2>3
  <2>7. Own(k, refresh)!Publish(1)
    BY <2>1, <2>3, <2>4, <2>5, <2>6 DEF Own!Publish, Own!Versions
  <2> QED
    BY <2>7 DEF Own!Next, Own!Gens
<1>11. CASE SignalReady(k)
  <2>1. /\ published[k] > 0 /\ ~ready[k] /\ ready'[k] = TRUE /\ made' = made
        /\ UNCHANGED <<initialized, ctxDone, published>>
    BY <1>1, <1>11 DEF SignalReady
  <2>2. [g \in 1..1 |-> ready'[k]] = [[g \in 1..1 |-> ready[k]] EXCEPT ![1] = TRUE]
    BY <1>3, <2>1
  <2>3. 1 \in {g \in 1..1 : published[k] > 0} /\ ~[g \in 1..1 |-> ready[k]][1]
    BY <1>3, <2>1
  <2>4. Own(k, refresh)!SignalReady(1)
    BY <2>1, <2>2, <2>3 DEF Own!SignalReady
  <2> QED
    BY <2>4 DEF Own!Next, Own!Gens
<1>12. ASSUME NEW c \in Callers, Caller(c)
       PROVE  [Own(k, refresh)!Next]_(Own(k, refresh)!vars)
  <2>1. target[c] \in Nat /\ target[c] <= made
    BY DEF LibTypeOK, CallTypeOK
  <2>2. UNCHANGED insts \/ NewInstance(FALSE) \/ Shutdown(target[c])
    BY <1>12 DEF Caller, Wait, WaitUntilReady, WaitLook, WaitDone, WaitReturn, WaitTimeout,
                 InstantEnsure, InstantReady, InstantClaims, InstantFailed, InstantError, Release
  <2> QED
    BY <1>5, <1>6, <1>7, <2>1, <2>2
<1> QED
  BY <1>1, <1>5, <1>6, <1>7, <1>8, <1>9, <1>10, <1>11, <1>12, NotifyFrame
     DEF Next, Global, Initialize, InitializeError, Uninitialize, Instance, vars

(***************************************************************************)
(* What an instance of the library does is what module Instance allows one *)
(* generation, with the auto refresh it was made with: neither a caller,   *)
(* nor another instance, nor a callback makes it publish, signal or change *)
(* otherwise, for any number of them (libkustomer.go:130-208, 276-323,     *)
(* kustomer.go:98-323).                                                    *)
(***************************************************************************)
THEOREM InstancesKeepPromise ==
  ASSUME NEW k \in Instances
  PROVE  Spec => Own(k, TRUE)!Spec \/ Own(k, FALSE)!Spec
<1> DEFINE Known == k <= made
           Refreshes == Known /\ auto[k]
           Stays == Known /\ ~auto[k]
<1>1. ASSUME NEW refresh \in BOOLEAN, Init PROVE Own(k, refresh)!Init
  <2>1. made = 0 /\ k \in Nat /\ k > 0
    BY <1>1, LibAssumption DEF Init, Instances, LibAssumption
  <2>2. initialized[k] = FALSE /\ ctxDone[k] = FALSE /\ published[k] = 0 /\ ready[k] = FALSE
    BY <1>1 DEF Init
  <2>3. (IF k <= made THEN 1 ELSE 0) = 0
    BY <2>1
  <2>4. [gen |-> IF published[k] > 0 THEN 1 ELSE 0, version |-> published[k]]
          = [gen |-> 0, version |-> 0]
    BY <2>2
  <2>5. {g \in 1..1 : published[k] > 0} = {}
    BY <2>2
  <2>6. [g \in 1..1 |-> ctxDone[k]] = [g \in 1..1 |-> FALSE]
        /\ [g \in 1..1 |-> ready[k]] = [g \in 1..1 |-> FALSE]
    BY <2>2
  <2> QED
    BY <1>1, <2>2, <2>3, <2>4, <2>5, <2>6 DEF Own!Init, Own!Gens
<1>2. ASSUME LibTypeOK, [Next]_vars, k <= made
      PROVE  k <= made' /\ auto'[k] = auto[k]
  <2>1. /\ made \in Nat /\ k \in Nat /\ auto \in [Instances -> BOOLEAN]
        /\ k # made + 1 /\ k <= made + 1
    BY <1>2, LibAssumption DEF LibTypeOK, InstTypeOK, GlobalTypeOK, Instances, LibAssumption
  <2>2. CASE made' = made /\ auto' = auto
    BY <1>2, <2>2
  <2>3. ASSUME NEW b \in BOOLEAN, NewInstance(b) PROVE k <= made' /\ auto'[k] = auto[k]
    BY <2>1, <2>3 DEF NewInstance
  <2>4. ASSUME NEW c \in Callers, Caller(c) PROVE k <= made' /\ auto'[k] = auto[k]
    BY <2>2, <2>3, <2>4
       DEF Caller, Wait, WaitUntilReady, WaitLook, WaitDone, WaitReturn, WaitTimeout,
           InstantEnsure, InstantReady, InstantClaims, InstantFailed, InstantError, Release,
           Shutdown, insts
  <2>5. ASSUME NEW j \in Instances, Instance(j) PROVE made' = made /\ auto' = auto
    BY <2>5 DEF Instance, ParentCancel, Publish, SignalReady
  <2>6. CASE Global
    BY <2>2, <2>3, <2>6 DEF Global, Initialize, InitializeError, Uninitialize, Shutdown,
                            SetNotifyWhenUpdated,
                            UnsetNotifyWhenUpdated, insts
  <2>7. UNCHANGED vars => made' = made /\ auto' = auto
    BY DEF vars, insts
  <2>8. UNCHANGED insts => made' = made /\ auto' = auto
    BY DEF insts
  <2> QED
    BY <1>2, <2>2, <2>4, <2>5, <2>6, <2>7, <2>8, NotifyFrame DEF Next
<1>3. LibTypeOK /\ [Next]_vars => (Refreshes => Refreshes') /\ (Stays => Stays')
  BY <1>2 DEF Refreshes, Stays, Known
<1>4. LibTypeOK /\ LibTypeOK' /\ OwnerInv /\ ContextsDone /\ ~Stays' /\ [Next]_vars
        => [Own(k, TRUE)!Next]_(Own(k, TRUE)!vars)
  <2> SUFFICES ASSUME LibTypeOK, LibTypeOK', OwnerInv, ContextsDone, ~Stays', [Next]_vars
               PROVE  [Own(k, TRUE)!Next]_(Own(k, TRUE)!vars)
    OBVIOUS
  <2>1. auto' \in [Instances -> BOOLEAN]
    BY DEF LibTypeOK, InstTypeOK
  <2>2. k <= made' => auto'[k] = TRUE
    BY <2>1
  <2> QED
    BY <2>2, OwnStep
<1>5. LibTypeOK /\ LibTypeOK' /\ OwnerInv /\ ContextsDone /\ ~Refreshes' /\ [Next]_vars
        => [Own(k, FALSE)!Next]_(Own(k, FALSE)!vars)
  <2> SUFFICES ASSUME LibTypeOK, LibTypeOK', OwnerInv, ContextsDone, ~Refreshes', [Next]_vars
               PROVE  [Own(k, FALSE)!Next]_(Own(k, FALSE)!vars)
    OBVIOUS
  <2>1. auto' \in [Instances -> BOOLEAN]
    BY DEF LibTypeOK, InstTypeOK
  <2>2. k <= made' => auto'[k] = FALSE
    BY <2>1
  <2> QED
    BY <2>2, OwnStep
<1>6. Init => Own(k, TRUE)!Init /\ Own(k, FALSE)!Init
  BY <1>1
<1>7. ~(Refreshes /\ Stays)
  OBVIOUS
<1>8. Spec => []OwnerInv
  BY OwnerInductive, PTL
<1>9. Spec => []ContextsDone
  BY EndInductive, PTL DEF EndInv
<1> HIDE DEF Refreshes, Stays, Known
<1> QED
  BY <1>3, <1>4, <1>5, <1>6, <1>7, <1>8, <1>9, LibTypeCorrect, PTL
     DEF Spec, Own!Spec

=============================================================================
