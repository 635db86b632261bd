----------------------------- MODULE LibKustomer -----------------------------
(***************************************************************************)
(* The library state (libkustomer.go): one global instance at a time, the  *)
(* calls that wait for it, and the callbacks that are told of its updates. *)
(*                                                                         *)
(* Initialize and InstantEnsure make a new instance each; what an instance *)
(* does by itself is what module Instance promises, for one generation:    *)
(* it publishes claims, once or repeatedly with auto refresh, and signals  *)
(* that it is ready after the first time.  Claims are abstracted to the    *)
(* number of times they were published, which also numbers the channel in  *)
(* k.updated.                                                              *)
(*                                                                         *)
(* SetNotifyWhenUpdated makes a registration: a context, a channel, a      *)
(* producer goroutine that runs NotifyWhenUpdated and a consumer goroutine *)
(* that runs the callbacks.  A Go panic ends the process; the kinds that   *)
(* can happen here are values of `crashed`.                                *)
(*                                                                         *)
(* As in Kustomer, the form an operator has after a plausible mistake      *)
(* stands before it: WaitForAny, TimerOnly, KeepInstance,                  *)
(* InstantIgnoresError, NeverLookAgain, IgnoreContext, DropEvent, SlotLeft.*)
(***************************************************************************)
EXTENDS Naturals, FiniteSets

CONSTANTS
  MaxInstances,     \* bound: instances made
  MaxPublish,       \* bound: publications of an instance
  MaxRegistrations, \* bound: successful calls of SetNotifyWhenUpdated
  EventCap,         \* capacity of eventCh, 4 in the code
  Callers           \* threads that call WaitUntilReady or InstantEnsure

ASSUME LibAssumption ==
  /\ MaxInstances \in Nat
  /\ MaxPublish \in Nat
  /\ MaxRegistrations \in Nat
  /\ EventCap \in Nat

Instances == 1..MaxInstances
Registrations == 1..MaxRegistrations

VARIABLES
  instance,     \* the global instance, 0 is nil
  notifyCancel, \* registration whose cancel function is in initializedNotifyCancel
  made,         \* number of instances made so far
  auto,         \* auto[k]: k refreshes its claims
  dropped,      \* instances whose Initialize has failed, that nobody has
  initialized,  \* initialized[k]
  ctxDone,      \* ctxDone[k]: the contexts bound to the initialization are done
  published,    \* published[k]: how often k has published claims
  ready,        \* ready[k]: the ready channel of k is closed
  registered,   \* number of registrations so far
  source,       \* source[r]: the instance whose updates r is told of
  cancelled,    \* cancelled[r]: notifyCtx was cancelled
  unsetting,    \* registrations that UnsetNotifyWhenUpdated is about to cancel
  producer,     \* program counter of the producer of r
  watched,      \* the channel number that the producer has read from k.updated
  eventCh,      \* eventCh[r]: events in the channel
  consumer,     \* program counter of the consumer of r
  view,         \* view[r]: the claims that updateCb has last seen
  updates,      \* updates[r]: publications before r, and calls of updateCb
  call,         \* call[c]: where the call of caller c is
  target,       \* target[c]: the instance that the call of c uses, 0 outside of calls
  crashed       \* why the process has ended

globals == <<instance, notifyCancel>>
insts == <<made, auto, dropped, initialized, ctxDone, published, ready>>
notify == <<registered, source, cancelled, unsetting, producer, watched,
            eventCh, consumer, view, updates>>
calls == <<call, target>>
vars == <<globals, insts, notify, calls, crashed>>

Init ==
  /\ instance = 0
  /\ notifyCancel = 0
  /\ made = 0
  /\ auto = [k \in Instances |-> FALSE]
  /\ dropped = {}
  /\ initialized = [k \in Instances |-> FALSE]
  /\ ctxDone = [k \in Instances |-> FALSE]
  /\ published = [k \in Instances |-> 0]
  /\ ready = [k \in Instances |-> FALSE]
  /\ registered = 0
  /\ source = [r \in Registrations |-> 0]
  /\ cancelled = [r \in Registrations |-> FALSE]
  /\ unsetting = {}
  /\ producer = [r \in Registrations |-> "none"]
  /\ watched = [r \in Registrations |-> 0]
  /\ eventCh = [r \in Registrations |-> 0]
  /\ consumer = [r \in Registrations |-> "none"]
  /\ view = [r \in Registrations |-> 0]
  /\ updates = [r \in Registrations |-> 0]
  /\ call = [c \in Callers |-> "idle"]
  /\ target = [c \in Callers |-> 0]
  /\ crashed = "no"

-----------------------------------------------------------------------------
(* Instances. *)

\* New, and what Initialize of the instance does first.
NewInstance(refresh) ==
  /\ made < MaxInstances
  /\ made' = made + 1
  /\ auto' = [auto EXCEPT ![made + 1] = refresh]
  /\ initialized' = [initialized EXCEPT ![made + 1] = TRUE]
  /\ UNCHANGED <<ctxDone, published, ready>>

\* k.Uninitialize, with the contexts that hang on it: the library cancels its own
\* right after the instance has cancelled that of its goroutines, under one lock.
Shutdown(k) ==
  /\ initialized' = [initialized EXCEPT ![k] = FALSE]
  /\ ctxDone' = [ctxDone EXCEPT ![k] = TRUE]
  /\ UNCHANGED <<made, auto, dropped, published, ready>>

\* The context that the caller of Initialize has given is cancelled.
ParentCancel(k) ==
  /\ initialized[k]
  /\ ctxDone' = [ctxDone EXCEPT ![k] = TRUE]
  /\ UNCHANGED <<globals, made, auto, dropped, initialized, published, ready, notify,
                 calls, crashed>>

\* An instance that was dropped has no goroutines.
Publish(k) ==
  /\ k <= made /\ k \notin dropped
  /\ auto[k] \/ published[k] = 0
  /\ published[k] < MaxPublish
  /\ published' = [published EXCEPT ![k] = @ + 1]
  /\ UNCHANGED <<globals, made, auto, dropped, initialized, ctxDone, ready, notify,
                 calls, crashed>>

SignalReady(k) ==
  /\ published[k] > 0
  /\ ~ready[k]
  /\ ready' = [ready EXCEPT ![k] = TRUE]
  /\ UNCHANGED <<globals, made, auto, dropped, initialized, ctxDone, published, notify,
                 calls, crashed>>

-----------------------------------------------------------------------------
(* The global state. *)

\* SetAutoRefresh is refused while there is an instance: Initialize reads what was
\* set before, either value.
Initialize ==
  /\ instance = 0
  /\ \E refresh \in BOOLEAN : NewInstance(refresh)
  /\ instance' = made + 1
  /\ UNCHANGED <<notifyCancel, dropped, notify, calls, crashed>>

\* filepath.Abs fails in the instance's Initialize, for the library's Initialize or
\* for InstantEnsure: either returns at once and forgets an instance that counts as
\* initialized, whose context ends with that of the caller only.
InitializeError ==
  /\ \E refresh \in BOOLEAN :
       /\ instance = 0 \/ (~refresh /\ \E c \in Callers : call[c] = "idle")
       /\ NewInstance(refresh)
  /\ dropped' = dropped \cup {made + 1}
  /\ UNCHANGED <<globals, notify, calls, crashed>>

Uninitialize ==
  /\ instance # 0
  /\ Shutdown(instance)
  /\ instance' = 0
  /\ UNCHANGED <<notifyCancel, notify, calls, crashed>>

-----------------------------------------------------------------------------
(* WaitUntilReady and InstantEnsure. *)

Return(c) ==
  /\ call' = [call EXCEPT ![c] = "idle"]
  /\ target' = [target EXCEPT ![c] = 0]

Goto(c, step) == call' = [call EXCEPT ![c] = step] /\ UNCHANGED target

WaitForAny == TRUE
HasInstance == instance # 0

\* The library's WaitUntilReady takes the instance under its own mutex; with none
\* it returns at once, and nothing has happened.
WaitUntilReady(c) ==
  /\ call[c] = "idle"
  /\ HasInstance
  /\ call' = [call EXCEPT ![c] = "look"]
  /\ target' = [target EXCEPT ![c] = instance]
  /\ UNCHANGED <<globals, insts, notify, crashed>>

\* The instance's WaitUntilReady looks at it later, under the instance's mutex.
WaitLook(c) ==
  /\ call[c] = "look"
  /\ IF initialized[target[c]] THEN Goto(c, "wait") ELSE Return(c)
  /\ UNCHANGED <<globals, insts, notify, crashed>>

\* The select; whatever of it is possible may happen, and the timer at any time.
TimerOnly(k) == FALSE
WaitCancelled(k) == ctxDone[k]

WaitDone(c) ==
  /\ call[c] = "wait"
  /\ \/ ready[target[c]] /\ Goto(c, "ready")
     \/ WaitCancelled(target[c]) /\ Return(c)
  /\ UNCHANGED <<globals, insts, notify, crashed>>

WaitTimeout(c) ==
  /\ call[c] = "wait"
  /\ Return(c)
  /\ UNCHANGED <<globals, insts, notify, crashed>>

\* WaitUntilReady returns without an error.
WaitReturn(c) ==
  /\ call[c] = "ready"
  /\ Return(c)
  /\ UNCHANGED <<globals, insts, notify, crashed>>

InstantEnsure(c) ==
  /\ call[c] = "idle"
  /\ NewInstance(FALSE)
  /\ call' = [call EXCEPT ![c] = "instant"]
  /\ target' = [target EXCEPT ![c] = made + 1]
  /\ UNCHANGED <<globals, dropped, notify, crashed>>

\* The deferred Uninitialize runs on each return.  InstantReady's claims are read
\* before it.
KeepInstance(k) == UNCHANGED insts
Release(k) == Shutdown(k)

InstantReady(c) ==
  /\ call[c] = "instant"
  /\ ready[target[c]]
  /\ Goto(c, "claims")
  /\ UNCHANGED <<globals, insts, notify, crashed>>

\* InstantEnsure returns the claims.
InstantClaims(c) ==
  /\ call[c] = "claims"
  /\ Return(c)
  /\ Release(target[c])
  /\ UNCHANGED <<globals, notify, crashed>>

InstantIgnoresError(c) == Goto(c, "claims") /\ UNCHANGED insts
InstantError(c) == Return(c) /\ Release(target[c])

\* The timeout, or the context of the call: both may be done at any time.
InstantFailed(c) ==
  /\ call[c] = "instant"
  /\ InstantError(c)
  /\ UNCHANGED <<globals, notify, crashed>>

-----------------------------------------------------------------------------
(* Callbacks. *)

\* notifyCtx is a child of the library's context.
NotifyDone(r) == cancelled[r] \/ ctxDone[source[r]]

SetNotifyWhenUpdated ==
  /\ notifyCancel = 0
  /\ IF instance = 0
       THEN \* context.WithCancel(nil), before the check for an instance
            /\ crashed' = "nil context"
            /\ UNCHANGED <<globals, notify>>
       ELSE LET r == registered + 1 IN
            /\ registered < MaxRegistrations
            /\ registered' = r
            /\ notifyCancel' = r
            /\ source' = [source EXCEPT ![r] = instance]
            /\ updates' = [updates EXCEPT ![r] = published[instance]]
            /\ producer' = [producer EXCEPT ![r] = "top"]
            /\ consumer' = [consumer EXCEPT ![r] = "select"]
            /\ UNCHANGED <<instance, cancelled, unsetting, watched,
                           eventCh, view, crashed>>
  /\ UNCHANGED <<insts, calls>>

\* The slot is free before the registration is cancelled.
UnsetNotifyWhenUpdated ==
  /\ notifyCancel # 0
  /\ unsetting' = unsetting \cup {notifyCancel}
  /\ notifyCancel' = 0
  /\ UNCHANGED <<instance, insts, registered, source, cancelled, producer,
                 watched, eventCh, consumer, view, updates, calls, crashed>>

UnsetCancel(r) ==
  /\ r \in unsetting
  /\ unsetting' = unsetting \ {r}
  /\ cancelled' = [cancelled EXCEPT ![r] = TRUE]
  /\ UNCHANGED <<globals, insts, registered, source, producer, watched, eventCh,
                 consumer, view, updates, calls, crashed>>

\* NotifyWhenUpdated: k.updated is read at the top of the loop only.  The client
\* is taken to know the claims of the moment at which the producer looks first.
NeverLookAgain(r) == IF watched[r] = 0 THEN published[source[r]] + 1 ELSE watched[r]
UpdatedChannel(r) == published[source[r]] + 1

NotifyTop(r) ==
  /\ producer[r] = "top"
  /\ IF initialized[source[r]]
       THEN /\ producer' = [producer EXCEPT ![r] = "select"]
            /\ watched' = [watched EXCEPT ![r] = UpdatedChannel(r)]
            /\ view' = [view EXCEPT ![r] = IF watched[r] = 0 THEN published[source[r]] ELSE @]
       ELSE /\ producer' = [producer EXCEPT ![r] = "cleanup"]
            /\ watched' = [watched EXCEPT ![r] = 0]
            /\ UNCHANGED view
  /\ UNCHANGED <<globals, insts, registered, source, cancelled, unsetting, eventCh,
                 consumer, updates, calls, crashed>>

\* The channel that the producer waits on was closed by a publication.
Updated(r) == watched[r] <= published[source[r]]

IgnoreContext(r) == FALSE
NotifyEnds(r) == NotifyDone(r)

DropEvent == "top"
AfterUpdate == "send"

NotifySelect(r) ==
  /\ producer[r] = "select"
  /\ \/ /\ Updated(r)
        /\ producer' = [producer EXCEPT ![r] = AfterUpdate]
        /\ UNCHANGED watched
     \/ /\ NotifyEnds(r)
        /\ producer' = [producer EXCEPT ![r] = "cleanup"]
        /\ watched' = [watched EXCEPT ![r] = 0]
  /\ UNCHANGED <<globals, insts, registered, source, cancelled, unsetting,
                 eventCh, consumer, view, updates, calls, crashed>>

\* The consumer closes the channel when it ends.
Closed(r) == consumer[r] = "done"

\* eventCh <- true, outside of any select
NotifySend(r) ==
  /\ producer[r] = "send"
  /\ IF Closed(r)
       THEN crashed' = "send on closed channel" /\ UNCHANGED <<producer, eventCh>>
       ELSE /\ eventCh[r] < EventCap
            /\ eventCh' = [eventCh EXCEPT ![r] = @ + 1]
            /\ producer' = [producer EXCEPT ![r] = "top"]
            /\ UNCHANGED crashed
  /\ UNCHANGED <<globals, insts, registered, source, cancelled, unsetting, watched,
                 consumer, view, updates, calls>>

\* The slot is cleared, whoever is in it; the deferred cancel comes last.
SlotLeft == notifyCancel
SlotCleared == 0

NotifyCleanup(r) ==
  /\ producer[r] = "cleanup"
  /\ notifyCancel' = SlotCleared
  /\ producer' = [producer EXCEPT ![r] = "cancel"]
  /\ UNCHANGED <<instance, insts, registered, source, cancelled, unsetting,
                 watched, eventCh, consumer, view, updates, calls, crashed>>

NotifyCancel(r) ==
  /\ producer[r] = "cancel"
  /\ cancelled' = [cancelled EXCEPT ![r] = TRUE]
  /\ producer' = [producer EXCEPT ![r] = "done"]
  /\ UNCHANGED <<globals, insts, registered, source, unsetting, watched, eventCh,
                 consumer, view, updates, calls, crashed>>

Producer(r) ==
  NotifyTop(r) \/ NotifySelect(r) \/ NotifySend(r) \/ NotifyCleanup(r) \/ NotifyCancel(r)

ConsumerReceive(r) ==
  /\ consumer[r] = "select"
  /\ eventCh[r] > 0
  /\ eventCh' = [eventCh EXCEPT ![r] = @ - 1]
  /\ consumer' = [consumer EXCEPT ![r] = "update"]
  /\ UNCHANGED <<globals, insts, registered, source, cancelled, unsetting, producer,
                 watched, view, updates, calls, crashed>>

\* updateCb, which looks at the claims
UpdateCb(r) ==
  /\ consumer[r] = "update"
  /\ view' = [view EXCEPT ![r] = published[source[r]]]
  /\ updates' = [updates EXCEPT ![r] = @ + 1]
  /\ consumer' = [consumer EXCEPT ![r] = "select"]
  /\ UNCHANGED <<globals, insts, registered, source, cancelled, unsetting, producer,
                 watched, eventCh, calls, crashed>>

\* close(eventCh), then exitCb; nobody asks for what is left in the channel or
\* what the callback has seen.
ConsumerExit(r) ==
  /\ consumer[r] = "select"
  /\ NotifyDone(r)
  /\ consumer' = [consumer EXCEPT ![r] = "done"]
  /\ eventCh' = [eventCh EXCEPT ![r] = 0]
  /\ view' = [view EXCEPT ![r] = 0]
  /\ updates' = [updates EXCEPT ![r] = 0]
  /\ UNCHANGED <<globals, insts, registered, source, cancelled, unsetting, producer,
                 watched, calls, crashed>>

Consumer(r) == ConsumerReceive(r) \/ UpdateCb(r) \/ ConsumerExit(r)

-----------------------------------------------------------------------------
Global ==
  \/ Initialize \/ InitializeError \/ Uninitialize
  \/ SetNotifyWhenUpdated \/ UnsetNotifyWhenUpdated

Instance(k) == ParentCancel(k) \/ Publish(k) \/ SignalReady(k)

Wait(c) == WaitLook(c) \/ WaitDone(c) \/ WaitReturn(c)

Caller(c) ==
  \/ WaitUntilReady(c) \/ Wait(c) \/ WaitTimeout(c)
  \/ InstantEnsure(c) \/ InstantReady(c) \/ InstantClaims(c) \/ InstantFailed(c)

Next ==
  /\ crashed = "no"
  /\ \/ Global
     \/ \E k \in Instances : Instance(k)
     \/ \E c \in Callers : Caller(c)
     \/ \E r \in Registrations : UnsetCancel(r) \/ Producer(r) \/ Consumer(r)

Spec == Init /\ [][Next]_vars

\* Goroutines and calls that can go on do so; timers, publications and what
\* programs call are under no obligation.
Fairness ==
  /\ \A r \in Registrations :
       /\ WF_vars(crashed = "no" /\ Producer(r))
       /\ WF_vars(crashed = "no" /\ Consumer(r))
  /\ \A c \in Callers : WF_vars(crashed = "no" /\ Wait(c))

FairSpec == Spec /\ Fairness

-----------------------------------------------------------------------------
(* Properties. *)

InstTypeOK ==
  /\ made \in 0..MaxInstances
  /\ auto \in [Instances -> BOOLEAN]
  /\ dropped \subseteq 1..made
  /\ initialized \in [Instances -> BOOLEAN]
  /\ ctxDone \in [Instances -> BOOLEAN]
  /\ published \in [Instances -> Nat]
  /\ ready \in [Instances -> BOOLEAN]

GlobalTypeOK ==
  /\ instance \in 0..made
  /\ notifyCancel \in 0..registered

ContextTypeOK ==
  /\ registered \in 0..MaxRegistrations
  /\ source \in [Registrations -> 0..MaxInstances]
  /\ \A r \in 1..registered : source[r] \in 1..made
  /\ cancelled \in [Registrations -> BOOLEAN]
  /\ unsetting \subseteq 1..registered

ProducerStates == {"none", "top", "select", "send", "cleanup", "cancel", "done"}
ConsumerStates == {"none", "select", "update", "done"}

NotifyTypeOK ==
  /\ producer \in [Registrations -> ProducerStates]
  /\ watched \in [Registrations -> Nat]
  /\ eventCh \in [Registrations -> 0..EventCap]
  /\ consumer \in [Registrations -> ConsumerStates]
  /\ view \in [Registrations -> Nat]
  /\ updates \in [Registrations -> Nat]

CallStates == {"idle", "look", "wait", "ready", "instant", "claims"}

CallTypeOK ==
  /\ call \in [Callers -> CallStates]
  /\ target \in [Callers -> Nat]
  /\ \A c \in Callers : target[c] <= made /\ (call[c] # "idle" => target[c] # 0)
  /\ crashed \in {"no", "nil context", "send on closed channel"}

\* A registration has its goroutines from the start, and what has none is not one.
StartedOK ==
  \A r \in Registrations :
    IF r <= registered THEN producer[r] # "none" /\ consumer[r] # "none"
    ELSE producer[r] = "none" /\ consumer[r] = "none" /\ eventCh[r] = 0

\* Every variable has its type, and every goroutine and call its instance
\* (libkustomer.go:26-42, 180-391).
LibTypeOK ==
  InstTypeOK /\ GlobalTypeOK /\ ContextTypeOK /\ NotifyTypeOK /\ StartedOK /\ CallTypeOK

\* The goroutines of k may run: it is initialized, and its Initialize got as far as
\* to start them.
Runs(k) == initialized[k] /\ k \notin dropped

\* No instance is left running that nobody can stop: one whose goroutines may run is
\* the global one, which always is such an instance, or belongs to a call of
\* InstantEnsure that has not returned.  One that Initialize gave up stays
\* initialized and is nobody's, but starts no goroutine and leaves no more behind
\* than a context, which ends with its parent (libkustomer.go:160-208, 301-308,
\* kustomer.go:118-133).
InstancesOwned ==
  /\ instance # 0 => Runs(instance)
  /\ \A k \in Instances : Runs(k) =>
       \/ k = instance
       \/ \E c \in Callers : call[c] \in {"instant", "claims"} /\ target[c] = k

\* A nil error of WaitUntilReady and the claims of InstantEnsure stand for fetched
\* claims, never for the empty ones a new instance has, also when the wait was
\* cancelled or timed out meanwhile (libkustomer.go:227, 310-321).
ResultsHaveClaims ==
  \A c \in Callers : call[c] \in {"ready", "claims"} => published[target[c]] > 0

\* The slot for the callback is never left with a registration that has ended, in
\* which nobody could register again (libkustomer.go:352-363).
SlotNotStale ==
  notifyCancel # 0 => producer[notifyCancel] \in {"top", "select", "send", "cleanup"}

One(holds) == IF holds THEN 1 ELSE 0

\* Every event, sent or yet to be sent, stands for a publication of its own since
\* the callback was registered (kustomer.go:357-374).
EventsBacked ==
  \A r \in 1..registered :
    updates[r] + One(consumer[r] = "update") + eventCh[r] + One(producer[r] = "send")
      <= published[source[r]]

\* A registration that was unset, or whose library was uninitialized, ends: both
\* of its goroutines, and exitCb is called (libkustomer.go:330-334).
NotifyEnded ==
  \A r \in Registrations :
    (consumer[r] # "none" /\ NotifyDone(r))
      ~> ((producer[r] = "done" /\ consumer[r] = "done") \/ crashed # "no")

\* WaitUntilReady "also stops when the global library state is uninitialized"
\* (libkustomer.go:210-211), without the help of its timeout.
WaitStops ==
  \A c \in Callers :
    (call[c] \in {"look", "wait"} /\ ctxDone[target[c]])
      ~> (call[c] = "idle" \/ crashed # "no")

\* A publication that the producer was waiting for reaches updateCb, unless the
\* registration ends (kustomer.go:367-369, libkustomer.go:372-375).
UpdateReachesCallback ==
  \A r \in Registrations, n \in 1..MaxPublish :
    (watched[r] = n /\ consumer[r] # "none" /\ published[source[r]] >= n)
      ~> (view[r] >= n \/ (consumer[r] # "none" /\ NotifyDone(r)) \/ crashed # "no")

\* "The lifetime of all resources created by this function [...] can be unset by
\* using the UnsetNotifyWhenUpdated function" (libkustomer.go:332-334): a
\* registration that nothing has ended yet is the one in the slot, where
\* UnsetNotifyWhenUpdated finds it.
CanBeUnset ==
  \A r \in 1..registered :
    ~NotifyDone(r) /\ r \notin unsetting => notifyCancel = r

\* A registration "can be unset by using the UnsetNotifyWhenUpdated function"
\* (libkustomer.go:332-334): while no other context is done, which leaves
\* UnsetNotifyWhenUpdated alone to end one, the process does not end by a send on
\* the channel that the consumer has closed.
UnsetDoesNotPanic ==
  (\A k \in Instances : ~ctxDone[k]) => crashed # "send on closed channel"

=============================================================================
