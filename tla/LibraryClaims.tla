---------------------------- MODULE LibraryClaims ----------------------------
(***************************************************************************)
(* The product claims that a call of the library reads (libkustomer.go).   *)
(* A call first takes an instance: that of the library, under the          *)
(* library's mutex, or one that it has made for itself.  It reads the      *)
(* claims of the instance later, under the mutex of the instance; in       *)
(* between the instance may publish, and the library may be uninitialized  *)
(* and initialized with another one.                                       *)
(*                                                                         *)
(* An instance is forgotten, and its name free again, as soon as neither   *)
(* the library nor a call has it: what it still does, nobody reads.  Why a *)
(* publication comes is left to module Kustomer.                           *)
(***************************************************************************)
CONSTANTS
  Clients,   \* users of the API, one thread each
  Instances, \* bound: instances that somebody has at the same time
  Responses, \* bound: responses of the daemon
  NewClaims, \* the response that New starts with
  nil        \* the null pointer: no instance, no response, no transaction

ASSUME ClaimsAssumption ==
  /\ nil \notin Instances
  /\ nil \notin Responses
  /\ NewClaims \in Responses

VARIABLES
  instance, \* the library's instance, or nil
  claims,   \* the response that each instance holds, nil for one that is not made
  auto,     \* the instances that refresh their claims
  own,      \* the instances that calls have made for themselves
  ready,    \* the instances that have published
  taken     \* the instance that the call of each client has, or nil

claimsVars == <<instance, claims, auto, own, ready, taken>>

ClaimsInit ==
  /\ instance = nil
  /\ claims = [k \in Instances |-> nil]
  /\ auto = {} /\ own = {} /\ ready = {}
  /\ taken = [c \in Clients |-> nil]

\* The instances that somebody has
Held == {k \in Instances : k = instance \/ \E c \in Clients : taken[c] = k}

Forget ==
  /\ claims' = [k \in Instances |-> IF k \in Held' THEN claims[k] ELSE nil]
  /\ auto' = auto \cap Held'
  /\ own' = own \cap Held'
  /\ ready' = ready \cap Held'

New(k) ==
  /\ claims[k] = nil
  /\ claims' = [claims EXCEPT ![k] = NewClaims]
  /\ UNCHANGED ready

Initialize ==
  /\ instance = nil
  /\ \E k \in Instances :
       /\ New(k)
       /\ instance' = k
       /\ auto' \in {auto, auto \cup {k}}
  /\ UNCHANGED <<own, taken>>

Uninitialize ==
  /\ instance # nil
  /\ instance' = nil
  /\ UNCHANGED taken
  /\ Forget

\* Without auto refresh an instance publishes once.
Publish(k) ==
  /\ claims[k] # nil
  /\ k \in auto \/ k \notin ready
  /\ \E r \in Responses : claims' = [claims EXCEPT ![k] = r]
  /\ ready' = ready \cup {k}
  /\ UNCHANGED <<instance, auto, own, taken>>

\* k := instance, of CurrentKopanoProductClaims
Take(c) ==
  /\ taken[c] = nil
  /\ instance # nil
  /\ taken' = [taken EXCEPT ![c] = instance]
  /\ UNCHANGED <<instance, claims, auto, own, ready>>

\* New and Initialize, of InstantEnsure
TakeOwn(c) ==
  /\ taken[c] = nil
  /\ \E k \in Instances :
       /\ New(k)
       /\ own' = own \cup {k}
       /\ taken' = [taken EXCEPT ![c] = k]
  /\ UNCHANGED <<instance, auto>>

\* The call is done with its instance.
LetGo(c) ==
  /\ taken' = [taken EXCEPT ![c] = nil]
  /\ UNCHANGED instance
  /\ Forget

\* What the library does while calls are under way
Library == Initialize \/ Uninitialize \/ \E k \in Instances : Publish(k)

\* Every variable has its type; an instance has claims as long as somebody has it.
ClaimsTypeOK ==
  /\ instance \in Instances \cup {nil}
  /\ claims \in [Instances -> Responses \cup {nil}]
  /\ taken \in [Clients -> Instances \cup {nil}]
  /\ \A k \in Instances : claims[k] # nil <=> k \in Held
  /\ auto \subseteq Held /\ own \subseteq Held /\ ready \subseteq Held

=============================================================================
