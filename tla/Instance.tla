------------------------------ MODULE Instance ------------------------------
(***************************************************************************)
(* What a Kustomer instance promises its callers, without the goroutines,  *)
(* requests and failures behind it: calls of Initialize and Uninitialize   *)
(* delimit generations; each generation publishes product claims, never an *)
(* older version after a newer one of its own, and exactly once when       *)
(* claims are not refreshed; it announces that it is ready, once, after it *)
(* has published; and claims never change without waking whoever waits for *)
(* k.updated.  Module Kustomer implements it.                              *)
(***************************************************************************)
EXTENDS Naturals

CONSTANTS
  MaxInit,   \* bound: calls of Initialize
  MaxVersion \* bound: versions of the claims

Gens == 1..MaxInit
Versions == 1..MaxVersion

VARIABLES
  autoRefresh, \* k.autoRefresh
  initialized, \* k.initialized
  gen,         \* the generation the instance is in
  kpc,         \* k.currentKopanoProductClaims: version, and who fetched it
  updated,     \* number of the channel that k.updated holds
  ctxDone,     \* ctxDone[g]: the context of g is cancelled
  readyClosed, \* readyClosed[g]: g has announced that it is ready
  fetched      \* generations that have published claims

vars == <<autoRefresh, initialized, gen, kpc, updated, ctxDone, readyClosed, fetched>>

Init ==
  /\ autoRefresh \in BOOLEAN
  /\ initialized = FALSE
  /\ gen = 0
  /\ kpc = [gen |-> 0, version |-> 0]
  /\ updated = 0
  /\ ctxDone = [g \in Gens |-> FALSE]
  /\ readyClosed = [g \in Gens |-> FALSE]
  /\ fetched = {}

Initialize ==
  /\ ~initialized
  /\ gen < MaxInit
  /\ initialized' = TRUE
  /\ gen' = gen + 1
  /\ UNCHANGED <<autoRefresh, kpc, updated, ctxDone, readyClosed, fetched>>

Uninitialize ==
  /\ initialized
  /\ initialized' = FALSE
  /\ ctxDone' = [ctxDone EXCEPT ![gen] = TRUE]
  /\ UNCHANGED <<autoRefresh, gen, kpc, updated, readyClosed, fetched>>

Cancel ==
  /\ initialized
  /\ ctxDone' = [ctxDone EXCEPT ![gen] = TRUE]
  /\ UNCHANGED <<autoRefresh, initialized, gen, kpc, updated, readyClosed, fetched>>

Publish(g) ==
  /\ g <= gen
  /\ autoRefresh \/ g \notin fetched
  /\ \E v \in Versions :
       /\ kpc.gen = g => kpc.version <= v
       /\ kpc' = [gen |-> g, version |-> v]
  /\ updated' = updated + 1
  /\ fetched' = fetched \cup {g}
  /\ UNCHANGED <<autoRefresh, initialized, gen, ctxDone, readyClosed>>

SignalReady(g) ==
  /\ g \in fetched
  /\ ~readyClosed[g]
  /\ readyClosed' = [readyClosed EXCEPT ![g] = TRUE]
  /\ UNCHANGED <<autoRefresh, initialized, gen, kpc, updated, ctxDone, fetched>>

Next ==
  \/ Initialize
  \/ Uninitialize
  \/ Cancel
  \/ \E g \in Gens : Publish(g) \/ SignalReady(g)

Spec == Init /\ [][Next]_vars

=============================================================================
