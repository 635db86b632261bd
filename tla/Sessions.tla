------------------------------ MODULE Sessions ------------------------------
(***************************************************************************)
(* What the C API promises a client about its transactions, without        *)
(* pointers, tables and malloc: a client has at most one transaction; it   *)
(* opens with the claims that an instance holds at a moment of the call,   *)
(* be it the instance that was the library's at an earlier moment of the   *)
(* call, or one of its own after that has published; only the flags that   *)
(* the client itself sets change it, whatever becomes of the instance; and *)
(* it is gone when the client ends it.  Module Transactions implements it. *)
(***************************************************************************)
EXTENDS LibraryClaims

VARIABLE opened \* the transaction of each client, or nil

vars == <<claimsVars, opened>>

Init ==
  /\ ClaimsInit
  /\ opened = [c \in Clients |-> nil]

\* Claims of response r, as they are, with the flags unset
Fresh(r) == [response |-> r, mustBeOnline |-> FALSE, allowUntrusted |-> FALSE]

\* begin_ensure
BeginEnsure(c) ==
  /\ opened[c] = nil
  /\ Take(c)
  /\ UNCHANGED opened

\* instant_ensure
InstantEnsure(c) ==
  /\ opened[c] = nil
  /\ TakeOwn(c)
  /\ UNCHANGED opened

\* Either call reads the claims of the instance that it has, and of no other.
Give(c) ==
  /\ taken[c] # nil
  /\ taken[c] \in own => taken[c] \in ready
  /\ opened' = [opened EXCEPT ![c] = Fresh(claims[taken[c]])]
  /\ LetGo(c)

\* Only instant_ensure waits, and so may give up.
Fail(c) ==
  /\ taken[c] \in own
  /\ LetGo(c)
  /\ UNCHANGED opened

\* ensure_set_must_be_online, ensure_set_allow_untrusted
SetFlag(c) ==
  /\ opened[c] # nil
  /\ \E flag \in BOOLEAN :
       \/ opened' = [opened EXCEPT ![c] = [@ EXCEPT !.mustBeOnline = flag]]
       \/ opened' = [opened EXCEPT ![c] = [@ EXCEPT !.allowUntrusted = flag]]
  /\ UNCHANGED claimsVars

\* end_ensure
End(c) ==
  /\ taken[c] = nil
  /\ opened' = [opened EXCEPT ![c] = nil]
  /\ UNCHANGED claimsVars

Next ==
  \/ Library /\ UNCHANGED opened
  \/ \E c \in Clients :
       BeginEnsure(c) \/ InstantEnsure(c) \/ Give(c) \/ Fail(c) \/ SetFlag(c) \/ End(c)

Spec == Init /\ [][Next]_vars

=============================================================================
