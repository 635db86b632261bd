---------------------------- MODULE Transactions ----------------------------
(***************************************************************************)
(* The C API of ensure transactions (lib/kustomer/api.go) with clients     *)
(* that keep a transaction in an object, as the Python and PHP bindings    *)
(* do: begin_ensure saves the product claims it reads under an address, the*)
(* ensure functions look them up there, and end_ensure forgets them and    *)
(* frees the address, which malloc may then give to another client.        *)
(*                                                                         *)
(* The instances that the claims are read from are those of module         *)
(* LibraryClaims.  An object is used by one thread at a time.              *)
(*                                                                         *)
(* As in Kustomer, the form an operator has after a plausible mistake      *)
(* stands before it: operatorCodesSwapped, DurationOfUint, DurationNarrow, *)
(* SharedProductClaims, ErrorIgnored, EndWithoutUnref, KeepPointer.        *)
(***************************************************************************)
EXTENDS Ensured, LibraryClaims

CONSTANTS
  Addresses, \* what malloc may return
  Calls,     \* bound: calls of the ensure functions with their arguments
  Seconds,   \* bound: timeouts that clients ask for
  Second     \* time.Second

\* ensure transactions, the struct of ensured.go
Transaction ==
  [response : Responses, mustBeOnline : BOOLEAN, allowUntrusted : BOOLEAN]

ASSUME TransactionsAssumption ==
  /\ nil \notin Addresses
  /\ nil \notin Transaction
  /\ Second \in Nat \ {0}
  /\ Seconds \subseteq Nat

\* A call is of a type that the API has, and of a form that type has.
ASSUME CallsAssumption ==
  /\ nil \notin Operators
  /\ \A k \in Calls :
       \/ k.type = "ok"
       \/ k.type \in {"bool", "string", "stringArray"} /\ k.form \in {"get", "ensure"}
       \/ k.type \in {"int64", "float64"} /\ k.form \in {"get", "ensure", "op"}

\* What the decoder calls a number is one, and so is what C compares it with.
ASSUME NumbersAssumption ==
  /\ \A r \in Responses : \A p \in DOMAIN r.products :
       \A c \in DOMAIN r.products[p].claims :
         LET v == r.products[p].claims[c] IN v.kind = "number" => v.value \in Int
  /\ \A k \in Calls :
       k.type \in {"int64", "float64"} /\ k.form # "get" => k.value \in Int

VARIABLES
  heap,    \* addresses that malloc has given out
  store,   \* the transactions that go-pointer has saved, by address
  handle,  \* kpc_ptr of each object
  pc,      \* where each client is
  wait,    \* the timeout that instant_ensure was asked for, and the one it uses
  kpc,     \* the transaction that is about to be saved
  begun    \* the transaction each client began, with the flags it set

vars == <<claimsVars, heap, store, handle, pc, wait, kpc, begun>>

NoWait == [asked |-> 0, timeout |-> 0]

Init ==
  /\ ClaimsInit
  /\ heap = {}
  /\ store = <<>>
  /\ handle = [c \in Clients |-> nil]
  /\ pc = [c \in Clients |-> "idle"]
  /\ wait = [c \in Clients |-> NoWait]
  /\ kpc = [c \in Clients |-> nil]
  /\ begun = [c \in Clients |-> nil]

-----------------------------------------------------------------------------
\* The numbers of errors.go: iota is 1 at Unknown, and the second group adds 1.
StatusSuccess == 0
ErrNumeric ==
  [Success |-> StatusSuccess,
   Unknown |-> 257, InvalidProductName |-> 258, AlreadyInitialized |-> 259,
   NotInitialized |-> 260, Timeout |-> 261,
   OnlineFailed |-> 65537, TrustedFailed |-> 65538, ProductNotFound |-> 65539,
   ProductNotLicensed |-> 65540, ClaimNotFound |-> 65541, ValueTypeMismatch |-> 65542,
   ValueMismatch |-> 65543, UnknownOperator |-> 65544, InvalidTransaction |-> 65545]

\* An error of another type, such as that of a context, has no number.
asKnownErrorOrUnknown(err) ==
  IF err \in DOMAIN ErrNumeric THEN ErrNumeric[err] ELSE ErrNumeric.Unknown

\* The enum of the C header, and the array that it indexes.
KUSTOMER_OPERATOR == [GT |-> 1, GE |-> 2, LT |-> 3, LE |-> 4]
operatorCodesSwapped == <<"gt", "lt", "ge", "le">>
operatorCodeArray == <<"gt", "ge", "lt", "le">>
getOperatorFromCode(code) ==
  IF code \in DOMAIN operatorCodeArray THEN operatorCodeArray[code] ELSE nil

\* time.Duration(timeout) * time.Second, in 64 bits with a sign.
Signed(n) == ((n + IntLimit) % (2 * IntLimit)) - IntLimit
DurationOfUint(s) == (s * Second) % (2 * IntLimit)
DurationNarrow(s) == (s * Second) % (IntLimit \div 2)
Duration(s) == Signed(Signed(s) * Second)

-----------------------------------------------------------------------------
(* The wrappers of the ensure functions: the statuses that a call k on a
   transaction t may return. *)

ensure_bool(t, k) ==
  {IF k.form = "get" THEN GetBool(t, k.product, k.claim)
   ELSE EnsureBool(t, k.product, k.claim, k.value)}

ensure_string(t, k) ==
  {IF k.form = "get" THEN GetString(t, k.product, k.claim)
   ELSE EnsureString(t, k.product, k.claim, k.value)}

\* The operator's code is looked at before the claims.
ensure_int64(t, k) ==
  CASE k.form = "get" -> {GetInt64(t, k.product, k.claim)}
    [] k.form = "ensure" -> EnsureInt64(t, k.product, k.claim, k.value)
    [] k.form = "op" ->
         IF getOperatorFromCode(k.code) = nil THEN {"UnknownOperator"}
         ELSE EnsureInt64WithOperator(t, k.product, k.claim, k.value,
                                      getOperatorFromCode(k.code))

ensure_float64(t, k) ==
  {CASE k.form = "get" -> GetFloat64(t, k.product, k.claim)
     [] k.form = "ensure" -> EnsureFloat64(t, k.product, k.claim, k.value)
     [] k.form = "op" ->
          IF getOperatorFromCode(k.code) = nil THEN "UnknownOperator"
          ELSE EnsureFloat64WithOperator(t, k.product, k.claim, k.value,
                                         getOperatorFromCode(k.code))}

ensure_stringArray(t, k) ==
  {IF k.form = "get" THEN GetStringArrayValues(t, k.product, k.claim)
   ELSE EnsureStringArrayValues(t, k.product, k.claim, {k.value})}

Statuses(t, k) ==
  CASE k.type = "ok" -> {EnsureOK(t, k.product)}
    [] k.type = "bool" -> ensure_bool(t, k)
    [] k.type = "string" -> ensure_string(t, k)
    [] k.type = "int64" -> ensure_int64(t, k)
    [] k.type = "float64" -> ensure_float64(t, k)
    [] k.type = "stringArray" -> ensure_stringArray(t, k)

-----------------------------------------------------------------------------
\* pointer.Restore of the client's pointer, nil when it is not known
Restore(c) == IF handle[c] \in DOMAIN store THEN store[handle[c]] ELSE nil

\* What a call of an ensure function returns; it changes nothing.
Reply(c, k) ==
  {asKnownErrorOrUnknown(s) :
     s \in IF Restore(c) = nil THEN {"InvalidTransaction"} ELSE Statuses(Restore(c), k)}

Goto(c, l) == pc' = [pc EXCEPT ![c] = l]

\* One struct for everybody who begins with the same response
SharedProductClaims(k) ==
  LET same == {a \in DOMAIN store : store[a].response = claims[k]}
  IN IF same = {} THEN NewTransaction(claims[k]) ELSE store[CHOOSE a \in same : TRUE]

\* The response that the instance k holds at the moment, in a new struct each time
CurrentKopanoProductClaims(k) == NewTransaction(claims[k])

\* The library's instance is taken; with none the call returns an error.
Begin(c) ==
  /\ pc[c] = "idle" /\ handle[c] = nil
  /\ Take(c)
  /\ Goto(c, "begin")
  /\ UNCHANGED <<heap, store, handle, wait, kpc, begun>>

\* Its claims are read, whether or not it is the library's still.
BeginClaims(c) ==
  /\ pc[c] = "begin"
  /\ kpc' = [kpc EXCEPT ![c] = CurrentKopanoProductClaims(taken[c])]
  /\ LetGo(c)
  /\ Goto(c, "save")
  /\ UNCHANGED <<heap, store, handle, wait, begun>>

\* An instance of its own, and a wait for its claims
InstantEnsure(c, s) ==
  /\ pc[c] = "idle" /\ handle[c] = nil
  /\ TakeOwn(c)
  /\ wait' = [wait EXCEPT ![c] = [asked |-> s, timeout |-> Duration(s)]]
  /\ Goto(c, "wait")
  /\ UNCHANGED <<heap, store, handle, kpc, begun>>

\* WaitUntilReady, of an instance that publishes before it is ready
ErrorIgnored(c) == TRUE
Ready(c) == taken[c] \in ready

InstantReady(c) ==
  /\ pc[c] = "wait"
  /\ Ready(c)
  /\ kpc' = [kpc EXCEPT ![c] = CurrentKopanoProductClaims(taken[c])]
  /\ LetGo(c)
  /\ wait' = [wait EXCEPT ![c] = NoWait]
  /\ Goto(c, "save")
  /\ UNCHANGED <<heap, store, handle, begun>>

\* The timeout, or an instance that does not initialize
InstantFailed(c) ==
  /\ pc[c] = "wait"
  /\ LetGo(c)
  /\ wait' = [wait EXCEPT ![c] = NoWait]
  /\ Goto(c, "idle")
  /\ UNCHANGED <<heap, store, handle, kpc, begun>>

\* pointer.Save: malloc, then the table; the binding keeps the address.
Save(c) ==
  /\ pc[c] = "save"
  /\ \E a \in Addresses \ heap :
       /\ heap' = heap \cup {a}
       /\ store' = [b \in DOMAIN store \cup {a} |-> IF b = a THEN kpc[c] ELSE store[b]]
       /\ handle' = [handle EXCEPT ![c] = a]
  /\ begun' = [begun EXCEPT ![c] = kpc[c]]
  /\ kpc' = [kpc EXCEPT ![c] = nil]
  /\ Goto(c, "idle")
  /\ UNCHANGED <<claimsVars, wait>>

\* kustomer_ensure_set_must_be_online and kustomer_ensure_set_allow_untrusted; t and
\* b are what the transaction is then, and what the client has set then.
SetFlag(c, t, b) ==
  /\ pc[c] = "idle"
  /\ Restore(c) # nil
  /\ store' = [store EXCEPT ![handle[c]] = t]
  /\ begun' = [begun EXCEPT ![c] = b]
  /\ UNCHANGED <<claimsVars, heap, handle, pc, wait, kpc>>

\* kustomer_end_ensure: only a pointer that is known is given back.
EndWithoutUnref(c) == "clear"
AfterRestore(c) == IF Restore(c) = nil THEN "clear" ELSE "unref"

End(c) ==
  /\ pc[c] = "idle"
  /\ Goto(c, AfterRestore(c))
  /\ begun' = [begun EXCEPT ![c] = nil]
  /\ UNCHANGED <<claimsVars, heap, store, handle, wait, kpc>>

\* pointer.Unref: out of the table, then free
Unref(c) ==
  /\ pc[c] = "unref"
  /\ store' = [b \in DOMAIN store \ {handle[c]} |-> store[b]]
  /\ Goto(c, "free")
  /\ UNCHANGED <<claimsVars, heap, handle, wait, kpc, begun>>

Free(c) ==
  /\ pc[c] = "free"
  /\ heap' = heap \ {handle[c]}
  /\ Goto(c, "clear")
  /\ UNCHANGED <<claimsVars, store, handle, wait, kpc, begun>>

\* The binding forgets the pointer whatever end_ensure returned.
KeepPointer(c) == handle[c]
AfterEnd(c) == nil

Clear(c) ==
  /\ pc[c] = "clear"
  /\ handle' = [handle EXCEPT ![c] = AfterEnd(c)]
  /\ Goto(c, "idle")
  /\ UNCHANGED <<claimsVars, heap, store, wait, kpc, begun>>

Client(c) ==
  \/ Begin(c) \/ BeginClaims(c)
  \/ \E s \in Seconds : InstantEnsure(c, s)
  \/ InstantReady(c) \/ InstantFailed(c) \/ Save(c)
  \/ \E flag \in BOOLEAN :
       \/ SetFlag(c, SetMustBeOnline(Restore(c), flag), SetMustBeOnline(begun[c], flag))
       \/ SetFlag(c, SetAllowUntrusted(Restore(c), flag), SetAllowUntrusted(begun[c], flag))
  \/ End(c) \/ Unref(c) \/ Free(c) \/ Clear(c)

Next ==
  \/ Library /\ UNCHANGED <<heap, store, handle, pc, wait, kpc, begun>>
  \/ \E c \in Clients : Client(c)

Spec == Init /\ [][Next]_vars

-----------------------------------------------------------------------------
(* Properties. *)

Open(c) == begun[c] # nil

\* What C holds is a null pointer or an address that malloc gave out, and what is
\* saved is allocated; a timeout is a 64 bit number (api.go:124-182, 203-229).
TransTypeOK ==
  /\ ClaimsTypeOK
  /\ heap \subseteq Addresses
  /\ DOMAIN store \subseteq heap
  /\ handle \in [Clients -> Addresses \cup {nil}]
  /\ pc \in [Clients -> {"idle", "begin", "wait", "save", "unref", "free", "clear"}]
  /\ wait \in [Clients -> [asked : Seconds \cup {0}, timeout : IntMin..IntMax]]
  /\ kpc \in [Clients -> Transaction \cup {nil}]
  /\ begun \in [Clients -> Transaction \cup {nil}]

\* A pointer is valid from begin to end and for its client only: whatever other
\* clients begin and end meanwhile, and however malloc reuses addresses, a client
\* reaches the claims it began with and the flags it set, and nothing once it has
\* ended (api.go:213-229, pykustomer.c:170-192).
OwnTransaction == \A c \in Clients : pc[c] = "idle" => Restore(c) = begun[c]

\* What a client has, seen from outside: what its call has read and not saved yet,
\* and then what its pointer leads to; in the middle of its end, nothing.
Opened(c) ==
  CASE pc[c] = "save" -> kpc[c]
    [] pc[c] \in {"idle", "begin", "wait"} -> Restore(c)
    [] OTHER -> nil

Promise == INSTANCE Sessions WITH opened <- [c \in Clients |-> Opened(c)]

\* The pointers, the table and the reuse of addresses amount to transactions that
\* nobody but their clients begins, changes and ends.  Each has the claims that the
\* instance of its call held when the call read them: the library's of the moment
\* that the call began in, although it may have been replaced since, or the call's
\* own once that has published (api.go:163-229, libkustomer.go:257-268, 301-322,
\* kustomer.go:452-460).
ImplementsSessions == Promise!Spec

\* Nothing leaks and nothing is freed while in use: what is saved and what is
\* allocated is what clients have begun and not ended (api.go:178-223).
Saved == {c \in Clients : Open(c) \/ pc[c] = "unref"}
Allocated == Saved \cup {c \in Clients : pc[c] = "free"}

StoreExact ==
  /\ DOMAIN store = {handle[c] : c \in Saved}
  /\ heap = {handle[c] : c \in Allocated}
  /\ \A c, d \in Allocated : handle[c] = handle[d] => c = d

\* A caller waits as long as it asked to, unless the seconds do not fit a Duration
\* (api.go:124, api.go:203).
TimeoutsKept ==
  \A c \in Clients : pc[c] = "wait" /\ wait[c].asked * Second <= IntMax
    => wait[c].timeout = wait[c].asked * Second

-----------------------------------------------------------------------------
(* What an answer should be, said without the order in which the code looks. *)

\* The reasons to refuse call k on transaction t before its value is compared.
Refusals(t, k) ==
  LET known == k.product \in DOMAIN t.response.products
      product == t.response.products[k.product]
      found == known /\ k.type # "ok" /\ k.claim \in DOMAIN product.claims
      claim == product.claims[k.claim]
      kind == CASE k.type \in {"int64", "float64"} -> "number"
                [] k.type = "stringArray" -> "array"
                [] OTHER -> k.type
      fits == /\ claim.kind = kind
              /\ kind = "array" => \A i \in DOMAIN claim.value : claim.value[i].kind = "string"
      Because(reason, holds) == IF holds THEN {reason} ELSE {}
  IN UNION {
       Because("OnlineFailed", t.mustBeOnline /\ t.response.offline),
       Because("TrustedFailed", ~t.allowUntrusted /\ ~t.response.trusted),
       Because("ProductNotFound", ~known),
       Because("ProductNotLicensed", known /\ ~product.ok),
       Because("ClaimNotFound", known /\ k.type # "ok" /\ ~found),
       Because("ValueTypeMismatch", found /\ ~fits)}

\* The order of the numbers is the order of the checks.
FirstOf(reasons) ==
  CHOOSE s \in reasons : \A r \in reasons : ErrNumeric[s] <= ErrNumeric[r]

BadCode(k) ==
  k.type \in {"int64", "float64"} /\ k.form = "op"
    /\ k.code \notin {KUSTOMER_OPERATOR[o] : o \in DOMAIN KUSTOMER_OPERATOR}

\* A call that is refused is refused for the first reason: no transaction, an
\* operator that does not exist, claims not online or not trusted, product or
\* claim missing, a value of another type (ensured.go:99-129, api.go:408-426).
ErrorOrder ==
  \A c \in Clients, k \in Calls : pc[c] = "idle" =>
    LET refused == IF ~Open(c) THEN {"InvalidTransaction"}
                   ELSE IF BadCode(k) THEN {"UnknownOperator"}
                   ELSE Refusals(begun[c], k)
    IN Reply(c, k) \subseteq
         IF refused = {} THEN {StatusSuccess, ErrNumeric.ValueMismatch}
         ELSE {ErrNumeric[FirstOf(refused)]}

\* i is the number n / Parts without its fraction.
WholePart(i, n) ==
  /\ i * n >= 0
  /\ i * i * Parts * Parts <= n * n
  /\ n * n < (i * i + 2 * (IF i < 0 THEN -i ELSE i) + 1) * Parts * Parts

\* Whether claim value tv satisfies what k asks of it, by the names of the enum
Satisfies(tv, k) ==
  IF k.form = "op"
    THEN \/ k.code = KUSTOMER_OPERATOR.GT /\ tv > k.value
         \/ k.code = KUSTOMER_OPERATOR.GE /\ ~(tv < k.value)
         \/ k.code = KUSTOMER_OPERATOR.LT /\ ~(tv >= k.value)
         \/ k.code = KUSTOMER_OPERATOR.LE /\ ~(tv > k.value)
    ELSE tv = k.value

\* A call that is not refused succeeds exactly if the claim is licensed and its
\* value is what the caller asks for, the value without its fraction when the
\* caller asks for an integer that can hold it (ensured.go:164-382, api.go:16-22).
SuccessIsEarned ==
  \A c \in Clients, k \in Calls : pc[c] = "idle" /\ Open(c) =>
    LET tv == Value(begun[c], k.product, k.claim).value
        Earned ==
          IF k.type = "ok" \/ k.form = "get" THEN TRUE
          ELSE CASE k.type = "stringArray" -> \E i \in DOMAIN tv : tv[i].value = k.value
                 [] k.type = "int64" ->
                      \E i \in IntMin..IntMax : WholePart(i, tv) /\ Satisfies(i, k)
                 [] OTHER -> Satisfies(tv, k)
        Representable ==
          k.type = "int64" => \E i \in IntMin..IntMax : WholePart(i, tv)
    IN IF BadCode(k) \/ Refusals(begun[c], k) # {} THEN StatusSuccess \notin Reply(c, k)
       ELSE Representable =>
              IF Earned THEN Reply(c, k) = {StatusSuccess} ELSE StatusSuccess \notin Reply(c, k)

=============================================================================
