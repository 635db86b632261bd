--------------------------- MODULE MCTransactions ---------------------------
(***************************************************************************)
(* Two clients, three instances, responses that differ in what the checks  *)
(* look at, one product with a claim of every type, and calls that meet    *)
(* them.                                                                   *)
(***************************************************************************)
EXTENDS Transactions, TLC

CONSTANTS true, false, kopano, mail \* booleans and strings, as model values

Claims ==
  [flag |-> [kind |-> "bool", value |-> true],
   name |-> [kind |-> "string", value |-> kopano],
   half |-> [kind |-> "number", value |-> -1],
   more |-> [kind |-> "number", value |-> 3],
   huge |-> [kind |-> "number", value |-> 70],
   list |-> [kind |-> "array", value |-> <<[kind |-> "string", value |-> kopano],
                                           [kind |-> "string", value |-> mail]>>],
   bad  |-> [kind |-> "array", value |-> <<[kind |-> "string", value |-> kopano],
                                           [kind |-> "number", value |-> 2]>>]]

Response(offline, trusted, products) ==
  [offline |-> offline, trusted |-> trusted, products |-> products]
Licensed(ok) == [groupware |-> [ok |-> ok, claims |-> Claims]]

\* Offline, not trusted and without any product
MCNewClaims == Response(TRUE, FALSE, <<>>)

MCResponses ==
  {MCNewClaims,
   Response(FALSE, TRUE, Licensed(FALSE)),
   Response(TRUE, TRUE, Licensed(TRUE)),
   Response(FALSE, TRUE, Licensed(TRUE)),
   Response(FALSE, FALSE, Licensed(TRUE))}

On(type, form, claim) ==
  [type |-> type, form |-> form, product |-> "groupware", claim |-> claim]
With(k, value) ==
  [type |-> k.type, form |-> k.form, product |-> k.product, claim |-> k.claim, value |-> value]
Op(k, value, code) ==
  [type |-> k.type, form |-> "op", product |-> k.product, claim |-> k.claim,
   value |-> value, code |-> code]

MCCalls ==
  {[type |-> "ok", form |-> "ensure", product |-> p] : p \in {"groupware", "meet"}}
  \cup {On("bool", "get", c) : c \in {"flag", "name", "none"}}
  \cup {With(On("bool", "ensure", "flag"), b) : b \in {true, false}}
  \cup {On("string", "get", "name")}
  \cup {With(On("string", "ensure", "name"), s) : s \in {kopano, mail}}
  \cup {On(t, "get", c) : t \in {"int64", "float64"}, c \in {"more", "list"}}
  \cup {With(On(t, "ensure", c), v) :
          t \in {"int64", "float64"}, c \in {"more", "half", "huge"}, v \in {0, 1, 3}}
  \cup {Op(On(t, "op", c), v, o) :
          t \in {"int64", "float64"}, c \in {"more", "half"}, v \in {0, 1}, o \in 0..5}
  \cup {On("stringArray", "get", c) : c \in {"list", "bad", "flag"}}
  \cup {With(On("stringArray", "ensure", "list"), s) : s \in {mail, nil}}

\* No property tells the clients, the addresses or the instances apart, and none of
\* the run's is about what eventually happens.
Symmetry == Permutations(Clients) \cup Permutations(Addresses) \cup Permutations(Instances)

=============================================================================
