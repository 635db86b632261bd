------------------------------ MODULE Ensured ------------------------------
(***************************************************************************)
(* The checks of an ensure transaction (ensured.go): pure functions of a   *)
(* response of the daemon and of the two flags of the transaction.         *)
(*                                                                         *)
(* A response is a record of the flags offline and trusted and of products,*)
(* a function from product names to records [ok, claims]; claims is a      *)
(* function from claim names to values.  A value carries the dynamic type  *)
(* that the decoder gives it: [kind |-> "number", value |-> n] and so on;  *)
(* the value of an array is a sequence of values.  A number, a float64 in  *)
(* the code, is kept as n / Parts.  Each operator gives the status of the  *)
(* call, the first check that fails.                                       *)
(***************************************************************************)
EXTENDS Integers, Sequences

CONSTANT IntLimit \* 2^63

ASSUME EnsuredAssumption == IntLimit \in Nat \ {0}

\* The range of int64
IntMin == -IntLimit
IntMax == IntLimit - 1

Parts == 2

Operators == {"gt", "ge", "lt", "le"}

NewTransaction(r) == [response |-> r, mustBeOnline |-> FALSE, allowUntrusted |-> FALSE]
SetMustBeOnline(t, flag) == [t EXCEPT !.mustBeOnline = flag]
SetAllowUntrusted(t, flag) == [t EXCEPT !.allowUntrusted = flag]

\* p.Claims[claim] of a product that is there
Value(t, p, c) == t.response.products[p].claims[c]

EnsureOnline(t) == ~t.response.offline
EnsureTrusted(t) == t.response.trusted

\* getProductAlwaysTrusted forgets to ask whether the claims are trusted.
getProductAlwaysTrusted(t, p) ==
  IF t.mustBeOnline /\ ~EnsureOnline(t) THEN "OnlineFailed"
  ELSE IF p \notin DOMAIN t.response.products THEN "ProductNotFound"
  ELSE "Success"
getProduct(t, p) ==
  IF t.mustBeOnline /\ ~EnsureOnline(t) THEN "OnlineFailed"
  ELSE IF ~t.allowUntrusted /\ ~EnsureTrusted(t) THEN "TrustedFailed"
  ELSE IF p \notin DOMAIN t.response.products THEN "ProductNotFound"
  ELSE "Success"

EnsureOK(t, p) ==
  IF getProduct(t, p) # "Success" THEN getProduct(t, p)
  ELSE IF ~t.response.products[p].ok THEN "ProductNotLicensed"
  ELSE "Success"

\* `if !p.OK` followed by the look for the claim
ensureValue(t, p, c) ==
  IF EnsureOK(t, p) # "Success" THEN EnsureOK(t, p)
  ELSE IF c \notin DOMAIN t.response.products[p].claims THEN "ClaimNotFound"
  ELSE "Success"

\* v.(type)
Get(t, p, c, kind) ==
  IF ensureValue(t, p, c) = "Success" /\ Value(t, p, c).kind # kind
    THEN "ValueTypeMismatch" ELSE ensureValue(t, p, c)

GetBool(t, p, c) == Get(t, p, c, "bool")
GetString(t, p, c) == Get(t, p, c, "string")
GetInt64(t, p, c) == Get(t, p, c, "number")
GetFloat64(t, p, c) == Get(t, p, c, "number")

GetStringArrayValues(t, p, c) ==
  IF /\ Get(t, p, c, "array") = "Success"
     /\ \E i \in DOMAIN Value(t, p, c).value : Value(t, p, c).value[i].kind # "string"
    THEN "ValueTypeMismatch" ELSE Get(t, p, c, "array")

-----------------------------------------------------------------------------
\* int64(tv): towards zero.  What does not fit is up to the processor: amd64
\* gives the smallest integer, arm64 the nearest one.
Truncate(n) == IF n >= 0 THEN n \div Parts ELSE -((-n) \div Parts)
ToInt64(n) ==
  IF Truncate(n) \in IntMin..IntMax THEN {Truncate(n)}
  ELSE {IntMin, IF n < 0 THEN IntMin ELSE IntMax}

\* tv is the claim's value, v the value the caller compares it with.
Compare(op, tv, v) ==
  \/ op = "gt" /\ tv > v
  \/ op = "ge" /\ tv >= v
  \/ op = "lt" /\ tv < v
  \/ op = "le" /\ tv <= v

Matched(s, holds) == IF s = "Success" /\ ~holds THEN "ValueMismatch" ELSE s

\* Status s of the look for the claim, then the comparison
Compared(s, t, p, c, v) == Matched(s, s = "Success" => Value(t, p, c).value = v)
EnsureBool(t, p, c, v) == Compared(GetBool(t, p, c), t, p, c, v)
EnsureString(t, p, c, v) == Compared(GetString(t, p, c), t, p, c, v)
EnsureFloat64(t, p, c, v) == Compared(GetFloat64(t, p, c), t, p, c, v)

EnsureFloat64WithOperator(t, p, c, v, op) ==
  LET s == GetFloat64(t, p, c)
  IN IF s = "Success" /\ op \notin Operators THEN "UnknownOperator"
     ELSE Matched(s, s = "Success" => Compare(op, Value(t, p, c).value, v))

\* The set of statuses, one for each result of the conversion.
EnsureInt64(t, p, c, v) ==
  IF GetInt64(t, p, c) # "Success" THEN {GetInt64(t, p, c)}
  ELSE {Matched("Success", tv = v) : tv \in ToInt64(Value(t, p, c).value)}

EnsureInt64WithOperator(t, p, c, v, op) ==
  IF GetInt64(t, p, c) # "Success" THEN {GetInt64(t, p, c)}
  ELSE IF op \notin Operators THEN {"UnknownOperator"}
  ELSE {Matched("Success", Compare(op, tv, v)) : tv \in ToInt64(Value(t, p, c).value)}

\* Every value asked for has to be in the claim's array.
EnsureStringArrayValues(t, p, c, values) ==
  LET s == GetStringArrayValues(t, p, c)
      Has(v) == \E i \in DOMAIN Value(t, p, c).value : Value(t, p, c).value[i].value = v
  IN Matched(s, s = "Success" => \A v \in values : Has(v))

=============================================================================
