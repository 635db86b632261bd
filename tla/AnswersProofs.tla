--------------------------- MODULE AnswersProofs ---------------------------
(***************************************************************************)
(* Proof that a refused call is refused for the first reason of the fixed  *)
(* order, and that any other call succeeds exactly if the claim is what    *)
(* the caller asks for, for all responses, transactions and calls.         *)
(***************************************************************************)
EXTENDS TransactionsProofs

\* The reasons that Refusals knows.
Reasons == {"OnlineFailed", "TrustedFailed", "ProductNotFound", "ProductNotLicensed",
            "ClaimNotFound", "ValueTypeMismatch"}

\* What a call finds before it compares any value.
Look(t, k) ==
  CASE k.type = "ok" -> EnsureOK(t, k.product)
    [] k.type = "bool" -> GetBool(t, k.product, k.claim)
    [] k.type = "string" -> GetString(t, k.product, k.claim)
    [] k.type \in {"int64", "float64"} -> GetInt64(t, k.product, k.claim)
    [] k.type = "stringArray" -> GetStringArrayValues(t, k.product, k.claim)

-----------------------------------------------------------------------------
(* The order of the reasons. *)

LEMMA FirstIs ==
  ASSUME NEW R, NEW s \in R, \A r \in R : ErrNumeric[r] \in Nat,
         \A r \in R : r = s \/ ErrNumeric[s] < ErrNumeric[r]
  PROVE  FirstOf(R) = s
<1> DEFINE Least(x) == x \in R /\ \A r \in R : ErrNumeric[x] <= ErrNumeric[r]
<1>1. Least(s)
  OBVIOUS
<1>2. \A x \in R : Least(x) => x = s
  OBVIOUS
<1> QED
  BY <1>1, <1>2 DEF FirstOf

LEMMA Numbers ==
  /\ ErrNumeric["OnlineFailed"] = 65537
  /\ ErrNumeric["TrustedFailed"] = 65538
  /\ ErrNumeric["ProductNotFound"] = 65539
  /\ ErrNumeric["ProductNotLicensed"] = 65540
  /\ ErrNumeric["ClaimNotFound"] = 65541
  /\ ErrNumeric["ValueTypeMismatch"] = 65542
BY DEF ErrNumeric

-----------------------------------------------------------------------------
(* Refusals, reason by reason. *)

Known(t, k) == k.product \in DOMAIN t.response.products
Found(t, k) == /\ Known(t, k) /\ k.type # "ok"
               /\ k.claim \in DOMAIN t.response.products[k.product].claims
KindOf(k) == CASE k.type \in {"int64", "float64"} -> "number"
               [] k.type = "stringArray" -> "array"
               [] OTHER -> k.type
Claim(t, k) == t.response.products[k.product].claims[k.claim]
Fits(t, k) ==
  /\ Claim(t, k).kind = KindOf(k)
  /\ KindOf(k) = "array" =>
       \A i \in DOMAIN Claim(t, k).value : Claim(t, k).value[i].kind = "string"

LEMMA RefusalsAre ==
  ASSUME NEW t, NEW k
  PROVE  \A s : s \in Refusals(t, k) <=>
           \/ s = "OnlineFailed" /\ t.mustBeOnline /\ t.response.offline
           \/ s = "TrustedFailed" /\ ~t.allowUntrusted /\ ~t.response.trusted
           \/ s = "ProductNotFound" /\ ~Known(t, k)
           \/ s = "ProductNotLicensed" /\ Known(t, k) /\ ~t.response.products[k.product].ok
           \/ s = "ClaimNotFound" /\ Known(t, k) /\ k.type # "ok" /\ ~Found(t, k)
           \/ s = "ValueTypeMismatch" /\ Found(t, k) /\ ~Fits(t, k)
BY DEF Refusals, Known, Found, Fits, Claim, KindOf

-----------------------------------------------------------------------------
(* What a call finds is the first reason to refuse it. *)

LEMMA LookIsFirst ==
  ASSUME NEW t, NEW k \in Calls
  PROVE  \/ Refusals(t, k) = {} /\ Look(t, k) = "Success"
         \/ /\ Refusals(t, k) # {} /\ Look(t, k) = FirstOf(Refusals(t, k))
            /\ Look(t, k) \in Reasons
<1> DEFINE R == Refusals(t, k)
           p == k.product
           c == k.claim
<1>1. \A s \in R : ErrNumeric[s] \in Nat /\ s \in Reasons
  BY RefusalsAre, Numbers DEF Reasons
<1>2. CASE t.mustBeOnline /\ t.response.offline
  <2>1. "OnlineFailed" \in R
    BY <1>2, RefusalsAre
  <2>2. FirstOf(R) = "OnlineFailed"
    BY <1>1, <2>1, FirstIs, Numbers DEF Reasons
  <2>3. Look(t, k) = "OnlineFailed"
    BY <1>2, CallsAssumption DEF Look, GetBool, GetString, GetInt64, GetStringArrayValues,
       Get, ensureValue, EnsureOK, getProduct, EnsureOnline
  <2> QED
    BY <2>1, <2>2, <2>3 DEF Reasons
<1>3. CASE ~(t.mustBeOnline /\ t.response.offline) /\ ~t.allowUntrusted /\ ~t.response.trusted
  <2>1. "TrustedFailed" \in R /\ "OnlineFailed" \notin R
    BY <1>3, RefusalsAre
  <2>2. FirstOf(R) = "TrustedFailed"
    BY <1>1, <2>1, FirstIs, Numbers DEF Reasons
  <2>3. Look(t, k) = "TrustedFailed"
    BY <1>3, CallsAssumption DEF Look, GetBool, GetString, GetInt64, GetStringArrayValues,
       Get, ensureValue, EnsureOK, getProduct, EnsureOnline, EnsureTrusted
  <2> QED
    BY <2>1, <2>2, <2>3 DEF Reasons
<1> DEFINE Usable == /\ ~(t.mustBeOnline /\ t.response.offline)
                     /\ ~(~t.allowUntrusted /\ ~t.response.trusted)
<1>4. ASSUME Usable
      PROVE  /\ getProduct(t, p) = IF Known(t, k) THEN "Success" ELSE "ProductNotFound"
             /\ "OnlineFailed" \notin R /\ "TrustedFailed" \notin R
  BY <1>4, RefusalsAre DEF getProduct, EnsureOnline, EnsureTrusted, Known
<1>5. CASE Usable /\ ~Known(t, k)
  <2>1. "ProductNotFound" \in R
    BY <1>5, RefusalsAre
  <2>2. FirstOf(R) = "ProductNotFound"
    BY <1>1, <1>4, <1>5, <2>1, FirstIs, Numbers DEF Reasons
  <2>3. getProduct(t, p) = "ProductNotFound"
    BY <1>4, <1>5
  <2>4. Look(t, k) = "ProductNotFound"
    BY <2>3, CallsAssumption DEF Look, GetBool, GetString, GetInt64, GetStringArrayValues,
       Get, ensureValue, EnsureOK
  <2> QED
    BY <2>1, <2>2, <2>4 DEF Reasons
<1>6. ASSUME Usable, Known(t, k)
      PROVE  /\ EnsureOK(t, p) = IF t.response.products[p].ok THEN "Success"
                                 ELSE "ProductNotLicensed"
             /\ "ProductNotFound" \notin R
  BY <1>4, <1>6, RefusalsAre DEF EnsureOK
<1>7. CASE Usable /\ Known(t, k) /\ ~t.response.products[p].ok
  <2>1. "ProductNotLicensed" \in R
    BY <1>7, RefusalsAre
  <2>2. FirstOf(R) = "ProductNotLicensed"
    BY <1>1, <1>4, <1>6, <1>7, <2>1, FirstIs, Numbers DEF Reasons
  <2>3. EnsureOK(t, p) = "ProductNotLicensed"
    BY <1>6, <1>7
  <2>4. Look(t, k) = "ProductNotLicensed"
    BY <2>3, CallsAssumption DEF Look, GetBool, GetString, GetInt64, GetStringArrayValues,
       Get, ensureValue
  <2> QED
    BY <2>1, <2>2, <2>4 DEF Reasons
<1> DEFINE Licensed == Usable /\ Known(t, k) /\ t.response.products[p].ok
<1>8. ASSUME Licensed
      PROVE  /\ EnsureOK(t, p) = "Success"
             /\ "ProductNotFound" \notin R /\ "ProductNotLicensed" \notin R
  BY <1>6, <1>8, RefusalsAre
<1>9. CASE Licensed /\ k.type = "ok"
  <2>1. R = {}
    BY <1>4, <1>8, <1>9, RefusalsAre DEF Found
  <2>2. Look(t, k) = "Success"
    BY <1>8, <1>9 DEF Look
  <2> QED
    BY <2>1, <2>2
<1>10. ASSUME Licensed, k.type # "ok"
       PROVE  ensureValue(t, p, c) = IF Found(t, k) THEN "Success" ELSE "ClaimNotFound"
  BY <1>8, <1>10 DEF ensureValue, Found, Known
<1>11. CASE Licensed /\ k.type # "ok" /\ ~Found(t, k)
  <2>1. "ClaimNotFound" \in R
    BY <1>11, RefusalsAre
  <2>2. FirstOf(R) = "ClaimNotFound"
    BY <1>1, <1>4, <1>8, <1>11, <2>1, FirstIs, Numbers DEF Reasons
  <2>3. ensureValue(t, p, c) = "ClaimNotFound"
    BY <1>10, <1>11
  <2>4. Look(t, k) = "ClaimNotFound"
    BY <2>3, <1>11, CallsAssumption DEF Look, GetBool, GetString, GetInt64,
       GetStringArrayValues, Get
  <2> QED
    BY <2>1, <2>2, <2>4 DEF Reasons
<1>12. CASE Licensed /\ k.type # "ok" /\ Found(t, k)
  <2>1. R = IF Fits(t, k) THEN {} ELSE {"ValueTypeMismatch"}
    BY <1>4, <1>8, <1>12, RefusalsAre
  <2>2. ensureValue(t, p, c) = "Success"
    BY <1>10, <1>12
  <2>3. Look(t, k) = IF Fits(t, k) THEN "Success" ELSE "ValueTypeMismatch"
    BY <2>2, <1>12, CallsAssumption DEF Look, GetBool, GetString, GetInt64,
       GetStringArrayValues, Get, Fits, Claim, KindOf, Value
  <2>4. FirstOf({"ValueTypeMismatch"}) = "ValueTypeMismatch"
    BY FirstIs, Numbers
  <2> QED
    BY <2>1, <2>3, <2>4 DEF Reasons
<1> QED
  BY <1>2, <1>3, <1>5, <1>7, <1>9, <1>11, <1>12

-----------------------------------------------------------------------------
(* What is found first is what is answered. *)

LEMMA OperatorsInStep ==
  ASSUME NEW k \in Calls, k.type \in {"int64", "float64"}, k.form = "op"
  PROVE  IF BadCode(k) THEN getOperatorFromCode(k.code) = nil
         ELSE getOperatorFromCode(k.code) \in Operators
<1>1. {KUSTOMER_OPERATOR[o] : o \in DOMAIN KUSTOMER_OPERATOR} = {1, 2, 3, 4}
  BY DEF KUSTOMER_OPERATOR
<1>2. DOMAIN operatorCodeArray = {1, 2, 3, 4}
  BY DEF operatorCodeArray
<1>3. \A i \in {1, 2, 3, 4} : operatorCodeArray[i] \in Operators
  BY DEF operatorCodeArray, Operators
<1> QED
  BY <1>1, <1>2, <1>3 DEF BadCode, getOperatorFromCode

Answers(look) == IF look = "Success" THEN {"Success", "ValueMismatch"} ELSE {look}

LEMMA StatusesFollowLook ==
  ASSUME NEW t, NEW k \in Calls
  PROVE  Statuses(t, k) \subseteq
           IF BadCode(k) THEN {"UnknownOperator"} ELSE Answers(Look(t, k))
<1>1. CASE k.type = "ok"
  BY <1>1 DEF Statuses, Look, Answers, BadCode
<1>2. CASE k.type = "bool"
  BY <1>2, CallsAssumption DEF Statuses, Look, Answers, BadCode, ensure_bool, EnsureBool,
     Compared, Matched
<1>3. CASE k.type = "string"
  BY <1>3, CallsAssumption DEF Statuses, Look, Answers, BadCode, ensure_string, EnsureString,
     Compared, Matched
<1>4. CASE k.type = "stringArray"
  BY <1>4, CallsAssumption DEF Statuses, Look, Answers, BadCode, ensure_stringArray,
     EnsureStringArrayValues, Matched
<1>5. CASE k.type \in {"int64", "float64"} /\ k.form = "op"
  <2>1. CASE BadCode(k)
    <3>1. getOperatorFromCode(k.code) = nil
      BY <1>5, <2>1, OperatorsInStep
    <3> QED
      BY <1>5, <2>1, <3>1 DEF Statuses, ensure_int64, ensure_float64
  <2>2. CASE ~BadCode(k)
    <3>1. /\ getOperatorFromCode(k.code) \in Operators
          /\ getOperatorFromCode(k.code) # nil
      BY <1>5, <2>2, OperatorsInStep, CallsAssumption
    <3> QED
      BY <1>5, <2>2, <3>1 DEF Statuses, ensure_int64, ensure_float64, Look, Answers,
         EnsureInt64WithOperator, EnsureFloat64WithOperator, GetInt64, GetFloat64, Matched
  <2> QED
    BY <2>1, <2>2
<1>6. CASE k.type \in {"int64", "float64"} /\ k.form # "op"
  BY <1>6, CallsAssumption DEF Statuses, ensure_int64, ensure_float64, Look, Answers,
     EnsureInt64, EnsureFloat64, GetInt64, GetFloat64, Compared, Matched, BadCode
<1> QED
  BY <1>1, <1>2, <1>3, <1>4, <1>5, <1>6, CallsAssumption

LEMMA KnownNumbers ==
  /\ asKnownErrorOrUnknown("Success") = StatusSuccess
  /\ \A s \in Reasons \cup {"ValueMismatch", "UnknownOperator", "InvalidTransaction"} :
       asKnownErrorOrUnknown(s) = ErrNumeric[s] /\ ErrNumeric[s] \in Nat
  /\ ErrNumeric["ValueMismatch"] = ErrNumeric.ValueMismatch
BY DEF asKnownErrorOrUnknown, ErrNumeric, StatusSuccess, Reasons

LEMMA Alone ==
  ASSUME NEW s, ErrNumeric[s] \in Nat
  PROVE  FirstOf({s}) = s
BY FirstIs

(* A refused call is refused for the first reason, whatever the response, the
   transaction and the call are (ensured.go:99-129, api.go:408-426). *)
THEOREM RefusedInOrder == Spec => []ErrorOrder
<1>1. OwnTransaction => ErrorOrder
  <2> SUFFICES ASSUME OwnTransaction, NEW c \in Clients, NEW k \in Calls, pc[c] = "idle"
               PROVE  Reply(c, k) \subseteq
                        LET refused == IF ~Open(c) THEN {"InvalidTransaction"}
                                       ELSE IF BadCode(k) THEN {"UnknownOperator"}
                                       ELSE Refusals(begun[c], k)
                        IN IF refused = {} THEN {StatusSuccess, ErrNumeric.ValueMismatch}
                           ELSE {ErrNumeric[FirstOf(refused)]}
    BY DEF ErrorOrder
  <2>1. Restore(c) = begun[c]
    BY DEF OwnTransaction
  <2>2. CASE ~Open(c)
    BY <2>1, <2>2, KnownNumbers, Alone DEF Reply, Open
  <2>3. CASE Open(c) /\ BadCode(k)
    <3>1. Statuses(begun[c], k) \subseteq {"UnknownOperator"}
      BY <2>3, StatusesFollowLook
    <3> QED
      BY <2>1, <2>3, <3>1, KnownNumbers, Alone DEF Reply, Open
  <2>4. CASE Open(c) /\ ~BadCode(k)
    <3>1. Statuses(begun[c], k) \subseteq Answers(Look(begun[c], k))
      BY <2>4, StatusesFollowLook
    <3>2. CASE Refusals(begun[c], k) = {}
      <4>1. Look(begun[c], k) = "Success"
        BY <3>2, LookIsFirst
      <4> QED
        BY <2>1, <2>4, <3>1, <3>2, <4>1, KnownNumbers DEF Reply, Open, Answers
    <3>3. CASE Refusals(begun[c], k) # {}
      <4>1. /\ Look(begun[c], k) = FirstOf(Refusals(begun[c], k))
            /\ Look(begun[c], k) \in Reasons
        BY <3>3, LookIsFirst
      <4>2. Look(begun[c], k) # "Success"
        BY <4>1 DEF Reasons
      <4> QED
        BY <2>1, <2>4, <3>1, <3>3, <4>1, <4>2, KnownNumbers DEF Reply, Open, Answers
    <3> QED
      BY <3>2, <3>3
  <2> QED
    BY <2>2, <2>3, <2>4
<1> QED
  BY <1>1, EveryClientItsOwn, PTL

-----------------------------------------------------------------------------
(* Truncation is what the definition of a whole part asks for. *)

LEMMA SquareOrder ==
  ASSUME NEW a \in Nat, NEW b \in Nat
  PROVE  a * a <= b * b <=> a <= b
<1>1. ASSUME NEW x \in Nat, NEW y \in Nat, x <= y
      PROVE  x * x <= y * y
  <2>1. x * x <= x * y /\ x * y <= y * y
    BY <1>1
  <2> QED
    BY <2>1
<1>2. ASSUME b < a
      PROVE  b * b < a * a
  <2>1. (b + 1) * (b + 1) <= a * a
    BY <1>1, <1>2
  <2>2. (b + 1) * (b + 1) = b * b + 2 * b + 1
    OBVIOUS
  <2>3. b * b \in Nat /\ a * a \in Nat
    OBVIOUS
  <2> QED
    BY <2>1, <2>2, <2>3
<1>3. a * a \in Nat /\ b * b \in Nat
  OBVIOUS
<1> QED
  BY <1>1, <1>2, <1>3

Abs(i) == IF i < 0 THEN -i ELSE i

LEMMA TruncateIs ==
  ASSUME NEW n \in Int, NEW i \in Int
  PROVE  i = Truncate(n) <=> /\ 2 * Abs(i) <= Abs(n) /\ Abs(n) < 2 * Abs(i) + 2
                             /\ n > 0 => i >= 0
                             /\ n < 0 => i <= 0
BY DEF Truncate, Abs, Parts

LEMMA WholePartIs ==
  ASSUME NEW n \in Int, NEW i \in Int
  PROVE  WholePart(i, n) <=> i = Truncate(n)
<1> DEFINE m == Abs(n)
           j == Abs(i)
<1>1. m \in Nat /\ j \in Nat
  BY DEF Abs
<1>2. n * n = m * m /\ i * i = j * j
  BY DEF Abs
<1>3. i * i * Parts * Parts = (2 * j) * (2 * j)
  <2>1. i * i * Parts * Parts = j * j * 2 * 2
    BY <1>2 DEF Parts
  <2>2. \A x \in Nat : x * x * 2 * 2 = (2 * x) * (2 * x)
    OBVIOUS
  <2> QED
    BY <1>1, <2>1, <2>2
<1>4. (i * i + 2 * j + 1) * Parts * Parts = (2 * j + 2) * (2 * j + 2)
  BY <1>1, <1>2 DEF Parts
<1>5. i * n >= 0 <=> ~(i > 0 /\ n < 0) /\ ~(i < 0 /\ n > 0)
  OBVIOUS
<1>6. (2 * j) * (2 * j) <= m * m <=> 2 * j <= m
  BY <1>1, SquareOrder
<1>7. m * m < (2 * j + 2) * (2 * j + 2) <=> m < 2 * j + 2
  <2>1. (2 * j + 2) * (2 * j + 2) <= m * m <=> 2 * j + 2 <= m
    BY <1>1, SquareOrder
  <2>2. m * m \in Nat /\ (2 * j + 2) * (2 * j + 2) \in Nat
    BY <1>1
  <2> QED
    BY <1>1, <2>1, <2>2
<1>8. WholePart(i, n) <=> /\ i * n >= 0
                          /\ i * i * Parts * Parts <= n * n
                          /\ n * n < (i * i + 2 * j + 1) * Parts * Parts
  BY DEF WholePart, Abs
<1>9. WholePart(i, n) <=> i * n >= 0 /\ 2 * j <= m /\ m < 2 * j + 2
  BY <1>2, <1>3, <1>4, <1>6, <1>7, <1>8
<1> QED
  BY <1>5, <1>9, TruncateIs

-----------------------------------------------------------------------------
(* What a call that is not refused answers. *)

ClaimValue(t, k) == Value(t, k.product, k.claim).value

\* A call that compares nothing
ComparesNothing(k) == k.type = "ok" \/ k.form = "get"

\* What the call compares, and whether that is what the caller asks for
Compares(t, k) == IF k.type = "int64" THEN ToInt64(ClaimValue(t, k)) ELSE {ClaimValue(t, k)}
Meets(x, k) ==
  IF ComparesNothing(k) THEN TRUE
  ELSE IF k.type = "stringArray" THEN \E i \in DOMAIN x : x[i].value = k.value
  ELSE Satisfies(x, k)

(* The strings that the codes stand for mean what the enum says. *)
LEMMA CompareIs ==
  ASSUME NEW k \in Calls, k.type \in {"int64", "float64"}, k.form = "op", ~BadCode(k),
         k.value \in Int, NEW x \in Int
  PROVE  Compare(getOperatorFromCode(k.code), x, k.value) <=> Satisfies(x, k)
<1>1. {KUSTOMER_OPERATOR[o] : o \in DOMAIN KUSTOMER_OPERATOR} = {1, 2, 3, 4}
  BY DEF KUSTOMER_OPERATOR
<1>2. /\ KUSTOMER_OPERATOR.GT = 1 /\ KUSTOMER_OPERATOR.GE = 2
      /\ KUSTOMER_OPERATOR.LT = 3 /\ KUSTOMER_OPERATOR.LE = 4
  BY DEF KUSTOMER_OPERATOR
<1>3. k.code \in {1, 2, 3, 4}
  BY <1>1 DEF BadCode
<1>4. DOMAIN operatorCodeArray = {1, 2, 3, 4}
  BY DEF operatorCodeArray
<1>5. /\ operatorCodeArray[1] = "gt" /\ operatorCodeArray[2] = "ge"
      /\ operatorCodeArray[3] = "lt" /\ operatorCodeArray[4] = "le"
  BY DEF operatorCodeArray
<1>6. getOperatorFromCode(k.code) = operatorCodeArray[k.code]
  BY <1>3, <1>4 DEF getOperatorFromCode
<1> QED
  BY <1>2, <1>3, <1>5, <1>6 DEF Compare, Satisfies

(* A number that is found is a number. *)
LEMMA NumberFound ==
  ASSUME NEW t \in Transaction, NEW k \in Calls, k.type \in {"int64", "float64"},
         Look(t, k) = "Success"
  PROVE  ClaimValue(t, k) \in Int
<1>1. t.response \in Responses
  BY DEF Transaction
<1>2. /\ k.product \in DOMAIN t.response.products
      /\ k.claim \in DOMAIN t.response.products[k.product].claims
      /\ Value(t, k.product, k.claim).kind = "number"
  BY DEF Look, GetInt64, Get, ensureValue, EnsureOK, getProduct
<1> QED
  BY <1>1, <1>2, NumbersAssumption DEF ClaimValue, Value

(* The answer depends on the comparison alone. *)
LEMMA StatusesWhenFound ==
  ASSUME NEW t \in Transaction, NEW k \in Calls, ~BadCode(k), Look(t, k) = "Success"
  PROVE  Statuses(t, k) =
           {IF Meets(x, k) THEN "Success" ELSE "ValueMismatch" : x \in Compares(t, k)}
<1>1. CASE k.type = "ok"
  BY <1>1 DEF Statuses, Look, Meets, ComparesNothing, Compares
<1>2. CASE k.type = "bool"
  BY <1>2, CallsAssumption DEF Statuses, Look, ensure_bool, EnsureBool, Compared, Matched,
     Meets, ComparesNothing, Satisfies, Compares, ClaimValue
<1>3. CASE k.type = "string"
  BY <1>3, CallsAssumption DEF Statuses, Look, ensure_string, EnsureString, Compared,
     Matched, Meets, ComparesNothing, Satisfies, Compares, ClaimValue
<1>4. CASE k.type = "stringArray"
  BY <1>4, CallsAssumption DEF Statuses, Look, ensure_stringArray, EnsureStringArrayValues,
     Matched, Meets, ComparesNothing, Compares, ClaimValue
<1>5. CASE k.type = "float64" /\ k.form # "op"
  BY <1>5, CallsAssumption DEF Statuses, Look, ensure_float64, EnsureFloat64, GetFloat64,
     GetInt64, Compared, Matched, Meets, ComparesNothing, Satisfies, Compares, ClaimValue
<1>6. CASE k.type = "int64" /\ k.form = "ensure"
  BY <1>6 DEF Statuses, Look, ensure_int64, EnsureInt64, Matched, Meets, ComparesNothing, Satisfies,
     Compares, ClaimValue
<1>7. CASE k.type = "int64" /\ k.form = "get"
  <2>1. ToInt64(ClaimValue(t, k)) # {}
    BY DEF ToInt64
  <2> QED
    BY <1>7, <2>1 DEF Statuses, Look, ensure_int64, Meets, ComparesNothing, Compares
<1>8. ASSUME k.type \in {"int64", "float64"}, k.form = "op"
      PROVE  /\ k.value \in Int /\ ClaimValue(t, k) \in Int
             /\ getOperatorFromCode(k.code) # nil
             /\ getOperatorFromCode(k.code) \in Operators
  BY <1>8, NumbersAssumption, NumberFound, OperatorsInStep, CallsAssumption
<1>9. CASE k.type = "float64" /\ k.form = "op"
  <2>1. Statuses(t, k) = {Matched("Success", Compare(getOperatorFromCode(k.code),
                                                    ClaimValue(t, k), k.value))}
    <3>1. GetFloat64(t, k.product, k.claim) = "Success"
      BY <1>9 DEF Look, GetFloat64, GetInt64
    <3>2. EnsureFloat64WithOperator(t, k.product, k.claim, k.value,
                                    getOperatorFromCode(k.code))
            = Matched("Success", Compare(getOperatorFromCode(k.code), ClaimValue(t, k), k.value))
      BY <1>8, <1>9, <3>1 DEF EnsureFloat64WithOperator, ClaimValue, Matched
    <3> QED
      BY <1>8, <1>9, <3>2 DEF Statuses, ensure_float64
  <2>2. Compare(getOperatorFromCode(k.code), ClaimValue(t, k), k.value)
          <=> Satisfies(ClaimValue(t, k), k)
    BY <1>8, <1>9, CompareIs
  <2> QED
    BY <1>9, <2>1, <2>2 DEF Matched, Meets, ComparesNothing, Compares
<1>10. CASE k.type = "int64" /\ k.form = "op"
  <2>1. Statuses(t, k) = {Matched("Success", Compare(getOperatorFromCode(k.code), x, k.value)) :
                            x \in ToInt64(ClaimValue(t, k))}
    BY <1>8, <1>10 DEF Statuses, Look, ensure_int64, EnsureInt64WithOperator, ClaimValue
  <2>2. ToInt64(ClaimValue(t, k)) \subseteq Int
    BY <1>8, <1>10, EnsuredAssumption DEF EnsuredAssumption, ToInt64, IntMin, IntMax
  <2>3. \A x \in ToInt64(ClaimValue(t, k)) :
          Compare(getOperatorFromCode(k.code), x, k.value) <=> Satisfies(x, k)
    BY <1>8, <1>10, <2>2, CompareIs
  <2> QED
    BY <1>10, <2>1, <2>3 DEF Matched, Meets, ComparesNothing, Compares
<1> QED
  BY <1>1, <1>2, <1>3, <1>4, <1>5, <1>6, <1>7, <1>9, <1>10, CallsAssumption

(* Only success has the number 0. *)
LEMMA OthersNotZero ==
  \A s \in Reasons \cup {"ValueMismatch", "UnknownOperator"} :
    asKnownErrorOrUnknown(s) # StatusSuccess
BY DEF asKnownErrorOrUnknown, ErrNumeric, StatusSuccess, Reasons

(* A call that is refused does not succeed. *)
LEMMA RefusedFails ==
  ASSUME NEW t, NEW k \in Calls, BadCode(k) \/ Refusals(t, k) # {}
  PROVE  StatusSuccess \notin {asKnownErrorOrUnknown(s) : s \in Statuses(t, k)}
<1>1. Statuses(t, k) \subseteq Reasons \cup {"UnknownOperator"}
  BY StatusesFollowLook, LookIsFirst DEF Answers, Reasons
<1> QED
  BY <1>1, OthersNotZero

(* A call that is not refused succeeds exactly if the claim is what the caller asks
   for, whatever the response, the transaction and the call are and whatever the
   width of the integers is (ensured.go:164-382, api.go:16-22). *)
THEOREM SuccessWhenEarned == Spec => []SuccessIsEarned
<1>1. TransTypeOK /\ OwnTransaction => SuccessIsEarned
  <2> SUFFICES ASSUME TransTypeOK, OwnTransaction, NEW c \in Clients, NEW k \in Calls,
                      pc[c] = "idle", Open(c)
               PROVE  LET tv == Value(begun[c], k.product, k.claim).value
                          Earned ==
                            IF k.type = "ok" \/ k.form = "get" THEN TRUE
                            ELSE CASE k.type = "stringArray" ->
                                        \E i \in DOMAIN tv : tv[i].value = k.value
                                   [] k.type = "int64" ->
                                        \E i \in IntMin..IntMax :
                                          WholePart(i, tv) /\ Satisfies(i, k)
                                   [] OTHER -> Satisfies(tv, k)
                          Representable ==
                            k.type = "int64" => \E i \in IntMin..IntMax : WholePart(i, tv)
                      IN IF BadCode(k) \/ Refusals(begun[c], k) # {}
                           THEN StatusSuccess \notin Reply(c, k)
                           ELSE Representable =>
                                  IF Earned THEN Reply(c, k) = {StatusSuccess}
                                  ELSE StatusSuccess \notin Reply(c, k)
    BY DEF SuccessIsEarned
  <2> DEFINE t == begun[c]
             tv == ClaimValue(t, k)
             Whole == \E i \in IntMin..IntMax : WholePart(i, tv)
             Earned == IF ComparesNothing(k) THEN TRUE
                       ELSE IF k.type = "int64"
                         THEN \E i \in IntMin..IntMax : WholePart(i, tv) /\ Satisfies(i, k)
                       ELSE Meets(tv, k)
  <2>1. t \in Transaction /\ Restore(c) = t /\ t # nil
    BY DEF TransTypeOK, OwnTransaction, Open
  <2>2. Reply(c, k) = {asKnownErrorOrUnknown(s) : s \in Statuses(t, k)}
    BY <2>1 DEF Reply
  <2>3. CASE BadCode(k) \/ Refusals(t, k) # {}
    BY <2>2, <2>3, RefusedFails
  <2>4. ASSUME ~BadCode(k), Refusals(t, k) = {}, k.type = "int64" => Whole
        PROVE  IF Earned THEN Reply(c, k) = {StatusSuccess} ELSE StatusSuccess \notin Reply(c, k)
    <3> HIDE DEF t, tv
    <3>1. Look(t, k) = "Success"
      BY <2>4, LookIsFirst
    <3>2. Statuses(t, k) =
            {IF Meets(x, k) THEN "Success" ELSE "ValueMismatch" : x \in Compares(t, k)}
      BY <2>1, <2>4, <3>1, StatusesWhenFound
    <3>3. \E x : Compares(t, k) = {x} /\ (Meets(x, k) <=> Earned)
      <4>1. CASE k.type # "int64"
        BY <4>1 DEF Compares, Meets, tv
      <4>2. CASE k.type = "int64"
        <5>1. tv \in Int
          BY <2>1, <3>1, <4>2, NumberFound DEF tv
        <5>2. IntMin \in Int /\ IntMax \in Int
          BY EnsuredAssumption DEF EnsuredAssumption, IntMin, IntMax
        <5>3. \A i \in IntMin..IntMax : WholePart(i, tv) <=> i = Truncate(tv)
          BY <5>1, <5>2, WholePartIs
        <5>4. Truncate(tv) \in IntMin..IntMax
          BY <2>4, <4>2, <5>3
        <5>5. Compares(t, k) = {Truncate(tv)}
          BY <4>2, <5>4 DEF Compares, ToInt64, tv
        <5>6. Meets(Truncate(tv), k) <=> Earned
          BY <4>2, <5>3, <5>4 DEF Meets
        <5> QED
          BY <5>5, <5>6
      <4> QED
        BY <4>1, <4>2
    <3>4. PICK x : Compares(t, k) = {x} /\ (Meets(x, k) <=> Earned)
      BY <3>3
    <3>5. CASE Earned
      <4>1. Statuses(t, k) = {"Success"}
        BY <3>2, <3>4, <3>5
      <4> QED
        BY <2>2, <3>5, <4>1, KnownNumbers
    <3>6. CASE ~Earned
      <4>1. Statuses(t, k) = {"ValueMismatch"}
        BY <3>2, <3>4, <3>6
      <4> QED
        BY <2>2, <3>6, <4>1, OthersNotZero
    <3> QED
      BY <3>5, <3>6
  <2>5. Earned <=>
          IF k.type = "ok" \/ k.form = "get" THEN TRUE
          ELSE CASE k.type = "stringArray" -> \E i \in DOMAIN tv : tv[i].value = k.value
                 [] k.type = "int64" ->
                      \E i \in IntMin..IntMax : WholePart(i, tv) /\ Satisfies(i, k)
                 [] OTHER -> Satisfies(tv, k)
    BY DEF ComparesNothing, Meets
  <2> QED
    BY <2>3, <2>4, <2>5 DEF ClaimValue
<1> QED
  BY <1>1, TransTypeCorrect, EveryClientItsOwn, PTL

=============================================================================
