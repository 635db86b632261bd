------------------------- MODULE TransactionsProofs -------------------------
(***************************************************************************)
(* Proofs about module Transactions, for any clients, instances, addresses,*)
(* and responses, any width of integers and any length of a second.        *)
(***************************************************************************)
EXTENDS Transactions, TLAPS

\* Where the clients are: what is begun is idle and saved as it was begun, and a
\* client without a transaction has no pointer unless it is just giving it back.
ClientInv ==
  \A c \in Clients :
    /\ pc[c] = "save" => kpc[c] # nil
    /\ Open(c) => pc[c] = "idle"
    /\ pc[c] \in {"unref", "free"} \/ Open(c) => handle[c] # nil
    /\ pc[c] \in {"idle", "begin", "wait", "save"} /\ ~Open(c) => handle[c] = nil
    /\ Open(c) => store[handle[c]] = begun[c]

\* A call has an instance from where it takes it to where it reads its claims, and
\* whose it is shows in where the call is.
TakenInv ==
  /\ instance \notin own
  /\ \A c \in Clients :
       /\ pc[c] \in {"begin", "wait"} <=> taken[c] # nil
       /\ pc[c] = "wait" => taken[c] \in own
       /\ pc[c] = "begin" => taken[c] \notin own

TransInv == TransTypeOK /\ StoreExact /\ ClientInv /\ TakenInv

-----------------------------------------------------------------------------
(* Timeouts. *)

LEMMA SignedInt ==
  ASSUME NEW n \in Int
  PROVE  /\ Signed(n) \in IntMin..IntMax
         /\ n \in IntMin..IntMax => Signed(n) = n
<1>1. IntLimit \in Nat /\ IntLimit > 0
  BY EnsuredAssumption
<1>2. PICK w \in Nat : w = 2 * IntLimit /\ w > 0
  BY <1>1
<1>3. \A m \in Int : m % w \in 0..(w - 1)
  BY <1>2
<1>4. \A m \in 0..(w - 1) : m % w = m
  BY <1>2
<1>5. Signed(n) = ((n + IntLimit) % w) - IntLimit
  BY <1>2 DEF Signed
<1>6. Signed(n) \in IntMin..IntMax
  <2>1. PICK m \in 0..(w - 1) : m = (n + IntLimit) % w
    BY <1>1, <1>3
  <2> QED
    BY <1>1, <1>2, <1>5, <2>1 DEF IntMin, IntMax
<1>7. ASSUME n \in IntMin..IntMax
      PROVE  Signed(n) = n
  <2>1. n + IntLimit \in 0..(w - 1)
    BY <1>1, <1>2, <1>7 DEF IntMin, IntMax
  <2>2. (n + IntLimit) % w = n + IntLimit
    BY <1>4, <2>1
  <2> QED
    BY <1>1, <1>5, <2>2
<1> QED
  BY <1>6, <1>7

(* A Duration is a number of 64 bits, and the right one when the number of seconds
   is small enough. *)
LEMMA DurationInt ==
  ASSUME NEW s \in Nat
  PROVE  /\ Duration(s) \in IntMin..IntMax
         /\ s * Second <= IntMax => Duration(s) = s * Second
<1>1. IntLimit \in Nat /\ IntLimit > 0 /\ Second \in Nat /\ Second > 0
  BY EnsuredAssumption, TransactionsAssumption
<1>2. Signed(s) \in Int
  BY <1>1, SignedInt DEF IntMin, IntMax
<1>3. Signed(s) * Second \in Int
  BY <1>1, <1>2
<1>4. Duration(s) \in IntMin..IntMax
  BY <1>3, SignedInt DEF Duration
<1>5. ASSUME s * Second <= IntMax
      PROVE  Duration(s) = s * Second
  <2>1. s <= s * Second /\ s * Second \in Nat
    BY <1>1
  <2>2. s \in IntMin..IntMax /\ s * Second \in IntMin..IntMax
    BY <1>1, <1>5, <2>1 DEF IntMin, IntMax
  <2>3. Signed(s) = s /\ Signed(s * Second) = s * Second
    BY <2>1, <2>2, SignedInt
  <2> QED
    BY <2>3 DEF Duration
<1> QED
  BY <1>4, <1>5

-----------------------------------------------------------------------------
(* Instances. *)

(* Whoever is held keeps what it has when others are forgotten. *)
LEMMA ForgetTypes ==
  ASSUME ClaimsTypeOK, Forget, Held' \subseteq Held,
         instance' \in Instances \cup {nil}, taken' \in [Clients -> Instances \cup {nil}]
  PROVE  ClaimsTypeOK'
<1>1. \A k \in Instances : claims'[k] = IF k \in Held' THEN claims[k] ELSE nil
  BY DEF Forget
<1>2. claims' \in [Instances -> Responses \cup {nil}]
  BY DEF Forget, ClaimsTypeOK
<1>3. auto' \subseteq Held' /\ own' \subseteq Held' /\ ready' \subseteq Held'
  BY DEF Forget
<1>4. \A k \in Instances : claims[k] # nil <=> k \in Held
  BY DEF ClaimsTypeOK
<1>5. \A k \in Instances : claims'[k] # nil <=> k \in Held'
  BY <1>1, <1>4
<1> QED
  BY <1>2, <1>3, <1>5 DEF ClaimsTypeOK

(* A new instance is one that nobody has, and then has claims. *)
LEMMA NewTypes ==
  ASSUME ClaimsTypeOK, NEW k \in Instances, New(k), Held' = Held \cup {k},
         instance' \in Instances \cup {nil}, taken' \in [Clients -> Instances \cup {nil}],
         auto' \subseteq auto \cup {k}, own' \subseteq own \cup {k}
  PROVE  ClaimsTypeOK' /\ k \notin Held
<1>1. claims' \in [Instances -> Responses \cup {nil}]
      /\ \A j \in Instances : claims'[j] # nil <=> j = k \/ claims[j] # nil
  BY ClaimsAssumption DEF New, ClaimsTypeOK
<1>2. \A j \in Instances : claims[j] # nil <=> j \in Held
  BY DEF ClaimsTypeOK
<1>3. \A j \in Instances : claims'[j] # nil <=> j \in Held'
  BY <1>1, <1>2
<1>4. k \notin Held
  BY <1>2 DEF New
<1>5. auto' \subseteq Held' /\ own' \subseteq Held' /\ ready' \subseteq Held'
  BY DEF New, ClaimsTypeOK
<1> QED
  BY <1>1, <1>3, <1>4, <1>5 DEF ClaimsTypeOK

(* What the library does by itself. *)
LEMMA LibraryTypes ==
  ASSUME ClaimsTypeOK, Library, instance \notin own
  PROVE  /\ ClaimsTypeOK' /\ UNCHANGED taken
         /\ instance' \notin own'
         /\ \A c \in Clients : taken[c] # nil => (taken[c] \in own' <=> taken[c] \in own)
<1> USE ClaimsAssumption
<1>0. /\ instance \in Instances \cup {nil}
      /\ taken \in [Clients -> Instances \cup {nil}]
      /\ \A k \in Instances : claims[k] # nil <=> k \in Held
      /\ own \subseteq Held /\ Held \subseteq Instances
  BY DEF ClaimsTypeOK, Held
<1>1. CASE Initialize
  <2>1. PICK k \in Instances : New(k) /\ instance' = k /\ auto' \in {auto, auto \cup {k}}
    BY <1>1 DEF Initialize
  <2>2. instance = nil /\ UNCHANGED <<own, taken>>
    BY <1>1 DEF Initialize
  <2>3. Held' = Held \cup {k}
    BY <2>1, <2>2 DEF Held
  <2>4. ClaimsTypeOK' /\ k \notin Held
    BY <1>0, <2>1, <2>2, <2>3, NewTypes
  <2> QED
    BY <1>0, <2>1, <2>2, <2>4
<1>2. CASE Uninitialize
  <2>1. instance' = nil /\ UNCHANGED taken /\ Forget
    BY <1>2 DEF Uninitialize
  <2>2. Held' \subseteq Held
    BY <2>1 DEF Held
  <2>3. ClaimsTypeOK'
    BY <1>0, <2>1, <2>2, ForgetTypes
  <2>4. own' = own \cap Held' /\ nil \notin own
    BY <1>0, <2>1 DEF Forget
  <2>5. \A c \in Clients : taken[c] # nil => taken[c] \in Held'
    BY <1>0, <2>1 DEF Held
  <2> QED
    BY <2>1, <2>3, <2>4, <2>5
<1>3. ASSUME NEW k \in Instances, Publish(k)
      PROVE  ClaimsTypeOK' /\ UNCHANGED <<instance, own, taken>>
  <2>1. UNCHANGED <<instance, auto, own, taken>>
    BY <1>3 DEF Publish
  <2>2. Held' = Held
    BY <2>1 DEF Held
  <2>3. PICK x \in Responses : claims' = [claims EXCEPT ![k] = x]
    BY <1>3 DEF Publish
  <2>4. claims' \in [Instances -> Responses \cup {nil}]
        /\ \A j \in Instances : claims'[j] # nil <=> claims[j] # nil
    BY <1>3, <2>3 DEF Publish, ClaimsTypeOK
  <2>5. ready' \subseteq Held
    BY <1>3, <1>0 DEF Publish, ClaimsTypeOK
  <2> QED
    BY <2>1, <2>2, <2>4, <2>5 DEF ClaimsTypeOK
<1> QED
  BY <1>1, <1>2, <1>3 DEF Library

(* What a call does with its instance. *)
LEMMA TakeTypes ==
  ASSUME ClaimsTypeOK, NEW c \in Clients, instance \notin own,
         Take(c) \/ TakeOwn(c) \/ LetGo(c)
  PROVE  /\ ClaimsTypeOK' /\ UNCHANGED instance
         /\ instance' \notin own'
         /\ \A d \in Clients : d # c =>
              /\ taken'[d] = taken[d]
              /\ taken[d] # nil => (taken[d] \in own' <=> taken[d] \in own)
         /\ Take(c) => taken'[c] # nil /\ taken'[c] \notin own'
         /\ TakeOwn(c) => taken'[c] # nil /\ taken'[c] \in own'
         /\ LetGo(c) => taken'[c] = nil
<1> USE ClaimsAssumption
<1>0. /\ instance \in Instances \cup {nil}
      /\ taken \in [Clients -> Instances \cup {nil}]
      /\ \A k \in Instances : claims[k] # nil <=> k \in Held
      /\ own \subseteq Held /\ Held \subseteq Instances
  BY DEF ClaimsTypeOK, Held
<1>1. CASE Take(c)
  <2>1. /\ taken[c] = nil /\ instance # nil /\ taken' = [taken EXCEPT ![c] = instance]
        /\ UNCHANGED <<instance, claims, auto, own, ready>>
    BY <1>1 DEF Take
  <2>2. Held' = Held
    BY <1>0, <2>1 DEF Held
  <2>3. ClaimsTypeOK'
    BY <1>0, <2>1, <2>2 DEF ClaimsTypeOK
  <2> QED
    BY <1>0, <1>1, <2>1, <2>3 DEF TakeOwn, LetGo
<1>2. CASE TakeOwn(c)
  <2>1. PICK k \in Instances :
          New(k) /\ own' = own \cup {k} /\ taken' = [taken EXCEPT ![c] = k]
    BY <1>2 DEF TakeOwn
  <2>2. taken[c] = nil /\ UNCHANGED <<instance, auto>>
    BY <1>2 DEF TakeOwn
  <2>3. Held' = Held \cup {k}
    BY <1>0, <2>1, <2>2 DEF Held
  <2>4. ClaimsTypeOK' /\ k \notin Held
    BY <1>0, <2>1, <2>2, <2>3, NewTypes
  <2>5. instance # k /\ \A d \in Clients : taken[d] # k
    BY <2>4 DEF Held
  <2> QED
    BY <1>0, <2>1, <2>2, <2>4, <2>5 DEF Take, LetGo
<1>3. CASE LetGo(c)
  <2>1. taken' = [taken EXCEPT ![c] = nil] /\ UNCHANGED instance /\ Forget
    BY <1>3 DEF LetGo
  <2>2. Held' \subseteq Held
    BY <1>0, <2>1 DEF Held
  <2>3. ClaimsTypeOK'
    BY <1>0, <2>1, <2>2, ForgetTypes
  <2>4. own' = own \cap Held'
    BY <2>1 DEF Forget
  <2>5. \A d \in Clients : d # c /\ taken[d] # nil => taken[d] \in Held'
    BY <1>0, <2>1 DEF Held
  <2> QED
    BY <1>0, <2>1, <2>3, <2>4, <2>5 DEF Take, TakeOwn
<1> QED
  BY <1>1, <1>2, <1>3

-----------------------------------------------------------------------------
(* What the invariant says of one client. *)

LEMMA ClientFacts ==
  ASSUME TransInv, NEW c \in Clients
  PROVE  /\ pc[c] = "idle" => Restore(c) = begun[c]
         /\ Open(c) => /\ pc[c] = "idle" /\ begun[c] \in Transaction
                       /\ handle[c] \in DOMAIN store /\ handle[c] \in heap
         /\ pc[c] = "unref" => handle[c] \in DOMAIN store
         /\ \A d \in Clients : d # c /\ c \in Allocated /\ d \in Allocated
                                 => handle[d] # handle[c]
<1> USE DEF TransInv, Open
<1>1. Open(c) \/ pc[c] = "unref" => handle[c] \in DOMAIN store
  BY DEF StoreExact, Saved
<1>2. Open(c) => pc[c] = "idle" /\ begun[c] \in Transaction /\ store[handle[c]] = begun[c]
  BY DEF ClientInv, TransTypeOK
<1>3. nil \notin DOMAIN store
  BY TransactionsAssumption DEF TransTypeOK
<1>4. pc[c] = "idle" => Restore(c) = begun[c]
  <2>1. CASE Open(c)
    BY <1>1, <1>2, <2>1 DEF Restore
  <2>2. CASE ~Open(c)
    BY <1>3, <2>2 DEF ClientInv, Restore
  <2> QED
    BY <2>1, <2>2
<1>5. DOMAIN store \subseteq heap
  BY DEF TransTypeOK
<1>6. \A d \in Clients : d # c /\ c \in Allocated /\ d \in Allocated => handle[d] # handle[c]
  BY DEF StoreExact
<1> QED
  BY <1>1, <1>2, <1>4, <1>5, <1>6

(* The flags of a transaction leave it one. *)
LEMMA FlagTypes ==
  ASSUME NEW t \in Transaction, NEW flag \in BOOLEAN
  PROVE  SetMustBeOnline(t, flag) \in Transaction /\ SetAllowUntrusted(t, flag) \in Transaction
BY DEF SetMustBeOnline, SetAllowUntrusted, Transaction

(* An instance that a call has holds a response. *)
LEMMA TakenClaims ==
  ASSUME TransInv, NEW c \in Clients, taken[c] # nil
  PROVE  /\ taken[c] \in Instances /\ claims[taken[c]] \in Responses
         /\ CurrentKopanoProductClaims(taken[c]) \in Transaction
<1>1. ClaimsTypeOK
  BY DEF TransInv, TransTypeOK
<1>2. taken[c] \in Held
  BY <1>1 DEF ClaimsTypeOK, Held
<1>3. taken[c] \in Instances /\ claims[taken[c]] \in Responses
  BY <1>1, <1>2 DEF ClaimsTypeOK, Held
<1> QED
  BY <1>3 DEF CurrentKopanoProductClaims, NewTransaction, Transaction

LEMMA TransInit == Init => TransInv /\ TimeoutsKept
<1> SUFFICES ASSUME Init PROVE TransInv /\ TimeoutsKept
  OBVIOUS
<1> USE TransactionsAssumption DEF Init, NoWait
<1>1. 0 \in IntMin..IntMax
  BY EnsuredAssumption DEF IntMin, IntMax
<1>2. TransTypeOK
  <2>1. Held = {}
    BY ClaimsAssumption DEF Held, ClaimsInit
  <2>2. ClaimsTypeOK
    BY <2>1 DEF ClaimsTypeOK, ClaimsInit
  <2> QED
    BY <1>1, <2>2 DEF TransTypeOK
<1>3. Saved = {} /\ Allocated = {}
  BY DEF Saved, Allocated, Open
<1>4. StoreExact
  BY <1>3 DEF StoreExact
<1>5. ClientInv /\ TimeoutsKept
  BY DEF ClientInv, Open, TimeoutsKept
<1>6. TakenInv
  BY DEF TakenInv, ClaimsInit
<1> QED
  BY <1>2, <1>4, <1>5, <1>6 DEF TransInv

(* What holds of the instances after any step. *)
LEMMA TakenStep == TransInv /\ [Next]_vars => ClaimsTypeOK' /\ TakenInv'
<1> SUFFICES ASSUME TransInv, [Next]_vars PROVE ClaimsTypeOK' /\ TakenInv'
  OBVIOUS
<1>1. /\ pc \in [Clients -> {"idle", "begin", "wait", "save", "unref", "free", "clear"}]
      /\ taken \in [Clients -> Instances \cup {nil}]
      /\ ClaimsTypeOK /\ TakenInv
  BY DEF TransInv, TransTypeOK, ClaimsTypeOK
<1>2. ASSUME UNCHANGED <<claimsVars, pc>>
      PROVE  ClaimsTypeOK' /\ TakenInv'
  BY <1>1, <1>2 DEF claimsVars, ClaimsTypeOK, Held, TakenInv
<1>3. CASE Library /\ UNCHANGED <<heap, store, handle, pc, wait, kpc, begun>>
  <2>1. ClaimsTypeOK' /\ UNCHANGED taken /\ instance' \notin own'
    BY <1>1, <1>3, LibraryTypes DEF TakenInv
  <2>2. \A c \in Clients : taken[c] # nil => (taken[c] \in own' <=> taken[c] \in own)
    BY <1>1, <1>3, LibraryTypes DEF TakenInv
  <2>3. UNCHANGED pc
    BY <1>3
  <2>4. TakenInv'
    BY <1>1, <2>1, <2>2, <2>3 DEF TakenInv
  <2> QED
    BY <2>1, <2>4
<1>4. ASSUME NEW c \in Clients, Client(c)
      PROVE  ClaimsTypeOK' /\ TakenInv'
  <2>1. ASSUME Take(c) \/ TakeOwn(c) \/ LetGo(c),
               \A d \in Clients : d # c => pc'[d] = pc[d],
               Take(c) => pc'[c] = "begin",
               TakeOwn(c) => pc'[c] = "wait",
               LetGo(c) => pc'[c] \in {"idle", "save"}
        PROVE  ClaimsTypeOK' /\ TakenInv'
    <3>1. /\ ClaimsTypeOK' /\ instance' \notin own'
          /\ \A d \in Clients : d # c =>
               /\ taken'[d] = taken[d]
               /\ taken[d] # nil => (taken[d] \in own' <=> taken[d] \in own)
          /\ Take(c) => taken'[c] # nil /\ taken'[c] \notin own'
          /\ TakeOwn(c) => taken'[c] # nil /\ taken'[c] \in own'
          /\ LetGo(c) => taken'[c] = nil
      BY <1>1, <2>1, TakeTypes DEF TakenInv
    <3>2. /\ pc'[c] \in {"begin", "wait"} <=> taken'[c] # nil
          /\ pc'[c] = "wait" => taken'[c] \in own'
          /\ pc'[c] = "begin" => taken'[c] \notin own'
      BY <2>1, <3>1
    <3>3. ASSUME NEW d \in Clients, d # c
          PROVE  /\ pc'[d] \in {"begin", "wait"} <=> taken'[d] # nil
                 /\ pc'[d] = "wait" => taken'[d] \in own'
                 /\ pc'[d] = "begin" => taken'[d] \notin own'
      BY <1>1, <2>1, <3>1, <3>3 DEF TakenInv
    <3> QED
      BY <3>1, <3>2, <3>3 DEF TakenInv
  <2>2. ASSUME UNCHANGED claimsVars, \E l \in {"idle", "save", "unref", "free", "clear"} :
                                        pc' = [pc EXCEPT ![c] = l],
               pc[c] \in {"idle", "save", "unref", "free", "clear"}
        PROVE  ClaimsTypeOK' /\ TakenInv'
    <3>1. UNCHANGED <<instance, claims, auto, own, ready, taken>> /\ Held' = Held
      BY <2>2 DEF claimsVars, Held
    <3>2. \A d \in Clients : pc'[d] \in {"begin", "wait"} => pc'[d] = pc[d]
      BY <1>1, <2>2
    <3>3. \A d \in Clients : pc[d] \in {"begin", "wait"} => pc'[d] = pc[d]
      BY <1>1, <2>2
    <3>4. TakenInv'
      BY <1>1, <3>1, <3>2, <3>3 DEF TakenInv
    <3>5. ClaimsTypeOK'
      BY <1>1, <3>1 DEF ClaimsTypeOK
    <3> QED
      BY <3>4, <3>5
  <2>3. CASE Begin(c)
    <3>1. Take(c) /\ pc' = [pc EXCEPT ![c] = "begin"]
      BY <2>3 DEF Begin, Goto
    <3>2. instance # nil /\ taken'[c] = instance /\ UNCHANGED claims
      BY <1>1, <3>1 DEF Take
    <3>3. ~LetGo(c)
      BY <1>1, <3>2 DEF LetGo
    <3>4. ASSUME NEW k \in Instances
          PROVE  ~New(k)
      <4>1. claims \in [Instances -> Responses \cup {nil}]
        BY <1>1 DEF ClaimsTypeOK
      <4> QED
        BY <3>2, <4>1, ClaimsAssumption DEF New
    <3>5. ~TakeOwn(c)
      BY <3>4 DEF TakeOwn
    <3> QED
      BY <1>1, <2>1, <3>1, <3>3, <3>5
  <2>4. CASE \E s \in Seconds : InstantEnsure(c, s)
    <3>1. TakeOwn(c) /\ pc' = [pc EXCEPT ![c] = "wait"]
      BY <2>4 DEF InstantEnsure, Goto
    <3>2. ~Take(c) /\ ~LetGo(c)
      <4>1. PICK k \in Instances : New(k) /\ taken' = [taken EXCEPT ![c] = k]
        BY <3>1 DEF TakeOwn
      <4>2. taken'[c] = k /\ k # nil /\ claims[k] = nil
        BY <1>1, <4>1, ClaimsAssumption DEF New
      <4>3. claims'[k] # nil
        BY <1>1, <4>1, ClaimsAssumption DEF New, ClaimsTypeOK
      <4> QED
        BY <1>1, <4>2, <4>3 DEF Take, LetGo
    <3> QED
      BY <1>1, <2>1, <3>1, <3>2
  <2>5. CASE BeginClaims(c) \/ InstantReady(c) \/ InstantFailed(c)
    <3>1. LetGo(c) /\ \E l \in {"idle", "save"} : pc' = [pc EXCEPT ![c] = l]
      BY <2>5 DEF BeginClaims, InstantReady, InstantFailed, Goto
    <3>2. taken'[c] = nil
      BY <1>1, <3>1 DEF LetGo
    <3>3. ~Take(c) /\ ~TakeOwn(c)
      BY <1>1, <3>2, ClaimsAssumption DEF Take, TakeOwn
    <3> QED
      BY <1>1, <2>1, <3>1, <3>3
  <2>6. CASE Save(c)
    BY <2>2, <2>6 DEF Save, Goto
  <2>7. ASSUME NEW t, NEW b, SetFlag(c, t, b)
        PROVE  ClaimsTypeOK' /\ TakenInv'
    BY <1>2, <2>7 DEF SetFlag
  <2>8. CASE End(c)
    BY <2>2, <2>8 DEF End, AfterRestore, Goto
  <2>9. CASE Unref(c) \/ Free(c) \/ Clear(c)
    BY <2>2, <2>9 DEF Unref, Free, Clear, Goto
  <2> QED
    BY <1>4, <2>3, <2>4, <2>5, <2>6, <2>7, <2>8, <2>9 DEF Client
<1> QED
  BY <1>2, <1>3, <1>4 DEF Next, vars

LEMMA TransTypeStep == TransInv /\ [Next]_vars => TransTypeOK'
<1> SUFFICES ASSUME TransInv, [Next]_vars PROVE TransTypeOK'
  OBVIOUS
<1> USE TransactionsAssumption DEF TransInv, TransTypeOK
<1>0. ClaimsTypeOK'
  BY TakenStep
<1>1. CASE UNCHANGED vars
  BY <1>0, <1>1 DEF vars
<1>2. CASE Library /\ UNCHANGED <<heap, store, handle, pc, wait, kpc, begun>>
  BY <1>0, <1>2
<1>3. ASSUME NEW c \in Clients, Client(c)
      PROVE  TransTypeOK'
  <2> USE DEF Goto, NoWait
  <2>1. CASE Begin(c)
    BY <1>0, <2>1 DEF Begin
  <2>2. CASE \E s \in Seconds : InstantEnsure(c, s)
    <3>1. PICK s \in Seconds : InstantEnsure(c, s)
      BY <2>2
    <3>2. s \in Nat /\ Duration(s) \in IntMin..IntMax
      BY DurationInt
    <3> QED
      BY <1>0, <3>1, <3>2 DEF InstantEnsure
  <2>3. CASE BeginClaims(c) \/ InstantReady(c) \/ InstantFailed(c)
    <3>1. taken[c] # nil => CurrentKopanoProductClaims(taken[c]) \in Transaction
      BY TakenClaims
    <3>2. 0 \in IntMin..IntMax
      BY EnsuredAssumption DEF IntMin, IntMax
    <3>3. taken[c] # nil
      BY <2>3 DEF BeginClaims, InstantReady, InstantFailed, TakenInv
    <3>4. CASE BeginClaims(c)
      BY <1>0, <3>1, <3>3, <3>4 DEF BeginClaims
    <3>5. CASE InstantReady(c)
      BY <1>0, <3>1, <3>2, <3>3, <3>5 DEF InstantReady
    <3>6. CASE InstantFailed(c)
      BY <1>0, <3>2, <3>6 DEF InstantFailed
    <3> QED
      BY <2>3, <3>4, <3>5, <3>6
  <2>4. CASE Save(c)
    BY <1>0, <2>4 DEF Save
  <2>5. ASSUME NEW t, NEW b \in Transaction, SetFlag(c, t, b)
        PROVE  TransTypeOK'
    BY <1>0, <2>5 DEF SetFlag
  <2>6. CASE End(c)
    BY <1>0, <2>6 DEF End, AfterRestore
  <2>7. CASE Unref(c)
    BY <1>0, <2>7 DEF Unref
  <2>8. CASE Free(c)
    <3>1. pc[c] = "free" /\ c \notin Saved
      BY <2>8 DEF Free, Saved, ClientInv
    <3>2. handle[c] \notin DOMAIN store
      BY <3>1 DEF StoreExact, Saved, Allocated
    <3> QED
      BY <1>0, <2>8, <3>2 DEF Free
  <2>9. CASE Clear(c)
    BY <1>0, <2>9 DEF Clear, AfterEnd
  <2>10. ASSUME NEW flag \in BOOLEAN,
                \/ SetFlag(c, SetMustBeOnline(Restore(c), flag), SetMustBeOnline(begun[c], flag))
                \/ SetFlag(c, SetAllowUntrusted(Restore(c), flag), SetAllowUntrusted(begun[c], flag))
         PROVE  TransTypeOK'
    <3>1. begun[c] \in Transaction
      BY <2>10, ClientFacts DEF SetFlag, Open
    <3> QED
      BY <2>5, <2>10, <3>1, FlagTypes
  <2> QED
    BY <1>3, <2>1, <2>2, <2>3, <2>4, <2>6, <2>7, <2>8, <2>9, <2>10 DEF Client
<1> QED
  BY <1>1, <1>2, <1>3 DEF Next

LEMMA TimeoutStep == TransInv /\ TimeoutsKept /\ [Next]_vars => TimeoutsKept'
<1> SUFFICES ASSUME TransInv, TimeoutsKept, [Next]_vars PROVE TimeoutsKept'
  OBVIOUS
<1>1. /\ pc \in [Clients -> {"idle", "begin", "wait", "save", "unref", "free", "clear"}]
      /\ wait \in [Clients -> [asked : Seconds \cup {0}, timeout : IntMin..IntMax]]
  BY DEF TransInv, TransTypeOK
<1>2. CASE UNCHANGED <<pc, wait>>
  BY <1>2 DEF TimeoutsKept
<1>3. ASSUME NEW c \in Clients, NEW s \in Seconds, InstantEnsure(c, s)
      PROVE  TimeoutsKept'
  <2>1. wait'[c].asked = s /\ wait'[c].timeout = Duration(s)
    BY <1>1, <1>3 DEF InstantEnsure
  <2>2. \A d \in Clients : d # c => wait'[d] = wait[d] /\ pc'[d] = pc[d]
    BY <1>1, <1>3 DEF InstantEnsure, Goto
  <2>3. s * Second <= IntMax => Duration(s) = s * Second
    BY TransactionsAssumption, DurationInt
  <2> QED
    BY <2>1, <2>2, <2>3 DEF TimeoutsKept
<1>4. ASSUME NEW c \in Clients, Client(c), ~\E s \in Seconds : InstantEnsure(c, s)
      PROVE  TimeoutsKept'
  <2>1. pc'[c] # "wait" /\ \A d \in Clients : d # c => wait'[d] = wait[d] /\ pc'[d] = pc[d]
    BY <1>1, <1>4 DEF Client, Begin, BeginClaims, InstantReady, InstantFailed, Save, SetFlag, End,
       AfterRestore, Unref, Free, Clear, Goto
  <2> QED
    BY <2>1 DEF TimeoutsKept
<1> QED
  BY <1>2, <1>3, <1>4 DEF Next, vars

-----------------------------------------------------------------------------
(* Pointers. *)

(* The steps that leave the pointers alone. *)
LEMMA StoreFrame ==
  ASSUME StoreExact, UNCHANGED <<heap, handle>>, DOMAIN store' = DOMAIN store,
         Saved' = Saved, Allocated' = Allocated
  PROVE  StoreExact'
BY DEF StoreExact

LEMMA StoreStep == TransInv /\ [Next]_vars => StoreExact'
<1> SUFFICES ASSUME TransInv, [Next]_vars PROVE StoreExact'
  OBVIOUS
<1> USE DEF TransInv
<1>1. /\ pc \in [Clients -> {"idle", "begin", "wait", "save", "unref", "free", "clear"}]
      /\ begun \in [Clients -> Transaction \cup {nil}]
      /\ kpc \in [Clients -> Transaction \cup {nil}]
      /\ handle \in [Clients -> Addresses \cup {nil}]
      /\ DOMAIN store \subseteq heap
  BY DEF TransTypeOK
<1>2. CASE UNCHANGED <<heap, store, handle, pc, begun>>
  BY <1>2, StoreFrame DEF Saved, Allocated, Open
<1>3. ASSUME NEW c \in Clients, Client(c)
      PROVE  StoreExact'
  <2>1. CASE Begin(c) \/ BeginClaims(c) \/ (\E s \in Seconds : InstantEnsure(c, s))
               \/ InstantReady(c) \/ InstantFailed(c)
    <3>1. /\ UNCHANGED <<heap, store, handle, begun>>
          /\ \E l \in {"idle", "begin", "wait", "save"} : pc' = [pc EXCEPT ![c] = l]
          /\ pc[c] \in {"idle", "begin", "wait", "save"}
      BY <2>1 DEF Begin, BeginClaims, InstantEnsure, InstantReady, InstantFailed, Goto
    <3>2. Saved' = Saved /\ Allocated' = Allocated
      BY <1>1, <3>1 DEF Saved, Allocated, Open
    <3> QED
      BY <3>1, <3>2, StoreFrame
  <2>2. CASE Save(c)
    <3>1. PICK a \in Addresses \ heap :
            /\ heap' = heap \cup {a}
            /\ DOMAIN store' = DOMAIN store \cup {a}
            /\ handle' = [handle EXCEPT ![c] = a]
      BY <2>2 DEF Save
    <3>2. /\ pc[c] = "save" /\ pc' = [pc EXCEPT ![c] = "idle"]
          /\ begun' = [begun EXCEPT ![c] = kpc[c]] /\ kpc[c] # nil
          /\ ~Open(c)
      BY <2>2 DEF Save, Goto, ClientInv
    <3>3. Saved' = Saved \cup {c} /\ c \notin Saved
      BY <1>1, <3>2 DEF Saved, Open
    <3>4. Allocated' = Allocated \cup {c} /\ c \notin Allocated
      BY <1>1, <3>2, <3>3 DEF Allocated
    <3>5. handle'[c] = a /\ \A d \in Clients \ {c} : handle'[d] = handle[d]
      BY <1>1, <3>1
    <3>6. Saved \subseteq Clients \ {c} /\ Allocated \subseteq Clients \ {c}
      BY <3>3, <3>4 DEF Saved, Allocated
    <3>7. DOMAIN store' = {handle'[d] : d \in Saved'}
      BY <3>1, <3>3, <3>5, <3>6 DEF StoreExact
    <3>8. heap' = {handle'[d] : d \in Allocated'}
      BY <3>1, <3>4, <3>5, <3>6 DEF StoreExact
    <3>9. \A d \in Allocated : handle[d] # a
      BY <3>1 DEF StoreExact
    <3>10. \A d, e \in Allocated' : handle'[d] = handle'[e] => d = e
      BY <3>4, <3>5, <3>6, <3>9 DEF StoreExact
    <3> QED
      BY <3>7, <3>8, <3>10 DEF StoreExact
  <2>3. ASSUME NEW flag \in BOOLEAN,
               \/ SetFlag(c, SetMustBeOnline(Restore(c), flag), SetMustBeOnline(begun[c], flag))
               \/ SetFlag(c, SetAllowUntrusted(Restore(c), flag), SetAllowUntrusted(begun[c], flag))
        PROVE  StoreExact'
    <3>1. Open(c) /\ begun[c] \in Transaction
      BY <2>3, ClientFacts DEF SetFlag, Open
    <3>2. PICK b \in Transaction : begun' = [begun EXCEPT ![c] = b]
      BY <2>3, <3>1, FlagTypes DEF SetFlag
    <3>3. UNCHANGED <<heap, handle, pc>> /\ DOMAIN store' = DOMAIN store
      BY <2>3 DEF SetFlag
    <3>4. \A d \in Clients : Open(d)' <=> Open(d)
      BY <1>1, <3>1, <3>2, TransactionsAssumption DEF Open
    <3>5. Saved' = Saved /\ Allocated' = Allocated
      BY <3>3, <3>4 DEF Saved, Allocated
    <3> QED
      BY <3>3, <3>5, StoreFrame
  <2>4. CASE End(c)
    <3>1. /\ pc[c] = "idle" /\ begun' = [begun EXCEPT ![c] = nil]
          /\ UNCHANGED <<heap, store, handle>>
          /\ pc' = [pc EXCEPT ![c] = IF Open(c) THEN "unref" ELSE "clear"]
      BY <2>4, ClientFacts DEF End, Goto, AfterRestore, Open
    <3>2. Saved' = Saved
      BY <1>1, <3>1 DEF Saved, Open, ClientInv
    <3>3. Allocated' = Allocated
      BY <1>1, <3>1, <3>2 DEF Allocated
    <3> QED
      BY <3>1, <3>2, <3>3, StoreFrame
  <2>5. CASE Unref(c)
    <3>1. /\ pc[c] = "unref" /\ pc' = [pc EXCEPT ![c] = "free"] /\ ~Open(c)
          /\ DOMAIN store' = DOMAIN store \ {handle[c]}
          /\ UNCHANGED <<heap, handle, begun>>
      BY <2>5 DEF Unref, Goto, ClientInv
    <3>2. Saved' = Saved \ {c} /\ c \in Saved
      BY <1>1, <3>1 DEF Saved, Open
    <3>3. Allocated' = Allocated /\ c \in Allocated /\ Saved \subseteq Allocated
      BY <1>1, <3>1, <3>2 DEF Allocated
    <3>4. \A d \in Saved : d # c => handle[d] # handle[c]
      BY <3>3 DEF StoreExact
    <3>5. DOMAIN store' = {handle[d] : d \in Saved'}
      BY <3>1, <3>2, <3>4 DEF StoreExact
    <3> QED
      BY <3>1, <3>3, <3>5 DEF StoreExact
  <2>6. CASE Free(c)
    <3>1. /\ pc[c] = "free" /\ pc' = [pc EXCEPT ![c] = "clear"] /\ ~Open(c)
          /\ heap' = heap \ {handle[c]}
          /\ UNCHANGED <<store, handle, begun>>
      BY <2>6 DEF Free, Goto, ClientInv
    <3>2. Saved' = Saved /\ c \notin Saved
      BY <1>1, <3>1 DEF Saved, Open
    <3>3. Allocated' = Allocated \ {c} /\ c \in Allocated
      BY <1>1, <3>1, <3>2 DEF Allocated
    <3>4. heap' = {handle[d] : d \in Allocated'}
      BY <3>1, <3>3 DEF StoreExact
    <3> QED
      BY <3>1, <3>2, <3>3, <3>4 DEF StoreExact
  <2>7. CASE Clear(c)
    <3>1. /\ pc[c] = "clear" /\ pc' = [pc EXCEPT ![c] = "idle"] /\ ~Open(c)
          /\ handle' = [handle EXCEPT ![c] = nil]
          /\ UNCHANGED <<heap, store, begun>>
      BY <2>7 DEF Clear, AfterEnd, Goto, ClientInv
    <3>2. Saved' = Saved /\ Allocated' = Allocated /\ c \notin Allocated
      BY <1>1, <3>1 DEF Saved, Allocated, Open
    <3>3. \A d \in Allocated : handle'[d] = handle[d]
      BY <1>1, <3>1, <3>2 DEF Allocated, Saved
    <3> QED
      BY <3>1, <3>2, <3>3 DEF StoreExact, Allocated
  <2> QED
    BY <1>3, <2>1, <2>2, <2>3, <2>4, <2>5, <2>6, <2>7 DEF Client
<1> QED
  BY <1>2, <1>3 DEF Next, vars

(* A step of one client does not change what another has begun and saved. *)
LEMMA OtherClients ==
  ASSUME TransInv, NEW c \in Clients, Client(c), NEW d \in Clients, d # c
  PROVE  /\ pc'[d] = pc[d] /\ handle'[d] = handle[d] /\ kpc'[d] = kpc[d]
         /\ begun'[d] = begun[d]
         /\ Open(d) => store'[handle[d]] = store[handle[d]]
<1> USE DEF Client, Begin, BeginClaims, InstantEnsure, InstantReady, InstantFailed, Save, SetFlag, End,
            AfterRestore, Unref, Free, Clear, Goto
<1>1. /\ pc \in [Clients -> {"idle", "begin", "wait", "save", "unref", "free", "clear"}]
      /\ begun \in [Clients -> Transaction \cup {nil}]
      /\ kpc \in [Clients -> Transaction \cup {nil}]
      /\ handle \in [Clients -> Addresses \cup {nil}]
  BY DEF TransInv, TransTypeOK
<1>2. pc'[d] = pc[d] /\ handle'[d] = handle[d]
  BY <1>1
<1>3. kpc'[d] = kpc[d] /\ begun'[d] = begun[d]
  BY <1>1
<1>4. ASSUME Open(d)
      PROVE  store'[handle[d]] = store[handle[d]]
  <2>1. handle[d] \in DOMAIN store /\ handle[d] \in heap /\ d \in Allocated
    BY <1>4, ClientFacts DEF Allocated, Saved
  <2>2. CASE Save(c)
    BY <2>1, <2>2
  <2>3. CASE pc[c] = "unref"
    <3>1. handle[d] # handle[c]
      BY <2>1, <2>3, ClientFacts DEF Allocated, Saved
    <3> QED
      BY <2>1, <2>3, <3>1
  <2>4. CASE pc[c] = "idle" /\ store' # store
    <3>1. Open(c)
      BY <2>4, ClientFacts DEF Open
    <3>2. handle[d] # handle[c]
      BY <2>1, <3>1, ClientFacts DEF Allocated, Saved
    <3> QED
      BY <2>1, <2>4, <3>2
  <2> QED
    BY <2>2, <2>3, <2>4
<1> QED
  BY <1>2, <1>3, <1>4

-----------------------------------------------------------------------------
(* Every client. *)

LEMMA ClientStep == TransInv /\ [Next]_vars => ClientInv'
<1> SUFFICES ASSUME TransInv, [Next]_vars PROVE ClientInv'
  OBVIOUS
<1>1. /\ pc \in [Clients -> {"idle", "begin", "wait", "save", "unref", "free", "clear"}]
      /\ begun \in [Clients -> Transaction \cup {nil}]
      /\ kpc \in [Clients -> Transaction \cup {nil}]
      /\ handle \in [Clients -> Addresses \cup {nil}]
  BY DEF TransInv, TransTypeOK
<1>2. ClientInv
  BY DEF TransInv
<1>3. CASE UNCHANGED <<store, handle, pc, kpc, begun>>
  BY <1>2, <1>3 DEF ClientInv, Open
<1>4. ASSUME NEW c \in Clients, Client(c)
      PROVE  ClientInv'
  <2> DEFINE Inv(d) == /\ pc[d] = "save" => kpc[d] # nil
                       /\ Open(d) => pc[d] = "idle"
                       /\ pc[d] \in {"unref", "free"} \/ Open(d) => handle[d] # nil
                       /\ pc[d] \in {"idle", "begin", "wait", "save"} /\ ~Open(d) => handle[d] = nil
                       /\ Open(d) => store[handle[d]] = begun[d]
  <2>1. Inv(c) /\ \A d \in Clients : Inv(d)
    BY <1>2 DEF ClientInv
  <2>2. ASSUME NEW d \in Clients, d # c
        PROVE  Inv(d)'
    BY <1>4, <2>1, <2>2, OtherClients DEF Open
  <2>3. Inv(c)'
    <3>1. CASE Begin(c) \/ BeginClaims(c) \/ (\E s \in Seconds : InstantEnsure(c, s))
                 \/ InstantReady(c) \/ InstantFailed(c)
      <4>1. pc[c] \in {"idle", "begin", "wait"} /\ handle[c] = nil /\ ~Open(c)
        <5>1. pc[c] \in {"idle", "begin", "wait"} /\ (pc[c] = "idle" => handle[c] = nil)
          BY <3>1 DEF Begin, BeginClaims, InstantEnsure, InstantReady, InstantFailed
        <5> QED
          BY <2>1, <5>1
      <4>2. UNCHANGED <<store, handle, begun>>
        BY <3>1 DEF Begin, BeginClaims, InstantEnsure, InstantReady, InstantFailed
      <4>3. pc'[c] \in {"idle", "begin", "wait"} \/ (pc'[c] = "save" /\ kpc'[c] \in Transaction)
        <5>1. CASE BeginClaims(c) \/ InstantReady(c)
          <6>1. taken[c] # nil
            BY <5>1 DEF BeginClaims, InstantReady, TransInv, TakenInv
          <6> QED
            BY <1>1, <5>1, <6>1, TakenClaims DEF BeginClaims, InstantReady, Goto
        <5> QED
          BY <1>1, <3>1, <5>1 DEF Begin, InstantEnsure, InstantFailed, Goto
      <4> QED
        BY <4>1, <4>2, <4>3, TransactionsAssumption DEF Open
    <3>2. CASE Save(c)
      <4>1. PICK a \in Addresses : handle'[c] = a /\ store'[a] = kpc[c]
        BY <1>1, <3>2 DEF Save
      <4>2. pc'[c] = "idle" /\ begun'[c] = kpc[c] /\ kpc[c] # nil
        BY <1>1, <2>1, <3>2 DEF Save, Goto
      <4> QED
        BY <4>1, <4>2, TransactionsAssumption DEF Open
    <3>3. ASSUME NEW flag \in BOOLEAN,
                 \/ SetFlag(c, SetMustBeOnline(Restore(c), flag), SetMustBeOnline(begun[c], flag))
                 \/ SetFlag(c, SetAllowUntrusted(Restore(c), flag), SetAllowUntrusted(begun[c], flag))
          PROVE  Inv(c)'
      <4>1. Open(c) /\ Restore(c) = begun[c] /\ handle[c] \in DOMAIN store
        BY <3>3, ClientFacts DEF SetFlag, Open
      <4>2. /\ UNCHANGED <<pc, handle>>
            /\ store'[handle[c]] = begun'[c] /\ begun'[c] \in Transaction
        <5>1. begun[c] \in Transaction
          BY <1>1, <4>1 DEF Open
        <5> QED
          BY <1>1, <3>3, <4>1, <5>1, FlagTypes DEF SetFlag
      <4> QED
        BY <2>1, <4>1, <4>2, TransactionsAssumption DEF Open
    <3>4. CASE End(c)
      <4>1. /\ UNCHANGED handle /\ begun'[c] = nil
            /\ pc'[c] = IF Open(c) THEN "unref" ELSE "clear"
        BY <1>1, <3>4, ClientFacts DEF End, Goto, AfterRestore, Open
      <4> QED
        BY <2>1, <4>1 DEF Open
    <3>5. CASE Unref(c)
      <4>1. UNCHANGED <<handle, begun>> /\ pc[c] = "unref" /\ pc'[c] = "free"
        BY <1>1, <3>5 DEF Unref, Goto
      <4> QED
        BY <2>1, <4>1 DEF Open
    <3>6. CASE Free(c)
      <4>1. UNCHANGED <<handle, begun>> /\ pc[c] = "free" /\ pc'[c] = "clear"
        BY <1>1, <3>6 DEF Free, Goto
      <4> QED
        BY <2>1, <4>1 DEF Open
    <3>7. CASE Clear(c)
      <4>1. UNCHANGED begun /\ handle'[c] = nil /\ pc[c] = "clear" /\ pc'[c] = "idle"
        BY <1>1, <3>7 DEF Clear, AfterEnd, Goto
      <4> QED
        BY <2>1, <4>1 DEF Open
    <3> QED
      BY <1>4, <3>1, <3>2, <3>3, <3>4, <3>5, <3>6, <3>7 DEF Client
  <2> HIDE DEF Inv
  <2>4. \A d \in Clients : Inv(d)'
    BY <2>2, <2>3
  <2> QED
    BY <2>4 DEF ClientInv, Inv
<1> QED
  BY <1>3, <1>4 DEF Next, vars

LEMMA TransInductive ==
  /\ Init => TransInv
  /\ TransInv /\ [Next]_vars => TransInv'
BY TransInit, TransTypeStep, StoreStep, ClientStep, TakenStep DEF TransInv

(***************************************************************************)
(* Pointers, saved transactions and timeouts keep their types (api.go:     *)
(* 124-229).                                                               *)
(***************************************************************************)
THEOREM TransTypeCorrect == Spec => []TransTypeOK
<1>1. TransInv => TransTypeOK
  BY DEF TransInv
<1> QED
  BY <1>1, TransInductive, PTL DEF Spec

(***************************************************************************)
(* From begin to end a client reaches the claims it began with and the     *)
(* flags it set, whatever other clients do and however malloc reuses       *)
(* addresses, and nothing after the end (api.go:213-229,                   *)
(* pykustomer.c:170-192).                                                  *)
(***************************************************************************)
THEOREM EveryClientItsOwn == Spec => []OwnTransaction
<1>1. TransInv => OwnTransaction
  BY ClientFacts DEF OwnTransaction
<1> QED
  BY <1>1, TransInductive, PTL DEF Spec

(***************************************************************************)
(* What is saved and allocated is what clients have begun and not ended,   *)
(* and no two of them share an address (api.go:178-223).                   *)
(***************************************************************************)
THEOREM NothingLeaks == Spec => []StoreExact
<1>1. TransInv => StoreExact
  BY DEF TransInv
<1> QED
  BY <1>1, TransInductive, PTL DEF Spec

(***************************************************************************)
(* A caller waits as long as it asked to, for any length of a second and   *)
(* any width of the integers, if the product fits (api.go:124, 203).       *)
(***************************************************************************)
THEOREM WaitsAsAsked == Spec => []TimeoutsKept
<1>1. Init => TransInv /\ TimeoutsKept
  BY TransInit
<1>2. TransInv /\ TimeoutsKept /\ [Next]_vars => TransInv' /\ TimeoutsKept'
  BY TransInductive, TimeoutStep
<1> QED
  BY <1>1, <1>2, PTL DEF Spec

-----------------------------------------------------------------------------
(* Sessions. *)

\* What is about to be saved, and else what the client would say it has.
Has(c) == IF pc[c] = "save" THEN kpc[c] ELSE begun[c]
OpenedIsHas == \A c \in Clients : Opened(c) = Has(c)

(* The invariant makes this of Opened. *)
LEMMA OpenedIs == TransInv => OpenedIsHas
<1> SUFFICES ASSUME TransInv, NEW c \in Clients
             PROVE  Opened(c) = IF pc[c] = "save" THEN kpc[c] ELSE begun[c]
  BY DEF OpenedIsHas, Has
<1>1. pc[c] \in {"idle", "begin", "wait", "save", "unref", "free", "clear"}
  BY DEF TransInv, TransTypeOK
<1>2. CASE pc[c] = "idle"
  BY <1>2, ClientFacts DEF Opened
<1>3. CASE pc[c] \in {"begin", "wait"}
  <2>1. handle[c] = nil /\ begun[c] = nil
    BY <1>3 DEF TransInv, ClientInv, Open
  <2>2. handle[c] \notin DOMAIN store
    BY <2>1, TransactionsAssumption DEF TransInv, TransTypeOK
  <2> QED
    BY <1>3, <2>1, <2>2 DEF Opened, Restore
<1>4. CASE pc[c] = "save"
  BY <1>4 DEF Opened
<1>5. CASE pc[c] \in {"unref", "free", "clear"}
  BY <1>5 DEF Opened, TransInv, ClientInv, Open
<1> QED
  BY <1>1, <1>2, <1>3, <1>4, <1>5

(* Every step is one of Sessions or changes nothing there. *)
LEMMA SessionsStep ==
  ASSUME TransInv, TransInv', [Next]_vars
  PROVE  [Promise!Next]_(Promise!vars)
<1> DEFINE opened == [c \in Clients |-> Opened(c)]
<1>0. OpenedIsHas /\ OpenedIsHas'
  BY OpenedIs, PTL
<1>1. opened = [c \in Clients |-> Has(c)] /\ opened' = [c \in Clients |-> Has(c)']
  BY <1>0 DEF OpenedIsHas
<1>2. /\ pc \in [Clients -> {"idle", "begin", "wait", "save", "unref", "free", "clear"}]
      /\ begun \in [Clients -> Transaction \cup {nil}]
      /\ kpc \in [Clients -> Transaction \cup {nil}]
  BY DEF TransInv, TransTypeOK
<1>3. CASE UNCHANGED vars
  <2>1. UNCHANGED <<claimsVars, opened>>
    BY <1>1, <1>3 DEF vars, Has
  <2> QED
    BY <2>1 DEF Promise!vars, Promise!claimsVars, claimsVars
<1>4. CASE Library /\ UNCHANGED <<heap, store, handle, pc, wait, kpc, begun>>
  <2>1. UNCHANGED opened
    BY <1>1, <1>4 DEF Has
  <2>2. Promise!Library
    BY <1>4 DEF Library, Initialize, New, Uninitialize, Forget, Held, Publish,
                Promise!Library, Promise!Initialize, Promise!New, Promise!Uninitialize,
                Promise!Forget, Promise!Held, Promise!Publish
  <2> QED
    BY <2>1, <2>2 DEF Promise!Next
<1>5. ASSUME NEW c \in Clients, Client(c)
      PROVE  [Promise!Next]_(Promise!vars)
  <2>1. ASSUME NEW t, Has(c)' = t
        PROVE  opened' = [opened EXCEPT ![c] = t]
    <3>1. \A d \in Clients \ {c} : Has(d)' = Has(d)
      BY <1>5, OtherClients DEF Has
    <3> QED
      BY <1>1, <2>1, <3>1
  <2>2. Has(c)' = Has(c) => UNCHANGED opened
    BY <1>1, <2>1
  <2>3. Has(c)' = Has(c) /\ UNCHANGED claimsVars => UNCHANGED Promise!vars
    BY <2>2 DEF Promise!vars, Promise!claimsVars, claimsVars
  <2>4. opened[c] = Has(c)
    BY <1>1
  <2>5. pc[c] = "idle" /\ handle[c] = nil => begun[c] = nil
    BY DEF TransInv, ClientInv, Open
  <2>6. pc[c] # "idle" => begun[c] = nil
    BY DEF TransInv, ClientInv, Open
  <2>7. CASE Begin(c)
    <3>1. Has(c) = nil /\ Has(c)' = Has(c) /\ Take(c)
      BY <1>2, <2>5, <2>7 DEF Begin, Goto, Has
    <3>2. Promise!BeginEnsure(c)
      BY <2>2, <2>4, <3>1 DEF Promise!BeginEnsure, Promise!Take, Take
    <3> QED
      BY <3>2 DEF Promise!Next
  <2>8. CASE \E s \in Seconds : InstantEnsure(c, s)
    <3>1. Has(c) = nil /\ Has(c)' = Has(c) /\ TakeOwn(c)
      BY <1>2, <2>5, <2>8 DEF InstantEnsure, Goto, Has
    <3>2. Promise!InstantEnsure(c)
      BY <2>2, <2>4, <3>1
         DEF Promise!InstantEnsure, Promise!TakeOwn, Promise!New, TakeOwn, New
    <3> QED
      BY <3>2 DEF Promise!Next
  <2>9. CASE BeginClaims(c) \/ InstantReady(c)
    <3>1. taken[c] # nil /\ (taken[c] \in own => taken[c] \in ready)
      BY <2>9 DEF BeginClaims, InstantReady, Ready, TransInv, TakenInv
    <3>2. Has(c)' = Promise!Fresh(claims[taken[c]])
      BY <1>2, <2>9 DEF BeginClaims, InstantReady, CurrentKopanoProductClaims,
                        NewTransaction, Goto, Promise!Fresh, Has
    <3>3. Promise!LetGo(c)
      BY <2>9 DEF BeginClaims, InstantReady, LetGo, Forget, Held,
                  Promise!LetGo, Promise!Forget, Promise!Held
    <3>4. Promise!Give(c)
      BY <2>1, <3>1, <3>2, <3>3 DEF Promise!Give
    <3> QED
      BY <3>4 DEF Promise!Next
  <2>10. CASE InstantFailed(c)
    <3>1. Has(c)' = Has(c) /\ taken[c] \in own
      BY <1>2, <2>10 DEF InstantFailed, Goto, Has, TransInv, TakenInv
    <3>2. Promise!LetGo(c)
      BY <2>10 DEF InstantFailed, LetGo, Forget, Held,
                   Promise!LetGo, Promise!Forget, Promise!Held
    <3>3. Promise!Fail(c)
      BY <2>2, <3>1, <3>2 DEF Promise!Fail
    <3> QED
      BY <3>3 DEF Promise!Next
  <2>11. CASE Save(c)
    BY <1>2, <2>3, <2>11 DEF Save, Goto, Has
  <2>12. ASSUME NEW flag \in BOOLEAN,
                \/ SetFlag(c, SetMustBeOnline(Restore(c), flag), SetMustBeOnline(begun[c], flag))
                \/ SetFlag(c, SetAllowUntrusted(Restore(c), flag), SetAllowUntrusted(begun[c], flag))
         PROVE  Promise!Next
    <3>1. pc[c] = "idle" /\ UNCHANGED pc /\ Has(c) # nil
      BY <2>12, ClientFacts DEF SetFlag, Has
    <3>2. \/ Has(c)' = [Has(c) EXCEPT !.mustBeOnline = flag]
          \/ Has(c)' = [Has(c) EXCEPT !.allowUntrusted = flag]
      BY <1>2, <2>12, <3>1 DEF SetFlag, SetMustBeOnline, SetAllowUntrusted, Has
    <3>3. \/ opened' = [opened EXCEPT ![c] = [@ EXCEPT !.mustBeOnline = flag]]
          \/ opened' = [opened EXCEPT ![c] = [@ EXCEPT !.allowUntrusted = flag]]
      BY <1>1, <2>1, <3>2
    <3>4. UNCHANGED claimsVars
      BY <2>12 DEF SetFlag
    <3>5. Promise!SetFlag(c)
      BY <2>4, <2>12, <3>1, <3>3, <3>4
         DEF Promise!SetFlag, Promise!claimsVars, claimsVars
    <3> QED
      BY <3>5 DEF Promise!Next
  <2>13. CASE End(c)
    <3>1. Has(c)' = nil
      BY <1>2, <2>13 DEF End, AfterRestore, Goto, Has
    <3>2. taken[c] = nil /\ UNCHANGED claimsVars
      BY <2>13 DEF End, TransInv, TakenInv
    <3>3. Promise!End(c)
      BY <2>1, <3>1, <3>2 DEF Promise!End, Promise!claimsVars, claimsVars
    <3> QED
      BY <3>3 DEF Promise!Next
  <2>14. CASE Unref(c) \/ Free(c) \/ Clear(c)
    BY <1>2, <2>3, <2>6, <2>14 DEF Unref, Free, Clear, Goto, Has
  <2> QED
    BY <1>5, <2>7, <2>8, <2>9, <2>10, <2>11, <2>12, <2>13, <2>14 DEF Client
<1> QED
  BY <1>3, <1>4, <1>5 DEF Next

(***************************************************************************)
(* Pointers into a table, whose addresses malloc gives out again as soon   *)
(* as they are free, implement transactions that only their clients begin, *)
(* change and end, each with the claims that the instance of its call held *)
(* when the call read them (api.go:163-229, libkustomer.go:257-268,        *)
(* 301-322, kustomer.go:452-460).                                          *)
(***************************************************************************)
THEOREM SessionsImplemented == Spec => ImplementsSessions
<1>1. Init => Promise!Init
  BY TransactionsAssumption
     DEF Init, ClaimsInit, Promise!Init, Promise!ClaimsInit, Opened, Restore
<1> QED
  BY <1>1, TransInductive, SessionsStep, PTL DEF Spec, ImplementsSessions, Promise!Spec

=============================================================================
