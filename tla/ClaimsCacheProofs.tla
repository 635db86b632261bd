-------------------------- MODULE ClaimsCacheProofs --------------------------
(***************************************************************************)
(* Proofs about module ClaimsCache, for every set of callers and every     *)
(* number of calls, initializations, versions and failures.                *)
(***************************************************************************)
EXTENDS ClaimsCache, KustomerRefines

(* The leader in k.fetching is the only caller with a request or an answer on
   its way, and while there is one the cache is empty. *)
LeaderInv ==
  /\ \A c \in Callers : call[c] \in {"fetch", "store"} <=> fetching = c
  /\ fetching # NoCaller => currentClaims = 0
  /\ FollowersHaveLeader

\* What callers have been given, or are about to return with their channel closed,
\* is not newer than v.
NotNewer(v) == seen <= v /\ \A c \in Callers : call[c] = "close" => got[c] <= v

(* Nobody has seen anything newer than the daemon, the cache or the answer that
   is about to be cached; and an answer is not older than what was known when its
   caller called. *)
SeenInv ==
  /\ currentClaims <= version
  /\ NotNewer(version)
  /\ currentClaims # 0 => NotNewer(currentClaims)
  /\ \A c \in Callers :
       /\ floor[c] <= seen
       /\ returned[c] # 0 => floor[c] = 0
       /\ call[c] = "close" /\ got[c] # 0 => floor[c] <= got[c]
       /\ call[c] = "store" /\ got[c] # 0 => got[c] <= version /\ NotNewer(got[c])

CacheInv == TypeOK /\ CacheTypeOK /\ LeaderInv

-----------------------------------------------------------------------------
(* The instance only ever resets the cache, and the daemon's claims only get
   newer. *)
LEMMA InstanceStep ==
  ASSUME TypeOK, [Next]_vars
  PROVE  /\ currentClaims' = currentClaims \/ currentClaims' = 0
         /\ version' = version \/ version' = version + 1
<1> USE DEF instVars, genVars, watchVars, refreshVars, envVars
<1>1. CASE UNCHANGED vars
  BY <1>1 DEF vars
<1>2. CASE Initialize
  BY <1>2 DEF Initialize
<1>3. CASE InitializeAbsError
  BY <1>3 DEF InitializeAbsError
<1>4. CASE Uninitialize
  BY <1>4 DEF Uninitialize
<1>5. CASE ParentCancel
  BY <1>5 DEF ParentCancel
<1>6. CASE DaemonUpdate
  BY <1>6 DEF DaemonUpdate
<1>7. ASSUME NEW g \in Gens, Watcher(g)
      PROVE  UNCHANGED <<currentClaims, version>>
  BY <1>7 DEF Watcher, WatchStart, WatchEvent, WatchSend, WatchError,
              WatchReconnect, WatchDone
<1>8. ASSUME NEW g \in Gens, StreamOpen(g) \/ StreamRefused(g) \/ StreamBreak(g)
      PROVE  UNCHANGED <<currentClaims, version>>
  BY <1>8 DEF StreamOpen, StreamRefused, StreamBreak
<1>9. ASSUME NEW g \in Gens, Refresher(g)
      PROVE  (currentClaims' = currentClaims \/ currentClaims' = 0) /\ version' = version
  BY <1>9 DEF Refresher, RefreshTop, RefreshTriggered, RefreshBegin, FetchOK,
              FetchFail, RefreshRetry, Publish, SignalReady, RefreshDone
<1> QED
  BY <1>1, <1>2, <1>3, <1>4, <1>5, <1>6, <1>7, <1>8, <1>9 DEF Next

(* A step of a caller leaves the types of the instance alone. *)
LEMMA CallerKeepsTypes ==
  ASSUME TypeOK, CacheTypeOK,
         NEW c \in Callers, Call(c) \/ Proceed(c) \/ GiveUpFollowing(c)
  PROVE  TypeOK' /\ version' = version
<1>1. CASE UNCHANGED vars
  BY <1>1, TypeStep DEF vars, envVars
<1>2. CASE Store(c)
  <2>1. InstTypeOK'
    BY <1>2 DEF Store, InstTypeOK, TypeOK, CacheTypeOK
  <2> QED
    BY <1>2, <2>1, TypeUnchanged DEF Store, TypeOK, envVars
<1> QED
  BY <1>1, <1>2 DEF Call, Proceed, ReadCache, LockCache, FetchClaims,
                    FetchClaimsFail, CloseFetching, GiveUpFollowing

(* The types of the calls. *)
LEMMA CacheTypeStep ==
  ASSUME TypeOK, CacheTypeOK, LeaderInv, [CacheNext]_cacheVars
  PROVE  CacheTypeOK'
<1> USE ClaimsCacheAssumption DEF CacheTypeOK, CallStates
<1>0. /\ MaxVersion \in Nat /\ 0 \in 0..MaxVersion
      /\ \A v, w \in 0..MaxVersion : (IF v > w THEN v ELSE w) \in 0..MaxVersion
  BY KustomerAssumption DEF KustomerAssumption
<1>1. CASE UNCHANGED callVars
  BY <1>1 DEF callVars
<1>2. ASSUME NEW c \in Callers, Call(c) \/ Proceed(c) \/ GiveUpFollowing(c)
      PROVE  CacheTypeOK'
  <2>1. CASE Call(c)
    BY <1>0, <2>1, ClaimsCacheAssumption DEF Call
  <2>2. CASE ReadCache(c)
    BY <1>0, <2>2 DEF ReadCache, Return, Give, TypeOK, InstTypeOK
  <2>3. CASE LockCache(c)
    <3>1. CASE currentClaims # 0
      BY <1>0, <2>3, <3>1 DEF LockCache, Return, Give, TypeOK, InstTypeOK
    <3>2. CASE currentClaims = 0
      BY <2>3, <3>2 DEF LockCache, Miss, Lead, Follow
    <3> QED
      BY <3>1, <3>2
  <2>4. CASE FetchClaims(c)
    BY <2>4 DEF FetchClaims, TypeOK, EnvTypeOK, Versions
  <2>5. CASE FetchClaimsFail(c)
    BY <2>5, KustomerAssumption DEF FetchClaimsFail, KustomerAssumption
  <2>6. CASE Store(c)
    BY <2>6 DEF Store
  <2>7. CASE CloseFetching(c)
    BY <1>0, <2>7 DEF CloseFetching, Give
  <2>8. CASE GiveUpFollowing(c)
    BY <1>0, <2>8 DEF GiveUpFollowing, Return, Give
  <2> QED
    BY <1>2, <2>1, <2>2, <2>3, <2>4, <2>5, <2>6, <2>7, <2>8 DEF Proceed
<1> QED
  BY <1>1, <1>2 DEF CacheNext, cacheVars

(* One leader at a time, and an empty cache while it is at work. *)
LEMMA LeaderStep ==
  ASSUME TypeOK, CacheTypeOK, LeaderInv, [CacheNext]_cacheVars
  PROVE  LeaderInv'
<1> USE ClaimsCacheAssumption DEF CacheTypeOK, LeaderInv, FollowersHaveLeader
<1>1. CASE [Next]_vars /\ UNCHANGED callVars
  <2>1. currentClaims' = currentClaims \/ currentClaims' = 0
    BY <1>1, InstanceStep
  <2> QED
    BY <1>1, <2>1 DEF callVars
<1>2. ASSUME NEW c \in Callers, Call(c) \/ Proceed(c) \/ GiveUpFollowing(c)
      PROVE  LeaderInv'
  <2> USE DEF vars, instVars
  <2>1. CASE Call(c)
    BY <2>1 DEF Call
  <2>2. CASE ReadCache(c)
    BY <2>2 DEF ReadCache, Return, Give
  <2>3. CASE LockCache(c)
    <3>1. CASE currentClaims # 0
      BY <2>3, <3>1 DEF LockCache, Return, Give
    <3>2. CASE currentClaims = 0 /\ fetching = NoCaller
      BY <2>3, <3>2 DEF LockCache, Miss, Lead
    <3>3. CASE currentClaims = 0 /\ fetching # NoCaller
      BY <2>3, <3>3 DEF LockCache, Miss, Follow
    <3> QED
      BY <3>1, <3>2, <3>3
  <2>4. CASE FetchClaims(c)
    BY <2>4 DEF FetchClaims
  <2>5. CASE FetchClaimsFail(c)
    BY <2>5 DEF FetchClaimsFail
  <2>6. CASE Store(c)
    BY <2>6 DEF Store
  <2>7. CASE CloseFetching(c)
    BY <2>7 DEF CloseFetching, Give
  <2>8. CASE GiveUpFollowing(c)
    BY <2>8 DEF GiveUpFollowing, Return, Give
  <2> QED
    BY <1>2, <2>1, <2>2, <2>3, <2>4, <2>5, <2>6, <2>7, <2>8 DEF Proceed
<1> QED
  BY <1>1, <1>2 DEF CacheNext, cacheVars

(* What was seen is never newer than what is about to be seen. *)
LEMMA SeenStep ==
  ASSUME CacheInv, SeenInv, [CacheNext]_cacheVars
  PROVE  SeenInv'
<1> USE ClaimsCacheAssumption
    DEF CacheInv, CacheTypeOK, LeaderInv, SeenInv, NotNewer
<1>1. CASE [Next]_vars /\ UNCHANGED callVars
  <2>1. /\ currentClaims' = currentClaims \/ currentClaims' = 0
        /\ version' = version \/ version' = version + 1
    BY <1>1, InstanceStep
  <2>2. version \in Nat /\ currentClaims \in Nat /\ got \in [Callers -> Nat]
        /\ seen \in Nat /\ floor \in [Callers -> Nat]
    BY KustomerAssumption DEF TypeOK, InstTypeOK, EnvTypeOK, Versions, KustomerAssumption
  <2> QED
    BY <1>1, <2>1, <2>2 DEF callVars
<1>2. ASSUME NEW c \in Callers, Call(c) \/ Proceed(c) \/ GiveUpFollowing(c)
      PROVE  SeenInv'
  <2>1. version \in Nat /\ currentClaims \in Nat /\ got \in [Callers -> Nat]
        /\ seen \in Nat /\ floor \in [Callers -> Nat] /\ call \in [Callers -> CallStates]
    BY KustomerAssumption DEF TypeOK, InstTypeOK, EnvTypeOK, Versions, KustomerAssumption
  <2>2. version' = version
    BY <1>2, CallerKeepsTypes
  <2> USE <2>1, <2>2 DEF vars, instVars
  <2>3. CASE Call(c)
    BY <2>3 DEF Call
  <2>4. CASE ReadCache(c)
    BY <2>4 DEF ReadCache, Return, Give
  <2>5. CASE LockCache(c)
    <3>1. CASE currentClaims # 0
      BY <2>5, <3>1 DEF LockCache, Return, Give
    <3>2. CASE currentClaims = 0
      BY <2>5, <3>2 DEF LockCache, Miss, Lead, Follow
    <3> QED
      BY <3>1, <3>2
  <2>6. CASE FetchClaims(c)
    BY <2>6 DEF FetchClaims
  <2>7. CASE FetchClaimsFail(c)
    BY <2>7 DEF FetchClaimsFail
  <2>8. CASE Store(c)
    BY <2>8 DEF Store
  <2>9. CASE CloseFetching(c)
    BY <2>9 DEF CloseFetching, Give
  <2>10. CASE GiveUpFollowing(c)
    BY <2>10 DEF GiveUpFollowing, Return, Give
  <2> QED
    BY <1>2, <2>3, <2>4, <2>5, <2>6, <2>7, <2>8, <2>9, <2>10 DEF Proceed
<1>3. CASE UNCHANGED cacheVars
  BY <1>3, <1>1 DEF cacheVars
<1> QED
  BY <1>1, <1>2, <1>3 DEF CacheNext

(* Together they always hold. *)
LEMMA CacheInductive == CacheSpec => [](CacheInv /\ SeenInv)
<1>1. CacheInit => CacheInv /\ SeenInv
  <2> SUFFICES ASSUME CacheInit PROVE CacheInv /\ SeenInv
    OBVIOUS
  <2>1. TypeOK
    BY TypeInit DEF CacheInit
  <2>2. CacheTypeOK
    BY ClaimsCacheAssumption, KustomerAssumption
       DEF CacheInit, CacheTypeOK, CallStates, KustomerAssumption, ClaimsCacheAssumption
  <2>3. LeaderInv
    BY ClaimsCacheAssumption DEF CacheInit, Init, LeaderInv, FollowersHaveLeader,
                                 ClaimsCacheAssumption
  <2>4. SeenInv
    BY DEF CacheInit, Init, SeenInv, NotNewer
  <2> QED
    BY <2>1, <2>2, <2>3, <2>4 DEF CacheInv
<1>2. CacheInv /\ SeenInv /\ [CacheNext]_cacheVars => CacheInv' /\ SeenInv'
  <2> SUFFICES ASSUME CacheInv, SeenInv, [CacheNext]_cacheVars
               PROVE  CacheInv' /\ SeenInv'
    OBVIOUS
  <2>1. TypeOK'
    BY CallerKeepsTypes, TypeStep DEF CacheInv, CacheNext, cacheVars, vars
  <2> QED
    BY <2>1, CacheTypeStep, LeaderStep, SeenStep DEF CacheInv
<1> QED
  BY <1>1, <1>2, PTL DEF CacheSpec

-----------------------------------------------------------------------------
(* The theorems. *)

(* Every variable of a call keeps its type, and a follower has a leader to
   follow (kustomer.go:462-514). *)
THEOREM CacheTypeCorrect == CacheSpec => []CacheTypeOK
<1> QED
  BY CacheInductive, PTL DEF CacheInv

(* No caller waits for a leader that has gone: what it follows has its channel
   still to close, for any number of callers (kustomer.go:478-504). *)
THEOREM NobodyLeftBehind == CacheSpec => []FollowersHaveLeader
<1>1. CacheInv => FollowersHaveLeader
  BY DEF CacheInv, LeaderInv
<1> QED
  BY <1>1, CacheInductive, PTL

(* Nobody stores an answer over claims that are cached, however many callers
   missed together (kustomer.go:464-466, 478-511). *)
THEOREM NeverOverwritten == CacheSpec => CachedUntilReset
<1>1. CacheInv /\ [CacheNext]_cacheVars
        => [currentClaims # 0 /\ currentClaims' # currentClaims
              => currentClaims' = 0]_cacheVars
  <2> SUFFICES ASSUME CacheInv, CacheNext, currentClaims # 0, currentClaims' # currentClaims
               PROVE  currentClaims' = 0
    BY DEF cacheVars, vars, instVars
  <2>1. CASE Next
    BY <2>1, InstanceStep DEF CacheInv
  <2>2. ASSUME NEW c \in Callers, Call(c) \/ Proceed(c) \/ GiveUpFollowing(c)
        PROVE  FALSE
    <3>1. CASE Store(c)
      BY <3>1, ClaimsCacheAssumption DEF Store, CacheInv, LeaderInv, ClaimsCacheAssumption
    <3> QED
      BY <2>2, <3>1 DEF Call, Proceed, ReadCache, LockCache, FetchClaims, FetchClaimsFail,
                        CloseFetching, GiveUpFollowing, vars, instVars
  <2> QED
    BY <2>1, <2>2 DEF CacheNext
<1> QED
  BY <1>1, CacheInductive, PTL DEF CacheSpec, CachedUntilReset

(* Nobody gets claims older than some that anybody had been given before it
   called, for any number of callers, requests on their way and resets
   (kustomer.go:467-514). *)
THEOREM ReadsNeverGoBack == CacheSpec => MonotoneReads
<1>1. CacheInv /\ SeenInv /\ [CacheNext]_cacheVars
        => [\A c \in Callers : returned'[c] # 0 => floor[c] <= returned'[c]]_cacheVars
  <2> SUFFICES ASSUME CacheInv, SeenInv, CacheNext, NEW d \in Callers, returned'[d] # 0
               PROVE  floor[d] <= returned'[d]
    BY DEF cacheVars, vars, instVars
  <2> USE DEF CacheInv, SeenInv, NotNewer
  <2>1. /\ currentClaims \in Nat /\ got \in [Callers -> Nat] /\ seen \in Nat
        /\ returned \in [Callers -> Nat] /\ floor \in [Callers -> Nat]
        /\ call \in [Callers -> CallStates]
    BY DEF TypeOK, InstTypeOK, CacheTypeOK
  <2>2. returned'[d] = returned[d] => floor[d] <= returned'[d]
    BY <2>1
  <2>3. CASE UNCHANGED callVars
    BY <2>2, <2>3 DEF callVars
  <2>4. ASSUME NEW c \in Callers, Call(c) \/ Proceed(c) \/ GiveUpFollowing(c)
        PROVE  floor[d] <= returned'[d]
    <3>1. CASE Call(c)
      BY <2>1, <2>2, <3>1 DEF Call
    <3>2. CASE ReadCache(c)
      BY <2>1, <2>2, <3>2 DEF ReadCache, Return, Give
    <3>3. CASE LockCache(c)
      BY <2>1, <2>2, <3>3 DEF LockCache, Return, Give, Miss, Lead, Follow
    <3>4. CASE CloseFetching(c)
      BY <2>1, <2>2, <3>4 DEF CloseFetching, Give
    <3>5. CASE GiveUpFollowing(c)
      BY <2>1, <2>2, <3>5 DEF GiveUpFollowing, Return, Give
    <3> QED
      BY <2>2, <2>4, <3>1, <3>2, <3>3, <3>4, <3>5
         DEF Proceed, FetchClaims, FetchClaimsFail, Store
  <2> QED
    BY <2>3, <2>4 DEF CacheNext
<1> QED
  BY <1>1, CacheInductive, PTL DEF CacheSpec, MonotoneReads

-----------------------------------------------------------------------------
(* The instance among its callers. *)

\* All that the proofs about the instance alone needed.
InstanceInv == TypeOK /\ ReadyInv /\ VersionInv /\ StartInv /\ ConnectInv /\ UpdateInv

LEMMA InstanceInvInit == Init => InstanceInv /\ Promise!Init
<1> SUFFICES ASSUME Init PROVE InstanceInv /\ Promise!Init
  OBVIOUS
<1>1. TypeOK
  BY TypeInit
<1>2. ReadyInv /\ VersionInv /\ StartInv
  BY DEF Init, ReadyInv, VersionInv, StartInv, NoProductClaims
<1>3. ConnectInv /\ UpdateInv
  BY DEF Init, ConnectInv, UpdateInv, Listening
<1>4. Promise!Init
  BY DEF Init, NoProductClaims, Published, Promise!Init, Promise!Gens, Gens
<1> QED
  BY <1>1, <1>2, <1>3, <1>4 DEF InstanceInv

(* A caller changes nothing of the instance but the cache. *)
LEMMA CallersAlone ==
  ASSUME NEW c \in Callers, Call(c) \/ Proceed(c) \/ GiveUpFollowing(c)
  PROVE  UNCHANGED <<autoRefresh, initialized, gen, kpc, updated, genVars, watchVars,
                     refreshVars, envVars>>
BY DEF Call, Proceed, ReadCache, LockCache, FetchClaims, FetchClaimsFail, Store,
       CloseFetching, GiveUpFollowing, vars, instVars

LEMMA InstanceInvStep ==
  ASSUME InstanceInv, CacheTypeOK, [CacheNext]_cacheVars
  PROVE  InstanceInv' /\ [Promise!Next]_(Promise!vars)
<1> USE DEF InstanceInv
<1>1. CASE [Next]_vars
  <2>1. TypeOK'
    BY <1>1, TypeStep
  <2>2. ReadyInv' /\ VersionInv' /\ StartInv'
    BY <1>1, ReadyStep, VersionStep, StartStep
  <2>3. ConnectInv' /\ UpdateInv'
    BY <1>1, ConnectStep, UpdateStep
  <2>4. [Promise!Next]_(Promise!vars)
    BY <1>1, StepRefines
  <2> QED
    BY <2>1, <2>2, <2>3, <2>4
<1>2. ASSUME NEW c \in Callers, Call(c) \/ Proceed(c) \/ GiveUpFollowing(c)
      PROVE  InstanceInv' /\ [Promise!Next]_(Promise!vars)
  <2>1. TypeOK'
    BY <1>2, CallerKeepsTypes
  <2>2. UNCHANGED <<autoRefresh, initialized, gen, kpc, updated, genVars, watchVars,
                    refreshVars, envVars>>
    BY <1>2, CallersAlone
  <2>3. ReadyInv' /\ VersionInv' /\ StartInv'
    BY <2>2 DEF ReadyInv, VersionInv, StartInv, genVars, watchVars, refreshVars, envVars
  <2>4. ConnectInv' /\ UpdateInv'
    BY <2>2 DEF ConnectInv, UpdateInv, Listening, Owed, Has,
                genVars, watchVars, refreshVars, envVars
  <2>5. UNCHANGED Promise!vars
    BY <2>2 DEF Published, Promise!vars, genVars, refreshVars
  <2> QED
    BY <2>1, <2>3, <2>4, <2>5
<1> QED
  BY <1>1, <1>2 DEF CacheNext, cacheVars

(* Callers of CurrentClaims, whatever they wait for and store, take nothing from
   what the instance promises: it implements Instance, is ready with claims only
   and misses no update among any number of them (kustomer.go:467-514). *)
THEOREM InstanceUndisturbed ==
  CacheSpec => /\ ImplementsInstance
               /\ [](ReadyHasClaims /\ ReadyClosedOnce /\ NoUpdateMissed)
<1>1. CacheInit => InstanceInv /\ Promise!Init
  BY InstanceInvInit DEF CacheInit
<1>2. InstanceInv => ReadyHasClaims /\ ReadyClosedOnce /\ NoUpdateMissed
  <2> SUFFICES ASSUME InstanceInv PROVE ReadyHasClaims /\ ReadyClosedOnce /\ NoUpdateMissed
    OBVIOUS
  <2> USE DEF InstanceInv
  <2>1. ReadyHasClaims
    BY DEF TypeOK, InstTypeOK, ReadyInv, ReadyHasClaims, NoProductClaims
  <2>2. ReadyClosedOnce
    BY DEF ReadyInv, ReadyClosedOnce
  <2>3. ASSUME NEW g \in Gens, Quiet(g)
        PROVE  resp[g] = version
    <3>1. ~Owed(g)
      BY <2>3 DEF Quiet, Owed, Has
    <3> QED
      BY <2>3, <3>1 DEF Quiet, UpdateInv, Listening
  <2> QED
    BY <2>1, <2>2, <2>3 DEF NoUpdateMissed
<1> QED
  BY <1>1, <1>2, InstanceInvStep, CacheTypeCorrect, PTL
     DEF CacheSpec, ImplementsInstance, Promise!Spec

=============================================================================
