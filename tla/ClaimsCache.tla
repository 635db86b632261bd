---------------------------- MODULE ClaimsCache ----------------------------
(***************************************************************************)
(* Kustomer.CurrentClaims (kustomer.go:462-514): concurrent callers read   *)
(* the full claim set through the cache k.currentClaims of the instance of *)
(* module Kustomer, whose refresher resets that cache.  The first caller   *)
(* that misses becomes the leader: it creates the channel k.fetching, asks *)
(* the daemon and stores the answer.  Callers that miss meanwhile wait for *)
(* the leader's channel to be closed and then start over.                  *)
(*                                                                         *)
(* A channel k.fetching is identified by the leader that created it: a     *)
(* leader closes its channel before it can create another.                 *)
(*                                                                         *)
(* `seen` and `floor` are history, no variables of the code.               *)
(***************************************************************************)
EXTENDS Kustomer

CONSTANTS
  Callers,  \* goroutines that call CurrentClaims
  NoCaller, \* nil
  MaxCalls  \* bound: calls of CurrentClaims

ASSUME ClaimsCacheAssumption ==
  /\ NoCaller \notin Callers
  /\ MaxCalls \in Nat

CallStates == {"idle", "read", "lock", "fetch", "store", "close", "follow"}

VARIABLES
  fetching, \* k.fetching: the leader, or NoCaller
  call,     \* program counter of the call a caller is in
  follows,  \* the leader whose channel a follower waits for
  got,      \* `claims` of the call: a version, 0 is nil
  returned, \* what the last call of this caller returned, 0 is nil or a call under way
  seen,     \* the newest claims that any call has returned
  floor,    \* what `seen` was when the call of this caller began, 0 without a call
  calls     \* calls so far

callVars == <<fetching, call, follows, got, returned, seen, floor, calls>>
cacheVars == <<vars, callVars>>

CacheInit ==
  /\ Init
  /\ fetching = NoCaller
  /\ call = [c \in Callers |-> "idle"]
  /\ follows = [c \in Callers |-> NoCaller]
  /\ got = [c \in Callers |-> 0]
  /\ returned = [c \in Callers |-> 0]
  /\ seen = 0
  /\ floor = [c \in Callers |-> 0]
  /\ calls = 0

-----------------------------------------------------------------------------

(* As in Kustomer, the form an operator has after a plausible mistake stands
   before it: LeadSecretly, MissLeads, MissFollows, CloseOnSuccess. *)

\* Claims v are handed to the caller, or none.
Give(c, v) ==
  /\ returned' = [returned EXCEPT ![c] = v]
  /\ floor' = [floor EXCEPT ![c] = 0]
  /\ seen' = IF v > seen THEN v ELSE seen

Return(c, v) == call' = [call EXCEPT ![c] = "idle"] /\ Give(c, v)

Call(c) ==
  /\ call[c] = "idle"
  /\ calls < MaxCalls
  /\ calls' = calls + 1
  /\ call' = [call EXCEPT ![c] = "read"]
  /\ returned' = [returned EXCEPT ![c] = 0]
  /\ floor' = [floor EXCEPT ![c] = seen]
  /\ UNCHANGED <<vars, fetching, follows, got, seen>>

\* A look at the cache under the read lock.
ReadCache(c) ==
  /\ call[c] = "read"
  /\ \/ currentClaims # 0 /\ Return(c, currentClaims)
     \/ /\ currentClaims = 0
        /\ call' = [call EXCEPT ![c] = "lock"]
        /\ UNCHANGED <<returned, seen, floor>>
  /\ UNCHANGED <<vars, fetching, follows, got, calls>>

LeadSecretly(c) ==
  /\ call' = [call EXCEPT ![c] = "fetch"]
  /\ UNCHANGED <<fetching, follows, returned, seen, floor>>

\* Create the channel k.fetching and go and ask.
Lead(c) ==
  /\ fetching' = c
  /\ call' = [call EXCEPT ![c] = "fetch"]
  /\ UNCHANGED <<follows, returned, seen, floor>>

\* Wait for the channel k.fetching, taken under the lock.
Follow(c) ==
  /\ call' = [call EXCEPT ![c] = "follow"]
  /\ follows' = [follows EXCEPT ![c] = fetching]
  /\ UNCHANGED <<fetching, returned, seen, floor>>

MissLeads(c) == Lead(c)
MissFollows(c) == Follow(c)
Miss(c) == IF fetching = NoCaller THEN Lead(c) ELSE Follow(c)

\* A second look, under the lock.
LockCache(c) ==
  /\ call[c] = "lock"
  /\ \/ /\ currentClaims # 0
        /\ Return(c, currentClaims)
        /\ UNCHANGED <<fetching, follows>>
     \/ currentClaims = 0 /\ Miss(c)
  /\ UNCHANGED <<vars, got, calls>>

\* The daemon answers with the active claims; the answer may be on its way for
\* any time.  No request gets through before a call of Initialize has set the
\* path of the socket.
FetchClaims(c) ==
  /\ call[c] = "fetch"
  /\ \E g \in Gens : refresh[g] # "none"
  /\ got' = [got EXCEPT ![c] = version]
  /\ call' = [call EXCEPT ![c] = "store"]
  /\ UNCHANGED <<vars, fetching, follows, returned, seen, floor, calls>>

\* The dialer refuses, the caller's context is done, or the answer is an error.
FetchClaimsFail(c) ==
  /\ call[c] = "fetch"
  /\ got' = [got EXCEPT ![c] = 0]
  /\ call' = [call EXCEPT ![c] = "store"]
  /\ UNCHANGED <<vars, fetching, follows, returned, seen, floor, calls>>

\* Only an answer reaches the cache, and it does whatever happened to the cache
\* in the meantime.
Store(c) ==
  /\ call[c] = "store"
  /\ fetching' = NoCaller
  /\ currentClaims' = IF got[c] = 0 THEN currentClaims ELSE got[c]
  /\ call' = [call EXCEPT ![c] = "close"]
  /\ UNCHANGED <<autoRefresh, initialized, gen, kpc, updated, genVars, watchVars,
                 refreshVars, envVars, follows, got, returned, seen, floor, calls>>

CloseOnSuccess(c) ==
  /\ call[c] = "close"
  /\ call' = [d \in Callers |->
                IF d = c THEN "idle"
                ELSE IF got[c] # 0 /\ call[d] = "follow" /\ follows[d] = c
                  THEN "read" ELSE call[d]]
  /\ Give(c, got[c])
  /\ got' = [got EXCEPT ![c] = 0]
  /\ UNCHANGED <<vars, fetching, follows, calls>>

\* The deferred close(fetching), and the return.  The followers start over.
CloseFetching(c) ==
  /\ call[c] = "close"
  /\ call' = [d \in Callers |->
                IF d = c THEN "idle"
                ELSE IF call[d] = "follow" /\ follows[d] = c THEN "read"
                ELSE call[d]]
  /\ Give(c, got[c])
  /\ got' = [got EXCEPT ![c] = 0]
  /\ UNCHANGED <<vars, fetching, follows, calls>>

\* The context of a follower is done: its call returns nil.
GiveUpFollowing(c) ==
  /\ call[c] = "follow"
  /\ Return(c, 0)
  /\ UNCHANGED <<vars, fetching, follows, got, calls>>

\* The steps a call takes by itself.
Proceed(c) ==
  \/ ReadCache(c)
  \/ LockCache(c)
  \/ FetchClaims(c)
  \/ FetchClaimsFail(c)
  \/ Store(c)
  \/ CloseFetching(c)

CacheNext ==
  \/ Next /\ UNCHANGED callVars
  \/ \E c \in Callers : Call(c) \/ Proceed(c) \/ GiveUpFollowing(c)

CacheSpec == CacheInit /\ [][CacheNext]_cacheVars

(* A call that can go on does so and its request ends; nobody has to call, and
   no context has to be done. *)
FairCacheSpec == CacheSpec /\ \A c \in Callers : WF_cacheVars(Proceed(c))

-----------------------------------------------------------------------------
(* Every variable of a call has its type; in particular a follower has a leader
   to follow. *)
CacheTypeOK ==
  /\ fetching \in Callers \cup {NoCaller}
  /\ call \in [Callers -> CallStates]
  /\ follows \in [Callers -> Callers \cup {NoCaller}]
  /\ got \in [Callers -> 0..MaxVersion]
  /\ returned \in [Callers -> 0..MaxVersion]
  /\ seen \in 0..MaxVersion
  /\ floor \in [Callers -> 0..MaxVersion]
  /\ calls \in 0..MaxCalls
  /\ \A c \in Callers : call[c] = "follow" => follows[c] # NoCaller

(* "The fetched claims are cached, so no subsequent requests will result when
   calling this function" (kustomer.go:464-466): while claims are cached
   nobody stores an answer over them, however many callers missed together; the
   refresher alone makes room for a new one. *)
CachedUntilReset ==
  [][currentClaims # 0 /\ currentClaims' # currentClaims => currentClaims' = 0]_cacheVars

(* Nobody is given claims older than some that it or another caller had been
   given when it called, although answers travel for any time and the cache is
   reset under them (kustomer.go:467-514). *)
MonotoneReads ==
  [][\A c \in Callers : returned'[c] # 0 => floor[c] <= returned'[c]]_cacheVars

(* A waiting caller is never left behind: it follows a leader that still has
   its channel to close (kustomer.go:478-504). *)
FollowersHaveLeader ==
  \A c \in Callers :
    call[c] = "follow" => call[follows[c]] \in {"fetch", "store", "close"}

(* Every call comes to its end, also for the followers of a leader whose request
   failed, and without help from their own contexts (kustomer.go:474-513). *)
CallsReturn ==
  \A c \in Callers : call[c] # "idle" ~> call[c] = "idle"

(* The cache follows the active claims, "unless the underlaying active claims
   have changed since the last call" (kustomer.go:464-466): when the watcher has
   handled all events, the refresher is done with them and no request is on its
   way, the cache is empty or holds the active version. *)
CacheFresh ==
  \A g \in Gens :
    Quiet(g) /\ (\A c \in Callers : call[c] = "idle")
      => currentClaims \in {0, version}

=============================================================================
