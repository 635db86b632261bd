------------------------------ MODULE Kustomer ------------------------------
(***************************************************************************)
(* One Kustomer instance (kustomer.go): its life cycle and the goroutines  *)
(* that Initialize starts.                                                 *)
(*                                                                         *)
(*   watcher   receives the events of the daemon's watch stream and turns  *)
(*             them into refresh triggers, reconnecting when it ends;      *)
(*   notifier  sse.Notify: opens the stream and hands over its events;     *)
(*   refresher fetches the product claims and publishes them.              *)
(*                                                                         *)
(* The instance may be initialized again after Uninitialize while          *)
(* goroutines of earlier calls still run, so whatever a call to Initialize *)
(* creates is indexed by its number, the generation.  A set of claims is   *)
(* abstracted to the daemon's version of it: versions start at 1 and grow  *)
(* by 1 whenever the active claims change; 0 is "nothing fetched".         *)
(*                                                                         *)
(* A critical section of k.mutex is one step.  What runs between two       *)
(* critical sections, selects or channel operations is a step of its own.  *)
(***************************************************************************)
EXTENDS Naturals, Sequences, FiniteSets

CONSTANTS
  MaxInit,     \* bound: calls of Initialize that succeed in setting the state
  MaxVersion,  \* bound: versions of the claims the daemon goes through
  MaxFaults    \* bound: failed requests and broken streams

ASSUME KustomerAssumption ==
  /\ MaxInit \in Nat
  /\ MaxVersion \in Nat \ {0}
  /\ MaxFaults \in Nat

Gens == 1..MaxInit
Versions == 1..MaxVersion
Events == {"hello", "claims-updated"}

\* Where each goroutine of a generation is; "none" was never started.
WatcherStates == {"none", "start", "select", "send", "backoff", "done"}
NotifierStates == {"none", "request", "stream", "failed", "done"}
RefreshStates == {"none", "top", "await", "begin", "fetch", "publish",
                  "ready", "retry", "idle", "done"}

\* make(chan bool, 1), and the same with room for one trigger more.
TriggerCapTwo == 2
TriggerCap == 1

\* The claims New starts with: offline, untrusted, without any product.
NoProductClaims == [gen |-> 0, version |-> 0]

VARIABLES
  autoRefresh,   \* k.autoRefresh, fixed by the configuration
  initialized,   \* k.initialized
  gen,           \* which generation's k.ready, k.ctx and k.cancel are set
  kpc,           \* k.currentKopanoProductClaims: version, and who fetched it
  currentClaims, \* k.currentClaims, 0 is nil
  updated,       \* number of the channel that k.updated holds
  ctxDone,       \* ctxDone[g]: initializeCtx of g is cancelled
  readyClosed,   \* readyClosed[g]: the ready channel of g is closed
  trigger,       \* trigger[g]: values in the trigger channel of g
  watcher,       \* program counter of the watcher
  watchFirst,    \* `first` of the watcher
  notifier,      \* program counter of the sse.Notify goroutine
  events,        \* events written by the daemon and not received by the watcher
  refresh,       \* program counter of the refresher
  refreshFirst,  \* `first` of the refresher
  fetchCtx,      \* generation whose context the request of the refresher uses
  resp,          \* version in the last response the refresher decoded
  version,       \* version of the active claims in the daemon
  faults         \* failures used up so far

instVars == <<autoRefresh, initialized, gen, kpc, currentClaims, updated>>
genVars == <<ctxDone, readyClosed, trigger>>
watchVars == <<watcher, watchFirst, notifier, events>>
refreshVars == <<refresh, refreshFirst, fetchCtx, resp>>
envVars == <<version, faults>>
vars == <<instVars, genVars, watchVars, refreshVars, envVars>>

Init ==
  /\ autoRefresh \in BOOLEAN
  /\ initialized = FALSE
  /\ gen = 0
  /\ kpc = NoProductClaims
  /\ currentClaims = 0
  /\ updated = 0
  /\ ctxDone = [g \in Gens |-> FALSE]
  /\ readyClosed = [g \in Gens |-> FALSE]
  /\ trigger = [g \in Gens |-> 0]
  /\ watcher = [g \in Gens |-> "none"]
  /\ watchFirst = [g \in Gens |-> TRUE]
  /\ notifier = [g \in Gens |-> "none"]
  /\ events = [g \in Gens |-> <<>>]
  /\ refresh = [g \in Gens |-> "none"]
  /\ refreshFirst = [g \in Gens |-> TRUE]
  /\ fetchCtx = [g \in Gens |-> 0]
  /\ resp = [g \in Gens |-> 0]
  /\ version = 1
  /\ faults = 0

-----------------------------------------------------------------------------
(* How the goroutines branch.  Next to a definition stands the form it has
   after a plausible mistake; the form is used in no specification and shows
   that a property notices the mistake. *)

\* select { case trigger <- true: default: }
Offer(n) == IF n < TriggerCap THEN n + 1 ELSE n

\* With auto refresh the first fetch waits for the watcher's first hello.
FetchAtOnce(g) == "begin"
AfterReset(g) == IF autoRefresh /\ refreshFirst[g] THEN "await" ELSE "begin"

\* Without auto refresh one successful fetch is all.
AfterFetch == IF autoRefresh THEN "idle" ELSE "done"

\* close(ready) belongs to the first successful fetch only.
ReadyEveryTime(g) == "ready"
AfterPublish(g) == IF refreshFirst[g] THEN "ready" ELSE AfterFetch

\* A fetch that failed leads to the retry and not past it.
ErrorIgnored(g) == AfterPublish(g)
ErrorIsFinal(g) == "done"
AfterError(g) == "retry"

\* Another turn of the watcher: new channels, and a notifier that opens the
\* stream.
Connect(g) ==
  /\ watcher' = [watcher EXCEPT ![g] = "select"]
  /\ notifier' = [notifier EXCEPT ![g] = "request"]
  /\ events' = [events EXCEPT ![g] = <<>>]

-----------------------------------------------------------------------------
(* The exported operations that change state.  A call that returns an error
   without changing anything (already or not initialized, empty product name)
   is a stuttering step. *)

Initialize ==
  /\ ~initialized
  /\ gen < MaxInit
  /\ initialized' = TRUE
  /\ gen' = gen + 1
  /\ watcher' = [watcher EXCEPT ![gen + 1] = "start"]
  /\ refresh' = [refresh EXCEPT ![gen + 1] = "top"]
  /\ UNCHANGED <<autoRefresh, kpc, currentClaims, updated, genVars, watchFirst,
                 notifier, events, refreshFirst, fetchCtx, resp, envVars>>

\* filepath.Abs fails: the call returns its error, but the instance already
\* counts as initialized and no goroutine was started.
InitializeAbsError ==
  /\ ~initialized
  /\ gen < MaxInit
  /\ initialized' = TRUE
  /\ gen' = gen + 1
  /\ UNCHANGED <<autoRefresh, kpc, currentClaims, updated, genVars, watchVars,
                 refreshVars, envVars>>

ForgetCancel ==
  /\ initialized
  /\ initialized' = FALSE
  /\ UNCHANGED <<autoRefresh, gen, kpc, currentClaims, updated, genVars,
                 watchVars, refreshVars, envVars>>

Uninitialize ==
  /\ initialized
  /\ initialized' = FALSE
  /\ ctxDone' = [ctxDone EXCEPT ![gen] = TRUE]
  /\ UNCHANGED <<autoRefresh, gen, kpc, currentClaims, updated, readyClosed,
                 trigger, watchVars, refreshVars, envVars>>

\* The context the caller gave to Initialize is cancelled.
ParentCancel ==
  /\ initialized
  /\ ~ctxDone[gen]
  /\ ctxDone' = [ctxDone EXCEPT ![gen] = TRUE]
  /\ UNCHANGED <<instVars, readyClosed, trigger, watchVars, refreshVars, envVars>>

-----------------------------------------------------------------------------
(* The watcher and the notifier it starts for every connection. *)

WatchStart(g) ==
  /\ watcher[g] = "start"
  /\ IF ~autoRefresh \/ gen # g \/ ~initialized
       THEN /\ watcher' = [watcher EXCEPT ![g] = "done"]
            /\ UNCHANGED <<notifier, events>>
       ELSE Connect(g)
  /\ UNCHANGED <<instVars, genVars, watchFirst, refreshVars, envVars>>

\* A claims-updated event never blocks on a trigger channel that is full.
WatchEvent(g) ==
  /\ watcher[g] = "select"
  /\ events[g] # <<>>
  /\ events' = [events EXCEPT ![g] = Tail(@)]
  /\ \/ /\ Head(events[g]) = "hello"
        /\ watcher' = [watcher EXCEPT ![g] = IF watchFirst[g] THEN "send" ELSE @]
        /\ watchFirst' = [watchFirst EXCEPT ![g] = FALSE]
        /\ UNCHANGED trigger
     \/ /\ Head(events[g]) = "claims-updated"
        /\ trigger' = [trigger EXCEPT ![g] = Offer(@)]
        /\ UNCHANGED <<watcher, watchFirst>>
  /\ UNCHANGED <<instVars, ctxDone, readyClosed, notifier, refreshVars, envVars>>

\* The trigger for the first hello is sent outside any select: it waits for
\* room in the channel and for nothing else.
WatchSend(g) ==
  /\ watcher[g] = "send"
  /\ trigger[g] < TriggerCap
  /\ trigger' = [trigger EXCEPT ![g] = @ + 1]
  /\ watcher' = [watcher EXCEPT ![g] = "select"]
  /\ UNCHANGED <<instVars, ctxDone, readyClosed, watchFirst, notifier, events,
                 refreshVars, envVars>>

GiveUp(g) ==
  /\ watcher[g] = "select"
  /\ notifier[g] = "failed"
  /\ watcher' = [watcher EXCEPT ![g] = "done"]
  /\ notifier' = [notifier EXCEPT ![g] = "done"]
  /\ UNCHANGED <<instVars, genVars, watchFirst, events, refreshVars, envVars>>

\* The notifier hands over its result, which ends it.  Events still in the
\* channel are never looked at again.
WatchError(g) ==
  /\ watcher[g] = "select"
  /\ notifier[g] = "failed"
  /\ watcher' = [watcher EXCEPT ![g] = "backoff"]
  /\ notifier' = [notifier EXCEPT ![g] = "done"]
  /\ UNCHANGED <<instVars, genVars, watchFirst, events, refreshVars, envVars>>

ReconnectQuietly(g) ==
  /\ watcher[g] = "backoff"
  /\ ~ctxDone[g]
  /\ Connect(g)
  /\ UNCHANGED <<instVars, genVars, watchFirst, refreshVars, envVars>>

\* The context was not cancelled within five seconds.  The next hello must
\* trigger: updates may have been missed in between.
WatchReconnect(g) ==
  /\ watcher[g] = "backoff"
  /\ ~ctxDone[g]
  /\ watchFirst' = [watchFirst EXCEPT ![g] = TRUE]
  /\ Connect(g)
  /\ UNCHANGED <<instVars, genVars, refreshVars, envVars>>

WatchDone(g) ==
  /\ watcher[g] \in {"select", "backoff"}
  /\ ctxDone[g]
  /\ watcher' = [watcher EXCEPT ![g] = "done"]
  /\ UNCHANGED <<instVars, genVars, watchFirst, notifier, events, refreshVars,
                 envVars>>

Watcher(g) ==
  \/ WatchStart(g)
  \/ WatchEvent(g)
  \/ WatchSend(g)
  \/ WatchError(g)
  \/ WatchReconnect(g)
  \/ WatchDone(g)

\* The request of sse.Notify carries no context, and the dialer refuses only a
\* new connection: one that is idle in the transport is used without asking.
StreamOpen(g) ==
  /\ notifier[g] = "request"
  /\ notifier' = [notifier EXCEPT ![g] = "stream"]
  /\ events' = [events EXCEPT ![g] = <<"hello">>]
  /\ UNCHANGED <<instVars, genVars, watcher, watchFirst, refreshVars, envVars>>

\* The request fails: refused by the dialer of an instance that is not
\* initialized, or by the daemon.
StreamRefused(g) ==
  /\ notifier[g] = "request"
  /\ \/ ~initialized /\ UNCHANGED faults
     \/ faults < MaxFaults /\ faults' = faults + 1
  /\ notifier' = [notifier EXCEPT ![g] = "failed"]
  /\ UNCHANGED <<instVars, genVars, watcher, watchFirst, events, refreshVars,
                 version>>

\* The stream ends or breaks; what had not reached the channel is lost.
StreamBreak(g) ==
  /\ notifier[g] = "stream"
  /\ faults < MaxFaults
  /\ faults' = faults + 1
  /\ notifier' = [notifier EXCEPT ![g] = "failed"]
  /\ \E n \in 0..Len(events[g]) :
       events' = [events EXCEPT ![g] = SubSeq(@, 1, n)]
  /\ UNCHANGED <<instVars, genVars, watcher, watchFirst, refreshVars, version>>

-----------------------------------------------------------------------------
(* The refresher. *)

\* The loop head: claims fetched earlier are dropped from the cache.
RefreshTop(g) ==
  /\ refresh[g] = "top"
  /\ IF gen # g \/ ~initialized
       THEN /\ refresh' = [refresh EXCEPT ![g] = "done"]
            /\ UNCHANGED currentClaims
       ELSE /\ refresh' = [refresh EXCEPT ![g] = AfterReset(g)]
            /\ currentClaims' = 0
  /\ UNCHANGED <<autoRefresh, initialized, gen, kpc, updated, genVars, watchVars,
                 refreshFirst, fetchCtx, resp, envVars>>

\* <-trigger, before the first fetch and between later ones.
RefreshTriggered(g) ==
  /\ refresh[g] \in {"await", "idle"}
  /\ trigger[g] > 0
  /\ trigger' = [trigger EXCEPT ![g] = @ - 1]
  /\ refresh' = [refresh EXCEPT ![g] = IF @ = "await" THEN "begin" ELSE "top"]
  /\ UNCHANGED <<instVars, ctxDone, readyClosed, watchVars, refreshFirst,
                 fetchCtx, resp, envVars>>

\* context.WithTimeout(k.ctx, ...): k.ctx is read without the mutex, and a
\* later Initialize may have replaced it.  The racy read returns any context
\* that was written since this goroutine last held the mutex.
RefreshBegin(g) ==
  /\ refresh[g] = "begin"
  /\ \E c \in g..gen : fetchCtx' = [fetchCtx EXCEPT ![g] = c]
  /\ refresh' = [refresh EXCEPT ![g] = "fetch"]
  /\ UNCHANGED <<instVars, genVars, watchVars, refreshFirst, resp, envVars>>

\* The daemon answers with the claims that are active now; the response may be
\* on its way for any time.
FetchOK(g) ==
  /\ refresh[g] = "fetch"
  /\ ~ctxDone[fetchCtx[g]]
  /\ resp' = [resp EXCEPT ![g] = version]
  /\ refresh' = [refresh EXCEPT ![g] = "publish"]
  /\ UNCHANGED <<instVars, genVars, watchVars, refreshFirst, fetchCtx, envVars>>

\* What a fetch without its error checks would do: publish an empty response.
ErrorAsResponse(g) ==
  /\ refresh[g] = "fetch"
  /\ faults < MaxFaults
  /\ faults' = faults + 1
  /\ resp' = [resp EXCEPT ![g] = 0]
  /\ refresh' = [refresh EXCEPT ![g] = "publish"]
  /\ UNCHANGED <<instVars, genVars, watchVars, refreshFirst, fetchCtx, version>>

\* The request fails: its context is cancelled, or it times out after 60
\* seconds, does not return 200 or does not parse.
FetchFail(g) ==
  /\ refresh[g] = "fetch"
  /\ \/ ctxDone[fetchCtx[g]] /\ UNCHANGED faults
     \/ faults < MaxFaults /\ faults' = faults + 1
  /\ refresh' = [refresh EXCEPT ![g] = AfterError(g)]
  /\ UNCHANGED <<instVars, genVars, watchVars, refreshFirst, fetchCtx, resp,
                 version>>

\* The context was not cancelled within five seconds.
RefreshRetry(g) ==
  /\ refresh[g] = "retry"
  /\ ~ctxDone[g]
  /\ refresh' = [refresh EXCEPT ![g] = "top"]
  /\ UNCHANGED <<instVars, genVars, watchVars, refreshFirst, fetchCtx, resp,
                 envVars>>

PublishSilently(g) ==
  /\ refresh[g] = "publish"
  /\ kpc' = [gen |-> g, version |-> resp[g]]
  /\ refresh' = [refresh EXCEPT ![g] = AfterPublish(g)]
  /\ UNCHANGED <<autoRefresh, initialized, gen, currentClaims, updated, genVars,
                 watchVars, refreshFirst, fetchCtx, resp, envVars>>

\* Store the claims and wake whoever waits for the channel k.updated held.
Publish(g) ==
  /\ refresh[g] = "publish"
  /\ kpc' = [gen |-> g, version |-> resp[g]]
  /\ updated' = updated + 1
  /\ refresh' = [refresh EXCEPT ![g] = AfterPublish(g)]
  /\ UNCHANGED <<autoRefresh, initialized, gen, currentClaims, genVars,
                 watchVars, refreshFirst, fetchCtx, resp, envVars>>

\* close(ready)
SignalReady(g) ==
  /\ refresh[g] = "ready"
  /\ readyClosed' = [readyClosed EXCEPT ![g] = TRUE]
  /\ refreshFirst' = [refreshFirst EXCEPT ![g] = FALSE]
  /\ refresh' = [refresh EXCEPT ![g] = AfterFetch]
  /\ UNCHANGED <<instVars, ctxDone, trigger, watchVars, fetchCtx, resp, envVars>>

RefreshDone(g) ==
  /\ refresh[g] \in {"await", "retry", "idle"}
  /\ ctxDone[g]
  /\ refresh' = [refresh EXCEPT ![g] = "done"]
  /\ UNCHANGED <<instVars, genVars, watchVars, refreshFirst, fetchCtx, resp,
                 envVars>>

Refresher(g) ==
  \/ RefreshTop(g)
  \/ RefreshTriggered(g)
  \/ RefreshBegin(g)
  \/ FetchOK(g)
  \/ FetchFail(g)
  \/ RefreshRetry(g)
  \/ Publish(g)
  \/ SignalReady(g)
  \/ RefreshDone(g)

-----------------------------------------------------------------------------
(* The daemon's active claims change; every open stream is told. *)
DaemonUpdate ==
  /\ version < MaxVersion
  /\ version' = version + 1
  /\ events' = [g \in Gens |-> IF notifier[g] = "stream"
                                 THEN Append(events[g], "claims-updated")
                                 ELSE events[g]]
  /\ UNCHANGED <<instVars, genVars, watcher, watchFirst, notifier, refreshVars,
                 faults>>

-----------------------------------------------------------------------------

Next ==
  \/ Initialize
  \/ InitializeAbsError
  \/ Uninitialize
  \/ ParentCancel
  \/ DaemonUpdate
  \/ \E g \in Gens :
       \/ Watcher(g)
       \/ StreamOpen(g)
       \/ StreamRefused(g)
       \/ StreamBreak(g)
       \/ Refresher(g)

Spec == Init /\ [][Next]_vars

(* A goroutine that can go on does so, timers fire and requests get an answer.
   Nobody is obliged to call the library, to cancel a context, to change the
   claims or to break a stream; failures are finitely many by MaxFaults. *)
Fairness ==
  \A g \in Gens :
    /\ WF_vars(Watcher(g))
    /\ WF_vars(StreamOpen(g) \/ StreamRefused(g))
    /\ WF_vars(Refresher(g))

FairSpec == Spec /\ Fairness

-----------------------------------------------------------------------------
InstTypeOK ==
  /\ autoRefresh \in BOOLEAN
  /\ initialized \in BOOLEAN
  /\ gen \in 0..MaxInit
  /\ kpc \in [gen : 0..MaxInit, version : 0..MaxVersion]
  /\ currentClaims \in 0..MaxVersion
  /\ updated \in Nat

GenTypeOK ==
  /\ ctxDone \in [Gens -> BOOLEAN]
  /\ readyClosed \in [Gens -> BOOLEAN]
  /\ trigger \in [Gens -> 0..1]

WatchTypeOK ==
  /\ watcher \in [Gens -> WatcherStates]
  /\ watchFirst \in [Gens -> BOOLEAN]
  /\ notifier \in [Gens -> NotifierStates]
  /\ events \in [Gens -> Seq(Events)]

RefreshTypeOK ==
  /\ refresh \in [Gens -> RefreshStates]
  /\ refreshFirst \in [Gens -> BOOLEAN]
  /\ fetchCtx \in [Gens -> 0..MaxInit]
  /\ resp \in [Gens -> 0..MaxVersion]

EnvTypeOK ==
  /\ version \in Versions
  /\ faults \in 0..MaxFaults

(* Every variable has its type; in particular at most one trigger is pending at
   any time, however many updates come while the refresher is busy
   (kustomer.go:28-53, 123, 219-225). *)
TypeOK == InstTypeOK /\ GenTypeOK /\ WatchTypeOK /\ RefreshTypeOK /\ EnvTypeOK

(* Whoever WaitUntilReady lets go finds claims that were fetched: the ready
   channel of no call to Initialize is closed while the instance still has the
   empty claims of New, whatever failed before (kustomer.go:263-291). *)
ReadyHasClaims ==
  \A g \in Gens : readyClosed[g] => kpc # NoProductClaims /\ kpc.version > 0

(* close(ready) never meets a closed channel, which would panic: a refresher
   comes to it at most once, over all its refreshes and retries
   (kustomer.go:287-291). *)
ReadyClosedOnce ==
  \A g \in Gens : refresh[g] = "ready" => ~readyClosed[g]

\* The generations that have published: the refresher is past its first Publish.
Published == {g \in Gens : refresh[g] = "ready" \/ readyClosed[g]}

Promise == INSTANCE Instance WITH fetched <- Published

(* The goroutines, requests, failures and reconnects of an instance amount to
   what module Instance promises its callers (kustomer.go:108-323). *)
ImplementsInstance == Promise!Spec

(* As long as one generation publishes, the product claims a reader sees never
   go back to a version older than one seen before (kustomer.go:260-285). *)
SameGenMonotone ==
  [][kpc'.gen = kpc.gen => kpc.version <= kpc'.version]_vars

\* The watch stream of g is up, and nothing that it or the watcher or the
\* trigger channel holds is left to be handled; the refresher waits.
Quiet(g) ==
  /\ refresh[g] = "idle" /\ trigger[g] = 0
  /\ watcher[g] = "select" /\ notifier[g] = "stream" /\ events[g] = <<>>

(* No update is lost: once everything is quiet, the refresher's last response
   is the daemon's active version, whichever updates fell between two streams,
   behind a busy trigger channel or into a running fetch
   (kustomer.go:184-225, 263-302). *)
NoUpdateMissed == \A g \in Gens : Quiet(g) => resp[g] = version

(* "This avoids double fetch on startup" (kustomer.go:248-251): without an
   update and without a failure no generation publishes twice.  There are as
   many publications as generations that have published: a second one of a
   generation shows, whether or not another one never published. *)
NoDoubleFetch == version = 1 /\ faults = 0 => updated = Cardinality(Published)

\* g was started, and its context was cancelled, it was uninitialized or it
\* was replaced.
Retired(g) == g <= gen /\ (gen # g \/ ~initialized \/ ctxDone[g])

(* With auto refresh, a generation that has become ready brings the published
   claims up to the daemon's again and again until it is retired, through
   updates, failed fetches and broken streams (kustomer.go:143-304). *)
Converges ==
  \A g \in Gens :
    autoRefresh /\ readyClosed[g] ~> Retired(g) \/ kpc.version = version

(* Without auto refresh, a failed fetch is retried until the generation is
   ready or retired (kustomer.go:263-276, 287-291). *)
ReadyWithoutAutoRefresh ==
  \A g \in Gens :
    ~autoRefresh /\ refresh[g] = "top" ~> readyClosed[g] \/ Retired(g)

(* The refresher of a retired generation ends, wherever it was
   (kustomer.go:241-244, 252-258, 269-274, 297-302). *)
RefreshEnds ==
  \A g \in Gens : Retired(g) ~> refresh[g] \in {"none", "done"}

-----------------------------------------------------------------------------
(* What comments of the code say and the code does not do. *)

(* "Automatic retry on error" (kustomer.go:268): a refresher whose fetch failed
   fetches again, unless its generation is retired. *)
FailedFetchIsRetried ==
  \A g \in Gens : refresh[g] = "retry" ~> refresh[g] = "fetch" \/ Retired(g)

(* "Uninitialize is the opposite of initialize and releases the associated
   resources" (kustomer.go:309-310): the goroutines of a retired generation
   end. *)
UninitializeReleases ==
  \A g \in Gens :
    Retired(g) ~> /\ watcher[g] \in {"none", "done"}
                  /\ notifier[g] \in {"none", "done"}
                  /\ refresh[g] \in {"none", "done"}

(* CurrentKopanoProductClaims "returns the active Kopano product claims of the
   associated instance" (kustomer.go:449-450), the instance being what it was
   last initialized as: claims of an earlier generation do not replace those
   of a later one. *)
LaterGenerationStays == [][kpc.gen <= kpc'.gen]_vars

=============================================================================
