# A TLA+ model of libkustomer

libkustomer is a Go and C client library for the Kopano Kustomer daemon. A
program initializes an instance for a product, waits until it is ready, and asks
what its licence claims allow; the library fetches the claims from the daemon
over a unix socket and, with auto refresh, follows a watch stream to keep them
current. This directory holds TLA+ modules translated from the code, the TLC
configurations that check them and TLAPS proofs about them. Line numbers refer to
the repository's files.

## Inventory

| Component | State | Operations | How it interacts | What makes it correct |
|---|---|---|---|---|
| Instance life cycle (`kustomer.go:28-323`) | `initialized`, `ctx`, `cancel`, `ready`, product claims, `updated` | New, Initialize, Uninitialize | starts and cancels the goroutines; may be initialized again | goroutines end, ready means claims, generations do not mix |
| Watcher (`kustomer.go:143-232`) | `first`, trigger channel, event and error channel | events, reconnect | reads sse.Notify, triggers the refresher | no update is lost, never stuck |
| Refresher (`kustomer.go:234-304`) | `first`, response | fetch, retry, publish, ready | waits for triggers, resets the claims cache, wakes waiters of `updated` | retries, publishes in order, ready once |
| Claims cache (`kustomer.go:462-514`) | `currentClaims`, `fetching` | CurrentClaims | callers wait for each other; the refresher resets it | one request at a time, nobody stranded, not stale |
| Waiters (`kustomer.go:325-378`) | captured `ready`, `updated`, `ctx` | WaitUntilReady, NotifyWhenUpdated | called by programs and by the library state | every update is announced, the call ends |
| Ensure functions (`ensured.go`) | a response, two flags | Ensure*, Get* | pure checks on a transaction | trust, online and licence checks come first; numbers convert |
| Library state (`libkustomer.go`) | global instance, context, notify cancel | Initialize ... UnsetNotifyWhenUpdated, InstantEnsure | one mutex; callback goroutines | callbacks end, no send on a closed channel |
| C API (`api.go`) | table of saved pointers | begin/end/ensure | maps pointers to transactions | a pointer is valid from begin to end |
| Python and PHP bindings | an object with a transaction pointer; PHP: loaded symbols | begin and end, argument parsing | use the C API | end once, not used after end |
| `kustomer-dump` (`cmd/kustomer-dump/main.go`) | the instance, what was printed | wait, print, print again on updates, exit | Go API, three goroutines | prints fetched claims in order, exits cleanly |
| Requests, config, logging, examples, build | none | - | - | not modelled |

Hard behaviours: an instance runs three goroutines per call of Initialize besides
its callers; goroutines of an earlier call may outlive it; streams break and
requests fail at any time; triggers share a channel of capacity 1; answers are
used after locks were released. `PROJECT.json` lists these hazards with their
lines and the properties that would notice them.

## Modules

| Module | What it is |
|---|---|
| `Instance` | what an instance promises its callers: generations, publication, ready |
| `Kustomer` | life cycle, watcher, notifier, refresher, daemon |
| `ClaimsCache` | CurrentClaims, composed with `Kustomer` (EXTENDS) |
| `LibKustomer` | the global state of the library, NotifyWhenUpdated with its callbacks, WaitUntilReady and InstantEnsure |
| `Ensured` | the checks and conversions of `ensured.go`, as operators |
| `LibraryClaims` | which instance a call of the library has, and which claims that holds when the call reads them |
| `Sessions` | what the C API promises about transactions, without pointers; composed with `LibraryClaims` (EXTENDS) |
| `Transactions` | the C API's saved pointers, status numbers, operators and timeouts, with clients as the bindings are; composed with `LibraryClaims`, uses `Ensured` (EXTENDS) |
| `MCTransactions` | responses and calls for TLC |
| `KustomerDump` | the tool, composed with `Instance` (EXTENDS) |
| `KustomerProofs`, `ClaimsCacheProofs`, `LibKustomerProofs`, `TransactionsProofs`, `KustomerDumpProofs` | invariants of the modules they are named after |
| `KustomerOnce` | nothing is fetched twice at startup |
| `AnswersProofs` | the order in which the ensure functions refuse a call, and what succeeds |
| `KustomerRefines` | `Kustomer` implements `Instance`; `ClaimsCacheProofs` and `LibKustomerProofs` take this further to an instance with its callers and to the library's instances |

`Kustomer` is the detailed model of one instance. Callers of an instance are
composed with what they depend on: `ClaimsCache` with `Kustomer` itself, since it
meets the refresher's steps; `KustomerDump` with `Instance`; `LibKustomer`, which
has several instances of one generation each, repeats the actions of `Instance`
for each of them, and is proved to keep to it (`InstancesKeepPromise`).

### Kustomer

`gen` counts the calls of Initialize that set the state. Whatever such a call
creates (context, ready channel, trigger channel, the goroutines and their local
variables) is indexed by that number, because goroutines compare their own
`ready` with `k.ready` (lines 148, 241) and may find a later one. A claim set is
the daemon's version of it: 0 is nothing, versions grow by one with every change.

A critical section of `k.mutex` is one step; channel operations, selects and
requests are steps of their own. `watcher`, `notifier` and `refresh` are program
counters. Correspondences that are not obvious:

- `events[g]` stands for everything between the daemon and the watcher: socket,
  sse.Notify's hand and the channel of capacity 4. Capacity only delays the
  daemon; what counts is that a broken stream keeps any prefix (`StreamBreak`),
  and that events left in the channel are dropped when the error is received
  first (`WatchError`).
- A timer case of a select (`WatchReconnect`, `RefreshRetry`) fires only when the
  context is not done: a select that is entered with Done ready, or blocks and sees
  Done first, takes Done five seconds before the timer.
- `StreamOpen` is possible after Uninitialize: the dialer's check of `initialized`
  happens before, and the request carries no context.
- `RefreshBegin` reads `k.ctx` without the mutex while Initialize may write it;
  the racy read gives the context of this or of any later generation.
- `InitializeAbsError` is Initialize when `filepath.Abs` fails: the instance counts
  as initialized, nothing runs, the call returns an error.
- Calls that return an error without changing anything are stuttering steps.

The daemon and longsleep/sse are not in the repository. They are modelled from
their use: the daemon says hello when a stream opens, registers the stream in the
same step, changes its claims before it reports the change, and answers requests
with the claims active at that moment.

Definitions such as `TriggerCapTwo` or `ReconnectQuietly` are mistakes one could
make in the code; they stand next to the correct form, no specification uses them,
and with one in place of the correct form the property that `PROJECT.json` pairs
it with fails.

### Instance

The abstract specification of an instance. `Promise` in `Kustomer` instantiates
it with the variables of the same names; its variable `fetched`, the generations
that have published, is no variable of the code and is computed from the
refreshers' program counters and the ready channels.

### ClaimsCache

Every caller runs CurrentClaims step by step: the look under the read lock, the
look under the write lock, the request, the store, the deferred close. The channel
`k.fetching` is named by the leader that made it. Followers are woken by the close
and start over, as the recursive call does. `FetchClaims` answers with the version
that is active then; the answer is stored at any later time. `returned` is what the last
call of a caller has returned; `seen`, the newest claims that any call has returned,
and `floor`, what `seen` was when a call began, are no variables of the code.

### LibKustomer

The global variables under `mutex` are `instance` and `notifyCancel` (the latter
names the registration whose cancel function it holds); line numbers in this
section are those of libkustomer.go. Instances are numbered in
the order they are made; the library makes a new one for each Initialize and each
InstantEnsure, so every instance has one generation, and `NewInstance`, `Shutdown`,
`Publish`, `SignalReady` and `ParentCancel` are the actions of `Instance` for it.
Claims are abstracted to the number of publications, which is also the number of
the channel in `k.updated`. One mutex section is one step; correspondences that
are not obvious:

- `InitializeError` is Initialize or InstantEnsure when `filepath.Abs` fails in the
  Initialize of the instance (kustomer.go:127-136): the instance has set its context
  and counts as initialized, but has started no goroutine, and the library returns
  (lines 160-166, 302-307) without Uninitialize. `dropped` has these instances.
- `WaitUntilReady` takes the instance (line 214) and `WaitLook` enters the
  instance's own WaitUntilReady later; Uninitialize may come between.
- A select with several cases ready takes any of them. `WaitTimeout` and
  `InstantFailed` are timers, possible at any time.
- The instance's and the library's context are cancelled by the same call under
  the same mutex, so that `ctxDone` stands for both.
- A registration has a producer (NotifyWhenUpdated: `NotifyTop`, `NotifySelect`,
  `NotifySend`, `NotifyCleanup`, `NotifyCancel`) and a consumer. The end of the
  consumer closes `eventCh` (`Closed`), and a send on it sets `crashed`.
- `UnsetNotifyWhenUpdated` empties the slot and `UnsetCancel` cancels, since line
  396 is outside of the mutex.
- What a callback has seen (`view`) and how often it was called (`updates`) are no
  variables of the code; they are what the properties are about.

### Ensured and Transactions

`Ensured` has the functions of `ensured.go` under their names. Each gives the
status of the call: the first check that fails. A response keeps what the checks
look at; a value carries the type the JSON decoder gives it. Numbers are halves
(`Parts`), enough for a fraction; integers are `2^w`-bounded by `IntLimit`, and the
conversion of a number that does not fit is any of the results processors give.

`Transactions` adds `api.go`: a transaction is saved under an address that malloc
gives out (`Save`), looked up (`Restore`), and given back in the three steps that
end_ensure and its caller take: out of the table (`Unref`), freed (`Free`), pointer
cleared by the binding (`Clear`). Another client may get the address in between.
Clients are the objects of `pykustomer.c`, used by one thread each; the PHP
extension's objects do the same. `begun` is what a client would say its transaction
is; no code has it. An ensure function changes nothing: `Reply` is the set of
numbers it may return, and `ErrorOrder` and `SuccessIsEarned` compare it with
`Refusals`, `Satisfies` and `WholePart`, which do not say in which order or how the
code looks.

begin_ensure enters two critical sections, and so has two steps: `Begin` takes the
library's instance (libkustomer.go:257-266), and `BeginClaims` reads what that holds
(kustomer.go:453-460). In between it may publish, and the library may be
uninitialized and initialized with another one. instant_ensure takes an instance of
its own (`InstantEnsure`) and reads its claims after that has published
(`InstantReady`). `LibraryClaims` has these instances: `claims` is the response that
each holds, `taken` the instance that each call has. An instance that neither the
library nor a call has is forgotten (`Forget`), as the garbage collector does, so that
the number of instances is a bound on those in use only.

`Sessions` is the abstract specification: transactions that only their own clients
begin, change and end, each with the claims that the instance of its call held when
they were read. The instances are the same as those of `Transactions`; the mapping
`Opened` follows a client's pointer to the transaction saved there. A client
given the claims of another instance than the one its call took, claims held
before or after, or another client's transaction would take a step that `Sessions`
does not have.

### KustomerDump

Main, the goroutine of NotifyWhenUpdated and the printing goroutine, on the
variables and actions of `Instance`. A send on the channel without capacity is one
step with its receive. A panic of main runs the same deferred calls as its return.

## Runs

| Run | Bounds | Shows |
|---|---|---|
| `kustomer_safety` | 2 Initialize, 2 versions, 1 failure | safety of `Kustomer`, and that it implements `Instance` |
| `kustomer_live` | 1 Initialize, 2 versions, 2 failures | convergence, readiness without auto refresh, end of the refresher |
| `claims_cache` | 2 callers, 3 calls, 2 versions | single request, no stranded follower, reads monotone across callers, every call returns |
| `library` | 2 instances, 2 publications each, 1 registration, channel of 1, 1 caller | owned instances, results with claims, registrations and waits end, updates arrive |
| `transactions` | 2 clients, 2 addresses, 3 instances in use, 5 responses, 85 calls, 6-bit integers, 10 units a second | own transactions, no leak, timeouts, answers, and that `Transactions` implements `Sessions` |
| `dump` | 2 versions, 3 publications | what the tool prints |
| `first_fetch_not_retried` | 1 Initialize, 1 failure | finding 1 |
| `uninitialize_leaks` | 1 Initialize, 1 failure | finding 2 |
| `old_generation_overwrites` | 2 Initialize, 2 versions | finding 3 |
| `stale_claims_cached` | 2 callers, 2 calls, 2 versions | finding 4 |
| `unset_panics` | 1 instance, 2 publications, channel of 4 | finding 5 |
| `later_registration_forgotten` | 2 registrations | finding 6 |

Why the bounds are enough: two generations give one old and one current; two
versions give an update before, during or after anything; one failure gives a
broken stream or a failed fetch before or after the first success, two in the
liveness run give a failure of each kind. Two callers with three calls give leader
and follower in both roles, and a follower that becomes the leader; the proofs
cover any number. The cache run uses one generation without failures of the stream
or the product claims (requests of CurrentClaims may always fail), since the cache
only meets the refresher through its reset. With the liveness run's single
generation, `old_generation_overwrites` cannot disturb `Converges`; with two it does.

In `library` a channel of capacity 1 is full after one event, which blocks the
producer; two instances are a global one and one of InstantEnsure, or a global one
and its successor. One registration keeps the liveness properties apart from
finding 6, which takes two; the safety properties are proved for any number. In
`transactions` the responses differ in each thing a check looks at, there is a claim
of each type, and the calls include missing products and claims, wrong types, all
operator codes and one too small and one too large. A number beyond the integers
and timeouts that fit, that fit before the multiplication only, and that do not fit
at all are among the inputs. Three instances are as many as two calls and the library
can have between them. Clients, addresses and instances are symmetric there: no property
tells them apart, and all properties of the run are safety properties.

Deadlock is not checked: a system whose callers are done and whose goroutines
have ended, or which has used up its bounds, rightly stops; the tool ends.

### Safety properties

- `ReadyHasClaims`, `ReadyClosedOnce`: ready means fetched claims, and its channel
  is closed once, over failures and retries.
- `SameGenMonotone`: readers of the product claims do not see versions go back as
  long as one generation publishes.
- `NoUpdateMissed`: when stream, trigger and refresher are quiet, the last response
  is the active version.
- `NoDoubleFetch`: without updates and failures, as many publications as generations
  that have published, so that none did twice.
- `ImplementsInstance`: refinement of `Instance`.
- `CachedUntilReset`, `MonotoneReads`, `FollowersHaveLeader`: claims in the cache are
  replaced by a reset only, nobody is given claims older than what anybody had been
  given when it called, and whoever waits for a request waits for one under way.
- `InstancesOwned`: an instance whose goroutines may run is the global one, or an
  InstantEnsure will uninitialize it. One that did not get through its Initialize
  stays initialized, but has no goroutines (`dropped`).
- `ResultsHaveClaims`: a nil error of WaitUntilReady, and what InstantEnsure returns,
  stand for fetched claims, whatever else was possible at the time.
- `SlotNotStale`: no registration that has ended keeps the slot.
- `EventsBacked`: a callback is called at most once per publication.
- `OwnTransaction`, `StoreExact`: a pointer leads to the client's own transaction
  from begin to end, and nothing leaks.
- `ImplementsSessions`: refinement of `Sessions`. It adds what a transaction holds:
  the claims that the instance of its call held when the call read them, and since
  then changes by the client's own flags only, while instances publish and are
  replaced and the addresses of ended transactions are given to others.
- `TimeoutsKept`: seconds become a Duration of that length unless it cannot hold it.
- `ErrorOrder`, `SuccessIsEarned`: a refused call gives the first reason of the
  fixed order; any other succeeds exactly if the claim is what was asked for.
- `DumpTypeOK` says, besides types, that without -watch the tool starts no goroutine
  and waits for no signal.
- `ShownInOrder`: what kustomer-dump prints was fetched and goes forward.

### Liveness properties

`Converges`, `ReadyWithoutAutoRefresh` and `RefreshEnds` for an instance,
`CallsReturn` for the cache, `NotifyEnded` (an unset registration, or one of an
uninitialized library, ends with both goroutines), `WaitStops` (a wait ends with
the library, without its timeout) and `UpdateReachesCallback` for the library,
`UpdatesAreShown` for the tool. Those of the library end with a crash at the
latest, which finding 5 is about.

### Fairness

Goroutines that can go on do so, timers fire, requests end: weak fairness of
`Watcher(g)`, of the notifier's request and of `Refresher(g)`, and of
`Proceed(c)` in the cache. The requests of the refresher have a timeout of 60
seconds (line 260); that a daemon accepts or refuses a connection is assumed.
In `LibKustomer`, producers, consumers and waiting calls go on when they can (the
callbacks are taken to return), in `KustomerDump` its three goroutines.
Callers, context cancellation, timeouts, publications, updates, signals and broken
streams are under no obligation; failures are finitely many (`MaxFaults`), so convergence says "once
failures stop".

## What the code does differently from what it says

1. `first_fetch_not_retried`: "Automatic retry on error" (line 268) does not hold
   for the first fetch with auto refresh. The loop waits for a trigger (lines
   252-257), but the hello that sent the only one has been used. The instance
   becomes ready only after the next update or reconnect.
2. `uninitialize_leaks`: Uninitialize "releases the associated resources" (lines
   309-310), but the stream's request has no context, and the goroutine of
   sse.Notify stays blocked on the stream or in `e <- err` (line 176). A second way
   for a goroutine to stay is `trigger <- true` (line 213): after a reconnect the
   trigger channel may still be full when the refresher ends, and the watcher
   waits for room without looking at Done.
3. `old_generation_overwrites`: CurrentKopanoProductClaims "returns the active
   Kopano product claims of the associated instance" (lines 449-450), but a
   refresher of an earlier Initialize publishes without another look at its
   generation (lines 278-285). The library state makes a new instance for each
   Initialize, so this concerns Go programs that initialize one again.
4. `stale_claims_cached`: the cache of CurrentClaims is to hold "unless the
   underlaying active claims have changed" (lines 464-466), but an answer is
   stored whatever happened to the cache since the request, and claims cached
   while the refresher waits for its first hello are not reset after it.
5. `unset_panics`: a registration "can be unset by using the UnsetNotifyWhenUpdated
   function" (libkustomer.go:332-334). The consumer then closes `eventCh` (line 369)
   while the producer may be about to send on it, which ends the process. The run
   asks for it while no other context is done, so that its trace goes through
   UnsetNotifyWhenUpdated.
6. `later_registration_forgotten`: the same sentence. The producer of a registration
   that was unset empties the slot (libkustomer.go:361) also when a later
   registration has it, which then cannot be unset and runs beside a third one.

The models reach some more states that a user may not expect and that no run is
made for. NotifyWhenUpdated reads `k.updated` (line 363) only after it has handed
over the event before, so what is published in between is not announced by itself;
`UpdateReachesCallback` is about what the producer was waiting for. In the same way
`kustomer-dump -watch` may wait for a first update that was published before its
goroutine looked, and give up though the instance is ready (main.go:95-105). At
its exit main sets `instance` to nil (main.go:56), and a goroutine that is printing
then crashes; `cause` is "crash" in that state of `KustomerDump`. Seconds from C that
do not fit a Duration wrap, also to a negative one (api.go:124, 203); `TimeoutsKept`
is about the others.

## Proofs

All proofs hold for every value of the constants under the assumptions that the
modules name: for `Kustomer`, `KustomerAssumption` (`MaxInit` and `MaxFaults` are
natural numbers, `MaxVersion` a positive one), that is for any number of
generations, updates and failures; likewise `ClaimsCacheAssumption`,
`LibAssumption`, `EnsuredAssumption`, `TransactionsAssumption`, `CallsAssumption`,
`NumbersAssumption`, `ClaimsAssumption` and `DumpAssumption` for the other modules. Each of them is met by a run.

- `TypeCorrect`: the five parts of `TypeOK` follow the groups of variables, so that
  `TypeUnchanged` settles the groups an action leaves alone.
- `ReadyMeansClaims`, `ReadyNeverClosedTwice`: neither property is inductive: that
  Publish precedes SignalReady is lost between the steps. `ReadyInv` adds that
  a response waiting to be published is not empty, and that `first` is true exactly
  while the ready channel is open.
- `PublishedNeverOlder`: `VersionInv` says that nothing is newer than the daemon
  and that a refresher about to publish does not hold less than its generation has
  published. The step follows because only Publish stores claims.
- `UpdatesReach`: `UpdateInv` says that a refresher past its fetch, while the
  watcher listens to a stream, either has the active version or is owed another
  fetch by a trigger, by a claims-updated event, or by a hello that finds `first`
  set. `ConnectInv` gives the last part: `first` is set whenever a stream is
  requested, which is what the assignment at line 197 is for.
- `InstanceImplemented`: every step maps to one of `Instance` or to a stutter, with
  the invariants above and `StartInv` (generations start in order; without auto
  refresh, a refresher whose ready channel is closed is done).
- `FetchedOnce`: `NoDoubleFetch` counts the generations that have published
  (`Published`) against the publications. A second one of the same generation is
  excluded by `CalmInv`: without updates and failures the watcher's `first`, its send and the
  trigger channel hold at most one trigger between them, and none once the refresher
  has what it needs for its fetch.

The invariants were checked by TLC with the bounds of `kustomer_safety` before
they were proved.

- `CacheTypeCorrect`, `NobodyLeftBehind`, `NeverOverwritten`, `ReadsNeverGoBack`:
  for any set of callers. `LeaderInv` says that the caller in `k.fetching` is the
  only one with a request or an answer, and that the cache is empty meanwhile;
  `SeenInv` that nobody has seen anything newer than the cache or than the answer
  about to be stored, which makes a late answer of a new leader harmless. An answer
  that was stored is returned later, when others may have been given newer ones; for
  it `SeenInv` keeps what was known when its caller called (`floor`). Both rest on `InstanceStep`: the instance only
  resets the cache.
- `InstanceUndisturbed`: callers leave alone everything that `Instance` and the
  invariants of `Kustomer` speak of (`CallersAlone`; of the variables of the
  instance they write `currentClaims` only), so that an instance among its callers
  still implements `Instance` and keeps `ReadyHasClaims`, `ReadyClosedOnce` and
  `NoUpdateMissed`.
- `LibTypeCorrect`, `SlotIsFreed`, `NoEmptyResults`, `NoInstanceLost`,
  `NoSpuriousEvents`: for any number of instances, registrations, callers,
  publications, and any capacity. `CallInv` adds that a ready instance has
  published; `OwnerInv` that an instance of InstantEnsure is not the global one;
  `EventOK` that a producer has not sent for the channel number it has read yet,
  without which a second event for one publication could not be excluded.
- `InstancesKeepPromise`: each step of the library is, for each of its instances, a
  step of `Instance` with one generation, or a stutter (`OwnStep`). Whether an
  instance refreshes its claims is fixed when it is made, so the conclusion is that
  it implements `Instance` with auto refresh or implements it without.
- `ForgottenByOthersOnly`, `EndedPanicsOnly`: how far findings 6 and 5 reach. A
  registration that nothing has ended keeps the slot until the producer of another
  one, which has ended, clears it; a send on a closed channel takes a registration
  that has ended. `EndInv` adds that goroutines of a registration end with its
  context only (`EndsAreDone`) and that what is stopped has a context that is done
  (`ContextsDone`).
- `TransTypeCorrect`, `EveryClientItsOwn`, `NothingLeaks`, `WaitsAsAsked`: for any
  clients, instances, addresses, responses and width of integers, from
  `TransactionsAssumption`, `ClaimsAssumption` and `EnsuredAssumption`. The first three need each other (`TransInv`): a client
  reaches its own transaction because addresses in use differ, and they do because
  nobody keeps a pointer that was given back (`ClientInv`).
- `RefusedInOrder`: `ErrorOrder` for any responses and calls, from
  `CallsAssumption` (a call has a type and a form that the API has). `LookIsFirst`
  compares what a function finds before the comparison with the least of the
  reasons, check by check; `StatusesFollowLook` says that every function answers
  with it; `EveryClientItsOwn` gives the transaction it looks at.
- `SessionsImplemented`: each step of a client maps to one of `Sessions` or to a
  stutter, each step of the library to the same one there. `TakenInv` says at which
  steps a call has an instance and whose it is, `TakeTypes` and `LibraryTypes` that an
  instance somebody has is not forgotten. `OpenedIs` gives the mapping its value,
  from `TransInv`: the address of a client's pointer is nobody else's, so that saving
  or freeing a transaction changes what one client has.
- `SuccessWhenEarned`: `SuccessIsEarned` for any responses, calls and width of the
  integers, from `NumbersAssumption` (what the decoder calls a number, in `Parts`,
  and what C compares it with are integers of the model). `WholePartIs` says that the conversion of `ensured.go` gives the
  one integer that `WholePart` describes without dividing; `StatusesWhenFound` what
  each function answers once the claim is found.
- `DumpTypeCorrect`, `PrintedInOrder`: from what `Instance` says of one generation.
  `AwaitInv` says that claims were published before anybody waiting was told;
  `VersionStep` that versions do not go back.

Only model-checked: liveness, which the prover does not do (`Converges`,
`ReadyWithoutAutoRefresh`, `RefreshEnds`, `CallsReturn`, `NotifyEnded`, `WaitStops`,
`UpdateReachesCallback`, `UpdatesAreShown`), and the refutations behind the findings.
Every invariant and action property of the passing runs is stated by a theorem.

## Not modelled

- Requests, JSON, headers, logging, configuration, the build, argument parsing of
  the bindings, texts of errors, dumps of claims, and the trust flag (set with the
  socket's path, lines 127-138, and not read by the goroutines).
- The PHP extension: one pass of dlsym calls over a fixed list, and objects that
  keep a pointer as those of `pykustomer.c` do.
- An object of a binding that several threads use at the same time: the Python
  binding lets go of the interpreter's lock around end_ensure (pykustomer.c:180-184),
  so that a second thread may use or end the same pointer.
- The library's `debug` flag and logger, which are read without the mutex and steer
  log output only; the logger callback of the C API.
- Precision of float64 beyond 2^53, and NaN, which JSON cannot hold.
- SetNotifyWhenUpdated without an instance ends the process (`crashed` is
  "nil context"); its comment requires the state to be initialized.
- `kustomer-errors`, which prints constants, and the flags of `kustomer-dump` for
  parts of its output.
