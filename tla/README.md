# TLA+ models of the CEL admission polyfill

`cel-admission-polyfill` evaluates `ValidatingAdmissionPolicy` objects in
clusters whose API server does not do so itself. Policies and bindings are kept
as custom resources; a webhook server receives the API server's admission
reviews, and a plugin judges them with the vendored policy evaluator of
Kubernetes, which is fed through a client that converts the custom resources
to the native types.

This directory holds specifications of the parts in which goroutines, queues,
caches and contexts interact, the TLC configurations that check them, and
TLAPS proofs of their safety properties. `PROJECT.json` lists the
runs, what each definition was translated from, the findings and the hazards.

## The system

| part | state | operations | interacts with |
|---|---|---|---|
| process, `cmd/cel-admission-polyfill/main.go` | root and server context, wait group | signal, start of goroutines, wait | starts plugin and webhook, starts the informers |
| webhook server, `pkg/webhook/server.go` | HTTP server, forked context, server error | `Run`, the handlers `/validate` and `/health` | calls the list of validators |
| list of validators, `pkg/validator/multi.go` | none | `Handles`, `Validate` | calls each plugin in turn |
| plugin, `.../v1alpha1/plugin.go` | the evaluator | `HasSynced`, `Run`, `Validate` | polls and calls the evaluator |
| evaluator, vendored `validatingadmissionpolicy` | policy data, published snapshot | sync, reconcile, refresh, validate | reads the informers; resolves schemas |
| schema resolver, `pkg/controller/schemaresolver` | cache of schemas and errors, RW lock | `ResolveSchema`, CRD handlers | discovery, CRD informer |
| transformed client, `pkg/controller/transformed_client.go`, `injected_client.go` | none | `List`, `Watch`, `Get`, writes | the reflector of the policy informers |
| generic controller, `pkg/controller/generic.go` | work queue, workers | `Run`, handlers, `runWorker`, `reconcile` | shared informer, work queue, reconciler |
| work queue, vendored `client-go/util/workqueue` | queue, dirty, processing, delays, failure counts | `Add`, `Get`, `Done`, drain, `AddRateLimited`, `Forget` | shared by handlers and workers |
| informer factory and listers, `pkg/generated/informers`, `pkg/generated/listers` | informers, which are started, wait group | `InformerFor`, `Start`, `Shutdown`, `WaitForCacheSync` | runs the reflectors; listers read their caches |
| generated and transformed policy client, `pkg/generated/clientset`, `injected_client.go` | none (the API server's policy) | `Create` ... `Patch`, `UpdateStatus` | API server; the evaluator's policy controller writes with it |
| API types, `pkg/apis` | none | documented meaning of policies and bindings | read by the evaluator |
| interceptor, `cmd/interceptor` | a pipe and a pump per request | `Rewrite`, `ModifyResponse` | clients of the native API, API server |
| gentls and `pkg/pki` | files | key generation | none |

What is hard here: a key that changes while a worker holds it; one condition
variable for workers and drainer; retries that race with new events and with
shutdown; deletions that arrive as tombstones or fall between a list and its
watch; a cache looked up under one lock and filled under another; readiness
that is asked for three times before a request is judged, and may change each
time; a shutdown in which server, evaluators and requests end in any order; a
status written from a cached copy while clients replace the policy; a request
body that a goroutine copies while the server already answers; several policies
of which any may be misconfigured, undecidable or denying.

What makes each part correct:

- controller: no change of the cache is lost, one call per key at a time, the
  reconciler never goes back, shutdown ends and drains;
- resolver: later calls do not return older schemas, every call returns;
- informer: a watch that has caught up leaves the cache current;
- webhook: a request is allowed only by published policies of every validator,
  policies themselves can always be written, the process ends cleanly;
- informer factory: what was handed out and started runs in exactly one
  goroutine, nobody waits for a cache that nothing fills, and waits return;
- writers of a policy: what is stored is what a client wrote, whole and with
  nothing but the API version replaced, a status belongs to the spec it claims,
  and catches up;
- evaluator: matching and verdict are what the documentation of the API types
  says, and departures from it are known and go one way only.

## Modules

### `Workqueue`, `GenericController`, `KeyedReconciler`

`Workqueue` has one operator per method of the queue, each being what the method
does under the queue's lock. `Signal` wakes any one sleeper; `Get` is split into
its outcomes `GetItem`, `GetWait` and `GetShutdown`. Delays and failure counts
are reduced to membership in `waiting` and `failures`.

`GenericController` extends it. The informer (`CacheAdd`, `CacheUpdate`,
`CacheResync`, `CacheDelete`) changes the cache and appends a notification in
one step, because the shared informer does both under one lock;
`HandleNotification` is the listener calling the handlers of `Run`; `Run...` are
the statements of `Run` between which other goroutines can act; `Worker...` are
those of `runWorker`. An object is the revision of its cache entry. Two early
tests matter: `WaitForNamedCacheSync` tests `HasSynced` before it looks at the
context (`RunSync`), and `wait.Until` looks at the context before it calls
`runWorker` (`WorkerStart`).

`KeyedReconciler` is what a controller promises: per key at most one call, with
an object that was current after the previous call was over. The controller
implements it with `call[k]` as what the worker in `"reconcile"` for `k` has
read (`ImplementsReconciler`).

`SpawnWorkers` starts all workers in one step; a worker's own first step is
separate, so any start order is still covered.

### `SchemaResolver`

Callers go through `resolveSchemaFromCache` (read lock), `Lock`, `Fetch`,
`Store`, `Return`. The write lock is a variable; the read lock is held for one
step only and so is the guard `lock = NoCaller`. The handlers purge `EventKind`,
the group kind that `GetObjectKind` of a CRD object gives, which is none that a
CRD defines. The two purges of `UpdateFunc` have the same argument and are one
step. Deletions of CRDs are left out: `DeleteFunc` purges like `AddFunc`. A
schema is the revision of its CRD; discovery serves it with a lag and may fail.
In `main.go` nobody calls the resolver's `Run`; the module lets it be
called, as its comment intends, and then shows that it would not help.

### `TransformedInformer`

The API server is a log of changes whose positions are the resource versions.
The reflector lists (any snapshot not older than `lastSync`), watches and
handles events. The transformed client decides three things: which version a
list says it has (`ListedVersion`: none), whether a list succeeds (`Listable`)
and which events get through (`Kept`); the latter two depend on whether the
conversion `CRDToNativePolicy` fails. The object of a deletion event is the last
one there was, so that a deletion is filtered out when that object does not
convert, whatever came before. `gap` records the keys of which a change
was skipped, so that `CaughtUpIsCurrent` can say that nothing else goes missing.

### `WebhookServer`

One process: main's goroutines, the contexts (`ServerDone`, `ForkDone`), the
server goroutine, `webhook.Run`, one evaluator per validator, and one handler
goroutine per request. The evaluator is modelled as the plugin sees it:
`InitialSync`, `Reconcile`, the refresher that publishes `known` as
`definitions`, and a stop that makes `HasSynced` false again. A body is one of
four: not a review, of another kind than announced, not readable, or valid. The
verdict of a set of policies is whether its revision is in `Denying`. The poll
of `plugin.Validate` makes its checks without a count: it ends when one finds
`HasSynced`, or when the last one does not. A handler whose connection
`srv.Close` has cut goes on, and its answer is lost. When main returns
everything stops where it is.

### `InformerFactory`

The generated factory, with any number of goroutines that use it and of stop
channels. `InformerFor` hands out the shared informer of a type, `Start` begins
a goroutine for every informer requested and not yet started (`Spawn`),
`Shutdown` and `WaitForCacheSync` are split where they give up the lock and
wait. `Start` and `InformerFor` are one critical section each. The goroutine of
an informer is `spawned`, `running` and `returned`; on a closed channel it
returns before it has listed anything. `ForResource` and the typed accessors
all end in `InformerFor`. The owner of a channel closes it when it likes.
`left` of a call are the informers that `WaitForCacheSync` copied under the lock
and has not yet seen synced. Listers only read the caches and have no action.

### `PolicyStore`, `Interceptor`, `PolicyWrites`

`PolicyStore` is one policy at the API server as a log of versions, and the
outcome of each request of the generated client on it: optimistic concurrency,
generations, a status subresource. The API server is external; what the code
decides is which request it sends, at which resource version, and to which
subresource. A status is the generation it claims and the spec that was type
checked for it, which is what a reader of the warnings relies on.

`Interceptor` extends it with the reverse proxy. `Rewrite` starts the pump;
`PumpLine` and `PumpEnd` are the loop around `scanner.Scan`; the server `Serve`s
a request when the pipe is closed, may `Reject` it earlier, and streams a watch;
`Answer` and `AnswerFails` are `ModifyResponse` with and without an error.

A spec is a document of lines, and a line has a word (what it says, some words
being too long for the scanner) and the API versions it spells out, wherever
that is: in a CEL expression, as the `apiVersion` of a `paramKind`. `ReplaceAll`
replaces one version by the other in a line, as `bytes.ReplaceAll` does for
whatever stands there; the pump does so towards the API server, and
`ModifyResponse` in the other direction for what a client reads, which a client
may write back (`Rewrite`). The newline that `scanner.Scan` drops between lines
is not part of a document: bodies are JSON, in which a newline is only ever
white space between tokens. A cut JSON document does not decode; one with lines
missing in the middle may decode, as something nobody sent.

`PolicyWrites` composes both with the policy controller of the evaluator:
`Deliver` (its informer), `Reconcile` (a definition read from the cache) and the
status update, which may be refused or lost. A `paramKind` whose `apiVersion`
does not parse is a configuration error that is not retried, one that the REST
mapper does not find is returned as an error and retried (`Misconfigured`,
`SpecFails`). What the mapper answers is chosen anew at each reconcile: main
resets it every minute (main.go:109-113), and a kind may come and go.

### `PolicyEvaluator`

How `Validate` judges one request: definitions, bindings, parameter, match
conditions, validations, each a step. A policy is not a constant: every field is
chosen when the code reads it, so that all snapshots of the given size are
covered. `matchesResourceRules`, the two selectors and `Matches` are operators;
what CEL expressions evaluate to is an input, among it running out of the cost
budget for validations, messages or audit annotations. The reference is written
from the documentation of the API types: `DocumentedMatch` for matching, and for
failures `documented`, the one verdict that the types prescribe, with misconfigurations
and other failures under `Fail` enforced as `validationActions` say
(types.go:175-176, 399-401) and false validations always (types.go:397).
`departures` records in which way the code has left that reference before it
denied: `"strict"` where it can only deny more (a misconfiguration or an error of
an audit annotation without `Deny`, an exhausted budget under `Fail`), `"lax"`
where it can only deny less (an exhausted budget under `Ignore`). The bindings of
a policy that fails before they are looked at are an input: whether one of them
selects the request and says `Deny`.

## Runs

| run | shows | bounds | states |
|---|---|---|---|
| `controller` | all safety properties of the controller, and `ImplementsReconciler` | 2 keys, 2 workers, 2 changes per key, 2 undelivered notifications | 0.9 M |
| `controller_live` | `Converges`, `ShutdownCompletes` | 1 key, 2 workers, 3 changes | 91 k |
| `controller_deletions` | finding: tombstones | 1 key, 1 worker | |
| `resolver` | `ReadsNeverGoBack`, `CallsReturn` | 2 callers, 3 calls each, 1 CRD with 2 revisions | 43 k |
| `resolver_purge` | finding: nothing is purged | 1 caller, 1 CRD | |
| `informer` | `CaughtUpIsCurrent`, `StableWatchConverges` | 2 policies, 5 changes, one of which does not convert | 0.3 M |
| `informer_deletions` | finding: lists without a resource version | | |
| `webhook` | `FailClosed`, `SnapshotPublished`, `PoliciesExempt`, `NoAllowAfterStop`, `CleanExit`, `ProcessStops`, `RequestsEnd` | 2 validators, 1 request, 2 policy revisions of which the second denies | 1.3 M |
| `factory` | `ShutdownWaits`, `HandlesServed`, `AwaitedIsServed`, `ShutdownReturns`, `WaitReturns` | 2 goroutines, 2 stop channels, both types | 53 k |
| `writes` | `StoredAsSent`, `StatusDescribesSpec`, `ConfigErrorOfSpec`, `StatusCatchesUp`, `RequestsFinish` | 1 client, 3 writing requests and any number of reads, 4 documents of 1 or 2 lines: one spells out the native version, one has a `paramKind`, one a `paramKind` that does not parse and both versions, one a long line | 0.9 M |
| `evaluator` | `MatchesAsDocumented`, `VerdictAsDocumented` | every request over 3 resources, 2 versions, 3 operations; 4 rules; 2 policies with 2 bindings of 2 validations | 0.3 M |
| `evaluator_actions` | finding: misconfigurations deny without `Deny` | the same | |

Why the bounds are enough. Two workers and two keys give every way in which a
worker can hold a key that the other wants, sleep while the other works, or be
woken in place of the drainer. Two changes per key already include a change
while the first is being reconciled; `controller_live` adds a deletion and a
new creation after an update. `MaxNotifications` only delays the informer. The
handlers of `WebhookServer` share no variable that they write, so one request
meets every state another could see; two validators are needed for the order
in `multi.Validate` and for one evaluator stopping while the other still runs.
Two callers with three calls each let one fetch before and the other after a
change of the CRD, store in either order, and call again. Five changes are enough to list, lose the watch, be
compacted and relist with both policies changed in between. Symmetry (of keys
and workers) is used in the safety run of the controller only.

Two callers of the factory are two waits at once, or a wait while the other
shuts down, and two channels let `Start` and `WaitForCacheSync` use different
ones; `Start` and `InformerFor` do not block and need no caller of their own.
Three writes are a creation, a deletion and a second creation, or two updates
under the controller's status write. The API server applies requests one at a
time, so that a second client would add only writes at older versions; a lost
answer leaves the one client with an old version as well. Between them the
documents replace a version, leave one alone, name both versions at once, and
end in the middle. Two validations and two bindings are the least in
which a later result could override an earlier one, and the invariant on
matching quantifies over all match resources with the four rules in either list.

## Fairness

- Goroutines that can run do run. For the controller this is weak fairness of
  `Run`, of each worker and of the listener. For the webhook process less is
  enough: while the server goroutine, `Run`, an evaluator on its way to its end
  or a handler can go on, one of them does (nothing there goes round for ever).
- `Converges` assumes strong fairness of a successful reconcile: the reconciler
  "returns an error if there was a transient error" (generic.go:28), so errors
  of a key do not go on for ever. The delaying queue's loop is fair until the
  queue shuts down, when it stops (`delaying_queue.go`).
- `CallsReturn` assumes strong fairness of the two lock acquisitions, which is
  what `sync.RWMutex` gives: a waiting writer blocks new readers, and waiting
  readers go before the next writer.
- `ShutdownReturns` and `WaitReturns` assume that goroutines of the factory go
  on; that a channel is closed or a list arrives is their premise.
- `RequestsFinish` and `StatusCatchesUp` assume that each request goes on while
  its pump, its handler or the API server can: for the pump this includes that a
  client which has not hung up sends the rest of its body (the interceptor's
  server has no read timeout and would wait for a silent client), for the API
  server that it handles a request it has received in full, but not that it ends
  a watch. They also assume that the informer of policies follows the API server
  or else the controller's worker works, while either can. A lost status update is
  never retried by the code and is excepted by the property.
- Otherwise nothing is assumed of the API server, of signals, of the arrival of
  requests, or of a watch staying up (`StableWatchConverges` has that as its
  premise).

## Proofs

Every component has a module of proofs. Each proves, for every value of the
constants that its assumptions admit, an inductive invariant `Inv` and from it
every invariant that the component's run checks; what a run shows for the bounds
above holds for any number of workers, keys, clients, validators, policies,
changes and so on. Each `Inv` was checked by TLC on the run's instance first.

| module | theorem | property |
|---|---|---|
| `GenericControllerProofs` | `TypeCorrect` | `TypeOK` |
| | `QueueStaysConsistent` | `QueueConsistent` |
| | `OneWorkerPerKey` | `SingleFlight` |
| | `UpdatesAreNotLost` | `NoLostUpdate` |
| | `WakeupsAreNotLost` | `NoLostWakeup` |
| | `BackoffsArePending` | `BackoffOnlyWhilePending` |
| | `QueueDrained` | `DrainedOnReturn` |
| | `ReconcilerMovesForward` | `KnownNeverGoesBack` (action property) |
| | `ControllerImplementsReconciler` | `ImplementsReconciler` (refinement) |
| `SchemaResolverProofs` | `TypeCorrect` | `TypeOK` |
| | `SchemasNeverGoBack` | `ReadsNeverGoBack` |
| `TransformedInformerProofs` | `TypeCorrect` | `TypeOK` |
| | `CaughtUpCacheIsCurrent` | `CaughtUpIsCurrent` |
| `WebhookServerProofs` | `TypeCorrect` | `TypeOK` |
| | `AllowedOnlyIfJudged` | `FailClosed` |
| | `SnapshotIsPublished` | `SnapshotPublished` |
| | `PoliciesAreExempt` | `PoliciesExempt` |
| | `LateRequestsNotAllowed` | `NoAllowAfterStop` |
| | `ExitIsClean` | `CleanExit` |
| `InformerFactoryProofs` | `TypeCorrect` | `TypeOK` |
| | `ShutdownIsComplete` | `ShutdownWaits` |
| | `StartedInformersRunOnce` | `HandlesServed` |
| | `AwaitedAreServed` | `AwaitedIsServed` |
| `PolicyWritesProofs` | `TypeCorrect` | `TypeOK` |
| | `StatusIsOfItsSpec` | `StatusDescribesSpec` |
| | `ConfigErrorIsCurrent` | `ConfigErrorOfSpec` |
| | `OnlySentSpecsAreStored` | `StoredAsSent` |
| `PolicyEvaluatorProofs` | `TypeCorrect` | `TypeOK` |
| | `VerdictsAreDocumented` | `VerdictAsDocumented` |
| | `MatchesAreDocumented` | `MatchesAsDocumented` |

Each of these modules also has `Invariance`, that `Inv` holds always.
`WorkqueueProofs` has the lemmas on `Add`, `GetItem` and `Done` that the
controller's proof rests on.

### Controller (`ConstantsAssumption`, `NoKeyAssumption`)

None of the properties is inductive alone. `Inv` adds to them:

- `ItemsProcessing`: `processing` is exactly what the workers hold. With
  `QueueConsistent`, a key that a worker takes off the queue is held by nobody,
  which is `SingleFlight`.
- `Freshness`: what is known is not newer than what a worker has read, and that
  is not newer than the cache. A worker that reads the cache while it alone
  holds the key therefore moves the reconciler forward.
- `StaleReadOwed`: an object that was overtaken while a worker held it has left
  a notification, a dirty mark or a delayed re-add behind. This is what keeps
  `NoLostUpdate` when the worker reports success for the older object.
- `BackoffInv`: a failed item that is still with its worker will be tried again.
- `Lifecycle`: which worker states exist in which state of `Run`, and that the
  last worker to leave finds the queue empty.

One lemma per group of actions (`CacheStep`, `QueueStep`, `OtherStep`,
`RunStepLemma`, `WorkerStepLemma`) shows that it preserves `Inv`.

`NoLostWakeup` needs one more fact, `Sleepers`: workers sleep only before the
shutdown and `Run` only after it. The one condition variable is shared, and
`Signal` wakes anyone: an item added while both a worker and the drainer sleep
could wake the drainer and leave the worker asleep. That the shutdown wakes
everybody, and no worker waits afterwards, rules it out. Then a `Signal` for a
new item makes one more worker awake, or nobody sleeps; `WakeKept`, `WakeSignal`
and `WakeShutDown` are the three ways in which a step can touch sleepers and
queue.

For the refinement, `CallIs` says that by `SingleFlight` the worker that
`CallOf` chooses is the only one there is. `WorkerRead` is then `Begin`,
`WorkerReconciled` is `Succeed`, `WorkerFailed` is `Fail`, a change of the cache
is `Change`, and `CallsKept` shows that the others leave the calls alone.

### Schema resolver (`SchemaAssumption`)

`ReadsNeverGoBack` holds because the discovery request is made with the write
lock held: what the holder is about to store (`StoreNewest`) and what the cache
holds (`CacheNewest`) are as new as everything that was returned, or is on its
way to a caller. `Bounded` and `ServedBehind` order all of them below what
discovery serves; `FloorReturned` ties a caller's floor to what had been
returned.

### Policy informer (`InformerAssumption`)

`Reflected(k, p)` is the core: the cache has what the change numbered `p` left
of `k`, or a later change of `k` is still to come, or `k` is known to have been
skipped. While a watch is open every policy is reflected at `pos`, or a
synthetic event for it is due (`Watching`), and such an event carries the state
at `pos` (`BurstOfPos`). Between watches every policy is reflected at
`lastSync` (`Resumable`). The step that needs all of it is `WatchCloses`
(`ClosesLemma`): the watch may have got further than `lastSync`, and what was
delivered in between is delivered again. `AtRange`, `AtSame` and `AtChange` are
the lemmas on the log.

### Webhook process (`ServerConstants`)

`Published` (what is published was complete, a stopped evaluator does not sync
again), `Judged` (every validator the loop of `multi.Validate` has passed has
judged the request) and `Position` (where a handler can be) give `FailClosed`,
`SnapshotPublished` and `PoliciesExempt`. `Held` says that a late request never
gets past the evaluator that had stopped. `GroupCount` says what the wait group
counts and, with `Stages`, gives `CleanExit`.

### Informer factory (`FactoryAssumption`)

`StartedOnce` (the goroutines are those of the started types, one each),
`Counted` (the wait group is the number of types whose goroutine has not
returned), `Down` (starts are forbidden before `Shutdown` waits) and `Awaited`
(what a call waits for has a goroutine, and a goroutine returns only on a closed
channel). That the copy which `WaitForCacheSync` makes has a goroutine for every
informer is what `StartedOnce` says at that moment, and no goroutine is forgotten
later.

### Writers of a policy (`StoreAssumption`, `BodiesAssumption`, `ParamAssumption`)

`Pumped`: what the pump has written is the rewriting of that part of the body
which it has read, so what decodes is all of the body, rewritten. A client may
write back what it has read: `LineReplaced` shows that rewriting a line, reading
it and rewriting it again gives the same line, so that every stored spec is, by
`StoredDocuments`, the rewriting of one of the documents in `Bodies`, and reads
back as that document unless it spelled out the version of the CRDs. `Versions`:
in every version of the policy a status of its generation was made from its spec.
`Copies`: what the controller holds is a copy of some version, and it holds one
to reconcile only if its status is behind. With optimistic concurrency the
status it writes is then about the current spec. `Budget` shows that the bound
`MaxRV` is no restriction: every write of a client pays for its own version and
for one status update.

### Evaluator (`EvaluatorAssumption`)

`VerdictAsDocumented` is inductive with `TypeOK`. `Justified(denial, verdict,
departure)` says of one result what the invariant says of the whole request.
`FirstDenialJustified` shows it of a binding's validations (`FirstFailureIs` says
which failure counts), `ConfigErrorJustified` of misconfigurations, and
`StepLemma` that recording a justified result keeps the invariant: the first
denial stands, and departures after it do not count. The rules and the selectors
decide as documented by `MatchLemma`.

### What the proofs changed in the models

- The outcomes of a request at the API server were a `CASE` with overlapping
  guards; a cut body is now decided first (`Outcome` of `Interceptor`).
- The bounds and finiteness that the models need are now named assumptions:
  `MaxRev` of `SchemaResolver` is at least 1, as `Init` may start with a CRD;
  workers are finitely many; what stands for "no call" is not an object.
- `FirstDenial` says which denial of a result counts without building the
  sequence of all of them.

### Only model-checked

Liveness under fairness, which the prover does not do: `Converges`,
`ShutdownCompletes`, `CallsReturn`, `StableWatchConverges`, `ProcessStops`,
`RequestsEnd`, `ShutdownReturns`, `WaitReturns`, `StatusCatchesUp`,
`RequestsFinish`. The four findings are counterexamples and are TLC's as well.

## Findings

Each has a run in which TLC shows the departure:

1. A deletion found by a relist never reaches the reconciler (generic.go:69,
   run `controller_deletions`).
2. The resolver's handlers purge the wrong group kind (resolver.go:50, run
   `resolver_purge`).
3. A converted list has no resource version, so a deletion between list and
   watch stays unnoticed (transformed_client.go:120, run `informer_deletions`).
4. Misconfigurations of a policy, a binding or a parameter deny under `Fail`
   whatever `validationActions` say (controller.go:196-235, against
   types.go:175-176 and 399-401, run `evaluator_actions`). An error of a match
   condition does need `Deny` to reject.

Other departures from comments and documentation that the models contain. They
are met by a premise or an exception in the property concerned:

- Items enqueued before a worker has started are not finished when the context
  is cancelled: `wait.Until` looks at the context first (generic.go:125, against
  the comment at 135). `DrainedOnReturn` is about runs in which a worker ran.
- For want of a resource version a relist may return an older state than one
  already seen (transformed_client.go:120, against reflector.go:807).
- `webhook.Run` never returns the listen error: `fork.Err()` is not nil once
  the fork is done (server.go:98, against the comment at 33).
- When `messageExpression`s or audit annotations run out of budget, a false
  validation is admitted under `Ignore` (validator.go:142 and 197, against
  types.go:397), and a true one denied under `Fail`. `VerdictAsDocumented` holds
  beside this and beside finding 4 because it names them as departures, bounds
  what each can do, and fails for any other.
- A definition whose `paramKind` is unknown is recorded as reconciled before the
  error is returned, so the retry finds the spec unchanged, does nothing, and
  the policy stays misconfigured until its spec changes, even when the kind is
  known by then (controller_reconcile.go:204 and 249, against the comment at
  276).
- The registry of equivalent resources is empty, so `Equivalent`, the default,
  matches only what `Exact` does (server.go:43, against types.go:534).
- types.go:203 has an error of a match condition reject the request under `Fail`
  without mention of `validationActions`, types.go:399-401 have it enforced as
  they say. The code does the latter, and so does the reference.
- The interceptor replaces the native API version by that of the CRDs wherever it
  is spelled out, in CEL expressions and in a `paramKind` too, and the other way
  round in responses (interceptor main.go:67 and 78): an expression is evaluated
  with the replaced text, and a client that spelled out the version of the CRDs
  reads the native one. `StoredAsSent` states exactly this much.
- `Warn` and `Audit` reach nobody: warnings are added to `context.TODO()`, and
  the response carries neither (server.go:232, against types.go:410).
- The interceptor passes on the response to a watch only when it ends
  (interceptor main.go:76). `RequestsFinish` excepts watches.
- A client that asks the interceptor for the CRD group itself gets the native
  group in the response (interceptor main.go:73).
- A reconcile that fails during shutdown is not retried (generic.go:180).

## Not modelled

- Compilation and evaluation of CEL expressions and type checking: their results
  are inputs. The cost budget is an outcome, not a count.
- In the evaluator, the informers of parameters with their start and stop, and
  the reuse of compiled validators between snapshots.
- JSON conversion beyond succeeding or failing, cut or holed bodies, and the
  replacement of the API version; text of messages and logs.
- Request bodies that are not JSON: in YAML a newline means something, and the
  interceptor drops it. Clients that write the custom resources directly, not
  through the interceptor.
- The client of bindings (the shape of the policy client without a status), the
  fake clients, the clientset, scheme registration and deep copies, which have
  no state or are plain values here.
- Methods of the transformed client that nobody calls in this program.
- Loading of the client configuration; gentls and pki, which generate keys and
  write three files in sequence and end.

## Plan

Done: controller and queue, resolver, policy informer, webhook process, informer
factory, writers of a policy and evaluator, and the proof of every invariant,
action property and refinement that a run checks.

Left: the safety parts of the liveness properties, where they say something of
their own (a caller that waits in `Shutdown` or `WaitForCacheSync` is always
waiting for a goroutine that can go on or for a channel; a handler that polls
has a deadline), and an abstract specification of the process that
`WebhookServer` would implement, in which a request is judged by one published
snapshot per validator.
