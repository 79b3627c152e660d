# Quasar in TLA+

Quasar (`telekom/pubsub-horizon-quasar`) keeps stores in step with resources.
In *watcher* mode it follows custom resources of a Kubernetes API and writes
them to a primary store (Hazelcast by default) and a secondary store (MongoDB);
in *provisioning* mode an HTTP API takes the resources and writes them to
MongoDB first and Hazelcast second. This directory models the parts of it that
run concurrently or can fail, checks them with TLC, and proves the main safety
properties with TLAPS.

## Inventory

| Part | State | Operations | Interacts with | What is hard | What makes it correct |
|---|---|---|---|---|---|
| Dual store manager (`store/storemanager.go`) | the two stores; goroutines that have not run | `Create`, `Update`, `Delete`, reads, `Shutdown` | called by informer handlers, HTTP handlers, the fallback; calls two stores | a goroutine per call for the secondary store, a lock that is only read-locked, failures of either leg, the end of the process | each store obeys the writes it got; every write is tried on the primary first and at most once on the secondary; the stores end up equal |
| Back ends (`store/hazelcast.go`, `mongo.go`, `redis.go`) | documents by key | `Create`, `Update`, `Delete`, `Count`, `Keys`, `Read`, `List` | called by the manager and by reconciliation | each store derives its key from a different object or field | one document per object |
| Reconciliation (`reconciliation/`) | a mutex per resource | `SafeReconcile`, `StartPeriodicReconcile` | lists a data source (the API, or the store of the provisioning API), writes to Hazelcast | four callers, lists that age, two modes, panics | one at a time, never backwards; what is missing comes back; what is deleted stays deleted |
| Hazelcast connection (`store/hazelcast.go`) | `connected`, the registered reconciliations | `Initialize`, `InitializeResource`, lifecycle and membership listeners | the Hazelcast client calls back | events during the start, skipped reconciliations | the flag follows the connection |
| Watcher (`k8s/watcher.go`) | informer, gauge | `add`, `update`, `delete`, watch-error handler, `Start`, `Stop` | the informer calls back; writes through a dual store manager | inferred deletes, relists, restarts, failed calls | the store follows the API; the gauge counts it |
| Fallback (`fallback/`) | MongoDB client | `Initialize`, `ReplayResource` | called by the watch-error handler | the order of set-up | the store is filled when the API is gone |
| Provisioning API (`provisioning/`) | HTTP service | `putResource`, `deleteResource`, reads, middleware | dual store manager, reconciliation | concurrent requests, write and read addresses that differ, shutdown | what was acknowledged can be read |
| Shutdown (`utils/shutdown.go`) | list of hooks | `RegisterShutdownHook`, `GracefulShutdown` | all parts | hooks registered and run by several goroutines without a lock, a store shut before its users | no hook is lost, the order is that of the priorities, the process ends |
| Metrics (`metrics/`, `provisioning/metrics.go`, the `collectMetrics` of watcher and stores) | registry, maps of gauges and counters | `GetOrCreate...`, a count every 15 seconds, reset and refill | watcher, stores, provisioning | maps without a lock, goroutines that end unnoticed, gauges made from lists that age, labels an object lacks | one metric per name, counts that are right |
| Listings (`List`, `Keys`, `Count` of the stores, `listResources` and its like) | keys and values read so far | a query with a selector and a limit | clients of the API, the metrics goroutine, reconciliation | values read one by one while others write, what cannot be read, two meanings of a selector | nothing made up, nothing missing that was there throughout |
| Configuration, commands (`config/`, `cmd/`) | values read once | `run`, `init` | all parts | order of set-up in `run` | - |

`PROJECT.json` lists the places where this bites, each with the properties that
would catch it going wrong, or with the reason why none does: several of them are
in the model, and so in the runs, but lead to what the code does not promise to
avoid, so that a property can only be stated for the behaviours without them.

## Modules

| Module | Models | Role |
|---|---|---|
| `Backends` | what one write does to Hazelcast, MongoDB and Redis | operators on the contents of a store, used by all others except `Reconciliation` |
| `MirroredStore` | - | abstract specification of a dual store manager |
| `DualStoreManager` | `storemanager.go` | implements `MirroredStore`; `MCDualStoreManager` holds its instances, `DualStoreManagerProofs` its proofs |
| `CacheMirror` | - | abstract specification of what may reach the Hazelcast map |
| `Reconciliation` | `reconciliation.go`, the connection handling of `hazelcast.go` | implements `CacheMirror`; `MCReconciliation`, `ReconciliationProofs` |
| `Watcher` | `watcher.go`, `fallback/` | `MCWatcher`, `WatcherProofs` |
| `RestockedStore` | - | abstract specification of the two stores of the provisioning API, extends `MirroredStore` |
| `Provisioning` | `provisioning/`, `utils/shutdown.go`, `run` | composes an instance of `DualStoreManager` with requests, reconciliation and the life of the process; implements `RestockedStore`; `MCProvisioning`, `ProvisioningProofs` |
| `Listing` | the reads of the stores, `crud.go`, `provisioning/metrics.go` | one reader against any writers; `MCListing`, `ListingProofs` |
| `MetricsRegistry` | `metrics/metrics.go`, the `collectMetrics` goroutines | variables and actions that `Process` runs |
| `Process` | `cmd/run.go`, `utils/shutdown.go`, the goroutines of both modes | extends `MetricsRegistry`; its own instance, `ProcessProofs` |

Operators named like `UncheckedOutcomes` or `PanicKeepsLock`, marked *Defect* in
their comment, are not part of any specification. Each is a wrong version of
the definition after it, and shows with which mistake in the code a property
would break.

### Backends

An object is a name, an identity (what `GetMongoId` returns; `NoId` where the
configured field is missing) and a version. `Key` is the key of each store and
operation: Hazelcast takes the name of the object it is given, MongoDB the
identity of the new object on `Create` and of the *old* one on `Update`, Redis
the name. `Accepts` is the error path of `createFilter`, `Apply` the effect of
`Set`/`Delete`, `ReplaceOne` with upsert/`DeleteOne`, `JSONSet`/`JSONDel`.
Redis does not separate kinds of resources; one kind is modelled.

### DualStoreManager

One record of `inflight` per call: at `primary` the caller is inside the call
of the primary store, at `spawn` between that and its return, at `secondary` the
caller has its answer and the goroutine has still to run. `Invoke`,
`CallPrimary`, `SpawnAndReturn` and `CallSecondary` are the steps of `Create`,
`Update` and `Delete`, which differ only in the call they pass on. A store call
has the outcomes of `Outcomes`: done; refused; or failed, with or without the
request having been applied. `Crash` drops all of `inflight`. The RWMutex is
only taken with `RLock` and constrains nothing.

### Reconciliation

For one resource: `source` is what `ListResources` returns, `cache` the
Hazelcast map, `feed` the changes between the two (the informer's in watcher
mode, in order for each object; the goroutines of the manager in provisioning
mode, in no order). `boot` follows `Initialize` and `InitializeResource` step by
step, `link`, `connected` and `events` are the connection, the flag and the
lifecycle events not handled yet. `pc[a]` is where each caller of
`SafeReconcile` is: the ticker's goroutine, `onConnected`, the membership
listener, the first filling. `TryLock`, `ListResources`, `Count`, `Keys`,
`Create` (one step per item), `Panic` and `Finish` are the steps of
`SafeReconcile`. In watcher mode `ListResources` is a list of the API, of one
moment; in provisioning mode it opens a cursor of MongoDB, which may or may not
come across what changes until `EndList` (`Fetch`; an object that such a list has
twice is kept in the later of its versions). A call of Hazelcast that fails may
have been carried out (`CarriedOut`). `GetMap` and `AddIndex` failing at the start
end the process, which begins again (`InitializePanics`).

`CacheMirror` knows nothing of callers, locks or connections: a version takes off
while it is the source's, is on its way for as long as someone carries it, and
lands in the map, any number of times, or is dropped. The refinement mapping
(`Flying`) takes for on its way what is in `feed` and what the callers have in
`todo`.

### Watcher

For one resource and the primary store of `PrimaryType`: `api`; `wire`, what the
API server has still to send; `known`, the informer's store; `notes`, what the
handler goroutine has still to handle; `store` and `gauge`. `List`, `Receive`,
`Expire` and `Resync` are client-go, external, modelled from the calls it makes: a list
after an expired watch is compared with `known`, what is gone is reported with a
`DeletedFinalStateUnknown` (`tombstone`). `Add`, `Update`, `Delete` and
`Unexpected` are the handlers with their early returns and the gauge. `Label` is
what the gauge's label resolves to; where its path leads nowhere, `With` panics
after the store has been written (`CountPanics`), and the process is back at the
same object after the restart. `Replay`
and `Fatal` are the two branches of the watch-error handler; both end the
process: the replay reaches `m.client`, which nobody has set. `Start` is
`SetupWatchers` and `Start`.

The secondary store behind the watcher is not repeated here: `DualStoreManager`
has it. Nor is reconciliation, which only Hazelcast has and which repairs what
is missing, not what should be gone.

### Provisioning

For one resource in provisioning mode: the manager's variables, through
`M == INSTANCE DualStoreManager`, and around them the requests and the process.
`Receive` is the middleware, the checks (`Valid`) and the call of the manager;
`CallPrimary`, `Answer` and `Replicate` are the manager's steps with what the
handler makes of them; `Lookup` is `getResource`. Each request has a goroutine of
its own. `Find`, `Fetch`, `EndList`, `ListFails`, `Copy` and `Finish` are
`SafeReconcile` over `StoreDataSource`, first in `InitializeResource` (the service
listens only after it, `phase = "filling"`), then at every tick. The list is a
cursor: `ahead` is what it has still to visit, `Fetch` visits one document as it is
at that moment, or finds it gone, or cannot decode it and skips it, and what a
write files in the meantime it meets or misses (`MeetCursor`), so that a list need
not be what MongoDB held at any one moment and may have an object twice. If the
cursor fails, what it has found is dropped. `Start` is `run`
and `Listen` up to the registration of the first hook. `Signal`, `RunHook` and
`Exit` are `GracefulShutdown`, in the order of the hooks: both stores, both stores
again, the service. In between, requests still come in: on the MongoDB client
that is disconnected they fail, on the Hazelcast client that is shut `getMap`
panics. `Panic` and `StartFails` are the two places where nobody recovers;
in a reconciliation `SafeReconcile` does (`Copy`). `"deaf"` is a service whose
port is taken: `Listen` waits in `GracefulShutdown`.

`pending` and `promise` are what the properties need to know: who has not been
answered, and what the last answer for a name promised.

`RestockedStore` adds reconciliation to what `MirroredStore` says: objects that are
in the primary are loaded one by one while writes go on (`Load`), which makes a
`shipment` of no particular moment; once it departs (`Depart`) nothing more is
loaded, and each find is copied at most once, in order (`Copy`). A shipment may be
given up (`GiveUp`), and whatever ends the process ends it as well.

The Hazelcast connection is up as long as its client is not shut; outages of it
are in `Reconciliation`. Both modules reconcile one resource.

### Listing

One call of `List`, `Keys` or `Count` at a time, on Hazelcast, MongoDB or Redis,
by a client or by the metrics goroutine, chosen at the start; reads do not
disturb each other. `ScanKeys` and `Get` are the two passes of Hazelcast's `List`,
`Scan` the cursor, count or `distinct` of MongoDB and the size and key set of a
map, in any order and one element at a time, with writes in between. `Selects`
is `parseFieldSelector` or `MatchFieldSelector`; a selector is a sequence of
parts, and whether its text occurs in the JSON of an object is a constant
(`Mentions`). `Reset`, `Set` and `Sleep` are the loop of
`scheduleMetricGeneration`. `seen`, `steady` and `missed` are history variables of the
call under way.

### Process and MetricsRegistry

Goroutines with a program each: `RunCmd` (main), `Listen` (the API), `Inform`
(`ResourceWatcher.Start`), `Expose` (the metrics server), for one resource.
`RegisterShutdownHook`, the sort and the range of `GracefulShutdown` are accesses
of one slice with a beginning and an end (`open`). Where two overlap, the
slice has the length of one and any mixture of their elements (`Mixed`), and
`blurred` remembers it, also where a sort moves elements that a loop over the hooks
has still to read: the loop of the model has them all from its beginning, which
is what it reads unless the accesses meet in this way. `Sorted` states the sort by what it returns, the one
rearrangement in the order of the priorities that keeps the order of equals,
as a set with that one element. `GracefulShutdown` is called by `main`, by `SetupWatchers`
without a client and by `Listen` without a port, so by two goroutines at once
where the port is taken. `CloseTwice`, `HandlerPanics` and `MapFatal` are ends of
the process that nobody asked for.

`MetricsRegistry` has the map `gauges` and the registry under the five goroutines
that set gauges: the three `collectMetrics` by `GetOrCreateCustom`, the watcher's
handlers (`"handlers"`) and `scheduleMetricGeneration` (`"list"`) by `GetOrCreate`. A
write of the map has a beginning and an end too, and what meets it
(`Clash`) may not see the entry, lose it, or be noticed by the runtime.

## Runs

| Run | Question | Result |
|---|---|---|
| `dual_store` | two callers, writes on three objects (one lacks the identity field), failures of both stores, lost answers, crash | `TypeOK`, `LegsObey`, `MirrorSpec`, `WritesReplicate` hold |
| `dual_store_reorder` | two PUTs one after the other, no failure | `StoresAgreeWhenQuiet` violated: the goroutine of the second PUT runs first, the secondary keeps the first PUT |
| `reconcile_full` | full mode behind the API, changes in any order and while the database is listed, an outage at any moment of the start and after, a failing call, carried out or not, or a panic | `TypeOK`, `OneReconcileAtATime`, `NeverStuckDisconnected`, `ReconcileNeverRegresses`, `LockReleased`, `EverythingRestored`, `MirrorSpec` hold |
| `reconcile_incremental` | incremental mode, nothing deleted, an outage, a lost member, a failing call | `NothingMissing`, `ReconcileNeverRegresses` hold |
| `reconcile_ghost` | full mode, no failure | `DeletedDisappear` violated: list, delete handled, then the old list is written |
| `watcher` | labels from the objects, one without the field; outage, expired watch, end of the process, a failed call | `TypeOK`, `StoreFollowsInformer`, `GaugeCounts`, `CatchesUp` hold |
| `watcher_tombstone` | one expired watch | `DeletedDisappear` violated: the inferred delete is ignored |
| `watcher_fallback` | the API is gone at the start | `FallbackRestores` violated: start, panic, start, panic, ... |
| `provisioning` | two requests, two objects, lists that go on while requests write, failures of both stores and of reconciliation, a signal or a kill at any moment, restart | `TypeOK`, `AcknowledgedReadable`, `CacheConverges`, `StopsWhenTold`, `RestockSpec` hold |
| `listing` | the three stores, a client with selectors and limits or the metrics goroutine, four writes around them, a failure | `TypeOK`, `ListSound`, `ListComplete`, `GaugeComesTrue` hold |
| `process` | both modes, a goroutine that counts and the watcher's handlers, a signal, a failure of the start, a panic or a kill at any moment, restart | `TypeOK`, `GaugesScraped`, `HooksRun`, `StoresAfterInformers`, `StopsWhenTold`, `GaugesAppear` hold |
| `provisioning_identity` | no `mongoId`, bodies without a UID, no failure | `AcknowledgedReadable` violated: PUT answers 200, GET of the same URL 404 |

The runs that end in a violation are documented in `PROJECT.json` under
`findings`, with the sentence of the repository that the code does not keep.

Other values of the constants show more of the same kind, and are left to
whoever wants to try them. `EverythingRestored` in `ReconcileIncremental.cfg` is
violated: a list that is older than the keys it is compared with is written over
a version the informer has written since, and later runs skip every name that
is there. `GaugeCounts` without `clean` in `Watcher.cfg` is violated: `update` leaves
an object counted under its old label, and `delete` takes it off its new one.
Others: `Deletable = {a}` and `MaxErrors = 2` in
`ReconcileIncremental.cfg` violate `NothingMissing` (an entry that should be
gone makes the sizes equal, and `storeSize < resourceCount` never fires);
`PrimaryType = "mongo"` in `Watcher.cfg` violates
`StoreFollowsInformer` (two documents of one name); a `WrittenSet` that differs
from `ConfiguredSet` violates `AcknowledgedReadable` (a kind whose plural is not the
kind plus s).

### What the properties mean

`LegsObey` uses the history variable `trusted`: a store has to hold exactly what
the last write of an object asked for if that write began while no other write
of the object was in flight, and its call on this store did not fail.
`StoresAgreeWhenQuiet` drops the first condition, and the code does not keep it.
`WritesReplicate` is the same in time. `ReconcileNeverRegresses` compares what
successive reconciliations wrote. `NeverStuckDisconnected` is about the order of
`connected.Store(true)` and `AddLifecycleListener` (hazelcast.go:75, 84): if the
connection is lost in between, no `disconnected` event arrives, and the
`connected` event of the reconnection finds the flag set and reconciles nothing;
the flag is right all the same, and the next tick reconciles.

`MirrorSpec` is the promise that is kept in both modes, with failures and without:
what lands in the map was the source's own version when it was listed or
reported, and a version nobody carries any more does not come back. It does not
say that what lands is still current, which `reconcile_ghost` shows it need not be.

`StoreFollowsInformer` relates the store to the last state the handlers were told
of (`Told`). It excludes names for which a call failed, a delete was ignored, or
the process began with a document of it, until the next successful call. The
violation runs show what happens to those.

`GaugeCounts` holds with labels that objects lack, and until an update changes a
label (`clean`). `CatchesUp` asks that objects without the label do not stay: with
one of them the process dies at every start.

`ListSound` and `ListComplete` are what can be said of a list that is no snapshot:
its objects were all there at some moment of the call; those that were there at
every moment are in it, unless the limit was reached or something could not be
read, of which the caller is told nothing. `GaugeComesTrue` says that the gauge,
which shows a part between `Reset` and the last `Set`, comes true again and again
once writers stop.

`HooksRun`, `StoresAfterInformers` and `GaugesScraped` hold unless accesses of the
slice or the map met. That they may meet is in the model, but these three say
nothing of what follows: `GaugesScraped` is about get-or-create under goroutines
that happen not to meet, and the race itself is caught by no property, because what
it does (a gauge that nobody scrapes, a fatal error) is what the code does.
`StopsWhenTold` and `GaugesAppear` hold even then.

`AcknowledgedReadable` holds a promise to a client against what a read finds: the
promise is void while another write for the name is in flight or after an error,
as nobody was told how those end. `CacheConverges` says that what was promised to
exist ends up in the cache, whatever order goroutines and reconciliations ran
in. It says nothing of what was deleted: an entry of the cache that a delete
has missed stays (`reconcile_ghost`). `RestockSpec` bounds what can get there: the
writes of clients, once each and after the primary was tried, and what a
reconciliation found in the primary while its list went on, each find once, and
no more of a list that is being copied once another begins. It does not say that a list is of one
moment, which it is not. It needs the mutex of `SafeReconcile`, and
that neither goroutines nor lists outlive the process.

### Bounds

Two or three objects: the components treat objects independently, except for the
counts of incremental mode, which two objects exercise (one missing, one too
many). `MaxWrites` of the dual store gives a write, another that overtakes it,
and, where it is 3, a third that finds the result; `MaxRv` (2 to 4 versions) gives an
object created, changed, deleted and created again. Two requests in
`provisioning` are enough for a promise and what comes between it and the cache:
a second write of the name, a shutdown, a restart. One of each failure
(`MaxFlaps`, `MaxLosses`, `MaxOutages`, `MaxExpiries`, `MaxExits`, `MaxErrors`,
`MaxStops`): each failure is repaired, or not, by steps that do not count failures,
so a second adds nothing new. `MaxLosses` is 0 in `reconcile_full`, where the
membership listener would be one more caller of `SafeReconcile`, and 1 in
`reconcile_incremental`. `listing` has two versions of two objects and four writes,
so that an object may go and come back during one call; a label that one version
lacks; limits 0 and 1. `process` has one resource and two of the five
goroutines that set gauges: a race takes two, here the one that may give up and one
that counts what it is told of (the handlers, by `GetOrCreate`).
`Resync` waits until the handlers are idle. No
constraint cuts the state space; deadlock is checked in every run.

### Fairness

Goroutines that can run do run (Go's scheduler), and calls of a store return
(client timeouts, `invocationTimeout`), hence weak fairness of the manager's
steps, of `Deliver`, of every step of `SafeReconcile`, of the handlers and of the
hooks. The ticker ticks. The Hazelcast client reconnects for as long as it takes
(`ReconnectModeOn`), and `LinkUp` is fair: a cluster that never comes back is
outside the promise. The Kubernetes API need not come back: `Recover` is not
fair, and the watcher's liveness properties say `<>[]reachable` or
`<>[](~ reachable)`. The process is restarted when it ends (it runs in a pod).
In `listing` calls of the store return and the metrics goroutine wakes up. In
`process` goroutines run and calls return, nothing sends signals, and nothing
starts a process again. `RegistryFairness` assumes more than that calls return: of
the counts, or lists, of each goroutine one succeeds in the end. As long as they
fail the loop sleeps and makes no gauge (mongo.go:77-84), and `GaugesAppear` would
be asking for what nobody can know. Nothing is assumed of the handlers, which may
never be told of anything.
Nothing is assumed about clients, resources, signals or failures.

### External behaviour

The Hazelcast client hands lifecycle events to the listener one after the
other, in order. Informers list, then follow the watch in order, compare a
second list with what they know, call the handlers from one goroutine. A list
returns the current state of the API; a list from a stale watch cache is not
modelled. A MongoDB cursor visits each document that stays, once and as it is then;
it may or may not meet one that is filed while it is open, also one that it has
visited before and that was deleted in between. A Hazelcast key set is taken key
by key, and a call of Hazelcast or MongoDB that fails may have been carried out. `slices.SortFunc` is not stable but
sorts up to 12 elements by insertion, which is; one resource has fewer hooks
than that. `signal.Notify` keeps a signal from ending the process. These
definitions are marked external in `PROJECT.json`.

## Proofs

All for any sets of objects, any versions and any bounds.

`DualStoreManagerProofs`: `TypeCorrect`; `Refinement`, every step of the manager
is a step of `MirroredStore` or a stutter, given that tickets carry distinct
numbers (`Numbered`); `Obedience`, `LegsObey` under `StableIdentity`. The inductive
invariant of the last adds that documents are filed under the key of their
object (`WellFiled`), and that a trusted object has at most one write in flight,
which the store has obeyed, or not, depending on its stage. `StableIdentity` (an
identity belongs to one name for good) holds for a configured `mongoId` and fails
for UIDs once an object is created again.

`ReconciliationProofs`: `TypeCorrect`; `MutualExclusion`, from "whoever is inside
holds the mutex"; `NoRegress`, from the invariant that what the holder has still to
write is at least as new as everything reconciled before it, and nothing is
newer than the source, also where the list goes on while the source changes;
`FlagCorrect`, from an invariant about the order in which
the remaining events will set and clear the flag; `Implements`, the refinement of
`CacheMirror`, from one lemma that says when nothing takes off but what the source
holds (`TakesOff`) and one per kind of step.

`WatcherProofs`: `TypeCorrect`; `FollowsInformer`, `StoreFollowsInformer` under
`KeyedByName` (the store is not MongoDB, whose key is not the name); `GaugeCorrect`,
`GaugeCounts` for any labels, a panic of the gauge included. Neither
is inductive: nothing a handler is told is compared with what the store holds.
The invariant that carries them follows a change on its way from the API
through `wire`, `known` and `notes`: for each name, each element begins where the
one before it ends (`Line`), so that the notifications not handled yet lead from
what the handlers were told last (`Told`) to what the informer knows (`Waiting`).
Then the store is filed under the names (`Filed`), follows `Told` (`Follows`), and
the gauge counts it (`Counted`).

`ProvisioningProofs`: `TypeCorrect`; `Acknowledged`, `AcknowledgedReadable` under
`MongoIdIsName` (`mongoId` is configured to be the name, and writes go to the
dataset that reads look into), the two conditions without which the code does not
keep it (`provisioning_identity`, and `WrittenSet` above). The proof reuses the
manager through its instance: `SameData` says that the instance and this module
mean the same stores, `OutcomeShape` and `PrimaryLookup` what one call of the
primary store can do to what a GET finds. A promise alone is not inductive, as
it is made from a call that has returned earlier. The invariant adds that write
tickets carry distinct numbers (`NumberedOnce`); that every write the primary
store may still see has a client waiting for it (`WaitingPending`); that a request
that is alone is the only one for its name (`AloneIsAlone`); that nothing is promised of
a name while a request for it waits (`PendingUnsettled`); and that where such a
request's call has worked, and nobody came beside it, a GET finds what it wrote
before its client is told so (`WrittenReadable`). Goroutines of the secondary
store, reconciliations, hooks, panics and the end of the process leave what GETs
read alone, which is one step of the proof each. `Restocks` is the refinement of
`RestockedStore`, without a condition: every step of `Provisioning` is a step of
it or a stutter, given that tickets carry distinct numbers (`TicketsNumbered`): what the
cursor finds is loaded (`FetchRestocks`), whatever has been written since the list
began, and a list that ends departs or is given up (`ListRestocks`).

`ListingProofs`: `TypeCorrect`; `Sound`, `ListSound`; `Complete`, `ListComplete`; all
without a condition, whatever selectors mean (`Field` and `Mentions` are any
functions). `Sound` needs that the history of the call covers the store of the
moment (`HistoryCurrent`) and that objects are filed under their own keys
(`WellFiled`), so that a key visited once gives an object listed once (`TakenOnce`).
`Complete` needs to know where a steady object is at each moment of the call:
still ahead, among the keys of the first pass, or in the list (`Accounted`).

`ProcessProofs`: `TypeCorrect`; `AllHooksRun`, `HooksRun`, from an invariant that says where the hooks due to
a goroutine are: in the slice, then in its agenda or already shut (`DueKept`), while
whoever is inside an access of the slice sees the slice as it is
(`AccessCurrent`); `ShutInOrder`, `StoresAfterInformers`. The last does not follow
from the priorities alone: it needs the plan of the watcher (`Plan`), by which only
the main goroutine waits for the signal, at its end and after it has registered
the stores' hook (`MainAlone`, `StoreRegistered`), whereas others can still register
the server's hook, which comes last; then what is shut and what is left on the
agenda are in order (`RunInOrder`).

Only model-checked are:

- `GaugesScraped`: where no accesses meet it is sequential get-or-create, which a
  proof for any number of goroutines would add nothing to;
- the liveness properties (`WritesReplicate`, `LockReleased`, `EverythingRestored`,
  `NothingMissing`, `CatchesUp`, `CacheConverges`, `StopsWhenTold`, `GaugeComesTrue`,
  `GaugesAppear`): they rest on fairness and `ENABLED`, which the prover does not
  handle;
- that `Sorted` has exactly one element for every sequence, which needs
  induction over the sequence: the proofs use only that its elements are sorted
  rearrangements, and `StopsWhenTold` shows that there always is one.

All other invariants, the refinements and the action property of the passing runs are
theorems.

## Not modelled

Configuration (`config/`) is read and validated once, before anything runs, and is
constant afterwards: its values are CONSTANTS. Serialisation, the creation of
indexes and clients, logging, JWT checks and the answering of scrapes are I/O
without a bearing on the state. `init` writes a file and ends. The counters of
`metrics.go` are get-or-create as well, on a map of their own. Redis has no reads
and no reconciliation in the code; its writes are in `Backends`. Tests and test
helpers (`test/`) are not modelled.

## Plan

Done, in this order: `Backends`, `DualStoreManager` with `MirroredStore`,
`Reconciliation` with `CacheMirror`, `Watcher`, `Provisioning`, `Listing`,
`MetricsRegistry` with `Process`, and the theorems above, at least one for each of
these components. Left:

- `Quasar`: the watcher with the manager and reconciliation together, where an
  entry that a delete has missed can come back from three sides.
