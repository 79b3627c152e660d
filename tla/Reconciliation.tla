--------------------------- MODULE Reconciliation ---------------------------
(***************************************************************************)
(* internal/reconciliation and the connection handling of                  *)
(* internal/store/hazelcast.go, for one kind of resource and its Hazelcast *)
(* map: the data source that is reconciled from, the changes that travel   *)
(* from it to the map at the same time, the connection with its flag and   *)
(* its lifecycle events, and the four callers of SafeReconcile.            *)
(*                                                                         *)
(* A version is the resourceVersion of the object's last change, one       *)
(* counter for all objects; 0 means that the object is not there.          *)
(*                                                                         *)
(* "restored" is a history variable: the version that a reconciliation     *)
(* last wrote for each name.  The counters bound what the environment does.*)
(***************************************************************************)
EXTENDS Naturals, FiniteSets, Sequences

CONSTANTS
    Names,          \* objects of this kind
    Mode,           \* "watcher" or "provisioning"
    ReconcileMode,  \* "full" or "incremental"
    Deletable,      \* objects that may be deleted
    MaxRv,          \* bound on the changes of the source
    MaxFlaps,       \* bound on the losses of the connection
    MaxLosses,      \* bound on the cluster members removed
    MaxErrors       \* bound on the calls that fail while connected

ASSUME ReconciliationAssumption ==
    /\ IsFiniteSet(Names)
    /\ Mode \in {"watcher", "provisioning"}
    /\ ReconcileMode \in {"full", "incremental"}
    /\ Deletable \subseteq Names
    /\ MaxRv \in Nat \ {0}
    /\ {MaxFlaps, MaxLosses, MaxErrors} \subseteq Nat

VARIABLES
    source, rv,     \* versions in the data source; the last one given out
    feed,           \* changes on their way to the map
    cache,          \* the Hazelcast map
    link,           \* the cluster can be reached
    connected,      \* HazelcastStore.connected
    events,         \* lifecycle events not handled yet, oldest first
    boot,           \* progress of Initialize and InitializeResource
    pc, todo,       \* each caller of SafeReconcile: where, and left to write
    mu,             \* Reconciliation.mu: its holder or Nobody
    restored,
    flaps, losses, errors

sourceVars == <<source, rv>>
linkVars   == <<link, connected, events, boot, flaps>>
runVars    == <<pc, todo, mu>>
vars == <<source, rv, feed, cache, link, connected, events, boot, pc, todo,
          mu, restored, flaps, losses, errors>>

\* The periodic goroutine, onConnected, the membership listener and the
\* first filling in InitializeResource.
Agents == {"tick", "reconnect", "member", "initial"}
Nobody == "nobody"

Versions == 0..MaxRv
Places   == {"idle", "try", "list", "fetch", "count", "keys", "write"}
Inside(a) == pc[a] \in {"list", "fetch", "count", "keys", "write"}

Phases     == {"dialing", "dialed", "flagged", "listening", "stored",
               "filling", "running"}
Listening  == boot \in {"listening", "stored", "filling", "running"}
Registered == boot \in {"stored", "filling", "running"}
Running    == boot = "running"

Events == {"connected", "disconnected"}

Present(f) == {n \in Names : f[n] # 0}
Nothing    == [n \in Names |-> 0]

\* An add or update event is known by the version it brings.
Changes == [rv : 1..MaxRv, name : Names, gone : BOOLEAN]

TypeOK ==
    /\ source \in [Names -> Versions]
    /\ rv \in Versions
    /\ feed \subseteq Changes
    /\ cache \in [Names -> Versions]
    /\ link \in BOOLEAN
    /\ connected \in BOOLEAN
    /\ events \in Seq(Events)
    /\ boot \in Phases
    /\ pc \in [Agents -> Places]
    /\ todo \in [Agents -> [Names -> Versions]]
    /\ mu \in Agents \cup {Nobody}
    /\ restored \in [Names -> Versions]
    /\ flaps \in Nat /\ losses \in Nat /\ errors \in Nat

\* Quasar starts over a source and a map that an earlier process filled, and
\* that it may have left out of step.
Init ==
    /\ rv = 1
    /\ source \in [Names -> {0, 1}]
    /\ cache \in [Names -> {0, 1}]
    /\ \A n \in Names \ Deletable : source[n] = 0 => cache[n] = 0
    /\ feed = {}
    /\ link = TRUE /\ connected = FALSE /\ events = <<>>
    /\ boot = "dialing"
    /\ pc = [a \in Agents |-> "idle"]
    /\ todo = [a \in Agents |-> Nothing]
    /\ mu = Nobody
    /\ restored = Nothing
    /\ flaps = 0 /\ losses = 0 /\ errors = 0

\* A call that needs the cluster fails without it, and may fail with it.
Fails == \/ ~ link /\ UNCHANGED errors
         \/ link /\ errors < MaxErrors /\ errors' = errors + 1
Succeeds == link /\ UNCHANGED errors

\* One that fails may have been carried out all the same.
CarriedOut == link /\ (Succeeds \/ Fails)

(***************************************************************************)
(* The data source and the changes that the informers, or the goroutines   *)
(* of the store manager, carry to the map.  The API accepts changes once   *)
(* everything has been set up; custom resources change at any time, and    *)
(* the informer starts with what is there when it is started.              *)
(***************************************************************************)
SourceChange(n, gone) ==
    /\ rv < MaxRv
    /\ Mode = "provisioning" => Running
    /\ rv' = rv + 1
    /\ source' = [source EXCEPT ![n] = IF gone THEN 0 ELSE rv + 1]
    /\ feed' = IF Running
               THEN feed \cup {[rv |-> rv + 1, name |-> n, gone |-> gone]}
               ELSE feed
    /\ UNCHANGED <<cache, linkVars, runVars, restored, losses, errors>>

Put(n) == SourceChange(n, FALSE)
Remove(n) == n \in Deletable /\ source[n] # 0 /\ SourceChange(n, TRUE)

\* With Hazelcast as the primary store of the watcher, the informer's one
\* handler goroutine writes; with Hazelcast as the secondary store of the
\* API each change has a goroutine of its own.
Deliverable(e) ==
    Mode = "watcher" => \A f \in feed : f.name = e.name => e.rv <= f.rv

\* Defect: a delete leaves an entry of a version that no object ever had.
TombstoneDeliver(e) ==
    /\ Deliverable(e)
    /\ feed' = feed \ {e}
    /\ \/ Succeeds /\ cache' = [cache EXCEPT ![e.name] = IF e.gone THEN MaxRv + 1 ELSE e.rv]
       \/ Fails /\ UNCHANGED cache
    /\ UNCHANGED <<sourceVars, linkVars, runVars, restored, losses>>

Deliver(e) ==
    /\ Deliverable(e)
    /\ feed' = feed \ {e}
    /\ \/ CarriedOut /\ cache' = [cache EXCEPT ![e.name] = IF e.gone THEN 0 ELSE e.rv]
       \/ Fails /\ UNCHANGED cache
    /\ UNCHANGED <<sourceVars, linkVars, runVars, restored, losses>>

(***************************************************************************)
(* HazelcastStore.Initialize and InitializeResource, a step between any    *)
(* two writes that others can see.                                         *)
(***************************************************************************)
BootFrame == UNCHANGED <<sourceVars, cache, link, events, todo, mu, restored,
                         flaps, losses, errors>>

Dial ==
    /\ boot = "dialing" /\ link
    /\ boot' = "dialed"
    /\ UNCHANGED <<feed, connected, pc>> /\ BootFrame

SetConnected ==
    /\ boot = "dialed"
    /\ boot' = "flagged" /\ connected' = TRUE
    /\ UNCHANGED <<feed, pc>> /\ BootFrame

AddLifecycleListener ==
    /\ boot = "flagged"
    /\ boot' = "listening"
    /\ UNCHANGED <<feed, connected, pc>> /\ BootFrame

\* GetMap or AddIndex fails: log.Panic ends the process, the next one begins.
InitializePanics ==
    /\ boot = "listening" /\ Fails
    /\ boot' = "dialing" /\ connected' = FALSE /\ events' = <<>>
    /\ UNCHANGED <<sourceVars, feed, cache, link, runVars, restored, flaps, losses>>

StoreReconciliation ==
    /\ boot = "listening"
    /\ boot' = "stored"
    /\ UNCHANGED <<feed, connected, pc>> /\ BootFrame

InitialReconcile ==
    /\ boot = "stored" /\ pc["initial"] = "idle"
    /\ boot' = "filling"
    /\ pc' = IF Mode = "provisioning" /\ connected
             THEN [pc EXCEPT !["initial"] = "try"] ELSE pc
    /\ UNCHANGED <<feed, connected>> /\ BootFrame

Run ==
    /\ boot = "filling" /\ pc["initial"] = "idle"
    /\ boot' = "running"
    /\ feed' = IF Mode = "watcher"
               THEN {[rv |-> source[n], name |-> n, gone |-> FALSE] : n \in Present(source)}
               ELSE feed
    /\ UNCHANGED <<connected, pc>> /\ BootFrame

(***************************************************************************)
(* The connection.  The client notices a change and queues an event for    *)
(* the listener; it hands the listener one event after the other.          *)
(***************************************************************************)
Notify(event) == events' = IF Listening THEN Append(events, event) ELSE events

LinkDown ==
    /\ link /\ flaps < MaxFlaps
    /\ link' = FALSE /\ flaps' = flaps + 1
    /\ Notify("disconnected")
    /\ UNCHANGED <<sourceVars, feed, cache, connected, boot, runVars, restored,
                   losses, errors>>

LinkUp ==
    /\ ~ link
    /\ link' = TRUE
    /\ Notify("connected")
    /\ UNCHANGED <<sourceVars, feed, cache, connected, boot, runVars, restored,
                   flaps, losses, errors>>

ListenerFrame == UNCHANGED <<sourceVars, feed, cache, link, boot, todo, mu,
                             restored, flaps, losses, errors>>

OnDisconnected ==
    /\ events # <<>> /\ Head(events) = "disconnected"
    /\ pc["reconnect"] = "idle"
    /\ events' = Tail(events)
    /\ connected' = FALSE
    /\ UNCHANGED pc /\ ListenerFrame

\* Defect: the flag is set only when there is something to reconcile.
FlagsOnlyRegistered ==
    /\ events # <<>> /\ Head(events) = "connected"
    /\ pc["reconnect"] = "idle"
    /\ events' = Tail(events)
    /\ connected' = (connected \/ Registered)
    /\ pc' = IF ~ connected /\ Registered
             THEN [pc EXCEPT !["reconnect"] = "try"] ELSE pc
    /\ ListenerFrame

OnConnected ==
    /\ events # <<>> /\ Head(events) = "connected"
    /\ pc["reconnect"] = "idle"
    /\ events' = Tail(events)
    /\ connected' = TRUE
    /\ pc' = IF ~ connected /\ Registered
             THEN [pc EXCEPT !["reconnect"] = "try"] ELSE pc
    /\ ListenerFrame

\* A member leaves with what only it held.  The client hears of it when it
\* is connected, and tells the listener.
LoseMember(lost) ==
    /\ losses < MaxLosses /\ pc["member"] = "idle"
    /\ losses' = losses + 1
    /\ cache' = [n \in Names |-> IF n \in lost THEN 0 ELSE cache[n]]
    /\ pc' = IF link /\ Running THEN [pc EXCEPT !["member"] = "try"] ELSE pc
    /\ UNCHANGED <<sourceVars, feed, linkVars, todo, mu, restored, errors>>

(***************************************************************************)
(* SafeReconcile.  Leaving it, by return, by an early return or by a panic *)
(* that it recovers from, releases the mutex.                              *)
(***************************************************************************)
Tick ==
    /\ Running /\ pc["tick"] = "idle" /\ connected
    /\ pc' = [pc EXCEPT !["tick"] = "try"]
    /\ UNCHANGED <<sourceVars, feed, cache, linkVars, todo, mu, restored, losses, errors>>

RunFrame == UNCHANGED <<sourceVars, feed, linkVars, losses>>

GoTo(a, place) == pc' = [pc EXCEPT ![a] = place] /\ UNCHANGED mu
Leave(a) ==
    /\ pc' = [pc EXCEPT ![a] = "idle"]
    /\ todo' = [todo EXCEPT ![a] = Nothing]
    /\ mu' = Nobody

\* Defect: SafeReconcile without the mutex.
NoLock(a) ==
    /\ pc[a] = "try"
    /\ mu' = a /\ pc' = [pc EXCEPT ![a] = "list"]
    /\ UNCHANGED <<cache, todo, restored, errors>> /\ RunFrame

TryLock(a) ==
    /\ pc[a] = "try"
    /\ IF mu = Nobody
       THEN mu' = a /\ pc' = [pc EXCEPT ![a] = "list"]
       ELSE mu' = mu /\ pc' = [pc EXCEPT ![a] = "idle"]
    /\ UNCHANGED <<cache, todo, restored, errors>> /\ RunFrame

\* Defects: the mutex held for the list only; full mode with the diff of
\* incremental mode.
UnlocksAfterList(a) ==
    /\ pc[a] = "list"
    /\ todo' = [todo EXCEPT ![a] = source]
    /\ pc' = [pc EXCEPT ![a] = "write"] /\ mu' = Nobody
    /\ UNCHANGED <<cache, restored, errors>> /\ RunFrame

ListsMissingOnly(a) ==
    /\ pc[a] = "list"
    /\ todo' = [todo EXCEPT ![a] = [n \in Names |-> IF cache[n] # 0 THEN 0 ELSE source[n]]]
    /\ GoTo(a, "write")
    /\ UNCHANGED <<cache, restored, errors>> /\ RunFrame

\* Defect: the data source answers with the list it gave before.
ListsCached(a) ==
    /\ pc[a] = "list"
    /\ todo' = [todo EXCEPT ![a] = [n \in Names |->
                   IF restored[n] # 0 THEN restored[n] ELSE source[n]]]
    /\ GoTo(a, IF ReconcileMode = "full" THEN "write" ELSE "count")
    /\ UNCHANGED <<cache, restored, errors>> /\ RunFrame

AfterList == IF ReconcileMode = "full" THEN "write" ELSE "count"

\* The source does not depend on the cluster, but can fail like it.
ListFails(a) ==
    /\ errors < MaxErrors /\ errors' = errors + 1
    /\ Leave(a)

\* A list of Kubernetes is of one moment.  One of MongoDB begins with what is
\* there, and goes on while it changes.
ListResources(a) ==
    /\ pc[a] = "list"
    /\ \/ /\ todo' = [todo EXCEPT ![a] = source]
          /\ GoTo(a, IF Mode = "watcher" THEN AfterList ELSE "fetch")
          /\ UNCHANGED errors
       \/ ListFails(a)
    /\ UNCHANGED <<cache, restored>> /\ RunFrame

\* The cursor comes to an object that has changed since, finds one that is
\* new, or does not find one that is gone.
Fetch(a, n) ==
    /\ pc[a] = "fetch" /\ todo[a][n] # source[n]
    /\ todo' = [todo EXCEPT ![a][n] = source[n]]
    /\ UNCHANGED <<cache, restored, pc, mu, errors>> /\ RunFrame

EndList(a) ==
    /\ pc[a] = "fetch"
    /\ \/ GoTo(a, AfterList) /\ UNCHANGED <<todo, errors>>
       \/ ListFails(a)
    /\ UNCHANGED <<cache, restored>> /\ RunFrame

\* Defect: only an empty store is refilled.
StoreIsEmpty(a) == Present(cache) = {}

StoreIsSmaller(a) == Cardinality(Present(cache)) < Cardinality(Present(todo[a]))

Count(a) ==
    /\ pc[a] = "count"
    /\ \/ Succeeds /\ StoreIsSmaller(a) /\ GoTo(a, "keys") /\ UNCHANGED todo
       \/ Succeeds /\ ~ StoreIsSmaller(a) /\ Leave(a)
       \/ Fails /\ Leave(a)
    /\ UNCHANGED <<cache, restored>> /\ RunFrame

\* Without keys, generateDiff finds everything missing.
Keys(a) ==
    /\ pc[a] = "keys"
    /\ \/ Succeeds /\ todo' = [todo EXCEPT ![a] =
                        [n \in Names |-> IF cache[n] # 0 THEN 0 ELSE @[n]]]
       \/ Fails /\ UNCHANGED todo
    /\ GoTo(a, "write")
    /\ UNCHANGED <<cache, restored>> /\ RunFrame

Create(a, n) ==
    /\ pc[a] = "write" /\ todo[a][n] # 0
    /\ todo' = [todo EXCEPT ![a][n] = 0]
    /\ \/ /\ CarriedOut
          /\ cache' = [cache EXCEPT ![n] = todo[a][n]]
          /\ restored' = [restored EXCEPT ![n] = todo[a][n]]
       \/ Fails /\ UNCHANGED <<cache, restored>>
    /\ UNCHANGED <<pc, mu>> /\ RunFrame

\* Defect: the mutex is unlocked after reconcile, not deferred.
PanicKeepsLock(a) ==
    /\ pc[a] = "write" /\ todo[a] # Nothing
    /\ errors < MaxErrors /\ errors' = errors + 1
    /\ pc' = [pc EXCEPT ![a] = "idle"]
    /\ todo' = [todo EXCEPT ![a] = Nothing]
    /\ UNCHANGED <<cache, restored, mu>> /\ RunFrame

\* getMap of hazelcast.go panics when the client has no map to give.
Panic(a) ==
    /\ pc[a] = "write" /\ todo[a] # Nothing
    /\ errors < MaxErrors /\ errors' = errors + 1
    /\ Leave(a)
    /\ UNCHANGED <<cache, restored>> /\ RunFrame

Finish(a) ==
    /\ pc[a] = "write" /\ todo[a] = Nothing
    /\ Leave(a)
    /\ UNCHANGED <<cache, restored, errors>> /\ RunFrame

Reconcile(a) ==
    \/ TryLock(a)
    \/ ListResources(a)
    \/ \E n \in Names : Fetch(a, n)
    \/ EndList(a)
    \/ Count(a)
    \/ Keys(a)
    \/ \E n \in Names : Create(a, n)
    \/ Panic(a)
    \/ Finish(a)

Boot == Dial \/ SetConnected \/ AddLifecycleListener \/ InitializePanics
        \/ StoreReconciliation \/ InitialReconcile \/ Run
Listener == OnDisconnected \/ OnConnected

Next ==
    \/ \E n \in Names : Put(n) \/ Remove(n)
    \/ \E e \in feed : Deliver(e)
    \/ Boot
    \/ LinkDown
    \/ LinkUp
    \/ Listener
    \/ \E lost \in SUBSET Names : LoseMember(lost)
    \/ Tick
    \/ \E a \in Agents : Reconcile(a)

\* Every goroutine that can run does; calls return; the ticker ticks; the
\* cluster does not stay unreachable for ever.
Fairness ==
    /\ WF_vars(\E e \in feed : Deliver(e))
    /\ WF_vars(Boot)
    /\ WF_vars(LinkUp)
    /\ WF_vars(Listener)
    /\ WF_vars(Tick)
    /\ \A a \in Agents : WF_vars(Reconcile(a))

Spec == Init /\ [][Next]_vars
FairSpec == Spec /\ Fairness

(***************************************************************************)
(* Correctness.                                                            *)
(***************************************************************************)

\* At most one of the periodic goroutine, the lifecycle listener, the
\* membership listener and the first filling is inside reconcile, although
\* the TryLock of SafeReconcile is all that keeps them apart.
OneReconcileAtATime ==
    \A a, b \in Agents : Inside(a) /\ Inside(b) => a = b

\* Reconciliations never undo each other: none writes an older version of an
\* object than an earlier one wrote, since each lists the source only after
\* the one before it has written everything.  Needs the list of reconcile to
\* be taken under the mutex.
ReconcileNeverRegresses ==
    [][\A n \in Names : restored'[n] >= restored[n]]_vars

\* Once the lifecycle events are handled, a connection that is there is
\* flagged as there: Quasar does not stop reconciling for good because it
\* missed an event while Initialize was registering the listener.
NeverStuckDisconnected ==
    link /\ Listening /\ events = <<>> => connected

\* The mutex is not lost: not by an early return of reconcile and not by a
\* panic in the store, which SafeReconcile recovers from.
LockReleased == \A a \in Agents : mu = a ~> mu # a

\* In full mode the map ends up with every object of the source in its last
\* version, whatever was lost, skipped, reordered or overwritten before.
EverythingRestored ==
    <>[](\A n \in Names : source[n] # 0 => cache[n] = source[n])

\* In incremental mode no object of the source stays missing in the map.
NothingMissing ==
    <>[](\A n \in Names : source[n] # 0 => cache[n] # 0)

\* The map is synchronised with the source: an object that is gone from the
\* source ends up gone from the map.
DeletedDisappear ==
    <>[](\A n \in Names : source[n] = 0 => cache[n] = 0)

\* On their way to the map: the changes that travel, and what the callers
\* of SafeReconcile listed and have not written.
Brought(e) == IF e.gone THEN 0 ELSE e.rv
Flying == [n \in Names |->
    {Brought(e) : e \in {f \in feed : f.name = n}}
        \cup ({todo[a][n] : a \in Agents} \ {0})]

\* Reconciliation implements CacheMirror: whatever callers, changes, losses
\* and failures come together, the map only ever gets a version that was the
\* source's own when it set off, and a version that was written, skipped or
\* dropped by all who carried it does not come back.
Mirror == INSTANCE CacheMirror WITH flying <- Flying
MirrorSpec == Mirror!Spec
=============================================================================
