------------------------------ MODULE Watcher ------------------------------
(***************************************************************************)
(* internal/k8s/watcher.go and internal/fallback, for one kind of custom   *)
(* resource: the Kubernetes API, the informer (client-go, modelled from    *)
(* how it calls the handlers), the add, update and delete handlers, which  *)
(* write to the primary store of WatcherStore and count in a gauge, the    *)
(* watch-error handler, and the process that ends and is started again.    *)
(*                                                                         *)
(* "wire[n]" holds the states of n that the API server has still to send,  *)
(* "notes[n]" the notifications that the one handler goroutine has still   *)
(* to work off, both oldest first.  The queues of different objects are    *)
(* kept apart, so every order of the code, and more, is covered.           *)
(*                                                                         *)
(* An object's id is its UID, here the version it was created at.          *)
(*                                                                         *)
(* "trusted" and "clean" are history variables: the names whose documents  *)
(* must match what the handlers were told, and that nothing in the life of *)
(* this process has disturbed the gauge: no call failed, no delete was     *)
(* ignored, no update changed a label.                                     *)
(***************************************************************************)
EXTENDS Backends, Integers, Sequences, FiniteSets

CONSTANTS
    PrimaryType,    \* watcher.store.primary.type
    Labels,         \* values of the gauge's dynamic label
    LabelOf,        \* the label of each object in each version, if there is one
    Initially,      \* objects that exist at first
    MaxRv,          \* bound on the changes of the API
    MaxOutages,     \* bound on the outages of the API
    MaxExpiries,    \* bound on the watches that cannot be resumed
    MaxExits,       \* bound on the ends of the process not due to the API
    MaxErrors       \* bound on the store calls that fail

ASSUME WatcherAssumption ==
    /\ IsFiniteSet(Names)
    /\ Versions = 1..MaxRv /\ Ids = Versions
    /\ PrimaryType \in StoreTypes
    /\ Initially \subseteq Names
    /\ MaxRv \in Nat \ {0}
    /\ {MaxOutages, MaxExpiries, MaxExits, MaxErrors} \subseteq Nat

VARIABLES
    api, rv, reachable,         \* the Kubernetes API
    wire, phase, synced, known, \* the informer
    notes,                      \* notifications for the handlers
    store, gauge,
    trusted, clean,
    outages, expiries, exits, errors

apiVars      == <<api, rv, reachable, outages>>
informerVars == <<phase, synced, expiries, exits>>
vars == <<api, rv, reachable, wire, phase, synced, known, notes, store, gauge,
          trusted, clean, outages, expiries, exits, errors>>

States == Objects \cup {Absent}
Phases == {"down", "listing", "watching"}

\* What the informer tells the handlers: the three calls of
\* ResourceEventHandlerFuncs, and a delete it infers from a list, which it
\* wraps in a DeletedFinalStateUnknown.
Tombstones == [op : {"tombstone"}, old : Objects, new : {Absent}]
Notes      == Writes \cup Tombstones

Note(old, new, deleted) ==
    [op  |-> IF old = Absent THEN "create" ELSE IF new = Absent THEN deleted ELSE "update",
     old |-> old, new |-> new]

Present(f) == {n \in Names : f[n] # Absent}
Quiet      == [n \in Names |-> <<>>]

\* The label's path in the object may lead nowhere.
Label(o)    == LabelOf[o.name][o.version]
Labelled(o) == Label(o) \in Labels

\* The state of n that the handlers were last told of.
Told(n) == IF notes[n] = <<>> THEN known[n] ELSE Head(notes[n]).old

TypeOK ==
    /\ api \in [Names -> States]
    /\ rv \in Versions
    /\ reachable \in BOOLEAN
    /\ wire \in [Names -> Seq(States)]
    /\ phase \in Phases
    /\ synced \in BOOLEAN
    /\ known \in [Names -> States]
    /\ notes \in [Names -> Seq(Notes)]
    /\ store \in Contents(PrimaryType)
    /\ gauge \in [Labels -> Int]
    /\ trusted \subseteq Names
    /\ clean \in BOOLEAN
    /\ outages \in Nat /\ expiries \in Nat /\ exits \in Nat /\ errors \in Nat

Init ==
    /\ rv = 1
    /\ api = [n \in Names |-> IF n \in Initially
                              THEN [name |-> n, id |-> 1, version |-> 1] ELSE Absent]
    /\ reachable = TRUE
    /\ wire = Quiet /\ phase = "down" /\ synced = FALSE
    /\ known = [n \in Names |-> Absent]
    /\ notes = Quiet
    /\ store = EmptyStore(PrimaryType)
    /\ gauge = [l \in Labels |-> 0]
    /\ trusted = Names /\ clean = TRUE
    /\ outages = 0 /\ expiries = 0 /\ exits = 0 /\ errors = 0

(***************************************************************************)
(* The Kubernetes API.                                                     *)
(***************************************************************************)
Become(n, state) ==
    /\ rv < MaxRv
    /\ rv' = rv + 1
    /\ api' = [api EXCEPT ![n] = state]
    /\ wire' = IF phase = "watching" THEN [wire EXCEPT ![n] = Append(@, state)] ELSE wire
    /\ UNCHANGED <<reachable, outages, informerVars, known, notes, store, gauge,
                   trusted, clean, errors>>

Put(n) == Become(n, [name |-> n, version |-> rv + 1,
                     id |-> IF api[n] = Absent THEN rv + 1 ELSE api[n].id])
Remove(n) == api[n] # Absent /\ Become(n, Absent)

Outage ==
    /\ reachable /\ outages < MaxOutages
    /\ reachable' = FALSE /\ outages' = outages + 1
    /\ UNCHANGED <<api, rv, informerVars, wire, known, notes, store, gauge,
                   trusted, clean, errors>>

Recover ==
    /\ ~ reachable
    /\ reachable' = TRUE
    /\ UNCHANGED <<api, rv, outages, informerVars, wire, known, notes, store, gauge,
                   trusted, clean, errors>>

(***************************************************************************)
(* The informer: it lists, then follows the watch.  A watch that has       *)
(* expired is not an error: the reflector lists again, and the informer    *)
(* works out what changed in between.                                      *)
(***************************************************************************)
HandlerFrame == UNCHANGED <<apiVars, store, gauge, trusted, clean, errors>>

List ==
    /\ phase = "listing" /\ reachable
    /\ phase' = "watching" /\ synced' = TRUE
    /\ known' = api
    /\ notes' = [n \in Names |->
                    IF known[n] = Absent /\ api[n] = Absent THEN notes[n]
                    ELSE Append(notes[n], Note(known[n], api[n], "tombstone"))]
    /\ UNCHANGED <<wire, expiries, exits>> /\ HandlerFrame

Receive(n) ==
    /\ phase = "watching" /\ reachable /\ wire[n] # <<>>
    /\ wire' = [wire EXCEPT ![n] = Tail(@)]
    /\ known' = [known EXCEPT ![n] = Head(wire[n])]
    /\ notes' = [notes EXCEPT ![n] = Append(@, Note(known[n], Head(wire[n]), "delete"))]
    /\ UNCHANGED informerVars /\ HandlerFrame

Expire ==
    /\ phase = "watching" /\ expiries < MaxExpiries
    /\ phase' = "listing" /\ expiries' = expiries + 1
    /\ wire' = Quiet
    /\ UNCHANGED <<synced, exits, known, notes>> /\ HandlerFrame

\* Every reSyncPeriod the informer repeats what it knows.  Bounded: it waits
\* for the handlers.
Resync ==
    /\ phase = "watching" /\ notes = Quiet
    /\ notes' = [n \in Names |-> IF known[n] = Absent THEN <<>>
                                ELSE <<Note(known[n], known[n], "none")>>]
    /\ UNCHANGED <<informerVars, wire, known>> /\ HandlerFrame

(***************************************************************************)
(* The handlers.                                                           *)
(***************************************************************************)
Pop(n, op) ==
    /\ notes[n] # <<>> /\ Head(notes[n]).op = op
    /\ notes' = [notes EXCEPT ![n] = Tail(@)]
    /\ UNCHANGED <<apiVars, informerVars, wire, known>>

Stored(n) ==
    /\ store' = Apply(PrimaryType, store, Head(notes[n]))
    /\ trusted' = trusted \cup {n}
    /\ UNCHANGED errors

\* The handler returns; the request may have been applied all the same.
NotStored(n) ==
    /\ errors < MaxErrors /\ errors' = errors + 1
    /\ store' \in {store, Apply(PrimaryType, store, Head(notes[n]))}
    /\ trusted' = trusted \ {n}
    /\ clean' = FALSE
    /\ UNCHANGED gauge

Count(o, step) ==
    /\ Labelled(o)
    /\ gauge' = [gauge EXCEPT ![Label(o)] = @ + step]
    /\ UNCHANGED clean

Add(n) ==
    /\ Pop(n, "create")
    /\ \/ Stored(n) /\ Count(Head(notes[n]).new, 1)
       \/ NotStored(n)

\* Defect: UIDs compared where resource versions are.
UpdateByIdentity(n) ==
    /\ Pop(n, "update")
    /\ LET w == Head(notes[n]) IN
       IF w.old.id = w.new.id
       THEN UNCHANGED <<store, gauge, trusted, clean, errors>>
       ELSE Stored(n) /\ UNCHANGED <<gauge, clean>>

Update(n) ==
    /\ Pop(n, "update")
    /\ LET w == Head(notes[n]) IN
       \/ /\ w.old.version = w.new.version
          /\ UNCHANGED <<store, gauge, trusted, clean, errors>>
       \/ /\ w.old.version # w.new.version
          /\ \/ Stored(n) /\ UNCHANGED gauge /\ clean' = (clean /\ Label(w.old) = Label(w.new))
             \/ NotStored(n)

\* Defect: the gauge is left alone when an object goes.
DeleteUncounted(n) ==
    /\ Pop(n, "delete")
    /\ Stored(n) /\ UNCHANGED <<gauge, clean>>

Delete(n) ==
    /\ Pop(n, "delete")
    /\ \/ Stored(n) /\ Count(Head(notes[n]).old, -1)
       \/ NotStored(n)

\* Defect: the wrapper is stored as if it were the object, whose version it
\* does not have.
UnexpectedStored(n) ==
    /\ Pop(n, "tombstone")
    /\ store' = [store EXCEPT ![n] = [name |-> n, id |-> NoId, version |-> 0]]
    /\ UNCHANGED <<gauge, trusted, clean, errors>>

\* A DeletedFinalStateUnknown is no *unstructured.Unstructured: delete warns
\* of an "unexpected object" and leaves the store as it is.
Unexpected(n) ==
    /\ Pop(n, "tombstone")
    /\ trusted' = trusted \ {n}
    /\ clean' = FALSE
    /\ UNCHANGED <<store, gauge, errors>>

(***************************************************************************)
(* The process.  What it knew is gone when it ends; the store stays.       *)
(***************************************************************************)
Die ==
    /\ phase' = "down" /\ synced' = FALSE
    /\ wire' = Quiet
    /\ known' = [n \in Names |-> Absent]
    /\ notes' = Quiet
    /\ gauge' = [l \in Labels |-> 0]
    /\ trusted' = {n \in Names : Documents(store', n) = {}}
    /\ clean' = TRUE
    /\ UNCHANGED <<apiVars, expiries, errors>>

\* GetLabelsForResource leaves out a label that it cannot resolve, and With
\* panics on labels of the wrong number, after the call of the store.
CountPanics(n) ==
    /\ notes[n] # <<>>
    /\ LET w == Head(notes[n]) IN
       /\ \/ w.op = "create" /\ ~ Labelled(w.new)
          \/ w.op = "delete" /\ ~ Labelled(w.old)
       /\ store' = Apply(PrimaryType, store, w)
    /\ UNCHANGED exits /\ Die

Start ==
    /\ phase = "down"
    /\ phase' = "listing"
    /\ UNCHANGED <<synced, expiries, exits, wire, known, notes>> /\ HandlerFrame

\* The watch-error handler before the first list.  Initialize of the
\* fallback is never called, and would not set m.client, so getCollection
\* dereferences nil; before SetupFallback has run, and without a fallback,
\* CurrentFallback itself is nil.  Nothing recovers from the panic.
Replay ==
    /\ phase = "listing" /\ ~ reachable /\ ~ synced
    /\ UNCHANGED <<store, exits>> /\ Die

\* After the first list every error that reaches the handler is log.Fatal.
Fatal ==
    /\ phase \in {"listing", "watching"} /\ ~ reachable /\ synced
    /\ UNCHANGED <<store, exits>> /\ Die

\* A signal, a kill, a panic in a handler.
Exit ==
    /\ phase # "down" /\ exits < MaxExits
    /\ exits' = exits + 1
    /\ UNCHANGED store /\ Die

Handle(n) == Add(n) \/ Update(n) \/ Delete(n) \/ Unexpected(n)

Next ==
    \/ \E n \in Names : Put(n) \/ Remove(n)
    \/ Outage
    \/ Recover
    \/ List
    \/ \E n \in Names : Receive(n)
    \/ Expire
    \/ Resync
    \/ \E n \in Names : Handle(n)
    \/ \E n \in Names : CountPanics(n)
    \/ Start
    \/ Replay
    \/ Fatal
    \/ Exit

\* The process is started again whenever it ends; the reflector lists and
\* reads its watch; the handler goroutine works off what it is told; a list
\* that fails reaches the error handler.  Nothing makes the API come back.
Fairness ==
    /\ WF_vars(Start)
    /\ WF_vars(List)
    /\ WF_vars(\E n \in Names : Receive(n))
    /\ WF_vars(\E n \in Names : Handle(n) \/ CountPanics(n))
    /\ WF_vars(Replay)
    /\ WF_vars(phase = "listing" /\ Fatal)

Spec == Init /\ [][Next]_vars
FairSpec == Spec /\ Fairness

(***************************************************************************)
(* Correctness.                                                            *)
(***************************************************************************)

\* What an object was last reported as is what the store holds of it, and
\* nothing else, unless a call for it failed, a delete of it was ignored or
\* the process began with a document of it, and no call has succeeded since.
\* Needs every handler to write the state it is told of, in order; the early
\* return of update to skip only what is stored already; and the store to
\* file all states of an object under one key.
StoreFollowsInformer ==
    \A n \in trusted :
        Documents(store, n) = IF Told(n) = Absent THEN {} ELSE {Told(n)}

\* As long as no call failed, no delete was ignored and no update changed a
\* label, which update leaves in the gauge as it was, the gauge says of each
\* label how many of the objects that were reported carry it, also after an
\* object without the label has ended the process.
GaugeCounts ==
    clean => \A l \in Labels :
        gauge[l] = Cardinality({n \in Names : Told(n) # Absent /\ Label(Told(n)) = l})

\* If the API stays, no call of the store fails and the objects without the
\* label are relabelled or deleted in the end, the store ends up with every
\* object in its last version, through ends of the process, expired watches,
\* outages, and panics that come back with every start while there is such
\* an object.
CatchesUp ==
    /\ <>[]reachable /\ [](errors = 0)
    /\ <>[](\A n \in Names : api[n] # Absent => Labelled(api[n]))
    => <>[](\A n \in Names : api[n] # Absent => Documents(store, n) = {api[n]})

\* The store is synchronised with the custom resources: an object that is
\* deleted ends up deleted from the store.
DeletedDisappear ==
    <>[]reachable =>
        <>[](\A n \in Names : api[n] = Absent => Documents(store, n) = {})

\* "The database that should be used to restore the cache in case of a CR
\* unavailability": if the API goes away for good, the objects that exist,
\* and that an earlier process saved in the fallback database, get into the
\* store.
FallbackRestores ==
    <>[](~ reachable) =>
        <>(\A n \in Names : api[n] # Absent => Documents(store, n) # {})
=============================================================================
