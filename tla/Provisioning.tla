---------------------------- MODULE Provisioning ----------------------------
(***************************************************************************)
(* internal/provisioning for one kind of resource: the requests of the     *)
(* HTTP API, the dual store manager they write through (an instance of     *)
(* DualStoreManager), the reconciliation of the cache with the database,   *)
(* and the process that starts, is told to stop, dies and starts again.    *)
(* MongoDB is the primary and Hazelcast the secondary store, the defaults  *)
(* of the mode, and reconcileMode is "full".                               *)
(*                                                                         *)
(* "pending" holds one record for each write request that has not been     *)
(* answered, with the id of its ticket at the manager.  "todo" is what     *)
(* GracefulShutdown has still to do, and begins with a wait.               *)
(*                                                                         *)
(* A reconciliation lists first and copies then.  "ahead" is what the      *)
(* cursor of the list has still to visit, in any order and while writes go *)
(* on; "listed" is what it has found, then what is still to be copied.     *)
(*                                                                         *)
(* "promise" and "alone" are history: promise[n] is what the last request  *)
(* for n was told the API now holds, Unsettled if it was told nothing or   *)
(* an error, or if another write request for n overlapped with it.         *)
(***************************************************************************)
EXTENDS Backends, Sequences, FiniteSets

CONSTANTS
    PrimaryType, SecondaryType,
    Requests,       \* what clients may send
    WrittenSet,     \* GetGroupVersionId: the dataset that writes derive
    ConfiguredSet,  \* GetGroupVersionName: the dataset that reads name
    MaxWrites,      \* bound on the write requests
    MaxStops,       \* bound on the signals and kills
    MaxErrors,      \* bound on the failures of reconciliation
    Faults,         \* as for the manager
    Unsettled

ASSUME ProvisioningAssumption ==
    /\ PrimaryType = "mongo" /\ SecondaryType = "hazelcast"
    /\ Requests \subseteq [method : {"PUT", "DELETE"}, url : Names, body : Objects]
    /\ {MaxWrites, MaxStops, MaxErrors} \subseteq Nat
    /\ "crash" \in Faults
    /\ Unsettled \notin Objects \cup {Absent}

VARIABLES
    content, inflight, issued, wish, trusted,   \* of the manager
    pending, promise,
    phase, open, todo,
    reconciling, ahead, listed,
    stops, errors

managerVars == <<content, inflight, issued, wish, trusted>>
processVars == <<phase, open, todo>>
listVars    == <<reconciling, ahead, listed>>
vars == <<managerVars, pending, promise, processVars, listVars, stops, errors>>

\* What putResource and deleteResource ask of the manager.
Write(r) == IF r.method = "PUT"
            THEN [op |-> "create", old |-> Absent, new |-> r.body]
            ELSE [op |-> "delete", old |-> r.body, new |-> Absent]

\* Each request has a goroutine of its own, here with the number of the write.
M == INSTANCE DualStoreManager WITH
        Callers <- 1..MaxWrites, WriteSet <- {Write(r) : r \in Requests}

Phases   == {"down", "starting", "filling", "serving", "deaf", "draining"}
Handlers == [id : 1..MaxWrites, url : Names, alone : BOOLEAN, failed : BOOLEAN]
Untold   == <<"signal">>    \* GracefulShutdown waits
Hooks    == {"signal", "primary", "secondary", "service"}

TypeOK ==
    /\ M!TypeOK
    /\ pending \subseteq Handlers
    /\ promise \in [Names -> Objects \cup {Absent, Unsettled}]
    /\ phase \in Phases
    /\ open \subseteq M!Legs
    /\ todo \in Seq(Hooks)
    /\ reconciling \in {"no", "list", "copy"}
    /\ ahead \subseteq KeySpace(PrimaryType) /\ listed \in Seq(Objects)
    /\ stops \in 0..MaxStops /\ errors \in 0..MaxErrors

Init ==
    /\ M!Init
    /\ pending = {} /\ promise = [n \in Names |-> Absent]
    /\ phase = "down" /\ open = {} /\ todo = Untold
    /\ reconciling = "no" /\ ahead = {} /\ listed = <<>>
    /\ stops = 0 /\ errors = 0

(***************************************************************************)
(* Reads: the documents that getResource and the list of reconciliation    *)
(* look into, and what getResource finds under the name n.                 *)
(***************************************************************************)
Read == IF WrittenSet = ConfiguredSet THEN content["primary"] ELSE EmptyStore(PrimaryType)

Lookup(n) == IF n \in DOMAIN Read THEN Read[n] ELSE Absent

Filed == {k \in DOMAIN Read : Read[k] # Absent}

(***************************************************************************)
(* Requests.                                                               *)
(***************************************************************************)

\* Defect: the name in the URL is not compared with the name in the body.
ValidBody(r) == r.body \in Objects

\* validateResourceId.  What the other checks of the middleware and of
\* getGvrAndIdAndResourceFromContext refuse gets a 4xx and changes nothing.
Valid(r) == r.url = r.body.name

\* The middleware, the checks and the call of the manager.
Receive(r) ==
    /\ phase = "serving"
    /\ Valid(r)
    /\ M!Invoke(issued + 1, Write(r))
    /\ pending' = {[h EXCEPT !.alone = @ /\ h.url # r.url] : h \in pending} \cup
            {[id |-> issued + 1, url |-> r.url, failed |-> FALSE,
              alone |-> \A h \in pending : h.url # r.url]}
    /\ promise' = [promise EXCEPT ![r.url] = Unsettled]
    /\ UNCHANGED <<processVars, listVars, stops, errors>>

\* A MongoDB client that is disconnected refuses every call.
PrimaryOutcomes(w) ==
    IF "primary" \in open THEN M!Outcomes("primary", w)
    ELSE {[content |-> content["primary"], failed |-> TRUE]}

\* A cursor that is open may find a document that comes new to the
\* collection, or may have passed its place.
MeetCursor ==
    IF reconciling = "list" THEN ahead' \in {ahead, ahead \cup (Filed' \ Filed)}
                            ELSE UNCHANGED ahead

CallPrimary(t) ==
    /\ t.at = "primary"
    /\ \E o \in PrimaryOutcomes(t.write) :
            /\ M!Land("primary", t.write, o)
            /\ pending' = {[h EXCEPT !.failed = IF h.id = t.id THEN o.failed ELSE @] :
                                h \in pending}
    /\ M!Advance(t, "spawn")
    /\ MeetCursor
    /\ UNCHANGED <<issued, wish, promise, processVars, reconciling, listed, stops, errors>>

\* 200 or 204 if the primary store took the write, else 500.
Answer(t) ==
    /\ M!SpawnAndReturn(t)
    /\ \E h \in pending :
            /\ h.id = t.id
            /\ pending' = pending \ {h}
            /\ promise' = IF h.alone /\ ~ h.failed
                          THEN [promise EXCEPT ![h.url] = t.write.new] ELSE promise
    /\ UNCHANGED <<processVars, listVars, stops, errors>>

Replicate(t) ==
    /\ "secondary" \in open
    /\ M!CallSecondary(t)
    /\ UNCHANGED <<pending, promise, processVars, listVars, stops, errors>>

(***************************************************************************)
(* The process.                                                            *)
(***************************************************************************)
Die ==
    /\ phase' = "down" /\ open' = {} /\ todo' = Untold
    /\ pending' = {}
    /\ reconciling' = "no" /\ ahead' = {} /\ listed' = <<>>
    /\ IF inflight = {} THEN UNCHANGED managerVars ELSE M!Crash
    /\ UNCHANGED <<promise, errors>>

\* run starts Listen in a goroutine of its own, which connects to the stores
\* and registers their Shutdown; a signal before that is a Kill.
Start ==
    /\ phase = "down"
    /\ phase' = "starting" /\ open' = M!Legs
    /\ UNCHANGED <<managerVars, pending, promise, todo, listVars, stops, errors>>

\* InitializeResource cannot get the map of a client that is shut: log.Panic.
StartFails ==
    /\ phase = "starting" /\ "secondary" \notin open
    /\ Die /\ UNCHANGED stops

(***************************************************************************)
(* Reconciliation.                                                         *)
(***************************************************************************)
Fail == errors < MaxErrors /\ errors' = errors + 1

ReconcileFrame == UNCHANGED <<managerVars, pending, promise, open, todo, stops>>

\* Defect: no mutex, so that a list begins while another is being copied.
FindUnlocked ==
    /\ phase = "starting" => "secondary" \in open
    /\ phase' = IF phase = "starting" THEN "filling" ELSE phase
    /\ reconciling' = "list" /\ ahead' = Filed
    /\ UNCHANGED <<listed, errors>> /\ ReconcileFrame

\* SafeReconcile takes the mutex, and the data source asks MongoDB for
\* everything.
Find ==
    /\ reconciling = "no"
    /\ phase = "starting" => "secondary" \in open
    /\ phase' = IF phase = "starting" THEN "filling" ELSE phase
    /\ reconciling' = "list" /\ ahead' = Filed
    /\ UNCHANGED <<listed, errors>> /\ ReconcileFrame

\* Defect: the cache is filled at the start and never again.
ListOnce == phase = "starting" /\ Find

\* A reconciliation begins before the service listens, and at every tick.
List == phase # "down" /\ Find

\* Defect: what cannot be decoded is listed as well.
FetchAnything(k) ==
    /\ reconciling = "list" /\ k \in ahead /\ "primary" \in open
    /\ ahead' = ahead \ {k}
    /\ listed' = Append(listed, Read[k])
    /\ UNCHANGED <<phase, reconciling, errors>> /\ ReconcileFrame

\* The cursor comes to k.  A document that is gone is not found, one that
\* cannot be decoded is skipped.
Fetch(k) ==
    /\ reconciling = "list" /\ k \in ahead /\ "primary" \in open
    /\ ahead' = ahead \ {k}
    /\ \/ listed' = (IF k \in Filed THEN Append(listed, Read[k]) ELSE listed)
            /\ UNCHANGED errors
       \/ k \in Filed /\ Fail /\ UNCHANGED listed
    /\ UNCHANGED <<phase, reconciling>> /\ ReconcileFrame

EndList ==
    /\ reconciling = "list" /\ ahead = {}
    /\ reconciling' = "copy"
    /\ UNCHANGED <<phase, ahead, listed, errors>> /\ ReconcileFrame

\* Find or the cursor fails, surely if the client is disconnected: what was
\* found is dropped, and the reconciliation ends with nothing to copy.
ListFails ==
    /\ reconciling = "list"
    /\ IF "primary" \in open THEN Fail ELSE UNCHANGED errors
    /\ reconciling' = "copy" /\ ahead' = {} /\ listed' = <<>>
    /\ UNCHANGED phase /\ ReconcileFrame

\* fullyReconcile goes on after a Create that fails.  A Create on a client
\* that is shut panics, and SafeReconcile ends the reconciliation.
Copy ==
    /\ reconciling = "copy" /\ listed # <<>>
    /\ IF "secondary" \in open
       THEN /\ listed' = Tail(listed)
            /\ \/ /\ content' = [content EXCEPT !["secondary"] = Apply(SecondaryType, @,
                                    [op |-> "create", old |-> Absent, new |-> Head(listed)])]
                  /\ UNCHANGED errors
               \/ Fail /\ UNCHANGED content
       ELSE listed' = <<>> /\ UNCHANGED <<content, errors>>
    /\ UNCHANGED <<inflight, issued, wish, trusted, pending, promise, processVars,
                   reconciling, ahead, stops>>

\* After the first reconciliation the service listens, unless its port is
\* taken: then Listen calls GracefulShutdown, which waits for a signal.
Finish ==
    /\ reconciling = "copy" /\ listed = <<>>
    /\ reconciling' = "no"
    /\ \/ phase = "filling" /\ phase' \in {"serving", "deaf"}
       \/ phase # "filling" /\ UNCHANGED phase
    /\ UNCHANGED <<ahead, listed, errors>> /\ ReconcileFrame

(***************************************************************************)
(* The end of the process.                                                 *)
(***************************************************************************)
\* GracefulShutdown runs the hooks that are registered: the Shutdown of the
\* manager and, once the service is set up, a hook that calls it again and
\* then stops the service.  Where Listen waits as well, both run the hooks,
\* to the same effect.
Signal ==
    /\ phase # "down" /\ todo = Untold /\ stops < MaxStops
    /\ stops' = stops + 1
    /\ todo' = <<"primary", "secondary">> \o
               (IF phase \in {"serving", "deaf"}
                THEN <<"primary", "secondary", "service">> ELSE <<>>)
    /\ UNCHANGED <<managerVars, pending, promise, phase, open, listVars, errors>>

\* A second Shutdown of a client does nothing or returns an error.
RunHook ==
    /\ todo # <<>> /\ todo # Untold
    /\ todo' = Tail(todo)
    /\ open' = open \ {Head(todo)}
    /\ phase' = IF Head(todo) = "service" THEN "draining" ELSE phase
    /\ UNCHANGED <<managerVars, pending, promise, listVars, stops, errors>>

\* Defect: the process ends only after its service has.
ExitDrained ==
    /\ todo = <<>> /\ phase = "draining"
    /\ Die /\ UNCHANGED stops

\* ShutdownWithTimeout waits for requests, but not for ever, and nothing
\* waits for the goroutines of the manager.
Exit ==
    /\ todo = <<>>
    /\ Die /\ UNCHANGED stops

\* A goroutine of the manager asks a Hazelcast client that is shut for a map:
\* log.Panic, and nothing recovers.
Panic(t) ==
    /\ t.at = "secondary" /\ "secondary" \notin open
    /\ Die /\ UNCHANGED stops

Kill ==
    /\ phase # "down" /\ stops < MaxStops
    /\ stops' = stops + 1
    /\ Die

Handle(t)   == CallPrimary(t) \/ Answer(t) \/ Replicate(t) \/ Panic(t)
Reconcile   == List \/ (\E k \in ahead : Fetch(k)) \/ EndList \/ ListFails \/ Copy \/ Finish
Terminate   == RunHook \/ Exit \/ StartFails

Next ==
    \/ \E r \in Requests : Receive(r)
    \/ \E t \in inflight : Handle(t)
    \/ Reconcile
    \/ Start
    \/ Signal
    \/ Terminate
    \/ Kill

\* Goroutines run, calls of the stores return, tickers tick, hooks end, and
\* the process is started again whenever it has ended.
Fairness ==
    /\ WF_vars(\E t \in inflight : Handle(t))
    /\ WF_vars(Reconcile)
    /\ WF_vars(Start)
    /\ WF_vars(Terminate)

Spec == Init /\ [][Next]_vars
FairSpec == Spec /\ Fairness

(***************************************************************************)
(* Correctness.                                                            *)
(***************************************************************************)

\* mongoId is set to the name of the object, and reads look into the dataset
\* that writes derive.
MongoIdIsName ==
    /\ WrittenSet = ConfiguredSet
    /\ \A r \in Requests : r.body.id = r.body.name

\* What a PUT or DELETE was acknowledged for is what a GET of the same URL
\* finds, until another write request for that URL comes in: through errors,
\* answers that are lost, a shutdown and ends of the process.  Needs the
\* answer to be that of the primary store, which reads go to; the URL to
\* name the object of the body; and one key and one dataset for the object
\* in writes and reads.
AcknowledgedReadable ==
    \A n \in Names : promise[n] # Unsettled => Lookup(n) = promise[n]

\* Once clients stop writing, the cache ends up with what they were told the
\* API holds, although goroutines overtake each other and are lost when the
\* process ends, and calls of the cache fail.  Needs the reconciliation of
\* the cache with the database, at every tick and not only at the start.
CacheConverges ==
    <>[](\A n \in Names : promise[n] \in Objects =>
            Documents(content["secondary"], n) = {promise[n]})

\* A process that has been told to stop ends, wherever the signal finds it:
\* before the service listens, while it cannot, with requests and
\* reconciliations under way.
StopsWhenTold == todo # Untold ~> phase = "down"

\* What reaches the stores is what RestockedStore allows: the primary holds
\* nothing but what clients wrote, each write tried there first; and the
\* cache gets nothing but those writes, once each, and what the list of one
\* reconciliation at a time found in the primary while it went on, each find
\* once: through writes between the finds, failures, panics, shutdowns and
\* restarts.  Depends on the mutex of SafeReconcile and on goroutines and
\* lists ending with the process.
Restocked == INSTANCE RestockedStore WITH
    primary   <- content["primary"],
    secondary <- content["secondary"],
    seen      <- {i \in 1..issued : \A t \in inflight : t.at = "primary" => t.id # i},
    backlog   <- {[id |-> t.id, write |-> t.write] :
                    t \in {u \in inflight : u.at # "primary"}},
    shipment  <- listed,
    copying   <- reconciling = "copy"
RestockSpec == Restocked!RestockSpec
=============================================================================
