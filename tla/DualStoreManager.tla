-------------------------- MODULE DualStoreManager --------------------------
(***************************************************************************)
(* internal/store/storemanager.go: one manager in front of two stores.  A  *)
(* caller's Create, Update or Delete runs on the primary store, then       *)
(* starts a goroutine that repeats it on the secondary store and returns   *)
(* the primary's error.  Nothing orders the goroutines of different calls: *)
(* the manager's RWMutex is only ever taken for reading, so it excludes    *)
(* nobody, and no variable stands for it.                                  *)
(*                                                                         *)
(* "inflight" holds one record per unfinished write.  "at" says how far it *)
(* is: "primary" before the primary store has answered, "spawn" between    *)
(* that and the go statement, "secondary" while the goroutine has still to *)
(* run.  A caller is busy in the first two.                                *)
(*                                                                         *)
(* "wish" and "trusted" are history variables that the code does not have; *)
(* no guard reads them.  wish[n] is what the latest write asked the object *)
(* n to become.  n is in trusted[leg] while that store has to obey: the    *)
(* write began with no other write of n in flight, and its call on that    *)
(* store has not failed or been lost.                                      *)
(***************************************************************************)
EXTENDS Backends, FiniteSets

CONSTANTS
    PrimaryType,    \* store.<mode>.primary.type, as configured
    SecondaryType,  \* store.<mode>.secondary.type; "" for none
    Callers,        \* informer handlers, HTTP requests, the fallback replay
    WriteSet,       \* the writes that callers may ask for
    MaxWrites,      \* bound on the number of calls
    Faults          \* what may fail: the legs of a write, the process

VARIABLES content, inflight, issued, wish, trusted

vars == <<content, inflight, issued, wish, trusted>>

Legs == {"primary", "secondary"}

\* SetupDualStoreManager: a primary type is required and must be known; a
\* secondary of the same type is no secondary.
HasSecondary == SecondaryType \notin {"", PrimaryType}

Type == [leg \in Legs |-> IF leg = "primary" THEN PrimaryType
                                             ELSE SecondaryType]

ASSUME ManagerAssumption ==
    /\ PrimaryType \in StoreTypes
    /\ SecondaryType \in StoreTypes \cup {""}
    /\ WriteSet \subseteq Writes
    /\ MaxWrites \in Nat
    /\ Faults \subseteq Legs \cup {"crash"}

Stages  == {"primary", "spawn", "secondary"}
Tickets == [id : 1..MaxWrites, caller : Callers, at : Stages, write : WriteSet]

On(n)   == {t \in inflight : Target(t.write) = n}
Busy(c) == \E t \in inflight : t.caller = c /\ t.at # "secondary"

TypeOK ==
    /\ content = [leg \in Legs |-> content[leg]]
    /\ \A leg \in Legs : content[leg] \in Contents(Type[leg])
    /\ inflight \subseteq Tickets
    /\ issued \in 0..MaxWrites
    /\ wish \in [Names -> Objects \cup {Absent}]
    /\ trusted \in [Legs -> SUBSET Names]

Init ==
    /\ content = [leg \in Legs |-> EmptyStore(Type[leg])]
    /\ inflight = {}
    /\ issued = 0
    /\ wish = [n \in Names |-> Absent]
    /\ trusted = [leg \in Legs |-> Names]

\* A defect TypeOK must notice: createFilter forgotten, and
\* a document without an identity inserted.
UncheckedOutcomes(leg, w) ==
    LET key == Key(Type[leg], w)
    IN  {[content |-> [k \in DOMAIN content[leg] \cup {key} |->
                            IF k = key THEN w.new ELSE content[leg][k]],
          failed |-> FALSE]}

\* What a call of one store leaves behind and whether it returned an error:
\* it worked; it was refused; or, the request applied and the answer lost
\* (an invocation timeout, a closed connection), both.
Outcomes(leg, w) ==
    LET before == content[leg]
        after  == Apply(Type[leg], before, w)
    IN  IF Accepts(Type[leg], w)
        THEN {[content |-> after, failed |-> FALSE]} \cup
             (IF leg \in Faults
              THEN [content : {before, after}, failed : {TRUE}] ELSE {})
        ELSE {[content |-> before, failed |-> TRUE]}

\* The store is left as the outcome o of the call says.
Land(leg, w, o) ==
    /\ content' = [content EXCEPT ![leg] = o.content]
    /\ trusted' = IF o.failed
                  THEN [trusted EXCEPT ![leg] = @ \ {Target(w)}]
                  ELSE trusted

CallStore(leg, w) == \E o \in Outcomes(leg, w) : Land(leg, w, o)

Advance(t, stage) ==
    inflight' = (inflight \ {t}) \cup {[t EXCEPT !.at = stage]}

(***************************************************************************)
(* Defects that LegsObey, WritesReplicate and MirrorSpec must notice.      *)
(***************************************************************************)

\* The goroutine of Delete calls secondary.Update.
MiscalledSecondary(t) ==
    /\ t.at = "secondary"
    /\ CallStore("secondary", IF t.write.op = "delete"
                              THEN [t.write EXCEPT !.op = "update", !.new = t.write.old]
                              ELSE t.write)
    /\ inflight' = inflight \ {t}
    /\ UNCHANGED <<issued, wish>>

\* Delete returns without starting its goroutine.
DeleteSkipsSecondary(t) ==
    /\ t.at = "spawn"
    /\ IF HasSecondary /\ t.write.op # "delete" THEN Advance(t, "secondary")
                                               ELSE inflight' = inflight \ {t}
    /\ UNCHANGED <<content, issued, wish, trusted>>

\* A failed call of the secondary store is repeated.
RetriedSecondary(t) ==
    /\ t.at = "secondary"
    /\ CallStore("secondary", t.write)
    /\ inflight' = IF trusted' = trusted THEN inflight \ {t} ELSE inflight
    /\ UNCHANGED <<issued, wish>>

(***************************************************************************)
(* Actions.                                                                *)
(***************************************************************************)
Invoke(c, w) ==
    /\ issued < MaxWrites
    /\ ~ Busy(c)
    /\ issued' = issued + 1
    /\ inflight' = inflight \cup
            {[id |-> issued + 1, caller |-> c, at |-> "primary", write |-> w]}
    /\ wish' = [wish EXCEPT ![Target(w)] = w.new]
    /\ trusted' = [leg \in Legs |->
            IF On(Target(w)) = {} THEN trusted[leg] \cup {Target(w)}
                                  ELSE trusted[leg] \ {Target(w)}]
    /\ UNCHANGED content

CallPrimary(t) ==
    /\ t.at = "primary"
    /\ CallStore("primary", t.write)
    /\ Advance(t, "spawn")
    /\ UNCHANGED <<issued, wish>>

\* Whatever the primary answered, and then the caller gets that answer.
SpawnAndReturn(t) ==
    /\ t.at = "spawn"
    /\ IF HasSecondary THEN Advance(t, "secondary")
                       ELSE inflight' = inflight \ {t}
    /\ UNCHANGED <<content, issued, wish, trusted>>

\* A failed call is logged and not repeated.
CallSecondary(t) ==
    /\ t.at = "secondary"
    /\ CallStore("secondary", t.write)
    /\ inflight' = inflight \ {t}
    /\ UNCHANGED <<issued, wish>>

\* The process ends: log.Fatal, a panic in a goroutine, os.Exit at the end
\* of GracefulShutdown, a kill.  Unfinished calls and goroutines are gone.
Crash ==
    /\ "crash" \in Faults
    /\ inflight # {}
    /\ inflight' = {}
    /\ trusted' = [leg \in Legs |-> trusted[leg] \
            {Target(t.write) : t \in {u \in inflight :
                                        leg = "secondary" \/ u.at = "primary"}}]
    /\ UNCHANGED <<content, issued, wish>>

Done == issued = MaxWrites /\ inflight = {} /\ UNCHANGED vars

Step(t) == CallPrimary(t) \/ SpawnAndReturn(t) \/ CallSecondary(t)

Next ==
    \/ \E c \in Callers, w \in WriteSet : Invoke(c, w)
    \/ \E t \in inflight : Step(t)
    \/ Crash
    \/ Done

\* Go runs every goroutine that can run, and each call of a store returns:
\* the clients bound it with a timeout.
Fairness == WF_vars(\E t \in inflight : Step(t))

Spec == Init /\ [][Next]_vars
FairSpec == Spec /\ Fairness

(***************************************************************************)
(* Correctness.                                                            *)
(***************************************************************************)

\* The identity that MongoDB files an object under belongs to the name: what
\* a configured mongoId field gives, and what a UID gives only as long as no
\* object is deleted and created again.
Mentioned == {Subject(w) : w \in WriteSet} \cup
             {w.old : w \in {v \in WriteSet : v.op # "create"}}
StableIdentity ==
    \A o, p \in Mentioned :
        /\ o.name = p.name => o.id = p.id
        /\ o.id = p.id /\ o.id # NoId => o.name = p.name

\* Once nothing is in flight for an object, each store that was asked to
\* obey the last write of it, by the rule of "trusted" above, holds exactly
\* what that write asked for: no error, crash or loss on the other store and
\* no write of another object keeps it from doing so.  Depends on Create,
\* Update and Delete of storemanager.go running both calls with the same
\* arguments, and on the keys that the stores choose.
LegsObey ==
    \A leg \in Legs, n \in Names :
        n \in trusted[leg] /\ On(n) = {} /\ (leg = "secondary" => HasSecondary)
            => Documents(content[leg], n) = {wish[n]} \ {Absent}

\* A write that began alone ends in both stores agreeing on its object,
\* unless another write of the object joins it, a store refuses it or the
\* process ends.  Depends on every goroutine being started and run.
Replicated(n) == On(n) = {} /\
    Documents(content["primary"], n) = Documents(content["secondary"], n)
Undisturbed(n) == n \in trusted["primary"] \cap trusted["secondary"]
WritesReplicate ==
    \A n \in Names : Undisturbed(n) ~> Replicated(n) \/ ~ Undisturbed(n)

\* The manager implements MirroredStore: the primary store is tried before
\* the secondary, each write lands on the secondary at most once.
Mirror == INSTANCE MirroredStore WITH
    primary   <- content["primary"],
    secondary <- content["secondary"],
    seen      <- {i \in 1..issued : \A t \in inflight : t.at = "primary" => t.id # i},
    backlog   <- {[id |-> t.id, write |-> t.write] :
                    t \in {u \in inflight : u.at # "primary"}}
MirrorSpec == Mirror!Spec

\* Quasar synchronises the state of resources with its stores: when every
\* call and goroutine has ended, the two stores hold the same documents of
\* each object.
StoresAgreeWhenQuiet ==
    inflight = {} => \A n \in Names :
        Documents(content["primary"], n) = Documents(content["secondary"], n)
=============================================================================
