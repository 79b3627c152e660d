------------------------------ MODULE Listing ------------------------------
(***************************************************************************)
(* The reads of internal/store while others write: List, Keys and Count of *)
(* Hazelcast and MongoDB as they go through the documents one by one, the  *)
(* field selectors of both stores, Redis, which panics, and the two that   *)
(* read through the manager: a client of the API (listResources, listKeys, *)
(* countResources) and the goroutine that turns a list into a gauge        *)
(* (provisioning/metrics.go).                                              *)
(*                                                                         *)
(* Reads do not disturb each other, so one reader is followed; who it is   *)
(* and which store it reads is chosen at the start.  "ahead" is what the   *)
(* scan of the store, or the loop over its keys, has still to visit, in    *)
(* any order.                                                              *)
(*                                                                         *)
(* "seen", "steady" and "missed" are history variables of the call under   *)
(* way: the objects that were in the store at some moment of it, the keys  *)
(* that held a selected object at every moment of it, and how many objects *)
(* could not be read.                                                      *)
(***************************************************************************)
EXTENDS Backends, Sequences, FiniteSets, Functions

CONSTANTS
    Types,          \* store types that may be the primary store
    Readers,        \* who may read: "api", "metrics"
    Writable,       \* the objects that writers may store
    Requests,       \* what clients of the API may ask for
    NoKey,          \* part of a selector without an equals sign
    Field,          \* Field[o][k]: what object o holds at path k
    Mentions,       \* Mentions[o]: selectors whose text occurs in the JSON of o
    Labels,         \* values of the gauge's label
    LabelOf,        \* the label of an object, if its path can be resolved
    MaxWrites,      \* bound on the writes
    MaxErrors       \* bound on the failures of the store

Lists == {r \in Requests : r.op = "list"}

\* The label's path leads nowhere in o.
Unlabelled(o) == LabelOf[o] \notin Labels

ASSUME ListingAssumption ==
    /\ Types \subseteq StoreTypes
    /\ Readers \subseteq {"api", "metrics"}
    /\ Writable \subseteq Objects
    /\ \A r \in Requests : r.op \in {"list", "keys", "count"} /\ r.limit \in Nat
    /\ \A r \in Requests \ Lists : r.selector = <<>> /\ r.limit = 0
    /\ {MaxWrites, MaxErrors} \subseteq Nat

\* What metrics.go and StoreDataSource ask for: everything.
All == [op |-> "list", selector |-> <<>>, limit |-> 0]

VARIABLES
    type, reader,
    content,                    \* the primary store
    alive,                      \* the process
    call, phase, ahead, keys, got,
    gauge,                      \* the labels that show a 1
    seen, steady, missed,
    writes, errors

chosen  == <<type, reader>>
history == <<seen, steady, missed>>
vars    == <<chosen, content, alive, call, phase, ahead, keys, got, gauge,
             history, writes, errors>>

Phases == {"idle", "scan", "get", "done", "fill"}

(***************************************************************************)
(* Field selectors.  A selector is the sequence of its parts, <<>> the     *)
(* empty string.                                                           *)
(***************************************************************************)

\* parseFieldSelector: equality for each part with an equals sign, the last
\* one where a path occurs twice.
MongoSelects(selector, o) ==
    \A i \in DOMAIN selector :
        \/ selector[i].key = NoKey
        \/ \E j \in i+1..Len(selector) : selector[j].key = selector[i].key
        \/ Field[o][selector[i].key] = selector[i].value

\* MatchFieldSelector: the text as a whole occurs in the object's JSON.
HazelcastSelects(selector, o) == selector = <<>> \/ selector \in Mentions[o]

Selects(selector, o) == IF type = "mongo" THEN MongoSelects(selector, o)
                                          ELSE HazelcastSelects(selector, o)

\* The keys that hold a selected object, and the objects that are held.
Selected(selector, store) ==
    {k \in DOMAIN store : store[k] # Absent /\ Selects(selector, store[k])}
Stored(store) == {store[k] : k \in DOMAIN store} \ {Absent}

KeyOf(o) == IF type = "mongo" THEN o.id ELSE o.name

TypeOK ==
    /\ type \in Types /\ reader \in Readers
    /\ content \in Contents(type)
    /\ alive \in BOOLEAN
    /\ call \in Requests \cup {All}
    /\ phase \in Phases
    /\ ahead \subseteq KeySpace(type) /\ keys \subseteq KeySpace(type)
    /\ got \in Seq(Objects)
    /\ gauge \subseteq Labels
    /\ seen \subseteq Objects /\ steady \subseteq KeySpace(type) /\ missed \in 0..MaxErrors
    /\ writes \in 0..MaxWrites /\ errors \in 0..MaxErrors

Init ==
    /\ type \in Types /\ reader \in Readers
    /\ content = EmptyStore(type)
    /\ alive = TRUE
    /\ call = All /\ phase = "idle" /\ ahead = {} /\ keys = {} /\ got = <<>>
    /\ gauge = {}
    /\ seen = {} /\ steady = {} /\ missed = 0
    /\ writes = 0 /\ errors = 0

(***************************************************************************)
(* Writers, whoever they are.  A document that comes new to MongoDB is     *)
(* filed after all others, where an open cursor may still find it.         *)
(***************************************************************************)
Write(w) ==
    /\ writes < MaxWrites /\ writes' = writes + 1
    /\ content' = Apply(type, content, w)
    /\ \/ UNCHANGED ahead
       \/ /\ type = "mongo" /\ phase = "scan"
          /\ ahead' = ahead \cup
                {k \in DOMAIN content : content[k] = Absent /\ content'[k] # Absent}
    /\ IF phase \in {"scan", "get"}
       THEN /\ seen' = seen \cup Stored(content')
            /\ steady' = steady \cap Selected(call.selector, content')
       ELSE UNCHANGED <<seen, steady>>
    /\ UNCHANGED <<chosen, alive, call, phase, keys, got, gauge, missed, errors>>

Put(o)    == Write([op |-> "create", old |-> Absent, new |-> o])
Remove(o) == o \in Stored(content) /\ Write([op |-> "delete", old |-> o, new |-> Absent])

(***************************************************************************)
(* A call of List, Keys or Count.                                          *)
(***************************************************************************)
CallFrame == UNCHANGED <<chosen, content, alive, call, gauge, seen, steady, writes>>

Begin(request) ==
    /\ alive /\ phase = "idle" /\ type # "redis"
    /\ call' = request
    /\ phase' = "scan" /\ ahead' = KeySpace(type) /\ keys' = {} /\ got' = <<>>
    /\ seen' = Stored(content) /\ missed' = 0
    /\ steady' = Selected(request.selector, content)
    /\ UNCHANGED <<chosen, content, alive, gauge, writes, errors>>

\* Count, Keys and List of Redis panic, and neither the HTTP service nor the
\* metrics goroutine recovers.
Unimplemented ==
    /\ alive /\ phase = "idle" /\ type = "redis"
    /\ alive' = FALSE /\ gauge' = {}
    /\ UNCHANGED <<chosen, content, call, phase, ahead, keys, got, history, writes, errors>>

\* Hazelcast gets the set of keys before it gets the first value.
KeysFirst == type = "hazelcast" /\ call.op = "list"

\* MongoDB counts the documents that it returns, Hazelcast's List those that
\* it could read.
Listed == Len(got) + (IF type = "mongo" THEN missed ELSE 0)

\* Defect: checks the limit one element late.
FullLate == call.limit > 0 /\ Listed > call.limit

Full == call.limit > 0 /\ Listed >= call.limit

Fail == errors < MaxErrors /\ errors' = errors + 1

\* Defect: what is not there is taken for an empty object.
TakeAnything(k) == got' = Append(got, content[k])

\* Takes the object at k if there is one and it is selected.
Take(k) == got' = IF content[k] # Absent /\ Selects(call.selector, content[k])
                  THEN Append(got, content[k]) ELSE got

ScanKeys(k) ==
    /\ phase = "scan" /\ KeysFirst /\ k \in ahead
    /\ ahead' = ahead \ {k}
    /\ keys' = IF content[k] # Absent THEN keys \cup {k} ELSE keys
    /\ UNCHANGED <<phase, got, missed, errors>> /\ CallFrame

\* The map's size and key set, and MongoDB's cursor, count and distinct.  A
\* document that cannot be decoded is skipped.
Scan(k) ==
    /\ phase = "scan" /\ ~ KeysFirst /\ k \in ahead /\ ~ Full
    /\ ahead' = ahead \ {k}
    /\ \/ Take(k) /\ UNCHANGED <<missed, errors>>
       \/ call.op = "list" /\ Fail /\ missed' = missed + 1 /\ UNCHANGED got
    /\ UNCHANGED <<phase, keys>> /\ CallFrame

GetValues ==
    /\ phase = "scan" /\ KeysFirst /\ ahead = {}
    /\ phase' = "get" /\ ahead' = keys
    /\ UNCHANGED <<keys, got, missed, errors>> /\ CallFrame

\* Defect: an entry that has vanished since ends the loop.
GetUntilMissing(k) ==
    /\ phase = "get" /\ k \in ahead /\ ~ Full
    /\ ahead' = IF content[k] = Absent THEN {} ELSE ahead \ {k}
    /\ Take(k)
    /\ UNCHANGED <<phase, keys, missed, errors>> /\ CallFrame

\* A Get that fails, or returns no JSON, is skipped without a word.
Get(k) ==
    /\ phase = "get" /\ k \in ahead /\ ~ Full
    /\ ahead' = ahead \ {k}
    /\ \/ Take(k) /\ UNCHANGED <<missed, errors>>
       \/ Fail /\ missed' = missed + 1 /\ UNCHANGED got
    /\ UNCHANGED <<phase, keys>> /\ CallFrame

Return ==
    /\ \/ phase = "scan" /\ ~ KeysFirst
       \/ phase = "get"
    /\ ahead = {} \/ Full
    /\ phase' = "done"
    /\ UNCHANGED <<ahead, keys, got, missed, errors>> /\ CallFrame

Leave ==
    /\ phase' = "idle" /\ call' = All /\ ahead' = {} /\ keys' = {} /\ got' = <<>>
    /\ seen' = {} /\ steady' = {} /\ missed' = 0

\* The key set, the count, Find or the cursor fails, and with it the call:
\* status 500, or the metrics goroutine sleeps.
ReturnError ==
    /\ phase = "scan" /\ Fail
    /\ Leave
    /\ UNCHANGED <<chosen, content, alive, gauge, writes>>

(***************************************************************************)
(* The two readers.                                                        *)
(***************************************************************************)
Ask     == reader = "api" /\ \E request \in Requests : Begin(request)
Collect == reader = "metrics" /\ Begin(All)

Answer ==
    /\ reader = "api" /\ phase = "done"
    /\ Leave
    /\ UNCHANGED <<chosen, content, alive, gauge, writes, errors>>

\* Defect: the gauge keeps what it showed.
Refill ==
    /\ reader = "metrics" /\ phase = "done"
    /\ phase' = "fill"
    /\ UNCHANGED <<ahead, keys, got, missed, errors>> /\ CallFrame

Reset ==
    /\ reader = "metrics" /\ phase = "done"
    /\ phase' = "fill" /\ gauge' = {}
    /\ UNCHANGED <<chosen, content, alive, call, ahead, keys, got, history, writes, errors>>

Set ==
    /\ phase = "fill" /\ got # <<>> /\ ~ Unlabelled(Head(got))
    /\ gauge' = gauge \cup {LabelOf[Head(got)]}
    /\ got' = Tail(got)
    /\ UNCHANGED <<chosen, content, alive, call, phase, ahead, keys, history, writes, errors>>

\* GetLabelsForResource leaves the label out, With panics on the number of
\* labels, and nothing recovers.
SetUnlabelled ==
    /\ phase = "fill" /\ got # <<>> /\ Unlabelled(Head(got))
    /\ Leave
    /\ alive' = FALSE /\ gauge' = {}
    /\ UNCHANGED <<chosen, content, writes, errors>>

Sleep ==
    /\ phase = "fill" /\ got = <<>>
    /\ Leave
    /\ UNCHANGED <<chosen, content, alive, gauge, writes, errors>>

Restart ==
    /\ ~ alive
    /\ alive' = TRUE
    /\ UNCHANGED <<chosen, content, call, phase, ahead, keys, got, gauge, history, writes, errors>>

Visit == \E k \in ahead : ScanKeys(k) \/ Scan(k) \/ Get(k)

\* What goes on without anyone's asking.
Proceed ==
    \/ Visit
    \/ GetValues
    \/ Return
    \/ ReturnError
    \/ Collect
    \/ Answer
    \/ Reset
    \/ Set
    \/ SetUnlabelled
    \/ Sleep
    \/ Restart

Next ==
    \/ \E o \in Writable : Put(o) \/ Remove(o)
    \/ Ask
    \/ Unimplemented
    \/ Proceed

\* Calls of the store return, the metrics goroutine wakes up from its sleep,
\* and the process is started again whenever it has ended.
Spec == Init /\ [][Next]_vars
FairSpec == Spec /\ WF_vars(Proceed)

(***************************************************************************)
(* Correctness.                                                            *)
(***************************************************************************)

\* A list is not a snapshot, but nothing in it is made up: each of its
\* objects was in the store, and selected, at some moment of the call; there
\* are no more of them than the limit allows; and Hazelcast, which goes
\* through a set of keys, lists no object twice.  (MongoDB may: a document
\* removed and filed again comes once more at the end.)
ListSound ==
    phase = "done" =>
        /\ \A o \in Range(got) : o \in seen /\ Selects(call.selector, o)
        /\ call.limit > 0 => Len(got) <= call.limit
        /\ type = "hazelcast" =>
               \A i, j \in DOMAIN got : KeyOf(got[i]) = KeyOf(got[j]) => i = j

\* A list that has not reached its limit, and in which no object was skipped
\* because it could not be read, has every object that was there, and
\* selected, all through the call, however it changed meanwhile and whatever
\* came and went around it.  The same goes for keys and counts.
ListComplete ==
    phase = "done" /\ missed = 0 /\ (call.limit = 0 \/ Len(got) < call.limit) =>
        steady \subseteq {KeyOf(o) : o \in Range(got)}

\* The gauge of the provisioning API, which is emptied and filled again
\* label by label from lists like these, and shows a part in between, comes
\* true again and again once writers stop: it shows the labels of the
\* objects in the store and no others.  Not with Redis, whose List panics,
\* and not while there is an object without the label: then the process dies
\* of its gauge, is started, and dies again.
GaugeComesTrue ==
    reader = "metrics" /\ type # "redis"
        /\ <>[](\A o \in Stored(content) : ~ Unlabelled(o)) =>
    []<>(gauge = {LabelOf[o] : o \in Stored(content)})
=============================================================================
