------------------------- MODULE ProvisioningProofs -------------------------
(***************************************************************************)
(* Proofs about Provisioning, for any clients and requests, any sets of    *)
(* names, identities and versions, any faults and any bounds.              *)
(***************************************************************************)
EXTENDS Provisioning, SequenceTheorems, TLAPS

(***************************************************************************)
(* Requests and the writes they ask for, the manager's data and types.     *)
(***************************************************************************)
LEMMA RequestShape ==
    ASSUME NEW r \in Requests
    PROVE  /\ r.method \in {"PUT", "DELETE"} /\ r.url \in Names
           /\ r.body \in Objects
           /\ Write(r).op \in {"create", "delete"}
           /\ Subject(Write(r)) = r.body
           /\ Target(Write(r)) = r.body.name
           /\ Write(r).new \in Objects \cup {Absent}
           /\ Key("mongo", Write(r)) = r.body.id
<1>1. r \in [method : {"PUT", "DELETE"}, url : Names, body : Objects]
    BY ProvisioningAssumption
<1>2. r.method \in {"PUT", "DELETE"} /\ r.url \in Names /\ r.body \in Objects
    BY <1>1
<1>3. CASE r.method = "PUT"
    BY <1>2, <1>3 DEF Write, Target, Subject, Key, MongoKey
<1>4. CASE r.method # "PUT"
    BY <1>2, <1>4 DEF Write, Target, Subject, Key, MongoKey
<1>. QED BY <1>2, <1>3, <1>4

\* The manager is instantiated with the data of this module.
LEMMA SameData ==
    /\ M!Objects = Objects
    /\ \A type : M!Contents(type) = Contents(type)
    /\ \A type : M!EmptyStore(type) = EmptyStore(type)
    /\ \A w : M!Target(w) = Target(w)
    /\ \A type, w : M!Accepts(type, w) = Accepts(type, w)
    /\ \A type, docs, w : M!Apply(type, docs, w) = Apply(type, docs, w)
<1>1. M!Objects = Objects
    BY DEF M!Objects, Objects
<1>2. \A type : M!KeySpace(type) = KeySpace(type)
    BY DEF M!KeySpace, KeySpace
<1>3. \A type : M!Contents(type) = Contents(type)
    BY <1>1, <1>2 DEF M!Contents, Contents
<1>4. \A type : M!EmptyStore(type) = EmptyStore(type)
    BY <1>2 DEF M!EmptyStore, EmptyStore
<1>5. \A w : M!Target(w) = Target(w)
    BY DEF M!Target, M!Subject, Target, Subject
<1>6. \A type, w : M!Key(type, w) = Key(type, w)
    BY DEF M!Key, M!HazelcastKey, M!MongoKey, M!RedisKey,
           Key, HazelcastKey, MongoKey, RedisKey
<1>7. \A type, w : M!Accepts(type, w) = Accepts(type, w)
    BY <1>2, <1>6 DEF M!Accepts, Accepts
<1>8. \A type, docs, w : M!Apply(type, docs, w) = Apply(type, docs, w)
    BY <1>6, <1>7 DEF M!Apply, Apply
<1>. QED BY <1>1, <1>3, <1>4, <1>5, <1>7, <1>8

\* MongoDB is the primary and Hazelcast the secondary store.
LEMMA Stores ==
    /\ M!Type["primary"] = "mongo" /\ M!Type["secondary"] = "hazelcast"
    /\ M!HasSecondary
    BY ProvisioningAssumption DEF M!Type, M!Legs, M!HasSecondary

\* A write of an object, or of none, keeps the contents of a store contents.
LEMMA ApplyType ==
    ASSUME NEW type, NEW docs \in Contents(type),
           NEW w, w.new \in Objects \cup {Absent}
    PROVE  Apply(type, docs, w) \in Contents(type)
    BY DEF Apply, Contents, Accepts

\* What TypeOK says of the manager's variables, in the terms of this module.
ManagerTyped ==
    /\ content = [leg \in M!Legs |-> content[leg]]
    /\ content["primary"] \in Contents("mongo")
    /\ content["secondary"] \in Contents("hazelcast")
    /\ inflight \subseteq M!Tickets
    /\ issued \in 0..MaxWrites
    /\ wish \in [Names -> Objects \cup {Absent}]
    /\ trusted \in [M!Legs -> SUBSET Names]

LEMMA ManagerType == M!TypeOK <=> ManagerTyped
    BY SameData, Stores DEF M!TypeOK, ManagerTyped, M!Legs

\* A ticket carries the write of a request.
LEMMA TicketShape ==
    ASSUME NEW t \in M!Tickets
    PROVE  /\ t.id \in 1..MaxWrites /\ t.at \in M!Stages
           /\ \E r \in Requests : t.write = Write(r)
           /\ Target(t.write) \in Names
           /\ t.write.new \in Objects \cup {Absent}
<1>1. /\ t.id \in 1..MaxWrites /\ t.at \in M!Stages
      /\ \E r \in Requests : t.write = Write(r)
    BY DEF M!Tickets
<1>2. PICK r \in Requests : t.write = Write(r)
    BY <1>1
<1>3. Target(t.write) \in Names
    BY <1>2, RequestShape DEF Objects
<1>. QED BY <1>1, <1>2, <1>3, RequestShape

(***************************************************************************)
(* Types.                                                                  *)
(***************************************************************************)
LEMMA TypeInit == Init => TypeOK
<1> SUFFICES ASSUME Init PROVE TypeOK
    OBVIOUS
<1>1. ManagerTyped
  <2>1. \A type : EmptyStore(type) \in Contents(type)
    BY DEF EmptyStore, Contents
  <2>2. MaxWrites \in Nat
    BY ProvisioningAssumption
  <2>. QED BY <2>1, <2>2, SameData, Stores DEF Init, M!Init, ManagerTyped, M!Legs
<1>2. MaxStops \in Nat /\ MaxErrors \in Nat
    BY ProvisioningAssumption
<1>3. todo \in Seq(Hooks)
    BY DEF Init, Untold, Hooks
<1>. QED BY <1>1, <1>2, <1>3, ManagerType DEF Init, TypeOK, Phases

\* The end of the process.
LEMMA DieType ==
    ASSUME TypeOK, Die
    PROVE  /\ M!TypeOK'
           /\ pending' = {} /\ inflight' = {} /\ content' = content
           /\ promise' = promise /\ issued' = issued
           /\ phase' \in Phases /\ open' \subseteq M!Legs /\ todo' \in Seq(Hooks)
           /\ reconciling' = "no" /\ ahead' = {} /\ listed' = <<>>
           /\ errors' \in 0..MaxErrors
<1>1. /\ inflight' = {} /\ content' = content /\ issued' = issued /\ wish' = wish
      /\ trusted' \in [M!Legs -> SUBSET Names]
  <2>1. CASE inflight = {}
    BY <2>1, ManagerType DEF Die, managerVars, TypeOK, ManagerTyped
  <2>2. CASE inflight # {}
    BY <2>2, ManagerType DEF Die, M!Crash, TypeOK, ManagerTyped
  <2>. QED BY <2>1, <2>2
<1>2. ManagerTyped'
    BY <1>1, ManagerType DEF TypeOK, ManagerTyped
<1>3. M!TypeOK'
    BY <1>2, SameData, Stores DEF M!TypeOK, ManagerTyped, M!Legs
<1>4. todo' \in Seq(Hooks)
    BY DEF Die, Untold, Hooks
<1>. QED BY <1>1, <1>3, <1>4 DEF Die, TypeOK, Phases

\* A call of one store, whatever its outcome.
LEMMA OutcomeShape ==
    ASSUME NEW leg \in M!Legs, NEW t \in M!Tickets, NEW o \in M!Outcomes(leg, t.write),
           ManagerTyped
    PROVE  /\ o.content \in Contents(M!Type[leg]) /\ o.failed \in BOOLEAN
           /\ ~ o.failed => /\ Accepts(M!Type[leg], t.write)
                            /\ o.content = Apply(M!Type[leg], content[leg], t.write)
           /\ o.content \in {content[leg], Apply(M!Type[leg], content[leg], t.write)}
<1> DEFINE before == content[leg]
           after  == Apply(M!Type[leg], before, t.write)
<1>1. before \in Contents(M!Type[leg])
    BY Stores DEF ManagerTyped, M!Legs
<1>2. after \in Contents(M!Type[leg])
    BY <1>1, TicketShape, ApplyType
<1>3. \/ Accepts(M!Type[leg], t.write) /\ o = [content |-> after, failed |-> FALSE]
      \/ o \in [content : {before, after}, failed : {TRUE}]
      \/ o = [content |-> before, failed |-> TRUE]
    BY SameData DEF M!Outcomes
<1> HIDE DEF before, after
<1>4. CASE Accepts(M!Type[leg], t.write) /\ o = [content |-> after, failed |-> FALSE]
  <2>1. Accepts(M!Type[leg], t.write) /\ o.content = after /\ o.failed = FALSE
    BY <1>4
  <2>. QED BY <1>2, <2>1 DEF after, before
<1>5. CASE o \in [content : {before, after}, failed : {TRUE}]
  <2>1. o.content \in {before, after} /\ o.failed = TRUE
    BY <1>5
  <2>. QED BY <1>1, <1>2, <2>1 DEF before, after
<1>6. CASE o = [content |-> before, failed |-> TRUE]
  <2>1. o.content = before /\ o.failed = TRUE
    BY <1>6
  <2>. QED BY <1>1, <2>1 DEF before, after
<1>. QED BY <1>3, <1>4, <1>5, <1>6

LEMMA LandType ==
    ASSUME ManagerTyped, NEW leg \in M!Legs, NEW t \in M!Tickets, NEW o,
           o.content \in Contents(M!Type[leg]), M!Land(leg, t.write, o)
    PROVE  /\ content' = [l \in M!Legs |-> content'[l]]
           /\ content'["primary"] \in Contents("mongo")
           /\ content'["secondary"] \in Contents("hazelcast")
           /\ trusted' \in [M!Legs -> SUBSET Names]
           /\ content'[leg] = o.content
           /\ \A l \in M!Legs \ {leg} : content'[l] = content[l]
<1>1. content' = [content EXCEPT ![leg] = o.content] /\ DOMAIN content = M!Legs
    BY DEF M!Land, ManagerTyped
<1>2. trusted' \in [M!Legs -> SUBSET Names]
    BY DEF M!Land, ManagerTyped
<1>. QED BY <1>1, <1>2, Stores DEF ManagerTyped, M!Legs

LEMMA AdvanceType ==
    ASSUME ManagerTyped, NEW t \in inflight, NEW stage \in M!Stages, M!Advance(t, stage)
    PROVE  inflight' \subseteq M!Tickets
    BY DEF ManagerTyped, M!Advance, M!Tickets

\* The primary store, also when its client is shut.
LEMMA PrimaryShape ==
    ASSUME ManagerTyped, NEW t \in M!Tickets, NEW o \in PrimaryOutcomes(t.write)
    PROVE  /\ o.content \in Contents("mongo") /\ o.failed \in BOOLEAN
           /\ ~ o.failed => /\ Accepts("mongo", t.write)
                            /\ o.content = Apply("mongo", content["primary"], t.write)
           /\ o.content \in {content["primary"], Apply("mongo", content["primary"], t.write)}
<1>1. CASE "primary" \in open
    BY <1>1, OutcomeShape, Stores DEF PrimaryOutcomes, M!Legs
<1>2. CASE "primary" \notin open
  <2>1. o = [content |-> content["primary"], failed |-> TRUE]
    BY <1>2 DEF PrimaryOutcomes
  <2>. QED BY <2>1 DEF ManagerTyped
<1>. QED BY <1>1, <1>2

\* The documents that reads look into hold objects.
LEMMA FiledType ==
    ASSUME content["primary"] \in Contents("mongo")
    PROVE  Filed \subseteq KeySpace("mongo") /\ \A k \in Filed : Read[k] \in Objects
<1>1. EmptyStore("mongo") \in Contents("mongo")
    BY DEF EmptyStore, Contents
<1>2. Read \in Contents("mongo")
    BY <1>1, ProvisioningAssumption DEF Read
<1>. QED BY <1>2 DEF Filed, Contents

\* The same of the next state.
LEMMA FiledTypeNext ==
    ASSUME content'["primary"] \in Contents("mongo")
    PROVE  Filed' \subseteq KeySpace("mongo")
<1>1. EmptyStore("mongo") \in Contents("mongo")
    BY DEF EmptyStore, Contents
<1>2. Read' \in Contents("mongo")
    BY <1>1, ProvisioningAssumption DEF Read
<1>. QED BY <1>2 DEF Filed, Contents

LEMMA ReceiveType ==
    ASSUME TypeOK, NEW r \in Requests, Receive(r)
    PROVE  TypeOK'
<1>1. ManagerTyped
    BY ManagerType DEF TypeOK
<1>2. issued + 1 \in 1..MaxWrites /\ issued' = issued + 1
  <2>1. MaxWrites \in Nat
    BY ProvisioningAssumption
  <2>. QED BY <1>1, <2>1 DEF ManagerTyped, Receive, M!Invoke
<1>3. inflight' \subseteq M!Tickets
    BY <1>1, <1>2 DEF ManagerTyped, Receive, M!Invoke, M!Tickets, M!Stages
<1>4. ManagerTyped'
  <2>1. wish' \in [Names -> Objects \cup {Absent}]
    BY <1>1, RequestShape, SameData DEF ManagerTyped, Receive, M!Invoke
  <2>2. Target(Write(r)) \in Names
    BY RequestShape DEF Objects
  <2>3. trusted' \in [M!Legs -> SUBSET Names]
    BY <1>1, <2>2, SameData DEF ManagerTyped, Receive, M!Invoke
  <2>. QED BY <1>1, <1>2, <1>3, <2>1, <2>3 DEF ManagerTyped, Receive, M!Invoke
<1>5. pending' \subseteq Handlers
  <2>1. ASSUME NEW h \in pending
        PROVE  [h EXCEPT !.alone = @ /\ h.url # r.url] \in Handlers
    BY DEF TypeOK, Handlers
  <2>2. [id |-> issued + 1, url |-> r.url, failed |-> FALSE,
         alone |-> \A h \in pending : h.url # r.url] \in Handlers
    BY <1>2, RequestShape DEF Handlers
  <2>. QED BY <2>1, <2>2 DEF Receive
<1>6. promise' \in [Names -> Objects \cup {Absent, Unsettled}]
    BY RequestShape DEF Receive, TypeOK
<1>7. M!TypeOK'
    BY <1>4, SameData, Stores DEF M!TypeOK, ManagerTyped, M!Legs
<1>. QED BY <1>5, <1>6, <1>7 DEF Receive, TypeOK, processVars, listVars

LEMMA CallPrimaryType ==
    ASSUME TypeOK, NEW t \in inflight, CallPrimary(t)
    PROVE  TypeOK'
<1>1. ManagerTyped /\ t \in M!Tickets
    BY ManagerType DEF TypeOK, ManagerTyped
<1>2. PICK o \in PrimaryOutcomes(t.write) :
        /\ M!Land("primary", t.write, o)
        /\ pending' = {[h EXCEPT !.failed = IF h.id = t.id THEN o.failed ELSE @] :
                            h \in pending}
    BY DEF CallPrimary
<1>3. o.content \in Contents("mongo") /\ o.failed \in BOOLEAN
    BY <1>1, PrimaryShape
<1>4. inflight' \subseteq M!Tickets
    BY <1>1, AdvanceType DEF CallPrimary, M!Stages
<1>5. ManagerTyped'
  <2>1. "primary" \in M!Legs
    BY DEF M!Legs
  <2>2. /\ content' = [l \in M!Legs |-> content'[l]]
        /\ content'["primary"] \in Contents("mongo")
        /\ content'["secondary"] \in Contents("hazelcast")
        /\ trusted' \in [M!Legs -> SUBSET Names]
    BY <1>1, <1>2, <1>3, <2>1, LandType, Stores
  <2>. QED BY <1>1, <1>4, <2>2 DEF ManagerTyped, CallPrimary
<1>6. pending' \subseteq Handlers
  <2>1. ASSUME NEW h \in pending
        PROVE  [h EXCEPT !.failed = IF h.id = t.id THEN o.failed ELSE @] \in Handlers
    BY <1>3 DEF TypeOK, Handlers
  <2>. QED BY <1>2, <2>1
<1>7. M!TypeOK'
    BY <1>5, SameData, Stores DEF M!TypeOK, ManagerTyped, M!Legs
<1>8. ahead' \subseteq KeySpace(PrimaryType)
  <2>1. Filed' \subseteq KeySpace(PrimaryType)
    BY <1>5, FiledTypeNext, ProvisioningAssumption DEF ManagerTyped
  <2>. QED BY <2>1 DEF CallPrimary, MeetCursor, TypeOK
<1>. QED BY <1>6, <1>7, <1>8 DEF CallPrimary, TypeOK, processVars

LEMMA AnswerType ==
    ASSUME TypeOK, NEW t \in inflight, Answer(t)
    PROVE  TypeOK'
<1>1. ManagerTyped /\ t \in M!Tickets
    BY ManagerType DEF TypeOK, ManagerTyped
<1>2. inflight' \subseteq M!Tickets
    BY <1>1, AdvanceType, Stores DEF Answer, M!SpawnAndReturn, M!Stages
<1>3. ManagerTyped'
    BY <1>1, <1>2 DEF ManagerTyped, Answer, M!SpawnAndReturn
<1>4. M!TypeOK'
    BY <1>3, SameData, Stores DEF M!TypeOK, ManagerTyped, M!Legs
<1>5. pending' \subseteq Handlers
    BY DEF Answer, TypeOK
<1>6. promise' \in [Names -> Objects \cup {Absent, Unsettled}]
  <2>1. t.write.new \in Objects \cup {Absent}
    BY <1>1, TicketShape
  <2>. QED BY <2>1 DEF Answer, TypeOK
<1>. QED BY <1>4, <1>5, <1>6 DEF Answer, TypeOK, processVars, listVars

LEMMA ReplicateType ==
    ASSUME TypeOK, NEW t \in inflight, Replicate(t)
    PROVE  /\ TypeOK'
           /\ content'["primary"] = content["primary"]
<1>1. ManagerTyped /\ t \in M!Tickets
    BY ManagerType DEF TypeOK, ManagerTyped
<1>2. PICK o \in M!Outcomes("secondary", t.write) : M!Land("secondary", t.write, o)
    BY DEF Replicate, M!CallSecondary, M!CallStore
<1>3. "secondary" \in M!Legs /\ "primary" \in M!Legs \ {"secondary"}
    BY DEF M!Legs
<1>4. o.content \in Contents(M!Type["secondary"])
    BY <1>1, <1>3, OutcomeShape
<1>5. /\ content' = [l \in M!Legs |-> content'[l]]
      /\ content'["primary"] \in Contents("mongo")
      /\ content'["secondary"] \in Contents("hazelcast")
      /\ trusted' \in [M!Legs -> SUBSET Names]
      /\ content'["primary"] = content["primary"]
    BY <1>1, <1>2, <1>3, <1>4, LandType
<1>6. ManagerTyped'
    BY <1>1, <1>5 DEF ManagerTyped, Replicate, M!CallSecondary
<1>7. M!TypeOK'
    BY <1>6, SameData, Stores DEF M!TypeOK, ManagerTyped, M!Legs
<1>. QED BY <1>5, <1>7 DEF Replicate, TypeOK, processVars, listVars

LEMMA ListingType ==
    ASSUME TypeOK, Find \/ EndList \/ ListFails \/ \E k \in ahead : Fetch(k)
    PROVE  TypeOK'
<1>1. M!TypeOK'
    BY ManagerType, SameData, Stores
       DEF TypeOK, Find, EndList, ListFails, Fetch, ReconcileFrame, managerVars,
           ManagerTyped, M!TypeOK, M!Legs
<1>2. errors' \in 0..MaxErrors
  <2>1. MaxErrors \in Nat /\ errors \in 0..MaxErrors
    BY ProvisioningAssumption DEF TypeOK
  <2>. QED BY <2>1 DEF Find, EndList, ListFails, Fetch, Fail
<1>3. ahead' \subseteq KeySpace(PrimaryType)
    BY FiledType, ManagerType, ProvisioningAssumption
       DEF TypeOK, ManagerTyped, Find, EndList, ListFails, Fetch
<1>4. listed' \in Seq(Objects)
  <2>1. \A k \in Filed : Read[k] \in Objects
    BY FiledType, ManagerType DEF TypeOK, ManagerTyped
  <2>2. listed \in Seq(Objects) /\ <<>> \in Seq(Objects)
    BY DEF TypeOK
  <2>3. CASE Find \/ EndList \/ ListFails
    BY <2>2, <2>3 DEF Find, EndList, ListFails
  <2>4. ASSUME NEW k \in ahead, Fetch(k)
        PROVE  listed' \in Seq(Objects)
    <3>1. \/ listed' = listed
          \/ listed' = IF k \in Filed THEN Append(listed, Read[k]) ELSE listed
      BY <2>4 DEF Fetch
    <3>2. k \in Filed => Append(listed, Read[k]) \in Seq(Objects)
      BY <2>1, <2>2, AppendProperties
    <3>. QED BY <2>2, <3>1, <3>2
  <2>. QED BY <2>3, <2>4
<1>. QED BY <1>1, <1>2, <1>3, <1>4
         DEF Find, EndList, ListFails, Fetch, ReconcileFrame, TypeOK, Phases

LEMMA CopyType ==
    ASSUME TypeOK, Copy
    PROVE  /\ TypeOK'
           /\ content'["primary"] = content["primary"]
<1>1. ManagerTyped
    BY ManagerType DEF TypeOK
<1>2. Head(listed) \in Objects /\ listed' \in Seq(Objects)
  <2>1. listed \in Seq(Objects) /\ listed # <<>>
    BY DEF TypeOK, Copy
  <2>2. listed' \in {Tail(listed), <<>>}
    BY DEF Copy
  <2>3. Head(listed) \in Objects /\ Tail(listed) \in Seq(Objects)
    BY <2>1, HeadTailProperties
  <2>4. <<>> \in Seq(Objects)
    OBVIOUS
  <2>. QED BY <2>2, <2>3, <2>4
<1>3. errors' \in 0..MaxErrors
  <2>1. MaxErrors \in Nat /\ errors \in 0..MaxErrors
    BY ProvisioningAssumption DEF TypeOK
  <2>. QED BY <2>1 DEF Copy, Fail
<1> DEFINE w == [op |-> "create", old |-> Absent, new |-> Head(listed)]
<1>4. Apply("hazelcast", content["secondary"], w) \in Contents("hazelcast")
    BY <1>1, <1>2, ApplyType DEF ManagerTyped
<1>5. content' = content
        \/ content' = [content EXCEPT !["secondary"] = Apply("hazelcast", @, w)]
    BY ProvisioningAssumption DEF Copy
<1> HIDE DEF w
<1>6. /\ ManagerTyped'
      /\ content'["primary"] = content["primary"]
    BY <1>1, <1>4, <1>5 DEF ManagerTyped, Copy, M!Legs
<1>7. M!TypeOK'
    BY <1>6, SameData, Stores DEF M!TypeOK, ManagerTyped, M!Legs
<1>. QED BY <1>2, <1>3, <1>6, <1>7 DEF Copy, TypeOK, processVars

\* The steps of the process.
LEMMA ProcessType ==
    ASSUME TypeOK, Start \/ Signal \/ RunHook \/ Finish \/ UNCHANGED vars
    PROVE  TypeOK'
<1>1. UNCHANGED managerVars
    BY DEF Start, Signal, RunHook, Finish, ReconcileFrame, vars
<1>2. M!TypeOK'
    BY <1>1, ManagerType, SameData, Stores
       DEF TypeOK, managerVars, ManagerTyped, M!TypeOK, M!Legs
<1>3. todo \in Seq(Hooks)
    BY DEF TypeOK
<1>4. CASE Start
    BY <1>2, <1>4 DEF Start, TypeOK, Phases, listVars
<1>5. CASE Signal
  <2>1. stops' \in 0..MaxStops
    <3>1. MaxStops \in Nat
      BY ProvisioningAssumption
    <3>. QED BY <1>5, <3>1 DEF Signal, TypeOK, listVars
  <2>2. todo' \in Seq(Hooks)
    <3>1. /\ <<"primary", "secondary">> \in Seq(Hooks)
          /\ <<"primary", "secondary", "service">> \in Seq(Hooks)
          /\ <<>> \in Seq(Hooks)
      BY DEF Hooks
    <3>2. CASE phase \in {"serving", "deaf"}
      BY <1>5, <3>1, <3>2 DEF Signal
    <3>3. CASE phase \notin {"serving", "deaf"}
      BY <1>5, <3>1, <3>3 DEF Signal
    <3>. QED BY <3>2, <3>3
  <2>. QED BY <1>2, <1>5, <2>1, <2>2 DEF Signal, TypeOK, listVars
<1>6. CASE RunHook
  <2>1. todo' \in Seq(Hooks)
    BY <1>3, <1>6 DEF RunHook
  <2>. QED BY <1>2, <1>6, <2>1 DEF RunHook, TypeOK, Phases, listVars
<1>7. CASE Finish
    BY <1>2, <1>7 DEF Finish, ReconcileFrame, TypeOK, Phases
<1>8. CASE UNCHANGED vars
    BY <1>2, <1>8 DEF vars, processVars, listVars, TypeOK
<1>. QED BY <1>4, <1>5, <1>6, <1>7, <1>8

LEMMA EndType ==
    ASSUME TypeOK, Die, UNCHANGED stops \/ (stops < MaxStops /\ stops' = stops + 1)
    PROVE  TypeOK'
<1>1. stops' \in 0..MaxStops
  <2>1. MaxStops \in Nat
    BY ProvisioningAssumption
  <2>. QED BY <2>1 DEF TypeOK
<1>2. pending' \subseteq Handlers /\ promise' \in [Names -> Objects \cup {Absent, Unsettled}]
    BY DieType DEF TypeOK
<1>3. ahead' \subseteq KeySpace(PrimaryType) /\ listed' \in Seq(Objects)
  <2>1. ahead' = {} /\ listed' = <<>>
    BY DieType
  <2>. QED BY <2>1
<1>. QED BY <1>1, <1>2, <1>3, DieType DEF TypeOK

\* The actions, each with its own name.  Those that end the process are Die.
LEMMA Steps ==
    ASSUME [Next]_vars
    PROVE  \/ \E r \in Requests : Receive(r)
           \/ \E t \in inflight : CallPrimary(t)
           \/ \E t \in inflight : Answer(t)
           \/ \E t \in inflight : Replicate(t)
           \/ Find \/ EndList \/ ListFails \/ \E k \in ahead : Fetch(k)
           \/ Copy
           \/ Start \/ Signal \/ RunHook \/ Finish \/ UNCHANGED vars
           \/ Die /\ (UNCHANGED stops \/ (stops < MaxStops /\ stops' = stops + 1))
    BY DEF Next, Handle, Reconcile, Terminate, List, Panic, Exit, StartFails, Kill

LEMMA TypeStep == TypeOK /\ [Next]_vars => TypeOK'
    BY Steps, ReceiveType, CallPrimaryType, AnswerType, ReplicateType, ListingType,
       CopyType, ProcessType, EndType

\* The state of the API, of its manager, of reconciliation and of the process
\* has its type: whatever fails, neither store holds what is no object, and
\* no list hands reconciliation a document that could not be decoded.
THEOREM TypeCorrect == Spec => []TypeOK
<1>. QED BY TypeInit, TypeStep, PTL DEF Spec

(***************************************************************************)
(* AcknowledgedReadable needs more than itself.  Every write that the      *)
(* primary store may still see belongs to a request that has not been      *)
(* answered; of the requests for one name that are under way one at most   *)
(* is alone, and then it is the only one; while there is any, nothing is   *)
(* promised of the name.  And a request that is alone, and whose call of   *)
(* the primary store has worked, has left there what it is going to        *)
(* promise.                                                                *)
(***************************************************************************)
Waiting == {t \in inflight : t.at # "secondary"}

NumberedOnce ==
    /\ \A t \in inflight : t.id <= issued
    /\ \A s, t \in inflight : s.id = t.id => s = t
    /\ \A h \in pending : h.id <= issued
    /\ \A h, k \in pending : h.id = k.id => h = k

WaitingPending ==
    \A t \in Waiting : \E h \in pending : h.id = t.id /\ h.url = Target(t.write)

AloneIsAlone == \A h, k \in pending : h.alone /\ h.url = k.url => h = k

PendingUnsettled == \A h \in pending : promise[h.url] = Unsettled

WrittenReadable ==
    \A t \in inflight, h \in pending :
        t.at = "spawn" /\ h.id = t.id /\ h.alone /\ ~ h.failed =>
            Lookup(h.url) = t.write.new

Inv ==
    /\ TypeOK
    /\ NumberedOnce
    /\ WaitingPending
    /\ AloneIsAlone
    /\ PendingUnsettled
    /\ WrittenReadable
    /\ AcknowledgedReadable

\* What a GET finds changes with the contents of the primary store only.
LEMMA LookupFrame ==
    ASSUME content'["primary"] = content["primary"]
    PROVE  \A n : Lookup(n)' = Lookup(n)
    BY DEF Lookup, Read

\* A call of the primary store changes what a GET of its own object finds,
\* and if it has worked a GET finds what was asked for.
LEMMA PrimaryLookup ==
    ASSUME MongoIdIsName, TypeOK, NEW t \in inflight, NEW o \in PrimaryOutcomes(t.write),
           M!Land("primary", t.write, o)
    PROVE  /\ \A n \in Names \ {Target(t.write)} : Lookup(n)' = Lookup(n)
           /\ ~ o.failed => Lookup(Target(t.write))' = t.write.new
<1> DEFINE w   == t.write
           key == Key("mongo", w)
<1>1. ManagerTyped /\ t \in M!Tickets
    BY ManagerType DEF TypeOK, ManagerTyped
<1>2. key = Target(w)
    BY <1>1, TicketShape, RequestShape DEF MongoIdIsName
<1>3. Read = content["primary"] /\ Read' = content'["primary"]
    BY DEF MongoIdIsName, Read
<1>4. content'["primary"] = o.content
    BY <1>1 DEF M!Land, ManagerTyped, M!Legs
<1>5. DOMAIN content["primary"] = Ids
    BY <1>1 DEF ManagerTyped, Contents, KeySpace
<1>6. /\ o.content \in {content["primary"], Apply("mongo", content["primary"], w)}
      /\ ~ o.failed => /\ Accepts("mongo", w)
                       /\ o.content = Apply("mongo", content["primary"], w)
    BY <1>1, PrimaryShape
<1>7. Apply("mongo", content["primary"], w) =
        IF key \in Ids THEN [content["primary"] EXCEPT ![key] = w.new] ELSE content["primary"]
    BY DEF Apply, Accepts, KeySpace
<1>8. Accepts("mongo", w) => key \in Ids
    BY DEF Accepts, KeySpace
<1> HIDE DEF w, key
<1>9. ASSUME NEW n \in Names \ {Target(w)}
      PROVE  Lookup(n)' = Lookup(n)
    BY <1>2, <1>3, <1>4, <1>5, <1>6, <1>7 DEF Lookup
<1>10. ~ o.failed => Lookup(Target(w))' = w.new
    BY <1>2, <1>3, <1>4, <1>5, <1>6, <1>7, <1>8 DEF Lookup
<1>. QED BY <1>9, <1>10 DEF w

LEMMA InvInit == Init => Inv
<1> SUFFICES ASSUME Init PROVE Inv
    OBVIOUS
<1>1. TypeOK /\ pending = {} /\ inflight = {}
    BY TypeInit DEF Init, M!Init
<1>2. \A n \in Names : Lookup(n) = Absent
    BY SameData, Stores, ProvisioningAssumption
       DEF Init, M!Init, M!Legs, Lookup, Read, EmptyStore
<1>. QED BY <1>1, <1>2 DEF Init, Inv, NumberedOnce, WaitingPending, Waiting, AloneIsAlone,
            PendingUnsettled, WrittenReadable, AcknowledgedReadable

LEMMA ReceiveInv ==
    ASSUME Inv, NEW r \in Requests, Receive(r)
    PROVE  Inv'
<1> DEFINE fresh == [id |-> issued + 1, caller |-> issued + 1, at |-> "primary", write |-> Write(r)]
           added == [id |-> issued + 1, url |-> r.url, failed |-> FALSE,
                     alone |-> \A h \in pending : h.url # r.url]
           Kept(h) == [h EXCEPT !.alone = @ /\ h.url # r.url]
<1>1. TypeOK /\ TypeOK' /\ pending \subseteq Handlers /\ issued \in Nat
    BY ReceiveType, ManagerType DEF Inv, TypeOK, ManagerTyped
<1>2. /\ inflight' = inflight \cup {fresh}
      /\ pending' = {Kept(h) : h \in pending} \cup {added}
      /\ promise' = [promise EXCEPT ![r.url] = Unsettled]
      /\ issued' = issued + 1 /\ content' = content
      /\ r.url = Target(fresh.write) /\ r.url \in Names
    BY RequestShape DEF Receive, M!Invoke, Valid
<1>3. ASSUME NEW h \in pending
      PROVE  /\ Kept(h).id = h.id /\ Kept(h).url = h.url /\ Kept(h).failed = h.failed
             /\ Kept(h).alone <=> h.alone /\ h.url # r.url
    BY <1>1 DEF Handlers
<1>4. /\ added.id = issued + 1 /\ added.url = r.url /\ added.failed = FALSE
      /\ added.alone <=> \A h \in pending : h.url # r.url
      /\ fresh.id = issued + 1 /\ fresh.at = "primary"
    OBVIOUS
<1> HIDE DEF fresh, added, Kept
<1>5. \A t \in inflight : t.id \in Nat
    BY <1>1, ManagerType DEF TypeOK, ManagerTyped, M!Tickets
<1>6. \A h \in pending : h.id \in Nat /\ h.url \in Names
    BY <1>1 DEF Handlers
<1>7. NumberedOnce'
    BY <1>1, <1>2, <1>3, <1>4, <1>5, <1>6 DEF Inv, NumberedOnce
<1>8. WaitingPending'
    BY <1>2, <1>3, <1>4 DEF Inv, WaitingPending, Waiting
<1>9. AloneIsAlone'
    BY <1>2, <1>3, <1>4 DEF Inv, AloneIsAlone
<1>10. PendingUnsettled'
  <2>1. DOMAIN promise = Names
    BY <1>1 DEF TypeOK
  <2>. QED BY <1>2, <1>3, <1>4, <1>6, <2>1 DEF Inv, PendingUnsettled
<1>11. WrittenReadable'
  <2>1. \A n : Lookup(n)' = Lookup(n)
    BY <1>2, LookupFrame
  <2>2. SUFFICES ASSUME NEW t \in inflight', NEW h \in pending',
                        t.at = "spawn", h.id = t.id, h.alone, ~ h.failed
                 PROVE  Lookup(h.url)' = t.write.new
    BY DEF WrittenReadable
  <2>3. t \in inflight
    BY <1>2, <1>4, <2>2
  <2>4. PICK k \in pending : h = Kept(k)
    BY <1>1, <1>2, <1>4, <1>5, <2>2, <2>3 DEF Inv, NumberedOnce
  <2>. QED BY <1>3, <2>1, <2>2, <2>3, <2>4 DEF Inv, WrittenReadable
<1>12. AcknowledgedReadable'
  <2>1. \A n : Lookup(n)' = Lookup(n)
    BY <1>2, LookupFrame
  <2>. QED BY <1>1, <1>2, <2>1 DEF Inv, AcknowledgedReadable, TypeOK
<1>. QED BY <1>1, <1>7, <1>8, <1>9, <1>10, <1>11, <1>12 DEF Inv

LEMMA CallPrimaryInv ==
    ASSUME MongoIdIsName, Inv, NEW t \in inflight, CallPrimary(t)
    PROVE  Inv'
<1>1. TypeOK /\ TypeOK' /\ pending \subseteq Handlers
    BY CallPrimaryType DEF Inv, TypeOK
<1>2. PICK o \in PrimaryOutcomes(t.write) :
        /\ M!Land("primary", t.write, o)
        /\ pending' = {[h EXCEPT !.failed = IF h.id = t.id THEN o.failed ELSE @] :
                            h \in pending}
    BY DEF CallPrimary
<1> DEFINE Told(h) == [h EXCEPT !.failed = IF h.id = t.id THEN o.failed ELSE @]
           moved   == [t EXCEPT !.at = "spawn"]
<1>3. /\ t.at = "primary" /\ promise' = promise /\ issued' = issued
      /\ pending' = {Told(h) : h \in pending}
      /\ inflight' = (inflight \ {t}) \cup {moved}
    BY <1>2 DEF CallPrimary, M!Advance
<1>4. ASSUME NEW h \in pending
      PROVE  /\ Told(h).id = h.id /\ Told(h).url = h.url /\ (Told(h).alone <=> h.alone)
             /\ Told(h).failed = IF h.id = t.id THEN o.failed ELSE h.failed
    BY <1>1 DEF Handlers
<1>5. moved.at = "spawn" /\ moved.id = t.id /\ moved.write = t.write
  <2>1. t \in M!Tickets
    BY <1>1, ManagerType DEF TypeOK, ManagerTyped
  <2>. QED BY <2>1 DEF M!Tickets
<1>6. /\ \A n \in Names \ {Target(t.write)} : Lookup(n)' = Lookup(n)
      /\ ~ o.failed => Lookup(Target(t.write))' = t.write.new
    BY <1>1, <1>2, PrimaryLookup
<1> HIDE DEF Told, moved
\* The request that t belongs to.
<1>7. PICK mine \in pending : mine.id = t.id /\ mine.url = Target(t.write)
    BY <1>3 DEF Inv, WaitingPending, Waiting
<1>8. \A h \in pending : h.url \in Names
    BY <1>1 DEF Handlers
<1>9. NumberedOnce'
    BY <1>3, <1>4, <1>5 DEF Inv, NumberedOnce
<1>10. WaitingPending'
    BY <1>3, <1>4, <1>5, <1>7 DEF Inv, WaitingPending, Waiting
<1>11. AloneIsAlone'
    BY <1>3, <1>4 DEF Inv, AloneIsAlone
<1>12. PendingUnsettled'
    BY <1>3, <1>4 DEF Inv, PendingUnsettled
<1>13. WrittenReadable'
  <2>1. SUFFICES ASSUME NEW s \in inflight', NEW h \in pending,
                        s.at = "spawn", h.id = s.id, h.alone, ~ Told(h).failed
                 PROVE  Lookup(h.url)' = s.write.new
    BY <1>3, <1>4 DEF WrittenReadable
  <2>2. CASE s = moved
    BY <1>4, <1>5, <1>6, <1>7, <2>1, <2>2 DEF Inv, NumberedOnce
  <2>3. CASE s # moved
    <3>1. s \in inflight /\ s.id # t.id
      BY <1>3, <2>3 DEF Inv, NumberedOnce
    <3>2. h # mine /\ h.url # Target(t.write)
      BY <1>7, <2>1, <3>1 DEF Inv, AloneIsAlone
    <3>. QED BY <1>4, <1>6, <1>8, <2>1, <3>1, <3>2 DEF Inv, WrittenReadable
  <2>. QED BY <2>2, <2>3
<1>14. AcknowledgedReadable'
    BY <1>3, <1>6, <1>7 DEF Inv, AcknowledgedReadable, PendingUnsettled
<1>. QED BY <1>1, <1>9, <1>10, <1>11, <1>12, <1>13, <1>14 DEF Inv

LEMMA AnswerInv ==
    ASSUME Inv, NEW t \in inflight, Answer(t)
    PROVE  Inv'
<1>1. TypeOK /\ TypeOK' /\ pending \subseteq Handlers
    BY AnswerType DEF Inv, TypeOK
<1>2. PICK h \in pending :
        /\ h.id = t.id
        /\ pending' = pending \ {h}
        /\ promise' = IF h.alone /\ ~ h.failed
                      THEN [promise EXCEPT ![h.url] = t.write.new] ELSE promise
    BY DEF Answer
<1> DEFINE moved == [t EXCEPT !.at = "secondary"]
<1>3. /\ t.at = "spawn" /\ issued' = issued /\ content' = content
      /\ inflight' = (inflight \ {t}) \cup {moved}
    BY Stores DEF Answer, M!SpawnAndReturn, M!Advance
<1>4. moved.at = "secondary" /\ moved.id = t.id
  <2>1. t \in M!Tickets
    BY <1>1, ManagerType DEF TypeOK, ManagerTyped
  <2>. QED BY <2>1 DEF M!Tickets
<1> HIDE DEF moved
<1>5. \A n : Lookup(n)' = Lookup(n)
    BY <1>3, LookupFrame
<1>6. h.url \in Names /\ h.url = Target(t.write)
    BY <1>1, <1>2, <1>3 DEF Handlers, Inv, WaitingPending, Waiting, NumberedOnce
<1>7. NumberedOnce'
    BY <1>2, <1>3, <1>4 DEF Inv, NumberedOnce
<1>8. WaitingPending'
  <2>1. SUFFICES ASSUME NEW s \in inflight', s.at # "secondary"
                 PROVE  \E k \in pending' : k.id = s.id /\ k.url = Target(s.write)
    BY DEF WaitingPending, Waiting
  <2>2. s \in inflight /\ s.id # t.id
    BY <1>3, <1>4, <2>1 DEF Inv, NumberedOnce
  <2>. QED BY <1>2, <2>1, <2>2 DEF Inv, WaitingPending, Waiting
<1>9. AloneIsAlone'
    BY <1>2 DEF Inv, AloneIsAlone
<1>10. PendingUnsettled'
    BY <1>2, <1>6 DEF Inv, PendingUnsettled, AloneIsAlone
<1>11. WrittenReadable'
    BY <1>2, <1>3, <1>4, <1>5 DEF Inv, WrittenReadable
<1>12. AcknowledgedReadable'
  <2>1. h.alone /\ ~ h.failed => Lookup(h.url) = t.write.new
    BY <1>2, <1>3 DEF Inv, WrittenReadable
  <2>. QED BY <1>1, <1>2, <1>5, <2>1 DEF Inv, AcknowledgedReadable, TypeOK
<1>. QED BY <1>1, <1>7, <1>8, <1>9, <1>10, <1>11, <1>12 DEF Inv

\* Steps that leave requests and the primary store alone and start no write.
LEMMA OtherInv ==
    ASSUME Inv, TypeOK', content'["primary"] = content["primary"],
           inflight' \subseteq inflight, issued' = issued,
           UNCHANGED <<pending, promise>>, Waiting' = Waiting
    PROVE  Inv'
<1>1. \A n : Lookup(n)' = Lookup(n)
    BY LookupFrame
<1>2. NumberedOnce'
    BY DEF Inv, NumberedOnce
<1>3. WaitingPending'
    BY DEF Inv, WaitingPending
<1>4. AloneIsAlone' /\ PendingUnsettled'
    BY DEF Inv, AloneIsAlone, PendingUnsettled
<1>5. WrittenReadable'
    BY <1>1 DEF Inv, WrittenReadable
<1>6. AcknowledgedReadable'
    BY <1>1 DEF Inv, AcknowledgedReadable
<1>. QED BY <1>2, <1>3, <1>4, <1>5, <1>6 DEF Inv

\* Requests and goroutines that end with the process leave what has been
\* promised where it is.
LEMMA DieInv ==
    ASSUME Inv, Die, TypeOK'
    PROVE  Inv'
<1>1. /\ pending' = {} /\ inflight' = {} /\ content' = content /\ promise' = promise
    BY DieType DEF Inv
<1>2. \A n : Lookup(n)' = Lookup(n)
    BY <1>1, LookupFrame
<1>. QED BY <1>1, <1>2 DEF Inv, NumberedOnce, WaitingPending, Waiting, AloneIsAlone,
            PendingUnsettled, WrittenReadable, AcknowledgedReadable

LEMMA InvStep == MongoIdIsName /\ Inv /\ [Next]_vars => Inv'
<1> SUFFICES ASSUME MongoIdIsName, Inv, [Next]_vars PROVE Inv'
    OBVIOUS
<1>1. TypeOK'
    BY TypeStep DEF Inv
<1>2. ASSUME NEW t \in inflight, Replicate(t) PROVE Inv'
  <2>1. content'["primary"] = content["primary"]
    BY <1>2, ReplicateType DEF Inv
  <2>. QED BY <1>1, <1>2, <2>1, OtherInv DEF Replicate, M!CallSecondary, Waiting
<1>3. CASE Copy
  <2>1. content'["primary"] = content["primary"]
    BY <1>3, CopyType DEF Inv
  <2>. QED BY <1>1, <1>3, <2>1, OtherInv DEF Copy, Waiting
<1>4. CASE Find \/ EndList \/ ListFails \/ \E k \in ahead : Fetch(k)
    BY <1>1, <1>4, OtherInv
       DEF Find, EndList, ListFails, Fetch, ReconcileFrame, managerVars, Waiting
<1>5. CASE Start \/ Signal \/ RunHook \/ Finish \/ UNCHANGED vars
    BY <1>1, <1>5, OtherInv
       DEF Start, Signal, RunHook, Finish, ReconcileFrame, vars, managerVars, Waiting
<1>. QED BY <1>1, <1>2, <1>3, <1>4, <1>5, Steps, ReceiveInv, CallPrimaryInv, AnswerInv, DieInv

\* What was acknowledged is what a GET finds, for any clients and requests,
\* whatever the stores refuse or lose and however often the process ends: if
\* mongoId is set to the name, and writes and reads use one dataset.
THEOREM Acknowledged == MongoIdIsName => (Spec => []AcknowledgedReadable)
<1> SUFFICES ASSUME MongoIdIsName PROVE Spec => []AcknowledgedReadable
    OBVIOUS
<1>1. Inv /\ [Next]_vars => Inv'
    BY InvStep
<1>2. Inv => AcknowledgedReadable
    BY DEF Inv
<1>. QED BY InvInit, <1>1, <1>2, PTL DEF Spec

(***************************************************************************)
(* Provisioning implements RestockedStore.  As for the manager alone, only *)
(* that tickets carry distinct numbers has to be known of a state.         *)
(***************************************************************************)
TicketsNumbered ==
    /\ \A t \in inflight : t.id <= issued
    /\ \A s, t \in inflight : s.id = t.id => s = t

Numbered == TypeOK /\ TicketsNumbered

LEMMA NumberedInit == Init => Numbered
    BY TypeInit DEF Init, M!Init, Numbered, TicketsNumbered

LEMMA NumberedStep == Numbered /\ [Next]_vars => Numbered'
<1> SUFFICES ASSUME Numbered, [Next]_vars PROVE TicketsNumbered'
    BY TypeStep DEF Numbered
<1>1. issued \in Nat /\ \A t \in inflight : t \in M!Tickets /\ t.id \in Nat
    BY ManagerType DEF Numbered, TypeOK, ManagerTyped, M!Tickets
<1>2. ASSUME inflight' \subseteq inflight, issued' = issued
      PROVE  TicketsNumbered'
    BY <1>2 DEF Numbered, TicketsNumbered
<1>3. ASSUME NEW t \in inflight, NEW stage, M!Advance(t, stage), issued' = issued
      PROVE  TicketsNumbered'
  <2>1. [t EXCEPT !.at = stage].id = t.id
    BY <1>1 DEF M!Tickets
  <2>. QED BY <1>3, <2>1 DEF M!Advance, Numbered, TicketsNumbered
<1>4. ASSUME NEW r \in Requests, Receive(r)
      PROVE  TicketsNumbered'
    BY <1>1, <1>4 DEF Receive, M!Invoke, Numbered, TicketsNumbered
<1>5. ASSUME NEW t \in inflight, CallPrimary(t) \/ Answer(t)
      PROVE  TicketsNumbered'
    BY <1>3, <1>5, Stores DEF CallPrimary, Answer, M!SpawnAndReturn
<1>6. ASSUME NEW t \in inflight, Replicate(t)
      PROVE  TicketsNumbered'
    BY <1>2, <1>6 DEF Replicate, M!CallSecondary
<1>7. CASE Copy
    BY <1>2, <1>7 DEF Copy
<1>8. CASE Die
    BY <1>8, DieType DEF Numbered, TicketsNumbered
<1>9. CASE Find \/ EndList \/ ListFails \/ \E k \in ahead : Fetch(k)
    BY <1>2, <1>9 DEF Find, EndList, ListFails, Fetch, ReconcileFrame, managerVars
<1>10. CASE Start \/ Signal \/ RunHook \/ Finish \/ UNCHANGED vars
    BY <1>2, <1>10 DEF Start, Signal, RunHook, Finish, ReconcileFrame, vars, managerVars
<1>. QED BY <1>4, <1>5, <1>6, <1>7, <1>8, <1>9, <1>10, Steps DEF Numbered

LEMMA RestockedOperators ==
    /\ \A type : Restocked!EmptyStore(type) = EmptyStore(type)
    /\ \A type, docs, w : Restocked!Apply(type, docs, w) = Apply(type, docs, w)
<1>1. \A type : Restocked!KeySpace(type) = KeySpace(type)
    BY DEF Restocked!KeySpace, KeySpace
<1>2. \A type, w : Restocked!Key(type, w) = Key(type, w)
    BY DEF Restocked!Key, Key, Restocked!HazelcastKey, HazelcastKey,
           Restocked!MongoKey, MongoKey, Restocked!RedisKey, RedisKey
<1>3. \A type, w : Restocked!Accepts(type, w) <=> Accepts(type, w)
    BY <1>1, <1>2 DEF Restocked!Accepts, Accepts
<1>4. \A type, docs, w : Restocked!Apply(type, docs, w) = Apply(type, docs, w)
    BY <1>2, <1>3 DEF Restocked!Apply, Apply
<1>5. \A type : Restocked!EmptyStore(type) = EmptyStore(type)
    BY <1>1 DEF Restocked!EmptyStore, EmptyStore
<1>. QED BY <1>4, <1>5

\* The refinement mapping.
Entry(t) == [id |-> t.id, write |-> t.write]
Backlog  == {Entry(t) : t \in {u \in inflight : u.at # "primary"}}
Seen     == {i \in 1..issued : \A t \in inflight : t.at = "primary" => t.id # i}
Copying  == reconciling = "copy"

LEMMA RestockedInit == Init => Restocked!RestockInit
<1> SUFFICES ASSUME Init PROVE Restocked!RestockInit
    OBVIOUS
<1>1. /\ content["primary"] = EmptyStore("mongo")
      /\ content["secondary"] = EmptyStore("hazelcast")
      /\ inflight = {} /\ issued = 0 /\ listed = <<>> /\ reconciling = "no"
    BY SameData, Stores DEF Init, M!Init, M!Legs
<1>. QED BY <1>1, RestockedOperators, ProvisioningAssumption
         DEF Restocked!RestockInit, Restocked!Init

\* What the mapping does not see.
LEMMA Unseen ==
    ASSUME content'["primary"] = content["primary"],
           content'["secondary"] = content["secondary"],
           Backlog' = Backlog, Seen' = Seen, listed' = listed, Copying' = Copying
    PROVE  UNCHANGED Restocked!restockVars
    BY DEF Restocked!restockVars, Restocked!vars, Backlog, Seen, Entry, Copying

\* A list given up, with or without what is in flight.
LEMMA GivenUp ==
    ASSUME content'["primary"] = content["primary"],
           content'["secondary"] = content["secondary"],
           Backlog' \subseteq Backlog, Seen \subseteq Seen', listed' = <<>>
    PROVE  Restocked!GiveUp
    BY DEF Restocked!GiveUp, Restocked!Forget, Backlog, Seen, Entry

\* Steps that leave the manager alone leave its tickets where they are.
LEMMA TicketFrame ==
    ASSUME UNCHANGED <<inflight, issued>>
    PROVE  Backlog' = Backlog /\ Seen' = Seen
    BY DEF Backlog, Seen, Entry

LEMMA ReceiveRestocks ==
    ASSUME Numbered, NEW r \in Requests, Receive(r)
    PROVE  UNCHANGED Restocked!restockVars
<1> DEFINE new == [id |-> issued + 1, caller |-> issued + 1, at |-> "primary", write |-> Write(r)]
<1>1. /\ inflight' = inflight \cup {new} /\ issued' = issued + 1 /\ issued \in Nat
      /\ content' = content /\ listed' = listed /\ reconciling' = reconciling
      /\ new.at = "primary" /\ new.id = issued'
    BY ManagerType DEF Receive, M!Invoke, Numbered, TypeOK, ManagerTyped, listVars
<1> HIDE DEF new
<1>2. \A t \in inflight : t.id \in 1..issued
  <2>1. \A t \in inflight : t.id \in Nat \ {0}
    BY ManagerType DEF Numbered, TypeOK, ManagerTyped, M!Tickets
  <2>. QED BY <1>1, <2>1 DEF Numbered, TicketsNumbered
<1>3. Backlog' = Backlog
  <2>1. {u \in inflight' : u.at # "primary"} = {u \in inflight : u.at # "primary"}
    BY <1>1
  <2>. QED BY <2>1 DEF Backlog, Entry
<1>4. Seen' = Seen
    BY <1>1, <1>2 DEF Seen
<1>5. listed' = listed /\ Copying' = Copying
    BY <1>1 DEF Copying
<1>. QED BY <1>1, <1>3, <1>4, <1>5, Unseen

\* The tickets of inflight under the mapping.
LEMMA EntryShape ==
    ASSUME Numbered
    PROVE  /\ \A t \in inflight : /\ t \in M!Tickets /\ t.id \in 1..issued
                                  /\ Entry(t).id = t.id /\ Entry(t).write = t.write
           /\ \A s, t \in inflight : Entry(s) = Entry(t) => s = t
<1>1. \A t \in inflight : t \in M!Tickets /\ t.id \in Nat \ {0} /\ issued \in Nat
    BY ManagerType DEF Numbered, TypeOK, ManagerTyped, M!Tickets
<1>2. \A t : Entry(t).id = t.id /\ Entry(t).write = t.write
    BY DEF Entry
<1>. QED BY <1>1, <1>2 DEF Numbered, TicketsNumbered

LEMMA PutRestocks ==
    ASSUME Numbered, NEW t \in inflight, CallPrimary(t)
    PROVE  Restocked!Mirrored
<1> DEFINE s == [t EXCEPT !.at = "spawn"]
<1>1. /\ inflight' = (inflight \ {t}) \cup {s} /\ issued' = issued
      /\ listed' = listed /\ reconciling' = reconciling
      /\ t.at = "primary" /\ s.at = "spawn" /\ s.id = t.id /\ s.write = t.write
  <2>1. t \in M!Tickets
    BY EntryShape
  <2>. QED BY <2>1 DEF CallPrimary, M!Advance, M!Tickets
<1> HIDE DEF s
<1>2. /\ content'["primary"] \in {content["primary"],
                                  Apply("mongo", content["primary"], t.write)}
      /\ content'["secondary"] = content["secondary"]
  <2>1. ManagerTyped /\ t \in M!Tickets
    BY ManagerType DEF Numbered, TypeOK, ManagerTyped
  <2>2. PICK o \in PrimaryOutcomes(t.write) : M!Land("primary", t.write, o)
    BY DEF CallPrimary
  <2>. QED BY <2>1, <2>2, PrimaryShape, LandType, Stores DEF M!Legs
<1>3. Backlog' = Backlog \cup {Entry(t)}
    BY <1>1 DEF Backlog, Entry
<1>4. Entry(t) \notin Backlog
    BY <1>1, EntryShape DEF Backlog
<1>5. t.id \notin Seen /\ Seen' = Seen \cup {t.id}
    BY <1>1, EntryShape DEF Seen, Numbered, TicketsNumbered
<1>6. listed' = listed /\ Copying' = Copying
    BY <1>1 DEF Copying
<1>7. Entry(t).id = t.id /\ Entry(t).write = t.write /\ Entry(t) \in Backlog' \ Backlog
    BY <1>3, <1>4, EntryShape
<1>. QED BY <1>2, <1>3, <1>5, <1>6, <1>7, RestockedOperators, ProvisioningAssumption
         DEF Restocked!Mirrored, Restocked!Next, Restocked!Put, Backlog, Seen, Entry, Copying

LEMMA AnswerRestocks ==
    ASSUME Numbered, NEW t \in inflight, Answer(t)
    PROVE  UNCHANGED Restocked!restockVars
<1> DEFINE s == [t EXCEPT !.at = "secondary"]
<1>1. /\ inflight' = (inflight \ {t}) \cup {s} /\ issued' = issued
      /\ content' = content /\ listed' = listed /\ reconciling' = reconciling
      /\ t.at = "spawn" /\ s.at = "secondary" /\ s.id = t.id /\ s.write = t.write
  <2>1. t \in M!Tickets
    BY EntryShape
  <2>. QED BY <2>1, Stores DEF Answer, M!SpawnAndReturn, M!Advance, M!Tickets, listVars
<1> HIDE DEF s
<1>2. Backlog' = Backlog
    BY <1>1 DEF Backlog, Entry
<1>3. Seen' = Seen
    BY <1>1 DEF Seen
<1>4. listed' = listed /\ Copying' = Copying
    BY <1>1 DEF Copying
<1>. QED BY <1>1, <1>2, <1>3, <1>4, Unseen

LEMMA LandRestocks ==
    ASSUME Numbered, NEW t \in inflight, Replicate(t)
    PROVE  Restocked!Mirrored
<1>1. /\ inflight' = inflight \ {t} /\ issued' = issued /\ t.at = "secondary"
      /\ listed' = listed /\ reconciling' = reconciling
    BY DEF Replicate, M!CallSecondary, listVars
<1>2. /\ content'["secondary"] \in {content["secondary"],
                                    Apply("hazelcast", content["secondary"], t.write)}
      /\ content'["primary"] = content["primary"]
  <2>1. ManagerTyped /\ t \in M!Tickets
    BY ManagerType DEF Numbered, TypeOK, ManagerTyped
  <2>2. PICK o \in M!Outcomes("secondary", t.write) : M!Land("secondary", t.write, o)
    BY DEF Replicate, M!CallSecondary, M!CallStore
  <2>. QED BY <2>1, <2>2, OutcomeShape, LandType, Stores DEF M!Legs
<1>3. Entry(t) \in Backlog /\ Backlog' = Backlog \ {Entry(t)}
    BY <1>1, EntryShape DEF Backlog
<1>4. Seen' = Seen
    BY <1>1 DEF Seen
<1>5. listed' = listed /\ Copying' = Copying
    BY <1>1 DEF Copying
<1>6. Entry(t).write = t.write
    BY EntryShape
<1>. QED BY <1>2, <1>3, <1>4, <1>5, <1>6, RestockedOperators, ProvisioningAssumption
         DEF Restocked!Mirrored, Restocked!Next, Restocked!Land, Backlog, Seen, Entry, Copying

\* What the cursor finds is in the primary store.
LEMMA FetchRestocks ==
    ASSUME Numbered, NEW k \in ahead, Fetch(k)
    PROVE  \/ \E o \in Restocked!Stocked : Restocked!Load(o)
           \/ UNCHANGED Restocked!restockVars
<1>1. UNCHANGED <<content, inflight, issued, reconciling>> /\ reconciling = "list"
    BY DEF Fetch, ReconcileFrame, managerVars
<1>2. Backlog' = Backlog /\ Seen' = Seen /\ Copying = FALSE /\ Copying' = FALSE
    BY <1>1, TicketFrame DEF Copying
<1>3. CASE listed' = listed
    BY <1>1, <1>2, <1>3, Unseen
<1>4. CASE k \in Filed /\ listed' = Append(listed, Read[k])
  <2>1. Read[k] \in Restocked!Stocked
    BY <1>4 DEF Filed, Read, EmptyStore, Restocked!Stocked
  <2>2. UNCHANGED Restocked!vars
    BY <1>1, <1>2 DEF Restocked!vars, Backlog, Seen, Entry
  <2>3. Restocked!Load(Read[k])
    BY <1>2, <1>4, <2>2 DEF Restocked!Load, Copying
  <2>. QED BY <2>1, <2>3
<1>. QED BY <1>3, <1>4 DEF Fetch

LEMMA ListRestocks ==
    ASSUME Numbered, Find \/ EndList \/ ListFails
    PROVE  \/ Restocked!Depart
           \/ Restocked!GiveUp
           \/ UNCHANGED Restocked!restockVars
<1>1. UNCHANGED <<content, inflight, issued>>
    BY DEF Find, EndList, ListFails, ReconcileFrame, managerVars
<1>2. Backlog' = Backlog /\ Seen' = Seen
    BY <1>1, TicketFrame
<1>3. CASE Find
  <2>1. listed' = listed /\ Copying' = Copying
    BY <1>3 DEF Find, Copying
  <2>. QED BY <1>1, <1>2, <2>1, Unseen
<1>4. CASE EndList
  <2>1. listed' = listed /\ Copying' = TRUE
    BY <1>4 DEF EndList, Copying
  <2>. QED BY <1>1, <1>2, <2>1
           DEF Restocked!Depart, Restocked!vars, Backlog, Seen, Entry, Copying
<1>5. CASE ListFails
  <2>1. listed' = <<>> /\ Copying' \in BOOLEAN
    BY <1>5 DEF ListFails, Copying
  <2>. QED BY <1>1, <1>2, <2>1, GivenUp
<1>. QED BY <1>3, <1>4, <1>5

LEMMA CopyRestocks ==
    ASSUME Numbered, Copy
    PROVE  Restocked!Copy \/ Restocked!GiveUp
<1>1. /\ UNCHANGED <<inflight, issued, reconciling>>
      /\ reconciling = "copy" /\ listed # <<>>
      /\ content'["primary"] = content["primary"]
    BY CopyType DEF Copy, Numbered
<1>2. Copying = TRUE /\ Copying' = TRUE /\ Backlog' = Backlog /\ Seen' = Seen
    BY <1>1, TicketFrame DEF Copying
<1>3. CASE "secondary" \in open
  <2>1. listed' = Tail(listed)
    BY <1>3 DEF Copy
  <2>2. content'["secondary"] \in {content["secondary"], Apply("hazelcast", content["secondary"],
                [op |-> "create", old |-> Absent, new |-> Head(listed)])}
    <3>1. DOMAIN content = M!Legs
      BY ManagerType DEF Numbered, TypeOK, ManagerTyped
    <3>. QED BY <1>3, <3>1, ProvisioningAssumption DEF Copy, M!Legs
  <2>. QED BY <1>1, <1>2, <2>1, <2>2, RestockedOperators, ProvisioningAssumption
           DEF Restocked!Copy, Backlog, Seen, Entry, Copying
<1>4. CASE "secondary" \notin open
  <2>1. listed' = <<>> /\ content' = content
    BY <1>4 DEF Copy
  <2>. QED BY <1>1, <1>2, <2>1, GivenUp
<1>. QED BY <1>3, <1>4

LEMMA EndRestocks ==
    ASSUME Numbered, Die
    PROVE  Restocked!GiveUp
<1>1. inflight' = {} /\ content' = content /\ issued' = issued /\ listed' = <<>>
      /\ reconciling' = "no"
    BY DieType DEF Numbered
<1>2. Backlog' \subseteq Backlog /\ Seen \subseteq Seen'
    BY <1>1 DEF Backlog, Seen
<1>3. Copying' \in BOOLEAN
    BY DEF Copying
<1>. QED BY <1>1, <1>2, <1>3, GivenUp

LEMMA RestockedStep == Numbered /\ [Next]_vars => [Restocked!RestockNext]_Restocked!restockVars
<1> SUFFICES ASSUME Numbered, [Next]_vars
             PROVE  [Restocked!RestockNext]_Restocked!restockVars
    OBVIOUS
<1>1. TypeOK'
    BY TypeStep DEF Numbered
<1>2. CASE Finish
  <2>1. listed' = <<>> /\ UNCHANGED <<content, inflight, issued>>
    BY <1>2 DEF Finish, ReconcileFrame, managerVars
  <2>2. Restocked!GiveUp
    BY <2>1, TicketFrame, GivenUp
  <2>. QED BY <2>2 DEF Restocked!RestockNext
<1>3. CASE Start \/ Signal \/ RunHook \/ UNCHANGED vars
  <2>1. UNCHANGED <<content, inflight, issued, reconciling, listed>>
    BY <1>3 DEF Start, Signal, RunHook, vars, managerVars, listVars
  <2>2. Copying' = Copying
    BY <2>1 DEF Copying
  <2>. QED BY <2>1, <2>2, TicketFrame, Unseen
<1>. QED BY <1>1, <1>2, <1>3, Steps, ReceiveRestocks, PutRestocks, AnswerRestocks,
            FetchRestocks, ListRestocks, CopyRestocks, LandRestocks, EndRestocks
         DEF Restocked!RestockNext

\* Requests, manager, reconciliation and process together implement
\* RestockedStore: beside the writes of clients, which reach the cache once
\* each and after the primary was tried, the cache gets only what the cursor
\* of one list at a time has found in the primary, at moments between which
\* clients may write, and each find once.
THEOREM Restocks == Spec => RestockSpec
<1>. QED BY NumberedInit, NumberedStep, RestockedInit, RestockedStep, PTL
         DEF Spec, RestockSpec, Restocked!RestockSpec
=============================================================================
