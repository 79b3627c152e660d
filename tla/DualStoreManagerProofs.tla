----------------------- MODULE DualStoreManagerProofs -----------------------
(***************************************************************************)
(* Proofs about DualStoreManager, for any sets of names, identities,       *)
(* versions, callers and writes, any bound on the number of calls, any     *)
(* choice of stores and any faults.                                        *)
(***************************************************************************)
EXTENDS DualStoreManager, TLAPS

(***************************************************************************)
(* Writes and the keys they are filed under.                               *)
(***************************************************************************)

\* A write of WriteSet is a create, an update or a delete, about one object.
LEMMA WriteShape ==
    ASSUME NEW w \in WriteSet
    PROVE  /\ Subject(w) \in Objects
           /\ Subject(w) \in Mentioned
           /\ Target(w) \in Names
           /\ w.new \in Objects \cup {Absent}
           /\ w.new # Absent => w.new = Subject(w)
           /\ w.op # "create" => w.old \in Mentioned /\ w.old \in Objects
                                    /\ w.old.name = Target(w)
           /\ w.op # "delete" => w.new = Subject(w)
           /\ w.op \in {"create", "update", "delete"}
<1>1. w \in Creates \/ w \in Updates \/ w \in Deletes
    BY ManagerAssumption DEF Writes
<1>2. Subject(w) \in Objects /\ w.op \in {"create", "update", "delete"}
    BY <1>1 DEF Creates, Updates, Deletes, Subject
<1>3. Subject(w) \in Mentioned
    BY DEF Mentioned
<1>4. Target(w) \in Names
    BY <1>2 DEF Target, Objects
<1>5. w.op # "create" => w.old \in Mentioned /\ w.old \in Objects
                            /\ w.old.name = Target(w)
    BY <1>1 DEF Creates, Updates, Deletes, Mentioned, Target, Subject
<1>6. /\ w.new \in Objects \cup {Absent}
      /\ w.new # Absent => w.new = Subject(w)
      /\ w.op # "delete" => w.new = Subject(w)
    BY <1>1 DEF Creates, Updates, Deletes, Subject
<1>. QED BY <1>2, <1>3, <1>4, <1>5, <1>6

\* The key under which a store files a document.
FiledUnder(type, o) == IF type = "mongo" THEN o.id ELSE o.name

\* Every document of a store is one a write mentioned, filed under its key.
WellFiled(type, docs) ==
    \A k \in DOMAIN docs :
        docs[k] # Absent => docs[k] \in Mentioned /\ FiledUnder(type, docs[k]) = k

\* With stable identities it does not matter which of the two objects of an
\* update a store takes its key from.
LEMMA KeyOfSubject ==
    ASSUME StableIdentity, NEW w \in WriteSet, NEW type \in StoreTypes
    PROVE  Key(type, w) = FiledUnder(type, Subject(w))
<1>1. w.op # "create" => w.old.id = Subject(w).id
    BY WriteShape DEF StableIdentity, Target
<1>2. CASE type = "hazelcast"
    BY <1>2, WriteShape DEF Key, HazelcastKey, FiledUnder, Subject
<1>3. CASE type = "mongo"
    BY <1>1, <1>3, WriteShape DEF Key, MongoKey, FiledUnder, Subject
<1>4. CASE type = "redis"
    BY <1>4, WriteShape DEF Key, RedisKey, FiledUnder, Target
<1>. QED BY <1>2, <1>3, <1>4 DEF StoreTypes

\* A write keeps the contents of a store contents of that store.
LEMMA ApplyType ==
    ASSUME NEW type, NEW docs \in Contents(type), NEW w \in WriteSet
    PROVE  Apply(type, docs, w) \in Contents(type)
    BY WriteShape DEF Apply, Contents, Accepts

\* An accepted write leaves exactly what it asks for of its own object and
\* does not touch the documents of another.
LEMMA ApplyDocuments ==
    ASSUME StableIdentity, NEW type \in StoreTypes, NEW docs \in Contents(type),
           NEW w \in WriteSet, WellFiled(type, docs), Accepts(type, w)
    PROVE  LET after == Apply(type, docs, w)
           IN  /\ WellFiled(type, after)
               /\ Documents(after, Target(w)) = {w.new} \ {Absent}
               /\ \A m \in Names \ {Target(w)} :
                    Documents(after, m) = Documents(docs, m)
<1> DEFINE after == Apply(type, docs, w)
           key   == Key(type, w)
<1>1. /\ key \in KeySpace(type)
      /\ after = [docs EXCEPT ![key] = w.new]
      /\ DOMAIN docs = KeySpace(type)
      /\ DOMAIN after = KeySpace(type)
      /\ after[key] = w.new
      /\ \A k \in KeySpace(type) \ {key} : after[k] = docs[k]
    BY DEF Accepts, Apply, Contents
<1>2. key = FiledUnder(type, Subject(w))
    BY KeyOfSubject
<1>3. /\ w.new # Absent => w.new = Subject(w)
      /\ Subject(w) \in Mentioned /\ Subject(w).name = Target(w)
    BY WriteShape DEF Target
<1> HIDE DEF after, key
<1>4. WellFiled(type, after)
    BY <1>1, <1>2, <1>3 DEF WellFiled
<1>5. ASSUME NEW o \in Mentioned, o.name = Target(w)
      PROVE  FiledUnder(type, o) = key
    BY <1>2, <1>3, <1>5 DEF StableIdentity, FiledUnder
<1>6. ASSUME NEW o \in Mentioned, FiledUnder(type, o) = key
      PROVE  o.name = Target(w)
    BY <1>1, <1>2, <1>3, <1>6, BackendsAssumption
       DEF StableIdentity, FiledUnder, KeySpace
<1>7. Documents(after, Target(w)) = {w.new} \ {Absent}
  <2>1. ASSUME NEW k \in KeySpace(type), after[k] # Absent, after[k].name = Target(w)
        PROVE  k = key
    BY <1>1, <1>4, <1>5, <2>1 DEF WellFiled
  <2>. QED BY <1>1, <1>3, <2>1 DEF Documents
<1>8. ASSUME NEW m \in Names \ {Target(w)}
      PROVE  Documents(after, m) = Documents(docs, m)
  <2>1. after[key] # Absent => after[key].name # m
    BY <1>1, <1>3
  <2>2. docs[key] # Absent => docs[key].name # m
    BY <1>1, <1>6 DEF WellFiled
  <2>. QED BY <1>1, <2>1, <2>2 DEF Documents
<1>. QED BY <1>4, <1>7, <1>8 DEF after

(***************************************************************************)
(* Types.  A goroutine for the secondary store exists only where there is  *)
(* a secondary store.                                                      *)
(***************************************************************************)
Typed ==
    /\ TypeOK
    /\ \A t \in inflight : t.at = "secondary" => HasSecondary

\* What a call of a store may do, without its cases.
LEMMA CallStoreEffect ==
    ASSUME TypeOK, NEW leg \in Legs, NEW w \in WriteSet, CallStore(leg, w)
    PROVE  /\ content' = [content EXCEPT ![leg] = content'[leg]]
           /\ content'[leg] \in {content[leg], Apply(Type[leg], content[leg], w)}
           /\ \/ /\ trusted' = trusted
                 /\ Accepts(Type[leg], w)
                 /\ content'[leg] = Apply(Type[leg], content[leg], w)
              \/ trusted' = [trusted EXCEPT ![leg] = @ \ {Target(w)}]
<1> DEFINE before == content[leg]
           after  == Apply(Type[leg], before, w)
<1>1. PICK o \in Outcomes(leg, w) :
        /\ content' = [content EXCEPT ![leg] = o.content]
        /\ trusted' = IF o.failed
                      THEN [trusted EXCEPT ![leg] = @ \ {Target(w)}]
                      ELSE trusted
    BY DEF CallStore, Land
<1>2. content'[leg] = o.content /\ DOMAIN content = Legs
    BY <1>1 DEF TypeOK
<1>3. /\ o.content \in {before, after}
      /\ o.failed \in BOOLEAN
      /\ ~ o.failed => Accepts(Type[leg], w) /\ o.content = after
  <2>1. CASE Accepts(Type[leg], w) /\ o = [content |-> after, failed |-> FALSE]
    BY <2>1
  <2>2. CASE o \in [content : {before, after}, failed : {TRUE}]
    BY <2>2
  <2>3. CASE o = [content |-> before, failed |-> TRUE]
    BY <2>3
  <2>. QED BY <2>1, <2>2, <2>3 DEF Outcomes
<1>. QED BY <1>1, <1>2, <1>3

LEMMA CallStoreType ==
    ASSUME TypeOK, NEW leg \in Legs, NEW w \in WriteSet, CallStore(leg, w)
    PROVE  /\ content' = [l \in Legs |-> content'[l]]
           /\ \A l \in Legs : content'[l] \in Contents(Type[l])
           /\ trusted' \in [Legs -> SUBSET Names]
<1>1. Apply(Type[leg], content[leg], w) \in Contents(Type[leg])
    BY ApplyType DEF TypeOK
<1>2. content'[leg] \in Contents(Type[leg])
    BY <1>1, CallStoreEffect DEF TypeOK
<1>3. /\ content' = [content EXCEPT ![leg] = content'[leg]]
      /\ trusted' = trusted \/ trusted' = [trusted EXCEPT ![leg] = @ \ {Target(w)}]
    BY CallStoreEffect
<1>4. content = [l \in Legs |-> content[l]] /\ trusted \in [Legs -> SUBSET Names]
    BY DEF TypeOK
<1>5. DOMAIN content = Legs
    BY <1>4
<1>. QED BY <1>2, <1>3, <1>4, <1>5 DEF TypeOK

LEMMA TypedInit == Init => Typed
<1> SUFFICES ASSUME Init PROVE Typed
    OBVIOUS
<1>1. \A type : EmptyStore(type) \in Contents(type)
    BY DEF EmptyStore, Contents
<1>2. \A leg \in Legs : content[leg] \in Contents(Type[leg])
    BY <1>1 DEF Init
<1>3. content = [leg \in Legs |-> content[leg]]
    BY DEF Init
<1>4. issued \in 0..MaxWrites
  <2>1. MaxWrites \in Nat
    BY ManagerAssumption
  <2>. QED BY <2>1 DEF Init
<1>. QED BY <1>2, <1>3, <1>4 DEF Init, Typed, TypeOK

LEMMA AdvanceType ==
    ASSUME TypeOK, NEW t \in inflight, NEW stage \in Stages, Advance(t, stage)
    PROVE  inflight' \subseteq Tickets
    BY DEF TypeOK, Advance, Tickets

LEMMA TypedStep == Typed /\ [Next]_vars => Typed'
<1> SUFFICES ASSUME Typed, [Next]_vars PROVE Typed'
    OBVIOUS
<1> USE DEF Typed
<1>1. ASSUME NEW c \in Callers, NEW w \in WriteSet, Invoke(c, w)
      PROVE  Typed'
  <2>1. issued \in Nat /\ issued' = issued + 1 /\ issued' \in 1..MaxWrites
    <3>1. issued \in 0..MaxWrites /\ issued < MaxWrites /\ issued' = issued + 1
      BY <1>1 DEF Invoke, TypeOK
    <3>2. MaxWrites \in Nat
      BY ManagerAssumption
    <3>. QED BY <3>1, <3>2
  <2>2. inflight' \subseteq Tickets
    BY <1>1, <2>1 DEF Invoke, TypeOK, Tickets, Stages
  <2>3. wish' \in [Names -> Objects \cup {Absent}]
    BY <1>1, WriteShape DEF Invoke, TypeOK
  <2>4. trusted' \in [Legs -> SUBSET Names]
    BY <1>1, WriteShape DEF Invoke, TypeOK
  <2>5. \A t \in inflight' : t.at = "secondary" => HasSecondary
    BY <1>1 DEF Invoke
  <2>. QED BY <1>1, <2>1, <2>2, <2>3, <2>4, <2>5 DEF Invoke, TypeOK
<1>2. ASSUME NEW t \in inflight, CallPrimary(t)
      PROVE  Typed'
  <2>1. t.write \in WriteSet
    BY DEF TypeOK, Tickets
  <2>2. inflight' \subseteq Tickets
    BY <1>2, AdvanceType DEF CallPrimary, Stages
  <2>3. \A s \in inflight' : s.at = "secondary" => HasSecondary
    BY <1>2 DEF CallPrimary, Advance, TypeOK, Tickets
  <2>. QED BY <1>2, <2>1, <2>2, <2>3, CallStoreType DEF CallPrimary, Legs, TypeOK
<1>3. ASSUME NEW t \in inflight, SpawnAndReturn(t)
      PROVE  Typed'
  <2>1. inflight' \subseteq Tickets
    BY <1>3, AdvanceType DEF SpawnAndReturn, Stages, TypeOK
  <2>2. \A s \in inflight' : s.at = "secondary" => HasSecondary
    BY <1>3 DEF SpawnAndReturn, Advance, TypeOK, Tickets
  <2>. QED BY <1>3, <2>1, <2>2 DEF SpawnAndReturn, TypeOK
<1>4. ASSUME NEW t \in inflight, CallSecondary(t)
      PROVE  Typed'
  <2>1. t.write \in WriteSet
    BY DEF TypeOK, Tickets
  <2>. QED BY <1>4, <2>1, CallStoreType DEF CallSecondary, Legs, TypeOK
<1>5. CASE Crash
    BY <1>5 DEF Crash, TypeOK
<1>6. CASE UNCHANGED vars
    BY <1>6 DEF vars, TypeOK, HasSecondary
<1>. QED BY <1>1, <1>2, <1>3, <1>4, <1>5, <1>6 DEF Next, Step, Done

\* The manager's state has its type: no call leaves a document outside the
\* key space of its store (createFilter of mongo.go sees to that).
THEOREM TypeCorrect == Spec => []TypeOK
<1>. QED BY TypedInit, TypedStep, PTL DEF Spec, Typed

(***************************************************************************)
(* LegsObey needs more than itself.  Of an object that some store has to   *)
(* obey at most one write is in flight, the one whose wish is recorded;    *)
(* and the store holds that wish as soon as its own call is done, even     *)
(* while the other store's is not.                                         *)
(***************************************************************************)
CallDone(leg, n) ==
    IF leg = "primary" THEN \A t \in On(n) : t.at # "primary" ELSE On(n) = {}

Active(leg) == leg = "secondary" => HasSecondary

AloneInFlight ==
    \A leg \in Legs : \A n \in trusted[leg] : \A t \in On(n) :
        t.write.new = wish[n] /\ On(n) = {t}

Obedient ==
    \A leg \in Legs : \A n \in trusted[leg] :
        CallDone(leg, n) /\ Active(leg) =>
            Documents(content[leg], n) = {wish[n]} \ {Absent}

DocumentsFiled ==
    \A leg \in Legs : Active(leg) => WellFiled(Type[leg], content[leg])

NumberedOnce ==
    \A s, t \in inflight : s.id = t.id => s = t

NumbersIssued ==
    \A t \in inflight : t.id \in 1..issued

Inv == Typed /\ AloneInFlight /\ Obedient /\ DocumentsFiled

LEMMA ActiveType ==
    ASSUME NEW leg \in Legs, Active(leg)
    PROVE  Type[leg] \in StoreTypes
<1>1. PrimaryType \in StoreTypes /\ SecondaryType \in StoreTypes \cup {""}
    BY ManagerAssumption
<1>. QED BY <1>1 DEF Active, HasSecondary, Type, Legs

\* One call of one store: other objects are untouched, and the object of the
\* write is what the write asks for unless the store is no longer trusted.
LEMMA CallStoreDocuments ==
    ASSUME StableIdentity, TypeOK, NEW leg \in Legs, Active(leg),
           WellFiled(Type[leg], content[leg]),
           NEW w \in WriteSet, CallStore(leg, w)
    PROVE  /\ WellFiled(Type[leg], content'[leg])
           /\ \A m \in Names \ {Target(w)} :
                Documents(content'[leg], m) = Documents(content[leg], m)
           /\ Target(w) \in trusted'[leg] =>
                Documents(content'[leg], Target(w)) = {w.new} \ {Absent}
<1>1. Type[leg] \in StoreTypes /\ content[leg] \in Contents(Type[leg])
    BY ActiveType DEF TypeOK
<1>2. trusted \in [Legs -> SUBSET Names]
    BY DEF TypeOK
<1>3. CASE /\ Accepts(Type[leg], w)
           /\ content'[leg] = Apply(Type[leg], content[leg], w)
    BY <1>1, <1>3, ApplyDocuments
<1>4. CASE /\ content'[leg] = content[leg]
           /\ trusted' = [trusted EXCEPT ![leg] = @ \ {Target(w)}]
    BY <1>2, <1>4
<1>5. Accepts(Type[leg], w) \/ Apply(Type[leg], content[leg], w) = content[leg]
    BY DEF Apply
<1>. QED BY <1>3, <1>4, <1>5, CallStoreEffect

LEMMA CallStoreFrame ==
    ASSUME TypeOK, NEW leg \in Legs, NEW w \in WriteSet, CallStore(leg, w)
    PROVE  /\ \A l \in Legs \ {leg} : content'[l] = content[l]
           /\ \A l \in Legs : trusted'[l] \subseteq trusted[l]
<1>1. DOMAIN content = Legs /\ trusted \in [Legs -> SUBSET Names]
    BY DEF TypeOK
<1>2. /\ content' = [content EXCEPT ![leg] = content'[leg]]
      /\ \/ trusted' = trusted
         \/ trusted' = [trusted EXCEPT ![leg] = @ \ {Target(w)}]
    BY CallStoreEffect
<1>. QED BY <1>1, <1>2

\* How the writes in flight for an object change when one of them moves on.
LEMMA OnAdvance ==
    ASSUME TypeOK, NEW t \in inflight, NEW stage \in Stages, Advance(t, stage)
    PROVE  LET s == [t EXCEPT !.at = stage]
           IN  /\ s.at = stage /\ s.write = t.write
               /\ \A n \in Names :
                    On(n)' = IF n = Target(t.write) THEN (On(n) \ {t}) \cup {s}
                                                    ELSE On(n)
<1> DEFINE s == [t EXCEPT !.at = stage]
<1>1. t \in Tickets
    BY DEF TypeOK
<1>2. s.at = stage /\ s.write = t.write
    BY <1>1 DEF Tickets
<1>3. inflight' = (inflight \ {t}) \cup {s}
    BY DEF Advance
<1> HIDE DEF s
<1>4. ASSUME NEW n \in Names
      PROVE  On(n)' = IF n = Target(t.write) THEN (On(n) \ {t}) \cup {s}
                                             ELSE On(n)
    BY <1>2, <1>3 DEF On
<1>. QED BY <1>2, <1>4 DEF s

LEMMA OnRemove ==
    ASSUME NEW t \in inflight, inflight' = inflight \ {t}
    PROVE  \A n \in Names :
             On(n)' = IF n = Target(t.write) THEN On(n) \ {t} ELSE On(n)
    BY DEF On

LEMMA InvInit == Init => Inv
<1> SUFFICES ASSUME Init PROVE Inv
    OBVIOUS
<1>1. \A n : On(n) = {}
    BY DEF Init, On
<1>2. \A leg \in Legs : content[leg] = EmptyStore(Type[leg])
    BY DEF Init
<1>3. \A type, n : Documents(EmptyStore(type), n) = {} /\ WellFiled(type, EmptyStore(type))
    BY DEF Documents, EmptyStore, WellFiled
<1>4. AloneInFlight /\ DocumentsFiled
    BY <1>1, <1>2, <1>3 DEF AloneInFlight, DocumentsFiled
<1>5. Obedient
    BY <1>2, <1>3 DEF Obedient, Init
<1>. QED BY <1>4, <1>5, TypedInit DEF Inv

(***************************************************************************)
(* Each action preserves the invariant.                                    *)
(***************************************************************************)
LEMMA InvInvoke ==
    ASSUME Inv, NEW c \in Callers, NEW w \in WriteSet, Invoke(c, w)
    PROVE  AloneInFlight' /\ Obedient' /\ DocumentsFiled'
<1> DEFINE new == [id |-> issued + 1, caller |-> c, at |-> "primary", write |-> w]
<1> USE DEF Inv
<1>1. new.at = "primary" /\ new.write = w
    OBVIOUS
<1>2. inflight' = inflight \cup {new} /\ content' = content
    BY DEF Invoke
<1> HIDE DEF new
<1>3. \A n \in Names :
        On(n)' = IF n = Target(w) THEN On(n) \cup {new} ELSE On(n)
    BY <1>1, <1>2 DEF On
<1>4. /\ Target(w) \in Names
      /\ trusted \in [Legs -> SUBSET Names]
      /\ wish \in [Names -> Objects \cup {Absent}]
    BY WriteShape DEF Typed, TypeOK
<1>5. /\ wish' = [wish EXCEPT ![Target(w)] = w.new]
      /\ \A leg \in Legs : trusted'[leg] =
            IF On(Target(w)) = {} THEN trusted[leg] \cup {Target(w)}
                                  ELSE trusted[leg] \ {Target(w)}
    BY DEF Invoke
<1>6. ASSUME NEW leg \in Legs, NEW n \in trusted'[leg]
      PROVE  \/ /\ n = Target(w) /\ On(n)' = {new} /\ wish'[n] = w.new
                /\ ~ CallDone(leg, n)'
             \/ /\ n # Target(w) /\ n \in trusted[leg] /\ On(n)' = On(n)
                /\ wish'[n] = wish[n] /\ (CallDone(leg, n)' => CallDone(leg, n))
  <2>1. n \in Names
    BY <1>4, <1>5
  <2>2. CASE n = Target(w)
    <3>1. On(n) = {}
      BY <1>5, <2>2
    <3>2. On(n)' = {new}
      BY <1>3, <1>4, <2>2, <3>1
    <3>3. wish'[n] = w.new
      BY <1>4, <1>5, <2>2
    <3>4. ~ CallDone(leg, n)'
      BY <1>1, <3>2 DEF CallDone
    <3>. QED BY <2>2, <3>2, <3>3, <3>4
  <2>3. CASE n # Target(w)
    BY <1>3, <1>4, <1>5, <2>1, <2>3 DEF CallDone
  <2>. QED BY <2>2, <2>3
<1>7. AloneInFlight'
    BY <1>1, <1>6 DEF AloneInFlight
<1>8. Obedient'
    BY <1>2, <1>6 DEF Obedient, Active, HasSecondary
<1>9. DocumentsFiled'
    BY <1>2 DEF DocumentsFiled, Active, HasSecondary, WellFiled
<1>. QED BY <1>7, <1>8, <1>9

LEMMA InvCallPrimary ==
    ASSUME StableIdentity, Inv, NEW t \in inflight, CallPrimary(t)
    PROVE  AloneInFlight' /\ Obedient' /\ DocumentsFiled'
<1> DEFINE w == t.write
           s == [t EXCEPT !.at = "spawn"]
<1> USE DEF Inv
<1>1. /\ TypeOK /\ w \in WriteSet /\ CallStore("primary", w)
      /\ Advance(t, "spawn") /\ wish' = wish /\ t.at = "primary"
    BY DEF Typed, TypeOK, Tickets, CallPrimary
<1>2. /\ s.write = w
      /\ \A n \in Names :
            On(n)' = IF n = Target(w) THEN (On(n) \ {t}) \cup {s} ELSE On(n)
    BY <1>1, OnAdvance DEF Stages
<1>3. /\ content'["secondary"] = content["secondary"]
      /\ \A leg \in Legs : trusted'[leg] \subseteq trusted[leg]
    BY <1>1, CallStoreFrame DEF Legs
<1>4. /\ WellFiled(Type["primary"], content'["primary"])
      /\ \A m \in Names \ {Target(w)} :
            Documents(content'["primary"], m) = Documents(content["primary"], m)
      /\ Target(w) \in trusted'["primary"] =>
            Documents(content'["primary"], Target(w)) = {w.new} \ {Absent}
    BY <1>1, CallStoreDocuments DEF Legs, Active, DocumentsFiled
<1>5. \A leg \in Legs : trusted[leg] \subseteq Names
    BY <1>1 DEF TypeOK
<1>6. Target(w) \in Names /\ t \in On(Target(w))
    BY <1>1, WriteShape DEF On
<1> HIDE DEF s, w
<1>7. AloneInFlight'
    BY <1>1, <1>2, <1>3, <1>5, <1>6 DEF AloneInFlight, w
<1>8. ASSUME NEW n \in trusted'["primary"], CallDone("primary", n)'
      PROVE  Documents(content'["primary"], n) = {wish'[n]} \ {Absent}
  <2>1. n \in trusted["primary"] /\ n \in Names
    BY <1>3, <1>5 DEF Legs
  <2>2. CASE n = Target(w)
    <3>1. wish[n] = w.new
      BY <1>6, <2>1, <2>2 DEF AloneInFlight, Legs, w
    <3>. QED BY <1>1, <1>4, <2>2, <3>1
  <2>3. CASE n # Target(w)
    <3>1. On(n)' = On(n)
      BY <1>2, <2>1, <2>3
    <3>2. CallDone("primary", n)
      BY <1>8, <3>1 DEF CallDone
    <3>. QED BY <1>1, <1>4, <2>1, <2>3, <3>2 DEF Obedient, Legs, Active
  <2>. QED BY <2>2, <2>3
<1>9. ASSUME NEW n \in trusted'["secondary"], CallDone("secondary", n)',
             Active("secondary")
      PROVE  Documents(content'["secondary"], n) = {wish'[n]} \ {Absent}
  <2>1. n \in trusted["secondary"] /\ n \in Names
    BY <1>3, <1>5 DEF Legs
  <2>2. On(n)' = {}
    BY <1>9 DEF CallDone
  <2>3. CallDone("secondary", n)
    BY <1>2, <2>1, <2>2 DEF CallDone
  <2>. QED BY <1>1, <1>3, <1>9, <2>1, <2>3 DEF Obedient, Legs
<1>10. Obedient'
    BY <1>8, <1>9 DEF Obedient, Legs, Active, HasSecondary
<1>11. DocumentsFiled'
    BY <1>3, <1>4 DEF DocumentsFiled, Legs, Active, HasSecondary, WellFiled
<1>. QED BY <1>7, <1>10, <1>11

LEMMA InvSpawnAndReturn ==
    ASSUME Inv, NEW t \in inflight, SpawnAndReturn(t)
    PROVE  AloneInFlight' /\ Obedient' /\ DocumentsFiled'
<1> DEFINE w == t.write
           s == [t EXCEPT !.at = "secondary"]
<1> USE DEF Inv
<1>1. /\ TypeOK /\ w \in WriteSet /\ t.at = "spawn"
      /\ wish' = wish /\ content' = content /\ trusted' = trusted
    BY DEF Typed, TypeOK, Tickets, SpawnAndReturn
<1>2. \A leg \in Legs : trusted[leg] \subseteq Names
    BY <1>1 DEF TypeOK
<1>3. Target(w) \in Names /\ t \in On(Target(w))
    BY <1>1, WriteShape DEF On
<1>4. CASE HasSecondary
  <2>1. /\ s.write = w
        /\ \A n \in Names :
              On(n)' = IF n = Target(w) THEN (On(n) \ {t}) \cup {s} ELSE On(n)
    BY <1>1, <1>4, OnAdvance DEF Stages, SpawnAndReturn
  <2> HIDE DEF s, w
  <2>2. AloneInFlight'
    BY <1>1, <1>2, <1>3, <2>1 DEF AloneInFlight, w
  <2>3. ASSUME NEW leg \in Legs, NEW n \in Names, CallDone(leg, n)'
        PROVE  CallDone(leg, n)
    BY <1>1, <2>1, <2>3 DEF CallDone, Legs
  <2>4. Obedient'
    BY <1>1, <1>2, <2>3 DEF Obedient, Active, HasSecondary
  <2>. QED BY <1>1, <2>2, <2>4 DEF DocumentsFiled, Active, HasSecondary, WellFiled
<1>5. CASE ~ HasSecondary
  <2>1. \A n \in Names :
              On(n)' = IF n = Target(w) THEN On(n) \ {t} ELSE On(n)
    BY <1>5, OnRemove DEF SpawnAndReturn
  <2> HIDE DEF s, w
  <2>2. AloneInFlight'
    BY <1>1, <1>2, <2>1 DEF AloneInFlight
  <2>3. ASSUME NEW n \in Names, CallDone("primary", n)'
        PROVE  CallDone("primary", n)
    BY <1>1, <2>1, <2>3 DEF CallDone
  <2>4. Obedient'
    <3>1. ASSUME NEW n \in trusted["primary"], CallDone("primary", n)'
          PROVE  Documents(content["primary"], n) = {wish[n]} \ {Absent}
      BY <1>2, <2>3, <3>1 DEF Obedient, Legs, Active
    <3>. QED BY <1>1, <1>5, <3>1 DEF Obedient, Active, HasSecondary, Legs
  <2>. QED BY <1>1, <2>2, <2>4 DEF DocumentsFiled, Active, HasSecondary, WellFiled
<1>. QED BY <1>4, <1>5

LEMMA InvCallSecondary ==
    ASSUME StableIdentity, Inv, NEW t \in inflight, CallSecondary(t)
    PROVE  AloneInFlight' /\ Obedient' /\ DocumentsFiled'
<1> DEFINE w == t.write
<1> USE DEF Inv
<1>1. /\ TypeOK /\ w \in WriteSet /\ CallStore("secondary", w)
      /\ inflight' = inflight \ {t} /\ wish' = wish /\ t.at = "secondary"
      /\ HasSecondary
    BY DEF Typed, TypeOK, Tickets, CallSecondary
<1>2. \A n \in Names :
            On(n)' = IF n = Target(w) THEN On(n) \ {t} ELSE On(n)
    BY <1>1, OnRemove
<1>3. /\ content'["primary"] = content["primary"]
      /\ \A leg \in Legs : trusted'[leg] \subseteq trusted[leg]
    BY <1>1, CallStoreFrame DEF Legs
<1>4. /\ WellFiled(Type["secondary"], content'["secondary"])
      /\ \A m \in Names \ {Target(w)} :
            Documents(content'["secondary"], m) = Documents(content["secondary"], m)
      /\ Target(w) \in trusted'["secondary"] =>
            Documents(content'["secondary"], Target(w)) = {w.new} \ {Absent}
    BY <1>1, CallStoreDocuments DEF Legs, Active, DocumentsFiled
<1>5. \A leg \in Legs : trusted[leg] \subseteq Names
    BY <1>1 DEF TypeOK
<1>6. Target(w) \in Names /\ t \in On(Target(w))
    BY <1>1, WriteShape DEF On
<1> HIDE DEF w
<1>7. AloneInFlight'
    BY <1>1, <1>2, <1>3, <1>5 DEF AloneInFlight
<1>8. ASSUME NEW n \in trusted'["secondary"], CallDone("secondary", n)'
      PROVE  Documents(content'["secondary"], n) = {wish'[n]} \ {Absent}
  <2>1. n \in trusted["secondary"] /\ n \in Names
    BY <1>3, <1>5 DEF Legs
  <2>2. CASE n = Target(w)
    <3>1. wish[n] = w.new
      BY <1>6, <2>1, <2>2 DEF AloneInFlight, Legs, w
    <3>. QED BY <1>1, <1>4, <1>8, <2>2, <3>1
  <2>3. CASE n # Target(w)
    <3>1. On(n)' = On(n)
      BY <1>2, <2>1, <2>3
    <3>2. CallDone("secondary", n)
      BY <1>8, <3>1 DEF CallDone
    <3>. QED BY <1>1, <1>4, <2>1, <2>3, <3>2 DEF Obedient, Legs, Active
  <2>. QED BY <2>2, <2>3
<1>9. ASSUME NEW n \in trusted'["primary"], CallDone("primary", n)'
      PROVE  Documents(content'["primary"], n) = {wish'[n]} \ {Absent}
  <2>1. n \in trusted["primary"] /\ n \in Names
    BY <1>3, <1>5 DEF Legs
  <2>2. CallDone("primary", n)
    BY <1>1, <1>2, <1>9, <2>1 DEF CallDone
  <2>. QED BY <1>1, <1>3, <2>1, <2>2 DEF Obedient, Legs, Active
<1>10. Obedient'
    BY <1>8, <1>9 DEF Obedient, Legs, Active, HasSecondary
<1>11. DocumentsFiled'
    BY <1>3, <1>4 DEF DocumentsFiled, Legs, Active, HasSecondary, WellFiled
<1>. QED BY <1>7, <1>10, <1>11

LEMMA InvCrash ==
    ASSUME Inv, Crash
    PROVE  AloneInFlight' /\ Obedient' /\ DocumentsFiled'
<1> USE DEF Inv
<1>1. /\ TypeOK /\ inflight' = {} /\ wish' = wish /\ content' = content
      /\ \A leg \in Legs : trusted'[leg] = trusted[leg] \
            {Target(t.write) : t \in {u \in inflight :
                                        leg = "secondary" \/ u.at = "primary"}}
    BY DEF Crash, Typed
<1>2. \A n : On(n)' = {}
    BY <1>1 DEF On
<1>3. ASSUME NEW leg \in Legs, NEW n \in trusted'[leg]
      PROVE  n \in trusted[leg] /\ CallDone(leg, n)
    BY <1>1 DEF CallDone, Legs, On
<1>4. AloneInFlight'
    BY <1>2 DEF AloneInFlight
<1>5. Obedient'
    BY <1>1, <1>3 DEF Obedient, Active, HasSecondary
<1>. QED BY <1>1, <1>4, <1>5 DEF DocumentsFiled, Active, HasSecondary, WellFiled

LEMMA InvStep ==
    ASSUME StableIdentity, Inv, [Next]_vars
    PROVE  Inv'
<1>1. Typed'
    BY TypedStep DEF Inv
<1>2. ASSUME NEW c \in Callers, NEW w \in WriteSet, Invoke(c, w)
      PROVE  Inv'
    BY <1>1, <1>2, InvInvoke DEF Inv
<1>3. ASSUME NEW t \in inflight, CallPrimary(t)
      PROVE  Inv'
    BY <1>1, <1>3, InvCallPrimary DEF Inv
<1>4. ASSUME NEW t \in inflight, SpawnAndReturn(t)
      PROVE  Inv'
    BY <1>1, <1>4, InvSpawnAndReturn DEF Inv
<1>5. ASSUME NEW t \in inflight, CallSecondary(t)
      PROVE  Inv'
    BY <1>1, <1>5, InvCallSecondary DEF Inv
<1>6. CASE Crash
    BY <1>1, <1>6, InvCrash DEF Inv
<1>7. CASE UNCHANGED vars
    BY <1>1, <1>7 DEF vars, Inv, AloneInFlight, Obedient, DocumentsFiled,
                      CallDone, On, Active, HasSecondary, WellFiled
<1>. QED BY <1>2, <1>3, <1>4, <1>5, <1>6, <1>7 DEF Next, Step, Done

LEMMA InvImpliesLegsObey == Inv => LegsObey
    BY DEF Inv, Obedient, LegsObey, CallDone, Active, Typed, TypeOK

\* When identities are stable, each store obeys the last write that began
\* alone and did not fail on that store, whatever happened to it on the
\* other: the promise of Create, Update and Delete of storemanager.go.
THEOREM Obedience == StableIdentity /\ Spec => []LegsObey
<1> SUFFICES ASSUME StableIdentity PROVE Spec => []LegsObey
    OBVIOUS
<1>1. Inv /\ [Next]_vars => Inv'
    BY InvStep
<1>. QED BY <1>1, InvInit, InvImpliesLegsObey, PTL DEF Spec

(***************************************************************************)
(* Refinement.  Each write has its own number, so a step of one write is a *)
(* step of one entry of the abstract backlog.                              *)
(***************************************************************************)
Numbered == Typed /\ NumberedOnce /\ NumbersIssued

LEMMA NumberedInit == Init => Numbered
    BY TypedInit DEF Init, Numbered, NumberedOnce, NumbersIssued

LEMMA NumberedStep == Numbered /\ [Next]_vars => Numbered'
<1> SUFFICES ASSUME Numbered, [Next]_vars PROVE Numbered'
    OBVIOUS
<1>1. Typed'
    BY TypedStep DEF Numbered
<1> SUFFICES NumberedOnce' /\ NumbersIssued'
    BY <1>1 DEF Numbered
<1> USE DEF Numbered
<1>2. issued \in Nat /\ inflight \subseteq Tickets
    BY DEF Typed, TypeOK
<1>3. ASSUME NEW c \in Callers, NEW w \in WriteSet, Invoke(c, w)
      PROVE  NumberedOnce' /\ NumbersIssued'
  <2> DEFINE new == [id |-> issued + 1, caller |-> c, at |-> "primary", write |-> w]
  <2>1. inflight' = inflight \cup {new} /\ issued' = issued + 1
    BY <1>3 DEF Invoke
  <2>2. \A t \in inflight : t.id # new.id /\ t.id \in 1..issued'
    BY <1>2, <2>1 DEF NumbersIssued
  <2>3. new.id \in 1..issued'
    BY <1>2, <2>1
  <2> HIDE DEF new
  <2>. QED BY <2>1, <2>2, <2>3 DEF NumberedOnce, NumbersIssued
<1>4. ASSUME NEW t \in inflight, NEW stage, Advance(t, stage), issued' = issued
      PROVE  NumberedOnce' /\ NumbersIssued'
  <2> DEFINE s == [t EXCEPT !.at = stage]
  <2>1. inflight' = (inflight \ {t}) \cup {s} /\ s.id = t.id
    BY <1>2, <1>4 DEF Advance, Tickets
  <2> HIDE DEF s
  <2>. QED BY <1>4, <2>1 DEF NumberedOnce, NumbersIssued
<1>5. ASSUME inflight' \subseteq inflight, issued' = issued
      PROVE  NumberedOnce' /\ NumbersIssued'
    BY <1>5 DEF NumberedOnce, NumbersIssued
<1>6. ASSUME NEW t \in inflight, Step(t)
      PROVE  NumberedOnce' /\ NumbersIssued'
    BY <1>4, <1>5, <1>6 DEF Step, CallPrimary, SpawnAndReturn, CallSecondary
<1>7. CASE Crash \/ UNCHANGED vars
    BY <1>5, <1>7 DEF Crash, vars
<1>. QED BY <1>3, <1>6, <1>7 DEF Next, Done

\* The operators of the abstract specification are those of this one.
LEMMA MirrorOperators ==
    /\ \A type : Mirror!EmptyStore(type) = EmptyStore(type)
    /\ \A type, docs, w : Mirror!Apply(type, docs, w) = Apply(type, docs, w)
<1>1. \A type : Mirror!KeySpace(type) = KeySpace(type)
    BY DEF Mirror!KeySpace, KeySpace
<1>2. \A type, w : Mirror!Key(type, w) = Key(type, w)
    BY DEF Mirror!Key, Key, Mirror!HazelcastKey, HazelcastKey,
           Mirror!MongoKey, MongoKey, Mirror!RedisKey, RedisKey
<1>3. \A type, w : Mirror!Accepts(type, w) <=> Accepts(type, w)
    BY <1>1, <1>2 DEF Mirror!Accepts, Accepts
<1>4. \A type, docs, w : Mirror!Apply(type, docs, w) = Apply(type, docs, w)
    BY <1>2, <1>3 DEF Mirror!Apply, Apply
<1>5. \A type : Mirror!EmptyStore(type) = EmptyStore(type)
    BY <1>1 DEF Mirror!EmptyStore, EmptyStore
<1>. QED BY <1>4, <1>5

Entry(t)  == [id |-> t.id, write |-> t.write]
Backlog   == {Entry(t) : t \in {u \in inflight : u.at # "primary"}}
Seen      == {i \in 1..issued : \A t \in inflight : t.at = "primary" => t.id # i}

LEMMA MirrorInit == Init => Mirror!Init
<1> SUFFICES ASSUME Init PROVE Mirror!Init
    OBVIOUS
<1>1. content["primary"] = EmptyStore(PrimaryType)
    BY DEF Init, Legs, Type
<1>2. content["secondary"] = EmptyStore(SecondaryType)
    BY DEF Init, Legs, Type
<1>3. inflight = {} /\ issued = 0
    BY DEF Init
<1>. QED BY <1>1, <1>2, <1>3, MirrorOperators DEF Mirror!Init

LEMMA MirrorStep == Numbered /\ [Next]_vars => [Mirror!Next]_Mirror!vars
<1> SUFFICES ASSUME Numbered, [Next]_vars PROVE [Mirror!Next]_Mirror!vars
    OBVIOUS
<1> USE DEF Numbered
<1>1. issued \in Nat /\ inflight \subseteq Tickets /\ TypeOK
    BY DEF Typed, TypeOK
<1>2. \A t \in inflight : t.id \in 1..issued
    BY DEF NumbersIssued
<1>3. \A s, t \in inflight : Entry(s) = Entry(t) => s = t
    BY DEF NumberedOnce, Entry
<1>4. ASSUME content'["primary"] = content["primary"],
             content'["secondary"] = content["secondary"],
             Backlog' = Backlog, Seen' = Seen
      PROVE  UNCHANGED Mirror!vars
    BY <1>4 DEF Mirror!vars, Backlog, Seen, Entry
<1>5. ASSUME content'["primary"] = content["primary"],
             content'["secondary"] = content["secondary"],
             Backlog' \subseteq Backlog, Seen \subseteq Seen'
      PROVE  Mirror!Next
    BY <1>5 DEF Mirror!Next, Mirror!Forget, Backlog, Seen, Entry
<1>6. ASSUME NEW c \in Callers, NEW w \in WriteSet, Invoke(c, w)
      PROVE  UNCHANGED Mirror!vars
  <2> DEFINE new == [id |-> issued + 1, caller |-> c, at |-> "primary", write |-> w]
  <2>1. /\ inflight' = inflight \cup {new} /\ issued' = issued + 1
        /\ content' = content /\ new.at = "primary" /\ new.id = issued'
    BY <1>6 DEF Invoke
  <2> HIDE DEF new
  <2>2. Backlog' = Backlog
    BY <2>1 DEF Backlog, Entry
  <2>3. Seen' = Seen
    BY <1>1, <2>1 DEF Seen
  <2>. QED BY <1>4, <2>1, <2>2, <2>3
<1>7. ASSUME NEW t \in inflight, CallPrimary(t)
      PROVE  Mirror!Next
  <2> DEFINE s == [t EXCEPT !.at = "spawn"]
             w == t.write
  <2>1. /\ inflight' = (inflight \ {t}) \cup {s} /\ issued' = issued
        /\ t.at = "primary" /\ w \in WriteSet /\ CallStore("primary", w)
        /\ s.at = "spawn" /\ s.id = t.id /\ s.write = t.write
    BY <1>1, <1>7 DEF CallPrimary, Advance, Tickets
  <2>2. /\ content'["secondary"] = content["secondary"]
        /\ content'["primary"] \in {content["primary"],
                                    Apply(PrimaryType, content["primary"], w)}
    BY <1>1, <2>1, CallStoreFrame, CallStoreEffect DEF Legs, Type
  <2> HIDE DEF s, w
  <2>3. Entry(t) \notin Backlog
    BY <1>3, <2>1 DEF Backlog
  <2>4. Backlog' = Backlog \cup {Entry(t)}
    BY <2>1 DEF Backlog, Entry
  <2>5. t.id \notin Seen /\ Seen' = Seen \cup {t.id}
    BY <1>2, <2>1 DEF Seen, NumberedOnce
  <2>6. Entry(t).id = t.id /\ Entry(t).write = w
    BY DEF Entry, w
  <2>7. Entry(t) \in Backlog' \ Backlog
    BY <2>3, <2>4
  <2>. QED BY <2>2, <2>4, <2>5, <2>6, <2>7, MirrorOperators
           DEF Mirror!Next, Mirror!Put, Backlog, Seen, Entry
<1>8. ASSUME NEW t \in inflight, SpawnAndReturn(t)
      PROVE  [Mirror!Next]_Mirror!vars
  <2>1. /\ content' = content /\ issued' = issued /\ t.at = "spawn"
    BY <1>8 DEF SpawnAndReturn
  <2>2. CASE HasSecondary
    <3> DEFINE s == [t EXCEPT !.at = "secondary"]
    <3>1. /\ inflight' = (inflight \ {t}) \cup {s}
          /\ s.at = "secondary" /\ s.id = t.id /\ s.write = t.write
      BY <1>1, <1>8, <2>2 DEF SpawnAndReturn, Advance, Tickets
    <3> HIDE DEF s
    <3>2. Backlog' = Backlog
      BY <2>1, <3>1 DEF Backlog, Entry
    <3>3. Seen' = Seen
      BY <2>1, <3>1 DEF Seen
    <3>. QED BY <1>4, <2>1, <3>2, <3>3
  <2>3. CASE ~ HasSecondary
    <3>1. inflight' = inflight \ {t}
      BY <1>8, <2>3 DEF SpawnAndReturn
    <3>2. Backlog' \subseteq Backlog /\ Seen \subseteq Seen'
      BY <2>1, <3>1 DEF Backlog, Seen
    <3>. QED BY <1>5, <2>1, <3>2
  <2>. QED BY <2>2, <2>3
<1>9. ASSUME NEW t \in inflight, CallSecondary(t)
      PROVE  Mirror!Next
  <2> DEFINE w == t.write
  <2>1. /\ inflight' = inflight \ {t} /\ issued' = issued
        /\ t.at = "secondary" /\ w \in WriteSet /\ CallStore("secondary", w)
    BY <1>1, <1>9 DEF CallSecondary, Tickets
  <2>2. /\ content'["primary"] = content["primary"]
        /\ content'["secondary"] \in {content["secondary"],
                                      Apply(SecondaryType, content["secondary"], w)}
    BY <1>1, <2>1, CallStoreFrame, CallStoreEffect DEF Legs, Type
  <2> HIDE DEF w
  <2>3. Entry(t) \in Backlog /\ Backlog' = Backlog \ {Entry(t)}
    BY <1>3, <2>1 DEF Backlog
  <2>4. Seen' = Seen
    BY <2>1 DEF Seen
  <2>5. Entry(t).id = t.id /\ Entry(t).write = w
    BY DEF Entry, w
  <2>. QED BY <2>2, <2>3, <2>4, <2>5, MirrorOperators
           DEF Mirror!Next, Mirror!Land, Backlog, Seen, Entry
<1>10. CASE Crash
  <2>1. inflight' = {} /\ content' = content /\ issued' = issued
    BY <1>10 DEF Crash
  <2>2. Backlog' \subseteq Backlog /\ Seen \subseteq Seen'
    BY <2>1 DEF Backlog, Seen
  <2>. QED BY <1>5, <2>1, <2>2
<1>11. CASE UNCHANGED vars
    BY <1>11 DEF vars, Mirror!vars
<1>. QED BY <1>6, <1>7, <1>8, <1>9, <1>10, <1>11 DEF Next, Step, Done

\* The manager of storemanager.go implements MirroredStore: the secondary
\* store gets a write only after the primary was tried, and at most once.
THEOREM Refinement == Spec => MirrorSpec
<1>. QED BY NumberedInit, NumberedStep, MirrorInit, MirrorStep, PTL
         DEF Spec, MirrorSpec, Mirror!Spec
=============================================================================
