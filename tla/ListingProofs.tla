---------------------------- MODULE ListingProofs ----------------------------
(***************************************************************************)
(* Proofs about Listing, for any objects, requests and selectors, whatever *)
(* the objects hold, and any bounds.                                       *)
(***************************************************************************)
EXTENDS Listing, TLAPS

(***************************************************************************)
(* The store and its selection.                                            *)
(***************************************************************************)
LEMMA StoreShape ==
    ASSUME NEW store \in Contents(type), NEW selector
    PROVE  /\ DOMAIN store = KeySpace(type)
           /\ Stored(store) \subseteq Objects
           /\ Selected(selector, store) \subseteq KeySpace(type)
           /\ \A k \in KeySpace(type) : store[k] # Absent =>
                    store[k] \in Objects /\ store[k] \in Stored(store)
    BY DEF Contents, Stored, Selected

\* A writer's write of an object, or its removal.
IsWrite(w) ==
    \/ \E o \in Writable : w = [op |-> "create", old |-> Absent, new |-> o]
    \/ \E o \in Stored(content) : w = [op |-> "delete", old |-> o, new |-> Absent]

LEMMA WriteShape ==
    ASSUME content \in Contents(type), NEW w, IsWrite(w)
    PROVE  /\ Apply(type, content, w) \in Contents(type)
           /\ w.new \in Objects \cup {Absent}
<1>1. w.new \in Objects \cup {Absent}
    BY ListingAssumption DEF IsWrite
<1>. QED BY <1>1 DEF Apply, Contents, Accepts

\* Every request, and the metrics goroutine's, has a limit.
LEMMA Limits ==
    ASSUME NEW r \in Requests \cup {All}
    PROVE  r.limit \in Nat
    BY ListingAssumption DEF All

(***************************************************************************)
(* The steps, grouped by what they have in common.                         *)
(***************************************************************************)
\* A reader goes away, with an answer or without one.
Over ==
    \/ ReturnError
    \/ Answer
    \/ SetUnlabelled
    \/ Sleep

LEMMA Steps ==
    ASSUME Next
    PROVE  \/ \E w : IsWrite(w) /\ Write(w)
           \/ \E r \in Requests \cup {All} : Begin(r)
           \/ \E k \in ahead : ScanKeys(k) \/ Scan(k) \/ Get(k)
           \/ GetValues
           \/ Return
           \/ Over
           \/ Reset
           \/ Set
           \/ Unimplemented \/ Restart
<1>1. ASSUME NEW o \in Writable, Put(o)
      PROVE  \E w : IsWrite(w) /\ Write(w)
    BY <1>1 DEF Put, IsWrite
<1>2. ASSUME NEW o \in Writable, Remove(o)
      PROVE  \E w : IsWrite(w) /\ Write(w)
    BY <1>2 DEF Remove, IsWrite
<1>3. Ask \/ Collect => \E r \in Requests \cup {All} : Begin(r)
    BY DEF Ask, Collect
<1>. QED BY <1>1, <1>2, <1>3 DEF Next, Proceed, Visit, Over

\* Only failures skip objects.
MissedByFailure == missed <= errors

(***************************************************************************)
(* Types.                                                                  *)
(***************************************************************************)
LEMMA TypeInit == Init => TypeOK
<1>1. EmptyStore(type) \in Contents(type)
    BY DEF EmptyStore, Contents
<1>2. MaxWrites \in Nat /\ MaxErrors \in Nat
    BY ListingAssumption
<1>. QED BY <1>1, <1>2 DEF Init, TypeOK, Phases

LEMMA WriteType ==
    ASSUME TypeOK, NEW w, IsWrite(w), Write(w)
    PROVE  TypeOK'
<1>1. content' \in Contents(type) /\ type' = type
    BY WriteShape DEF TypeOK, Write, chosen
<1>2. DOMAIN content = KeySpace(type) /\ Stored(content') \subseteq Objects
    BY <1>1, StoreShape DEF TypeOK
<1>3. ahead' \subseteq KeySpace(type)
    BY <1>2 DEF TypeOK, Write
<1>4. seen' \subseteq Objects /\ steady' \subseteq KeySpace(type)
    BY <1>2 DEF TypeOK, Write
<1>5. writes' \in 0..MaxWrites
    BY ListingAssumption DEF TypeOK, Write
<1>. QED BY <1>1, <1>3, <1>4, <1>5 DEF TypeOK, Write, chosen

LEMMA BeginType ==
    ASSUME TypeOK, NEW r \in Requests \cup {All}, Begin(r)
    PROVE  TypeOK'
<1>1. Stored(content) \subseteq Objects /\ Selected(r.selector, content) \subseteq KeySpace(type)
    BY StoreShape DEF TypeOK
<1>2. missed' \in 0..MaxErrors
    BY ListingAssumption DEF Begin
<1>. QED BY <1>1, <1>2 DEF TypeOK, Begin, Phases, chosen

\* A visit to a key: a failure leaves the list as it is, and what is taken is
\* the object at the key, if there is one and it is selected.
LEMMA VisitEffect ==
    ASSUME TypeOK, MissedByFailure, NEW k \in ahead,
           Scan(k) \/ Get(k)
    PROVE  /\ got' \in Seq(Objects)
           /\ missed' \in 0..MaxErrors /\ errors' \in 0..MaxErrors
           /\ MissedByFailure'
           /\ ahead' = ahead \ {k}
           /\ \/ Take(k) /\ missed' = missed
              \/ got' = got /\ missed' = missed + 1
<1>1. Take(k) => got' \in Seq(Objects)
  <2>1. content[k] # Absent => content[k] \in Objects
    BY StoreShape DEF TypeOK
  <2>. QED BY <2>1 DEF Take, TypeOK
<1>2. CASE Take(k) /\ UNCHANGED <<missed, errors>>
    BY <1>1, <1>2 DEF Scan, Get, TypeOK, MissedByFailure
<1>3. CASE Fail /\ missed' = missed + 1 /\ UNCHANGED got
    BY <1>3, ListingAssumption DEF Scan, Get, Fail, TypeOK, MissedByFailure
<1>. QED BY <1>2, <1>3 DEF Scan, Get

LEMMA VisitType ==
    ASSUME TypeOK, MissedByFailure, NEW k \in ahead,
           ScanKeys(k) \/ Scan(k) \/ Get(k)
    PROVE  TypeOK' /\ MissedByFailure'
<1>1. CASE ScanKeys(k)
    BY <1>1 DEF ScanKeys, CallFrame, TypeOK, chosen, MissedByFailure
<1>2. CASE Scan(k) \/ Get(k)
    BY <1>2, VisitEffect DEF Scan, Get, CallFrame, TypeOK, chosen
<1>. QED BY <1>1, <1>2

LEMMA OverType ==
    ASSUME TypeOK, MissedByFailure, Over
    PROVE  TypeOK' /\ MissedByFailure'
<1>1. Leave /\ UNCHANGED <<chosen, content, writes>>
    BY DEF Over, ReturnError, Answer, SetUnlabelled, Sleep
<1>2. alive' \in BOOLEAN /\ gauge' \subseteq Labels
    BY DEF Over, ReturnError, Answer, SetUnlabelled, Sleep, TypeOK
<1>3. errors' \in 0..MaxErrors /\ 0 <= errors'
    BY ListingAssumption DEF Over, ReturnError, Answer, SetUnlabelled, Sleep, TypeOK, Fail
<1>4. got' \in Seq(Objects) /\ missed' \in 0..MaxErrors
    BY <1>1, ListingAssumption DEF Leave
<1>. QED BY <1>1, <1>2, <1>3, <1>4 DEF Leave, TypeOK, chosen, Phases, MissedByFailure

LEMMA TypeStep == TypeOK /\ MissedByFailure /\ [Next]_vars => TypeOK' /\ MissedByFailure'
<1> SUFFICES ASSUME TypeOK, MissedByFailure, [Next]_vars
             PROVE  TypeOK' /\ MissedByFailure'
    OBVIOUS
<1>1. CASE UNCHANGED vars
    BY <1>1 DEF TypeOK, MissedByFailure, vars, chosen, history
<1>2. ASSUME NEW w, IsWrite(w), Write(w)
      PROVE  TypeOK' /\ MissedByFailure'
    BY <1>2, WriteType DEF Write, MissedByFailure
<1>3. ASSUME NEW r \in Requests \cup {All}, Begin(r)
      PROVE  TypeOK' /\ MissedByFailure'
    BY <1>3, BeginType DEF Begin, MissedByFailure, TypeOK
<1>4. CASE GetValues \/ Return
    BY <1>4 DEF GetValues, Return, CallFrame, TypeOK, chosen, Phases, MissedByFailure
<1>5. CASE Reset
    BY <1>5 DEF Reset, TypeOK, chosen, history, Phases, MissedByFailure
<1>6. CASE Set
  <2>1. got' \in Seq(Objects)
    BY <1>6 DEF Set, TypeOK
  <2>2. gauge' \subseteq Labels
    BY <1>6 DEF Set, TypeOK, Unlabelled
  <2>. QED BY <1>6, <2>1, <2>2 DEF Set, TypeOK, chosen, history, MissedByFailure
<1>7. CASE Unimplemented \/ Restart
    BY <1>7 DEF Unimplemented, Restart, TypeOK, chosen, history, MissedByFailure
<1>. QED BY <1>1, <1>2, <1>3, <1>4, <1>5, <1>6, <1>7, Steps, VisitType, OverType

\* Every variable keeps to its type.
THEOREM TypeCorrect == Spec => []TypeOK
<1>1. Init => MissedByFailure
    BY DEF Init, MissedByFailure
<1>. QED BY <1>1, TypeInit, TypeStep, PTL DEF Spec

(***************************************************************************)
(* What lists are.  ListSound needs that the history of the call under way *)
(* covers the store of the moment, as what is taken is taken from there,   *)
(* and, for Hazelcast, that objects are filed under their own keys, so     *)
(* that distinct keys give distinct objects.  ListComplete needs to know,  *)
(* at any moment of the call, where a steady object is: still ahead, among *)
(* the keys, or in the list.                                               *)
(***************************************************************************)
\* The keys of the objects in the list.
ListedKeys == {KeyOf(got[i]) : i \in DOMAIN got}

Open == phase \in {"scan", "get"}

\* An object that was in the store, and selected, at some moment of the call.
Genuine(o) == o \in seen /\ Selects(call.selector, o)

\* Every object is filed under its own key.
WellFiled == \A k \in DOMAIN content : content[k] # Absent => KeyOf(content[k]) = k

\* The history of the call that is under way covers the store of the moment.
HistoryCurrent ==
    Open => /\ Stored(content) \subseteq seen
            /\ steady \subseteq Selected(call.selector, content)

\* What has been taken is genuine and no more than was asked for.
TakenGenuine ==
    phase \in {"scan", "get", "done"} =>
        /\ \A i \in DOMAIN got : Genuine(got[i])
        /\ call.limit > 0 => Len(got) <= call.limit

\* Hazelcast takes one object for a key, and none for a key to be visited.
TakenOnce ==
    type = "hazelcast" =>
        /\ phase \in {"scan", "get", "done"} =>
               \A i, j \in DOMAIN got : KeyOf(got[i]) = KeyOf(got[j]) => i = j
        /\ Open => ListedKeys \cap ahead = {}

\* Hazelcast's List takes nothing before it has all keys, and no other call
\* fetches values.
FirstKeys ==
    /\ phase = "scan" /\ KeysFirst => got = <<>>
    /\ phase = "get" => KeysFirst

\* A steady object is still to be visited or has been taken.
Accounted ==
    missed = 0 =>
        /\ phase = "scan" /\ KeysFirst => steady \subseteq ahead \cup keys
        /\ phase = "scan" /\ ~ KeysFirst => steady \subseteq ahead \cup ListedKeys
        /\ phase = "get" => steady \subseteq ahead \cup ListedKeys
        /\ phase = "done" /\ (call.limit = 0 \/ Len(got) < call.limit) =>
               steady \subseteq ListedKeys

Inv ==
    /\ TypeOK /\ WellFiled /\ MissedByFailure /\ HistoryCurrent
    /\ TakenGenuine /\ TakenOnce /\ FirstKeys /\ Accounted

LEMMA InvInit == Init => Inv
<1> SUFFICES ASSUME Init PROVE Inv
    OBVIOUS
<1>1. WellFiled
    BY DEF Init, EmptyStore, WellFiled
<1>2. MissedByFailure /\ phase = "idle"
    BY DEF Init, MissedByFailure
<1>. QED BY <1>1, <1>2, TypeInit DEF Inv, HistoryCurrent, TakenGenuine, TakenOnce, FirstKeys,
                                     Accounted, Open

\* Nothing is claimed of a list once its reader is done with it, nor before
\* there is one.
LEMMA NoCall ==
    ASSUME TypeOK', MissedByFailure', WellFiled', phase' \in {"idle", "fill"}
    PROVE  Inv'
    BY DEF Inv, HistoryCurrent, TakenGenuine, TakenOnce, FirstKeys, Accounted, Open

LEMMA FiledFrame ==
    ASSUME WellFiled, UNCHANGED <<type, content>>
    PROVE  WellFiled'
    BY DEF WellFiled, KeyOf

LEMMA WriteFiled ==
    ASSUME TypeOK, WellFiled, NEW w, IsWrite(w), Write(w)
    PROVE  WellFiled'
<1>1. UNCHANGED type /\ content \in Contents(type) /\ type \in StoreTypes
    BY ListingAssumption DEF Write, chosen, TypeOK
<1>2. content' = Apply(type, content, w)
    BY DEF Write
<1>3. w.new # Absent => KeyOf(w.new) = Key(type, w)
    BY <1>1 DEF IsWrite, KeyOf, Key, HazelcastKey, MongoKey, RedisKey, StoreTypes
<1>4. ASSUME NEW k \in DOMAIN content'
      PROVE  /\ k \in DOMAIN content
             /\ \/ content'[k] = content[k]
                \/ k = Key(type, w) /\ content'[k] = w.new
    BY <1>1, <1>2, <1>4 DEF Apply, Contents
<1>5. \A o : KeyOf(o)' = KeyOf(o)
    BY <1>1 DEF KeyOf
<1>. QED BY <1>3, <1>4, <1>1 DEF WellFiled, KeyOf

LEMMA WriteInv ==
    ASSUME Inv, NEW w, IsWrite(w), Write(w)
    PROVE  Inv'
<1>1. TypeOK' /\ MissedByFailure' /\ WellFiled'
    BY WriteType, WriteFiled DEF Inv, Write, MissedByFailure
<1>2. /\ UNCHANGED <<type, call, phase, keys, got, missed>>
      /\ ahead \subseteq ahead' /\ (type = "hazelcast" => ahead' = ahead)
      /\ seen \subseteq seen' /\ steady' \subseteq steady
    BY DEF Write, chosen
<1>3. HistoryCurrent'
    BY <1>2 DEF Write, HistoryCurrent, Open, Selected, Selects
<1>4. TakenGenuine'
    BY <1>2 DEF Inv, TakenGenuine, Genuine, Selects
<1>5. ListedKeys' = ListedKeys
    BY <1>2 DEF ListedKeys, KeyOf
<1>6. TakenOnce' /\ FirstKeys'
    BY <1>2, <1>5 DEF Inv, TakenOnce, FirstKeys, KeysFirst, Open, KeyOf
<1>7. Accounted'
    BY <1>2, <1>5 DEF Inv, Accounted, KeysFirst
<1>. QED BY <1>1, <1>3, <1>4, <1>6, <1>7 DEF Inv

LEMMA BeginInv ==
    ASSUME Inv, NEW r \in Requests \cup {All}, Begin(r)
    PROVE  Inv'
<1>1. TypeOK' /\ MissedByFailure' /\ WellFiled'
    BY BeginType, FiledFrame DEF Inv, Begin, MissedByFailure, TypeOK, chosen
<1>2. /\ phase' = "scan" /\ call' = r /\ got' = <<>> /\ ahead' = KeySpace(type)
      /\ steady' = Selected(r.selector, content) /\ seen' = Stored(content)
      /\ UNCHANGED <<type, content>>
    BY DEF Begin, chosen
<1>3. steady' \subseteq ahead'
    BY <1>2, StoreShape DEF Inv, TypeOK
<1>4. HistoryCurrent'
    BY <1>2 DEF HistoryCurrent, Selected, Selects, Stored
<1>5. TakenGenuine' /\ TakenOnce'
  <2>1. r.limit \in Nat
    BY Limits
  <2>2. DOMAIN got' = {} /\ Len(got') = 0 /\ ListedKeys' = {}
    BY <1>2 DEF ListedKeys
  <2>. QED BY <1>2, <2>1, <2>2 DEF TakenGenuine, TakenOnce
<1>6. FirstKeys'
    BY <1>2 DEF FirstKeys
<1>7. Accounted'
    BY <1>2, <1>3 DEF Accounted
<1>. QED BY <1>1, <1>4, <1>5, <1>6, <1>7 DEF Inv

\* The steps that neither begin a call nor end one leave these alone.
LEMMA HistoryFrame ==
    ASSUME Inv, Open, UNCHANGED <<type, content, call, seen, steady>>
    PROVE  HistoryCurrent'
    BY DEF Inv, HistoryCurrent, Selected, Selects, Stored

LEMMA ScanKeysInv ==
    ASSUME Inv, NEW k \in ahead, ScanKeys(k)
    PROVE  Inv'
<1>1. TypeOK' /\ MissedByFailure' /\ WellFiled' /\ HistoryCurrent'
    BY VisitType, FiledFrame, HistoryFrame DEF Inv, ScanKeys, CallFrame, chosen, Open
<1>2. /\ phase = "scan" /\ KeysFirst /\ ahead' = ahead \ {k}
      /\ keys \subseteq keys' /\ (content[k] # Absent => k \in keys')
      /\ UNCHANGED <<type, phase, call, got, seen, steady, missed>>
    BY DEF ScanKeys, CallFrame, chosen
<1>3. ListedKeys' = ListedKeys /\ KeysFirst'
    BY <1>2 DEF ListedKeys, KeyOf, KeysFirst
<1>4. TakenGenuine'
    BY <1>2 DEF Inv, TakenGenuine, Genuine, Selects
<1>5. TakenOnce' /\ FirstKeys'
    BY <1>2, <1>3 DEF Inv, TakenOnce, FirstKeys, Open, KeyOf
<1>6. k \in steady => content[k] # Absent
    BY <1>2 DEF Inv, HistoryCurrent, Selected, Open
<1>7. Accounted'
    BY <1>2, <1>3, <1>6 DEF Inv, Accounted
<1>. QED BY <1>1, <1>4, <1>5, <1>7 DEF Inv

\* What is taken is genuine, and leaves no steady object at its key behind.
LEMMA TakeEffect ==
    ASSUME Inv, Open, NEW k \in ahead, Take(k), UNCHANGED type
    PROVE  \/ got' = got /\ k \notin steady /\ ListedKeys' = ListedKeys
           \/ /\ got' = Append(got, content[k])
              /\ Genuine(content[k]) /\ KeyOf(content[k]) = k
              /\ ListedKeys' = ListedKeys \cup {k}
<1>1. content \in Contents(type) /\ k \in KeySpace(type) /\ got \in Seq(Objects)
    BY DEF Inv, TypeOK
<1>2. CASE content[k] # Absent /\ Selects(call.selector, content[k])
  <2>1. got' = Append(got, content[k])
    BY <1>2 DEF Take
  <2>2. Genuine(content[k])
    BY <1>1, <1>2, StoreShape DEF Inv, HistoryCurrent, Genuine
  <2>3. KeyOf(content[k]) = k
    BY <1>1, <1>2, StoreShape DEF Inv, WellFiled
  <2>4. /\ DOMAIN got' = DOMAIN got \cup {Len(got) + 1}
        /\ \A i \in DOMAIN got : got'[i] = got[i]
        /\ got'[Len(got) + 1] = content[k]
    BY <1>1, <2>1
  <2>5. ListedKeys' = ListedKeys \cup {k}
    BY <2>3, <2>4 DEF ListedKeys, KeyOf
  <2>. QED BY <2>1, <2>2, <2>3, <2>5
<1>3. CASE ~ (content[k] # Absent /\ Selects(call.selector, content[k]))
  <2>1. got' = got
    BY <1>3 DEF Take
  <2>2. k \notin steady
    BY <1>3 DEF Inv, HistoryCurrent, Selected
  <2>. QED BY <2>1, <2>2 DEF ListedKeys, KeyOf
<1>. QED BY <1>2, <1>3

LEMMA VisitInv ==
    ASSUME Inv, NEW k \in ahead, Scan(k) \/ Get(k)
    PROVE  Inv'
<1>1. /\ Open /\ ~ Full /\ ahead' = ahead \ {k}
      /\ UNCHANGED <<type, content, call, phase, keys, seen, steady>>
      /\ phase = "scan" => ~ KeysFirst
    BY DEF Scan, Get, Open, CallFrame, chosen
<1>2. TypeOK' /\ MissedByFailure' /\ WellFiled' /\ HistoryCurrent'
    BY <1>1, VisitType, FiledFrame, HistoryFrame DEF Inv
<1>3. /\ got \in Seq(Objects) /\ missed \in Nat /\ call.limit \in Nat
      /\ \/ Take(k) /\ missed' = missed
         \/ got' = got /\ missed' = missed + 1
  <2>1. missed \in Nat
    BY ListingAssumption DEF Inv, TypeOK
  <2>. QED BY <2>1, VisitEffect, Limits DEF Inv, TypeOK
<1>4. FirstKeys' /\ KeysFirst' = KeysFirst
    BY <1>1 DEF Inv, FirstKeys, KeysFirst
<1>5. CASE got' = got /\ missed' = missed + 1
  <2>1. ListedKeys' = ListedKeys
    BY <1>1, <1>5 DEF ListedKeys, KeyOf
  <2>2. TakenGenuine'
    BY <1>1, <1>5 DEF Inv, TakenGenuine, Genuine, Selects
  <2>3. TakenOnce'
    BY <1>1, <1>5, <2>1 DEF Inv, TakenOnce, Open, KeyOf
  <2>4. Accounted'
    BY <1>3, <1>5 DEF Accounted
  <2>. QED BY <1>2, <1>4, <2>2, <2>3, <2>4 DEF Inv
<1>6. CASE got' = got /\ k \notin steady /\ ListedKeys' = ListedKeys /\ missed' = missed
  <2>1. TakenGenuine'
    BY <1>1, <1>6 DEF Inv, TakenGenuine, Genuine, Selects
  <2>2. TakenOnce'
    BY <1>1, <1>6 DEF Inv, TakenOnce, Open, KeyOf
  <2>3. Accounted'
    BY <1>1, <1>4, <1>6 DEF Inv, Accounted, Open
  <2>. QED BY <1>2, <1>4, <2>1, <2>2, <2>3 DEF Inv
<1>7. CASE /\ got' = Append(got, content[k]) /\ missed' = missed
           /\ Genuine(content[k]) /\ KeyOf(content[k]) = k
           /\ ListedKeys' = ListedKeys \cup {k}
  <2>1. /\ DOMAIN got = 1..Len(got) /\ Len(got) \in Nat
        /\ DOMAIN got' = 1..Len(got) + 1 /\ Len(got') = Len(got) + 1
        /\ \A i \in DOMAIN got : got'[i] = got[i]
        /\ got'[Len(got) + 1] = content[k]
    BY <1>3, <1>7
  <2>2. TakenGenuine'
    <3>1. call.limit > 0 => Len(got) < call.limit
      BY <1>1, <1>3, <2>1 DEF Full, Listed
    <3>2. \A i \in DOMAIN got : Genuine(got[i])
      BY <1>1 DEF Inv, TakenGenuine, Open
    <3>3. \A i \in DOMAIN got' : Genuine(got'[i])
      BY <1>7, <2>1, <3>2
    <3>. QED BY <1>1, <1>3, <2>1, <3>1, <3>3 DEF TakenGenuine, Genuine, Selects
  <2>3. TakenOnce'
    <3>1. \A i \in DOMAIN got : KeyOf(got[i]) \in ListedKeys
      BY DEF ListedKeys
    <3>2. type = "hazelcast" =>
            /\ k \notin ListedKeys /\ ListedKeys' \cap ahead' = {}
            /\ \A i, j \in DOMAIN got : KeyOf(got[i]) = KeyOf(got[j]) => i = j
      BY <1>1, <1>7 DEF Inv, TakenOnce, Open
    <3>3. type = "hazelcast" =>
            \A i, j \in DOMAIN got' : KeyOf(got'[i]) = KeyOf(got'[j]) => i = j
      BY <1>7, <2>1, <3>1, <3>2
    <3>. QED BY <1>1, <3>2, <3>3 DEF TakenOnce, KeyOf
  <2>4. Accounted'
    BY <1>1, <1>4, <1>7 DEF Inv, Accounted, Open
  <2>. QED BY <1>2, <1>4, <2>2, <2>3, <2>4 DEF Inv
<1>. QED BY <1>1, <1>3, <1>5, <1>6, <1>7, TakeEffect

LEMMA GetValuesInv ==
    ASSUME Inv, TypeOK', MissedByFailure', GetValues
    PROVE  Inv'
<1>1. /\ phase = "scan" /\ KeysFirst /\ ahead = {} /\ phase' = "get" /\ ahead' = keys
      /\ UNCHANGED <<type, content, call, keys, got, seen, steady, missed>>
    BY DEF GetValues, CallFrame, chosen
<1>2. got = <<>> /\ ListedKeys' = {}
    BY <1>1 DEF Inv, FirstKeys, ListedKeys
<1>3. WellFiled' /\ HistoryCurrent'
    BY <1>1, FiledFrame, HistoryFrame DEF Inv, Open
<1>4. TakenGenuine'
    BY <1>1 DEF Inv, TakenGenuine, Genuine, Selects
<1>5. TakenOnce' /\ FirstKeys'
    BY <1>1, <1>2 DEF Inv, TakenOnce, FirstKeys, KeysFirst, KeyOf
<1>6. Accounted'
    BY <1>1 DEF Inv, Accounted
<1>. QED BY <1>3, <1>4, <1>5, <1>6 DEF Inv

LEMMA ReturnInv ==
    ASSUME Inv, TypeOK', MissedByFailure', Return
    PROVE  Inv'
<1>1. /\ phase \in {"scan", "get"} /\ (phase = "scan" => ~ KeysFirst) /\ phase' = "done"
      /\ ahead = {} \/ Full
      /\ UNCHANGED <<type, content, call, keys, got, seen, steady, missed>>
    BY DEF Return, CallFrame, chosen
<1>2. WellFiled' /\ HistoryCurrent' /\ FirstKeys'
    BY <1>1, FiledFrame DEF Inv, HistoryCurrent, FirstKeys, Open
<1>3. TakenGenuine' /\ TakenOnce'
    BY <1>1 DEF Inv, TakenGenuine, Genuine, Selects, TakenOnce, Open, KeyOf
<1>4. Accounted'
  <2>1. SUFFICES ASSUME missed = 0, call.limit = 0 \/ Len(got) < call.limit
                 PROVE  steady \subseteq ListedKeys
    BY <1>1 DEF Accounted, ListedKeys, KeyOf
  <2>2. call.limit \in Nat /\ Len(got) \in Nat
    BY Limits DEF Inv, TypeOK
  <2>3. ahead = {}
    BY <1>1, <2>1, <2>2 DEF Full, Listed
  <2>. QED BY <1>1, <2>1, <2>3 DEF Inv, Accounted
<1>. QED BY <1>2, <1>3, <1>4 DEF Inv

LEMMA InvStep == Inv /\ [Next]_vars => Inv'
<1> SUFFICES ASSUME Inv, [Next]_vars PROVE Inv'
    OBVIOUS
<1>1. TypeOK' /\ MissedByFailure'
    BY TypeStep DEF Inv
<1>2. CASE Over \/ Reset \/ Set
  <2>1. UNCHANGED <<type, content>> /\ phase' \in {"idle", "fill"}
    BY <1>2 DEF Over, ReturnError, Answer, SetUnlabelled, Sleep, Leave, Reset, Set, chosen
  <2>. QED BY <1>1, <2>1, FiledFrame, NoCall DEF Inv
<1>3. CASE Unimplemented \/ Restart \/ UNCHANGED vars
  <2>1. UNCHANGED <<type, content, call, phase, ahead, keys, got, seen, steady, missed>>
    BY <1>3 DEF Unimplemented, Restart, vars, chosen, history
  <2>2. WellFiled'
    BY <2>1, FiledFrame DEF Inv
  <2>3. HistoryCurrent'
    BY <2>1, HistoryFrame DEF HistoryCurrent, Open
  <2>4. TakenGenuine' /\ TakenOnce' /\ FirstKeys'
    BY <2>1 DEF Inv, TakenGenuine, Genuine, Selects, TakenOnce, FirstKeys, KeysFirst,
                Open, ListedKeys, KeyOf
  <2>5. Accounted'
    BY <2>1 DEF Inv, Accounted, KeysFirst, ListedKeys, KeyOf
  <2>. QED BY <1>1, <2>2, <2>3, <2>4, <2>5 DEF Inv
<1>. QED BY <1>1, <1>2, <1>3, Steps, WriteInv, BeginInv, ScanKeysInv, VisitInv,
            GetValuesInv, ReturnInv

\* Nothing in a list is made up, whatever writers do meanwhile; it keeps to
\* the limit, and Hazelcast lists no object twice.
THEOREM Sound == Spec => []ListSound
<1>1. Inv => ListSound
    BY DEF Inv, TakenGenuine, Genuine, TakenOnce, ListSound, Range
<1>. QED BY InvInit, InvStep, <1>1, PTL DEF Spec

\* A list that has not reached its limit and skipped no object leaves out
\* nothing that was there, and selected, all through the call.
THEOREM Complete == Spec => []ListComplete
<1>1. Inv => ListComplete
  <2>1. {KeyOf(o) : o \in Range(got)} = ListedKeys
    BY DEF Range, ListedKeys
  <2>. QED BY <2>1 DEF Inv, Accounted, ListComplete
<1>. QED BY InvInit, InvStep, <1>1, PTL DEF Spec
=============================================================================
