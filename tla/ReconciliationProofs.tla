------------------------ MODULE ReconciliationProofs ------------------------
(***************************************************************************)
(* Proofs about Reconciliation, for any objects, both modes of Quasar and  *)
(* both modes of reconciliation, and any bounds on what the environment    *)
(* does.                                                                   *)
(***************************************************************************)
EXTENDS Reconciliation, SequenceTheorems, TLAPS

LEMMA Bounds == MaxRv \in Nat /\ 1 \in Versions /\ Versions \subseteq Nat
<1>1. MaxRv \in Nat \ {0}
    BY ReconciliationAssumption
<1>. QED BY <1>1 DEF Versions

(***************************************************************************)
(* Types, one part of the state after the other.                           *)
(***************************************************************************)
SourceType == source \in [Names -> Versions] /\ rv \in Versions /\ feed \subseteq Changes
LinkType   == /\ link \in BOOLEAN /\ connected \in BOOLEAN /\ boot \in Phases
              /\ events \in Seq(Events)
RunType    == /\ cache \in [Names -> Versions] /\ restored \in [Names -> Versions]
              /\ pc \in [Agents -> Places] /\ mu \in Agents \cup {Nobody}
              /\ todo \in [Agents -> [Names -> Versions]]
CountType  == flaps \in Nat /\ losses \in Nat /\ errors \in Nat

LEMMA TypeParts == TypeOK <=> SourceType /\ LinkType /\ RunType /\ CountType
    BY DEF TypeOK, SourceType, LinkType, RunType, CountType

LEMMA TypeInit == Init => TypeOK
<1> SUFFICES ASSUME Init PROVE TypeOK
    OBVIOUS
<1>1. {0, 1} \subseteq Versions
    BY Bounds DEF Versions
<1>2. SourceType
    BY <1>1 DEF Init, SourceType
<1>3. LinkType
  <2>1. <<>> \in Seq(Events)
    BY EmptySeq
  <2>. QED BY <2>1 DEF Init, LinkType, Phases, Events
<1>4. RunType
  <2>1. Nothing \in [Names -> Versions]
    BY <1>1 DEF Nothing
  <2>. QED BY <1>1, <2>1 DEF Init, RunType, Places
<1>. QED BY <1>2, <1>3, <1>4, TypeParts DEF Init, CountType

LEMMA TypeSourceChange ==
    ASSUME TypeOK, NEW n \in Names, NEW gone \in BOOLEAN, SourceChange(n, gone)
    PROVE  TypeOK'
<1>1. rv + 1 \in Versions /\ 0 \in Versions /\ rv + 1 \in 1..MaxRv
    BY Bounds DEF TypeOK, SourceChange, Versions
<1>2. SourceType'
    BY <1>1 DEF TypeOK, SourceChange, SourceType, Changes
<1>. QED BY <1>2 DEF TypeOK, SourceChange, SourceType, linkVars, runVars

LEMMA FailsType ==
    ASSUME TypeOK, Fails \/ Succeeds \/ CarriedOut
    PROVE  errors' \in Nat
    BY DEF TypeOK, Fails, Succeeds, CarriedOut

LEMMA TypeDeliver ==
    ASSUME TypeOK, NEW e \in feed, Deliver(e)
    PROVE  TypeOK'
<1>1. e \in Changes
    BY DEF TypeOK
<1>2. cache' \in [Names -> Versions]
  <2>1. e.rv \in Versions /\ 0 \in Versions
    BY <1>1, Bounds DEF Changes, Versions
  <2>. QED BY <2>1 DEF Deliver, TypeOK
<1>3. errors' \in Nat
    BY FailsType DEF Deliver
<1>. QED BY <1>2, <1>3 DEF TypeOK, Deliver, sourceVars, linkVars, runVars

LEMMA TypePanics == TypeOK /\ InitializePanics => TypeOK'
<1> SUFFICES ASSUME TypeOK, InitializePanics PROVE TypeOK'
    OBVIOUS
<1>1. errors' \in Nat
    BY FailsType DEF InitializePanics
<1>2. events' \in Seq(Events)
    BY EmptySeq DEF InitializePanics
<1>. QED BY <1>1, <1>2 DEF InitializePanics, TypeOK, Phases, sourceVars, runVars, Events

LEMMA TypeBoot == TypeOK /\ Boot => TypeOK'
<1> SUFFICES ASSUME TypeOK, Boot, ~ InitializePanics PROVE TypeOK'
    BY TypePanics
<1>1. UNCHANGED <<sourceVars, cache, link, events, todo, mu, restored,
                  flaps, losses, errors>>
    BY DEF Boot, Dial, SetConnected, AddLifecycleListener, StoreReconciliation,
           InitialReconcile, Run, BootFrame
<1>2. boot' \in Phases /\ connected' \in BOOLEAN
    BY DEF TypeOK, Phases, Boot, Dial, SetConnected, AddLifecycleListener,
           StoreReconciliation, InitialReconcile, Run
<1>3. pc' \in [Agents -> Places]
    BY DEF TypeOK, Places, Agents, Boot, Dial, SetConnected,
           AddLifecycleListener, StoreReconciliation, InitialReconcile, Run
<1>4. feed' \subseteq Changes
  <2>1. ASSUME NEW n \in Present(source)
        PROVE  [rv |-> source[n], name |-> n, gone |-> FALSE] \in Changes
    BY Bounds DEF TypeOK, Present, Changes, Versions
  <2>. QED BY <2>1 DEF TypeOK, Boot, Dial, SetConnected, AddLifecycleListener,
                       StoreReconciliation, InitialReconcile, Run
<1>. QED BY <1>1, <1>2, <1>3, <1>4 DEF TypeOK, sourceVars

LEMMA TypeConnection ==
    ASSUME TypeOK, LinkDown \/ LinkUp \/ Listener
    PROVE  TypeOK'
<1>1. events' \in Seq(Events)
  <2>1. events \in Seq(Events)
    BY DEF TypeOK, Events
  <2>2. ASSUME NEW event \in Events, Notify(event)
        PROVE  events' \in Seq(Events)
    BY <2>1, <2>2, AppendProperties DEF Notify
  <2>3. "connected" \in Events /\ "disconnected" \in Events
    BY DEF Events
  <2>4. CASE LinkDown \/ LinkUp
    BY <2>2, <2>3, <2>4 DEF LinkDown, LinkUp
  <2>5. CASE Listener
    <3>1. events # <<>> /\ events' = Tail(events)
      BY <2>5 DEF Listener, OnDisconnected, OnConnected
    <3>. QED BY <2>1, <3>1, HeadTailProperties
  <2>. QED BY <2>4, <2>5
<1>2. link' \in BOOLEAN /\ connected' \in BOOLEAN /\ boot' = boot
    BY DEF TypeOK, LinkDown, LinkUp, Listener, OnDisconnected, OnConnected, ListenerFrame
<1>5. flaps' \in Nat
    BY DEF TypeOK, LinkDown, LinkUp, Listener, OnDisconnected, OnConnected, ListenerFrame
<1>3. pc' \in [Agents -> Places]
    BY DEF TypeOK, LinkDown, LinkUp, Listener, OnDisconnected, OnConnected, Places,
           runVars
<1>4. UNCHANGED <<source, rv, feed, cache, todo, mu, restored, losses, errors>>
    BY DEF LinkDown, LinkUp, Listener, OnDisconnected, OnConnected, ListenerFrame,
           runVars, sourceVars
<1>. QED BY <1>1, <1>2, <1>3, <1>4, <1>5 DEF TypeOK, Events

LEMMA TypeLoseMember ==
    ASSUME TypeOK, NEW lost \in SUBSET Names, LoseMember(lost)
    PROVE  TypeOK'
<1>1. cache' \in [Names -> Versions]
    BY Bounds DEF TypeOK, LoseMember, Versions
<1>2. pc' \in [Agents -> Places]
    BY DEF TypeOK, LoseMember, Places
<1>. QED BY <1>1, <1>2 DEF TypeOK, LoseMember, sourceVars, linkVars

LEMMA TypeTick == TypeOK /\ Tick => TypeOK'
    BY DEF TypeOK, Tick, Places, sourceVars, linkVars

\* What a step of SafeReconcile leaves alone, and the types of the rest.
LEMMA TypeReconcile ==
    ASSUME TypeOK, NEW a \in Agents, Reconcile(a)
    PROVE  TypeOK'
<1> USE DEF TypeOK
<1>1. Nothing \in [Names -> Versions] /\ 0 \in Versions
    BY Bounds DEF Nothing, Versions
<1>2. ASSUME NEW place \in Places, GoTo(a, place)
      PROVE  pc' \in [Agents -> Places] /\ mu' \in Agents \cup {Nobody}
    BY <1>2 DEF GoTo
<1>3. ASSUME Leave(a)
      PROVE  /\ pc' \in [Agents -> Places] /\ mu' \in Agents \cup {Nobody}
             /\ todo' \in [Agents -> [Names -> Versions]]
    BY <1>1, <1>3 DEF Leave, Places
<1>4. CASE TryLock(a)
    BY <1>4 DEF TryLock, RunFrame, Places, sourceVars, linkVars
<1>5. CASE ListResources(a) \/ EndList(a)
  <2>1. /\ pc' \in [Agents -> Places] /\ mu' \in Agents \cup {Nobody}
        /\ todo' \in [Agents -> [Names -> Versions]] /\ errors' \in Nat
    <3>1. CASE /\ UNCHANGED errors
               /\ UNCHANGED todo \/ todo' = [todo EXCEPT ![a] = source]
               /\ \E place \in Places : GoTo(a, place)
      BY <1>2, <3>1
    <3>2. CASE ListFails(a)
      BY <1>3, <3>2 DEF ListFails
    <3>3. AfterList \in Places /\ "fetch" \in Places
      BY DEF AfterList, Places
    <3>. QED BY <1>5, <3>1, <3>2, <3>3 DEF ListResources, EndList
  <2>. QED BY <1>5, <2>1 DEF ListResources, EndList, RunFrame, sourceVars, linkVars
<1>11. ASSUME NEW n \in Names, Fetch(a, n)
       PROVE  TypeOK'
  <2>1. todo' \in [Agents -> [Names -> Versions]]
    BY <1>11 DEF Fetch
  <2>. QED BY <1>11, <2>1 DEF Fetch, RunFrame, sourceVars, linkVars
<1>6. CASE Count(a)
  <2>1. /\ pc' \in [Agents -> Places] /\ mu' \in Agents \cup {Nobody}
        /\ todo' \in [Agents -> [Names -> Versions]] /\ errors' \in Nat
    BY <1>2, <1>3, <1>6, FailsType DEF Count, Places
  <2>. QED BY <1>6, <2>1 DEF Count, RunFrame, sourceVars, linkVars
<1>7. CASE Keys(a)
  <2>1. /\ pc' \in [Agents -> Places] /\ mu' \in Agents \cup {Nobody}
        /\ errors' \in Nat
    BY <1>2, <1>7, FailsType DEF Keys, Places
  <2>2. todo' \in [Agents -> [Names -> Versions]]
    BY <1>1, <1>7 DEF Keys
  <2>. QED BY <1>7, <2>1, <2>2 DEF Keys, RunFrame, sourceVars, linkVars
<1>8. ASSUME NEW n \in Names, Create(a, n)
      PROVE  TypeOK'
  <2>1. todo' \in [Agents -> [Names -> Versions]]
    BY <1>1, <1>8 DEF Create
  <2>2. cache' \in [Names -> Versions] /\ restored' \in [Names -> Versions]
    <3>1. todo[a][n] \in Versions
      OBVIOUS
    <3>. QED BY <1>8, <3>1 DEF Create
  <2>3. errors' \in Nat
    BY <1>8, FailsType DEF Create
  <2>. QED BY <1>8, <2>1, <2>2, <2>3 DEF Create, RunFrame, sourceVars, linkVars
<1>9. CASE Panic(a)
    BY <1>3, <1>9 DEF Panic, RunFrame, sourceVars, linkVars
<1>10. CASE Finish(a)
    BY <1>3, <1>10 DEF Finish, RunFrame, sourceVars, linkVars
<1>. QED BY <1>4, <1>5, <1>6, <1>7, <1>8, <1>9, <1>10, <1>11 DEF Reconcile

LEMMA TypeStep == TypeOK /\ [Next]_vars => TypeOK'
<1> SUFFICES ASSUME TypeOK, [Next]_vars PROVE TypeOK'
    OBVIOUS
<1>1. ASSUME NEW n \in Names, Put(n) \/ Remove(n)
      PROVE  TypeOK'
    BY <1>1, TypeSourceChange DEF Put, Remove
<1>2. CASE UNCHANGED vars
    BY <1>2 DEF vars, TypeOK
<1>. QED BY <1>1, <1>2, TypeDeliver, TypeBoot, TypeConnection, TypeLoseMember,
            TypeTick, TypeReconcile DEF Next

\* The state has its type, in every mode: in particular nothing but versions
\* of objects is ever stored by a change or by a reconciliation.
THEOREM TypeCorrect == Spec => []TypeOK
<1>. QED BY TypeInit, TypeStep, PTL DEF Spec

(***************************************************************************)
(* Mutual exclusion: whoever is inside reconcile holds the mutex.          *)
(***************************************************************************)
HoldsMutex == \A a \in Agents : Inside(a) => mu = a

\* Steps outside SafeReconcile move a caller at most to the attempt to lock.
LEMMA OutsideSteps ==
    ASSUME TypeOK, [Next]_vars, ~ \E a \in Agents : Reconcile(a)
    PROVE  /\ mu' = mu /\ todo' = todo /\ restored' = restored
           /\ \A a \in Agents : Inside(a)' <=> Inside(a)
<1> USE DEF TypeOK, Inside
<1>1. ASSUME NEW n \in Names, Put(n) \/ Remove(n)
      PROVE  mu' = mu /\ todo' = todo /\ restored' = restored /\ pc' = pc
    BY <1>1 DEF Put, Remove, SourceChange, runVars
<1>2. ASSUME NEW e \in feed, Deliver(e)
      PROVE  mu' = mu /\ todo' = todo /\ restored' = restored /\ pc' = pc
    BY <1>2 DEF Deliver, runVars
<1>3. ASSUME Boot
      PROVE  /\ mu' = mu /\ todo' = todo /\ restored' = restored
             /\ \/ pc' = pc
                \/ pc["initial"] = "idle" /\ pc' = [pc EXCEPT !["initial"] = "try"]
    BY <1>3 DEF Boot, Dial, SetConnected, AddLifecycleListener, InitializePanics,
                StoreReconciliation, InitialReconcile, Run, BootFrame, runVars
<1>4. ASSUME LinkDown \/ LinkUp
      PROVE  mu' = mu /\ todo' = todo /\ restored' = restored /\ pc' = pc
    BY <1>4 DEF LinkDown, LinkUp, runVars
<1>5. ASSUME Listener
      PROVE  /\ mu' = mu /\ todo' = todo /\ restored' = restored
             /\ \/ pc' = pc
                \/ pc["reconnect"] = "idle" /\ pc' = [pc EXCEPT !["reconnect"] = "try"]
    BY <1>5 DEF Listener, OnDisconnected, OnConnected, ListenerFrame
<1>6. ASSUME NEW lost \in SUBSET Names, LoseMember(lost)
      PROVE  /\ mu' = mu /\ todo' = todo /\ restored' = restored
             /\ \/ pc' = pc
                \/ pc["member"] = "idle" /\ pc' = [pc EXCEPT !["member"] = "try"]
    BY <1>6 DEF LoseMember
<1>7. ASSUME Tick
      PROVE  /\ mu' = mu /\ todo' = todo /\ restored' = restored
             /\ \/ pc' = pc
                \/ pc["tick"] = "idle" /\ pc' = [pc EXCEPT !["tick"] = "try"]
    BY <1>7 DEF Tick
<1>8. ASSUME NEW b, pc' = pc \/ (pc[b] = "idle" /\ pc' = [pc EXCEPT ![b] = "try"])
      PROVE  \A a \in Agents : Inside(a)' <=> Inside(a)
    BY <1>8
<1>9. UNCHANGED vars => mu' = mu /\ todo' = todo /\ restored' = restored /\ pc' = pc
    BY DEF vars
<1>. QED BY <1>1, <1>2, <1>3, <1>4, <1>5, <1>6, <1>7, <1>8, <1>9 DEF Next

\* A caller locks the free mutex and enters, stays inside with it, or leaves
\* and frees it; the other callers do not move.
LEMMA InsideSteps ==
    ASSUME TypeOK, HoldsMutex, NEW a \in Agents, Reconcile(a)
    PROVE  /\ \A b \in Agents \ {a} : pc'[b] = pc[b]
           /\ \/ ~ Inside(a) /\ ~ Inside(a)' /\ mu' = mu
              \/ ~ Inside(a) /\ Inside(a)' /\ mu = Nobody /\ mu' = a
              \/ Inside(a) /\ Inside(a)' /\ mu' = mu
              \/ Inside(a) /\ ~ Inside(a)' /\ mu' = Nobody
<1> USE DEF TypeOK, Inside
<1>1. ASSUME Leave(a), Inside(a)
      PROVE  /\ \A b \in Agents \ {a} : pc'[b] = pc[b]
             /\ Inside(a) /\ ~ Inside(a)' /\ mu' = Nobody
    BY <1>1 DEF Leave
<1>2. ASSUME NEW place \in {"fetch", "count", "keys", "write"}, GoTo(a, place), Inside(a)
      PROVE  /\ \A b \in Agents \ {a} : pc'[b] = pc[b]
             /\ Inside(a) /\ Inside(a)' /\ mu' = mu
    BY <1>2 DEF GoTo
<1>3. CASE TryLock(a)
    BY <1>3 DEF TryLock
<1>4. CASE ListResources(a) \/ EndList(a)
  <2>1. Inside(a)
    BY <1>4 DEF ListResources, EndList
  <2>2. CASE GoTo(a, AfterList) \/ GoTo(a, "fetch")
    BY <1>2, <2>1, <2>2 DEF AfterList
  <2>3. CASE Leave(a)
    BY <1>1, <2>1, <2>3
  <2>. QED BY <1>4, <2>2, <2>3 DEF ListResources, EndList, ListFails
<1>5. CASE Count(a)
    BY <1>1, <1>2, <1>5 DEF Count
<1>6. CASE Keys(a)
    BY <1>2, <1>6 DEF Keys
<1>7. CASE \E n \in Names : Fetch(a, n) \/ Create(a, n)
    BY <1>7 DEF Fetch, Create
<1>8. CASE Panic(a) \/ Finish(a)
    BY <1>1, <1>8 DEF Panic, Finish
<1>. QED BY <1>3, <1>4, <1>5, <1>6, <1>7, <1>8 DEF Reconcile

LEMMA MutexInit == Init => HoldsMutex
    BY DEF Init, HoldsMutex, Inside

LEMMA MutexStep == TypeOK /\ HoldsMutex /\ [Next]_vars => HoldsMutex'
<1> SUFFICES ASSUME TypeOK, HoldsMutex, [Next]_vars PROVE HoldsMutex'
    OBVIOUS
<1>1. CASE ~ \E a \in Agents : Reconcile(a)
    BY <1>1, OutsideSteps DEF HoldsMutex
<1>2. ASSUME NEW a \in Agents, Reconcile(a)
      PROVE  HoldsMutex'
  <2>1. \A b \in Agents \ {a} : Inside(b)' => Inside(b)
    BY <1>2, InsideSteps DEF Inside
  <2>2. Nobody \notin Agents
    BY DEF Nobody, Agents
  <2>. QED BY <1>2, <2>1, <2>2, InsideSteps DEF HoldsMutex
<1>. QED BY <1>1, <1>2

\* No two callers of SafeReconcile are ever inside reconcile together.
THEOREM MutualExclusion == Spec => []OneReconcileAtATime
<1>1. HoldsMutex => OneReconcileAtATime
    BY DEF HoldsMutex, OneReconcileAtATime
<1>. QED BY <1>1, TypeInit, TypeStep, MutexInit, MutexStep, PTL DEF Spec

(***************************************************************************)
(* No regress.  What the one caller inside has left to write is no older   *)
(* than what was restored, and no newer than the source; a caller that is  *)
(* not inside has nothing left, so the next list starts from the source.   *)
(***************************************************************************)
OnlyInsideHasWork ==
    \A a \in Agents : ~ Inside(a) => todo[a] = Nothing

VersionsInOrder ==
    \A n \in Names :
        /\ source[n] <= rv /\ restored[n] <= rv
        /\ source[n] # 0 => restored[n] <= source[n]
        /\ \A a \in Agents : todo[a][n] # 0 =>
                /\ restored[n] <= todo[a][n] /\ todo[a][n] <= rv
                /\ source[n] # 0 => todo[a][n] <= source[n]

OrderInv == TypeOK /\ HoldsMutex /\ OnlyInsideHasWork /\ VersionsInOrder

LEMMA VersionsAreNumbers ==
    ASSUME TypeOK
    PROVE  /\ rv \in Nat
           /\ \A n \in Names : source[n] \in Nat /\ restored[n] \in Nat
           /\ \A a \in Agents, n \in Names : todo[a][n] \in Nat
    BY Bounds DEF TypeOK

LEMMA OrderInit == Init => OrderInv
<1> SUFFICES ASSUME Init PROVE OrderInv
    OBVIOUS
<1>1. TypeOK /\ HoldsMutex
    BY TypeInit, MutexInit
<1>2. OnlyInsideHasWork
    BY DEF Init, OnlyInsideHasWork
<1>3. \A n \in Names : source[n] \in {0, 1} /\ restored[n] = 0
    BY DEF Init, Nothing
<1>4. \A a \in Agents, n \in Names : todo[a][n] = 0
    BY DEF Init, Nothing
<1>5. rv = 1
    BY DEF Init
<1>6. VersionsInOrder
    BY <1>3, <1>4, <1>5 DEF VersionsInOrder
<1>. QED BY <1>1, <1>2, <1>6 DEF OrderInv

\* The source moves forward, or the step leaves it alone.
LEMMA SourceSteps ==
    ASSUME TypeOK, [Next]_vars
    PROVE  \/ source' = source /\ rv' = rv
           \/ /\ rv' = rv + 1
              /\ \E n \in Names : source' = [source EXCEPT ![n] = 0]
                               \/ source' = [source EXCEPT ![n] = rv + 1]
<1>1. ASSUME NEW n \in Names, Put(n) \/ Remove(n)
      PROVE  rv' = rv + 1 /\ (source' = [source EXCEPT ![n] = 0]
                               \/ source' = [source EXCEPT ![n] = rv + 1])
    BY <1>1 DEF Put, Remove, SourceChange
<1>2. ASSUME NEW e \in feed, Deliver(e)
      PROVE  source' = source /\ rv' = rv
    BY <1>2 DEF Deliver, sourceVars
<1>3. ASSUME Boot
      PROVE  source' = source /\ rv' = rv
    BY <1>3 DEF Boot, Dial, SetConnected, AddLifecycleListener, InitializePanics, BootFrame,
                StoreReconciliation, InitialReconcile, Run, sourceVars
<1>4. ASSUME LinkDown \/ LinkUp \/ Listener
      PROVE  source' = source /\ rv' = rv
    BY <1>4 DEF LinkDown, LinkUp, Listener, OnDisconnected, OnConnected,
                ListenerFrame, sourceVars
<1>5. ASSUME NEW lost \in SUBSET Names, LoseMember(lost)
      PROVE  source' = source /\ rv' = rv
    BY <1>5 DEF LoseMember, sourceVars
<1>6. ASSUME Tick
      PROVE  source' = source /\ rv' = rv
    BY <1>6 DEF Tick, sourceVars
<1>7. ASSUME NEW a \in Agents, Reconcile(a)
      PROVE  source' = source /\ rv' = rv
    BY <1>7 DEF Reconcile, TryLock, ListResources, Fetch, EndList, ListFails,
                Count, Keys, Create, Panic,
                Finish, RunFrame, sourceVars
<1>8. UNCHANGED vars => source' = source /\ rv' = rv
    BY DEF vars
<1>. QED BY <1>1, <1>2, <1>3, <1>4, <1>5, <1>6, <1>7, <1>8 DEF Next

\* What a step of SafeReconcile does to the work left and to what is restored.
LEMMA WorkSteps ==
    ASSUME TypeOK, NEW a \in Agents, Reconcile(a), ~ Inside(a) => todo[a] = Nothing
    PROVE  /\ \A b \in Agents \ {a} : todo'[b] = todo[b]
           /\ \/ todo'[a] = Nothing /\ restored' = restored
              \/ todo'[a] = source /\ restored' = restored /\ Inside(a)'
              \/ /\ restored' = restored
                 /\ todo'[a] = todo[a] \/ /\ \A n \in Names :
                                                todo'[a][n] \in {0, todo[a][n], source[n]}
                                          /\ Inside(a)'
              \/ \E n \in Names :
                    /\ todo[a][n] # 0 /\ Inside(a)'
                    /\ todo' = [todo EXCEPT ![a][n] = 0]
                    /\ restored' = restored \/ restored' = [restored EXCEPT ![n] = todo[a][n]]
<1> USE DEF TypeOK
<1>1. ASSUME Leave(a), restored' = restored
      PROVE  /\ \A b \in Agents \ {a} : todo'[b] = todo[b]
             /\ todo'[a] = Nothing /\ restored' = restored
    BY <1>1 DEF Leave
<1>2. ASSUME UNCHANGED <<todo, restored>>
      PROVE  /\ \A b \in Agents \ {a} : todo'[b] = todo[b]
             /\ restored' = restored /\ todo'[a] = todo[a]
    BY <1>2
<1>3. CASE TryLock(a)
    BY <1>2, <1>3 DEF TryLock
<1>4. CASE ListResources(a)
  <2>1. CASE /\ todo' = [todo EXCEPT ![a] = source]
             /\ GoTo(a, AfterList) \/ GoTo(a, "fetch")
    BY <1>4, <2>1 DEF ListResources, GoTo, Inside, AfterList
  <2>2. CASE Leave(a)
    BY <1>1, <1>4, <2>2 DEF ListResources
  <2>. QED BY <1>4, <2>1, <2>2 DEF ListResources, ListFails
<1>9. CASE EndList(a)
  <2>1. CASE UNCHANGED todo
    BY <1>2, <1>9, <2>1 DEF EndList
  <2>2. CASE Leave(a)
    BY <1>1, <1>9, <2>2 DEF EndList
  <2>. QED BY <1>9, <2>1, <2>2 DEF EndList, ListFails
<1>10. ASSUME NEW n \in Names, Fetch(a, n)
       PROVE  /\ \A b \in Agents \ {a} : todo'[b] = todo[b]
              /\ restored' = restored /\ Inside(a)'
              /\ \A m \in Names : todo'[a][m] \in {0, todo[a][m], source[m]}
    BY <1>10 DEF Fetch, Inside
<1>5. CASE Count(a)
    BY <1>1, <1>2, <1>5 DEF Count
<1>6. CASE Keys(a)
  <2>1. CASE todo' = [todo EXCEPT ![a] = [n \in Names |-> IF cache[n] # 0 THEN 0 ELSE @[n]]]
    <3>1. Inside(a)' /\ restored' = restored
      BY <1>6 DEF Keys, GoTo, Inside
    <3>2. \A n \in Names : todo'[a][n] \in {0, todo[a][n], source[n]}
      BY <2>1
    <3>. QED BY <2>1, <3>1, <3>2
  <2>2. CASE UNCHANGED todo
    BY <1>2, <1>6, <2>2 DEF Keys
  <2>. QED BY <1>6, <2>1, <2>2 DEF Keys
<1>7. ASSUME NEW n \in Names, Create(a, n)
      PROVE  /\ \A b \in Agents \ {a} : todo'[b] = todo[b]
             /\ todo[a][n] # 0 /\ Inside(a)'
             /\ todo' = [todo EXCEPT ![a][n] = 0]
             /\ restored' = restored \/ restored' = [restored EXCEPT ![n] = todo[a][n]]
    BY <1>7 DEF Create, Inside
<1>8. CASE Panic(a) \/ Finish(a)
    BY <1>1, <1>8 DEF Panic, Finish
<1>. QED BY <1>3, <1>4, <1>5, <1>6, <1>7, <1>8, <1>9, <1>10 DEF Reconcile

\* Only Leave takes a caller out, and it drops what was left.
LEMMA StaysWithWork ==
    ASSUME TypeOK, NEW a \in Agents, Reconcile(a), todo'[a] = todo[a],
           ~ Inside(a) => todo[a] = Nothing, ~ Inside(a)'
    PROVE  todo[a] = Nothing
<1> USE DEF TypeOK
<1>1. Leave(a) => todo'[a] = Nothing
    BY DEF Leave
<1>2. ASSUME NEW place \in {"fetch", "count", "keys", "write"}
      PROVE  ~ GoTo(a, place)
    BY DEF GoTo, Inside
<1>3. CASE TryLock(a)
    BY <1>3 DEF TryLock, Inside
<1>4. CASE ListResources(a) \/ EndList(a)
    BY <1>1, <1>2, <1>4 DEF ListResources, EndList, ListFails, AfterList
<1>5. CASE Count(a)
    BY <1>1, <1>2, <1>5 DEF Count
<1>6. CASE Keys(a)
    BY <1>2, <1>6 DEF Keys
<1>7. CASE \E n \in Names : Fetch(a, n) \/ Create(a, n)
    BY <1>7 DEF Fetch, Create, Inside
<1>8. CASE Panic(a) \/ Finish(a)
    BY <1>1, <1>8 DEF Panic, Finish
<1>. QED BY <1>3, <1>4, <1>5, <1>6, <1>7, <1>8 DEF Reconcile

LEMMA OrderStep ==
    ASSUME OrderInv, [Next]_vars
    PROVE  /\ OrderInv'
           /\ \A n \in Names : restored'[n] >= restored[n]
<1> USE DEF OrderInv
<1>1. TypeOK' /\ HoldsMutex'
    BY TypeStep, MutexStep
<1>2. TypeOK /\ Nobody \notin Agents
    BY DEF Nobody, Agents
<1>3. CASE ~ \E a \in Agents : Reconcile(a)
  <2>1. todo' = todo /\ restored' = restored /\ OnlyInsideHasWork'
    BY <1>2, <1>3, OutsideSteps DEF OnlyInsideHasWork
  <2>2. ASSUME source' = source, rv' = rv
        PROVE  VersionsInOrder'
    BY <2>1, <2>2 DEF VersionsInOrder
  <2>3. ASSUME NEW m \in Names, rv' = rv + 1,
               \/ source' = [source EXCEPT ![m] = 0]
               \/ source' = [source EXCEPT ![m] = rv + 1]
        PROVE  VersionsInOrder'
    <3>1. \A n \in Names : source'[n] = source[n] \/ source'[n] \in {0, rv + 1}
      BY <1>2, <2>3 DEF TypeOK
    <3>. QED BY <1>2, <2>1, <2>3, <3>1, VersionsAreNumbers DEF VersionsInOrder
  <2>4. VersionsInOrder'
    BY <1>2, <2>2, <2>3, SourceSteps
  <2>. QED BY <1>1, <1>2, <2>1, <2>4, VersionsAreNumbers
<1>4. ASSUME NEW a \in Agents, Reconcile(a)
      PROVE  /\ OrderInv'
             /\ \A n \in Names : restored'[n] >= restored[n]
  <2>1. source' = source /\ rv' = rv
    BY <1>4 DEF Reconcile, TryLock, ListResources, Fetch, EndList, ListFails,
                Count, Keys, Create, Panic,
                Finish, RunFrame, sourceVars
  <2>2. \A n \in Names : Nothing[n] = 0
    BY DEF Nothing
  <2>3. ~ Inside(a) => todo[a] = Nothing
    BY DEF OnlyInsideHasWork
  <2>4. \A b \in Agents \ {a} : todo'[b] = todo[b] /\ (Inside(b)' <=> Inside(b))
    BY <1>2, <1>4, <2>3, WorkSteps, InsideSteps DEF Inside
  <2>5. ASSUME NEW n \in Names, todo[a][n] # 0
        PROVE  \A b \in Agents \ {a} : todo[b] = Nothing
    <3>1. Inside(a)
      BY <2>2, <2>3, <2>5
    <3>. QED BY <3>1 DEF HoldsMutex, OnlyInsideHasWork
  <2>6. CASE todo'[a] = Nothing /\ restored' = restored
    <3>1. OnlyInsideHasWork'
      BY <2>4, <2>6 DEF OnlyInsideHasWork, Nothing
    <3>2. VersionsInOrder'
      BY <2>1, <2>2, <2>4, <2>6 DEF VersionsInOrder
    <3>. QED BY <1>1, <1>2, <2>6, <3>1, <3>2, VersionsAreNumbers
  <2>7. CASE todo'[a] = source /\ restored' = restored /\ Inside(a)'
    <3>1. OnlyInsideHasWork'
      BY <2>4, <2>7 DEF OnlyInsideHasWork, Nothing
    <3>2. VersionsInOrder'
      BY <1>2, <2>1, <2>4, <2>7, VersionsAreNumbers DEF VersionsInOrder
    <3>. QED BY <1>1, <1>2, <2>7, <3>1, <3>2, VersionsAreNumbers
  <2>8. CASE /\ restored' = restored /\ Inside(a)'
             /\ \A n \in Names : todo'[a][n] \in {0, todo[a][n], source[n]}
    <3>1. OnlyInsideHasWork'
      BY <2>4, <2>8 DEF OnlyInsideHasWork, Nothing
    <3>2. VersionsInOrder'
      BY <1>2, <2>1, <2>4, <2>8, VersionsAreNumbers DEF VersionsInOrder
    <3>. QED BY <1>1, <1>2, <2>8, <3>1, <3>2, VersionsAreNumbers
  <2>9. CASE restored' = restored /\ todo'[a] = todo[a]
    <3>1. ~ Inside(a)' => todo[a] = Nothing
      BY <1>2, <1>4, <2>3, <2>9, StaysWithWork
    <3>2. OnlyInsideHasWork'
      BY <2>4, <2>9, <3>1 DEF OnlyInsideHasWork, Nothing
    <3>3. VersionsInOrder'
      BY <2>1, <2>4, <2>9 DEF VersionsInOrder
    <3>. QED BY <1>1, <1>2, <2>9, <3>2, <3>3, VersionsAreNumbers
  <2>10. ASSUME NEW m \in Names, todo[a][m] # 0, Inside(a)',
                todo' = [todo EXCEPT ![a][m] = 0],
                restored' = restored \/ restored' = [restored EXCEPT ![m] = todo[a][m]]
         PROVE  /\ OrderInv'
                /\ \A n \in Names : restored'[n] >= restored[n]
    <3>1. OnlyInsideHasWork'
      BY <2>4, <2>10 DEF OnlyInsideHasWork, Nothing
    <3>2. \A n \in Names : restored'[n] = restored[n]
                        \/ (n = m /\ restored'[n] = todo[a][n])
      BY <1>2, <2>10 DEF TypeOK
    <3>3. \A n \in Names : todo'[a][n] = IF n = m THEN 0 ELSE todo[a][n]
      BY <1>2, <2>10 DEF TypeOK
    <3>4. \A b \in Agents \ {a}, n \in Names : todo'[b][n] = 0
      BY <2>2, <2>4, <2>5, <2>10
    <3>5. VersionsInOrder'
      BY <2>1, <2>10, <3>2, <3>3, <3>4 DEF VersionsInOrder
    <3>6. \A n \in Names : restored'[n] >= restored[n]
      BY <1>2, <2>10, <3>2, VersionsAreNumbers DEF VersionsInOrder
    <3>. QED BY <1>1, <3>1, <3>5, <3>6
  <2>. QED BY <1>2, <1>4, <2>3, <2>6, <2>7, <2>8, <2>9, <2>10, WorkSteps
<1>. QED BY <1>3, <1>4

\* A reconciliation never writes an older version than one before it wrote:
\* concurrent triggers cannot make the map go back and forth.
THEOREM NoRegress == Spec => ReconcileNeverRegresses
<1>1. OrderInv /\ [Next]_vars => OrderInv'
    BY OrderStep
<1>2. OrderInv /\ [Next]_vars => [\A n \in Names : restored'[n] >= restored[n]]_vars
    BY OrderStep
<1>. QED BY <1>1, <1>2, OrderInit, PTL DEF Spec, ReconcileNeverRegresses

(***************************************************************************)
(* The connection flag.  The last word of the events still to be handled   *)
(* is the state of the connection; the flag is set before there is a       *)
(* listener, so what happened before is not missed.                        *)
(***************************************************************************)
FlagFollows ==
    /\ ~ Listening => events = <<>>
    /\ boot = "flagged" => connected
    /\ Listening /\ link =>
        IF events = <<>> THEN connected ELSE events[Len(events)] = "connected"

LEMMA LastOfAppend ==
    ASSUME NEW s \in Seq(Events), NEW e \in Events
    PROVE  Append(s, e) # <<>> /\ Append(s, e)[Len(Append(s, e))] = e
    BY AppendProperties

LEMMA LastOfTail ==
    ASSUME NEW s \in Seq(Events), s # <<>>
    PROVE  IF Tail(s) = <<>> THEN s[Len(s)] = Head(s)
                             ELSE Tail(s)[Len(Tail(s))] = s[Len(s)]
<1>1. /\ Len(s) \in Nat \ {0} /\ Tail(s) \in Seq(Events)
      /\ Len(Tail(s)) = Len(s) - 1
      /\ \A i \in 1 .. Len(Tail(s)) : Tail(s)[i] = s[i+1]
    BY HeadTailProperties, EmptySeq
<1>2. CASE Tail(s) = <<>>
  <2>1. Len(Tail(s)) = 0
    <3>1. Len(<<>>) = 0
      BY EmptySeq
    <3>. QED BY <1>2, <3>1
  <2>2. Len(s) = 1
    <3>1. Len(s) \in Nat /\ Len(s) - 1 = 0
      BY <1>1, <2>1
    <3>2. \A k \in Nat : k - 1 = 0 => k = 1
      OBVIOUS
    <3>. QED BY <3>1, <3>2
  <2>. QED BY <1>2, <2>2
<1>3. CASE Tail(s) # <<>>
  <2>1. Len(Tail(s)) \in Nat \ {0}
    BY <1>1, <1>3, EmptySeq
  <2>. QED BY <1>1, <1>3, <2>1
<1>. QED BY <1>2, <1>3

LEMMA FlagInit == Init => FlagFollows
    BY DEF Init, FlagFollows, Listening

LEMMA FlagStep == TypeOK /\ FlagFollows /\ [Next]_vars => FlagFollows'
<1> SUFFICES ASSUME TypeOK, FlagFollows, [Next]_vars PROVE FlagFollows'
    OBVIOUS
<1>1. events \in Seq(Events) /\ "connected" \in Events /\ "disconnected" \in Events
    BY DEF TypeOK, Events
<1>2. ASSUME UNCHANGED <<link, connected, events, boot>>
      PROVE  FlagFollows'
    BY <1>2 DEF FlagFollows, Listening
<1>3. CASE Boot
    BY <1>3 DEF FlagFollows, Listening, BootFrame, Boot, Dial, SetConnected,
                AddLifecycleListener, InitializePanics, StoreReconciliation, InitialReconcile, Run
<1>4. CASE LinkDown
    BY <1>4 DEF LinkDown, Notify, FlagFollows, Listening
<1>5. CASE LinkUp
  <2>1. Listening => /\ events' # <<>> /\ events'[Len(events')] = "connected"
    BY <1>1, <1>5, LastOfAppend DEF LinkUp, Notify
  <2>. QED BY <1>5, <2>1 DEF LinkUp, Notify, FlagFollows, Listening
<1>6. CASE Listener
  <2>1. /\ events # <<>> /\ events' = Tail(events) /\ link' = link /\ boot' = boot
    BY <1>6 DEF Listener, OnDisconnected, OnConnected, ListenerFrame
  <2>2. Listening
    BY <2>1 DEF FlagFollows
  <2>3. CASE OnConnected
    BY <1>1, <2>1, <2>2, <2>3, LastOfTail DEF FlagFollows, OnConnected, Listening
  <2>4. CASE OnDisconnected
    BY <1>1, <2>1, <2>2, <2>4, LastOfTail DEF FlagFollows, OnDisconnected, Listening
  <2>. QED BY <1>6, <2>3, <2>4 DEF Listener
<1>7. ASSUME NEW n \in Names, Put(n) \/ Remove(n)
      PROVE  FlagFollows'
    BY <1>2, <1>7 DEF Put, Remove, SourceChange, linkVars
<1>8. ASSUME NEW e \in feed, Deliver(e)
      PROVE  FlagFollows'
    BY <1>2, <1>8 DEF Deliver, linkVars
<1>9. ASSUME NEW lost \in SUBSET Names, LoseMember(lost)
      PROVE  FlagFollows'
    BY <1>2, <1>9 DEF LoseMember, linkVars
<1>10. CASE Tick
    BY <1>2, <1>10 DEF Tick, linkVars
<1>11. ASSUME NEW a \in Agents, Reconcile(a)
       PROVE  FlagFollows'
    BY <1>2, <1>11 DEF Reconcile, TryLock, ListResources, Fetch, EndList, ListFails, Count, Keys, Create,
                       Panic, Finish, RunFrame, linkVars
<1>12. CASE UNCHANGED vars
    BY <1>2, <1>12 DEF vars
<1>. QED BY <1>3, <1>4, <1>5, <1>6, <1>7, <1>8, <1>9, <1>10, <1>11, <1>12 DEF Next

\* Whenever the lifecycle events are handled and the connection is there,
\* the flag says so, even if it was lost and regained during Initialize.
THEOREM FlagCorrect == Spec => []NeverStuckDisconnected
<1>1. FlagFollows => NeverStuckDisconnected
    BY DEF FlagFollows, NeverStuckDisconnected
<1>. QED BY <1>1, TypeInit, TypeStep, FlagInit, FlagStep, PTL DEF Spec
(***************************************************************************)
(* Refinement of CacheMirror.  A version is in the air when a change or a  *)
(* caller carries it; steps are then sorted by what they do to the source  *)
(* and to the map.                                                         *)
(***************************************************************************)
\* What a step has to leave of the changes and of the lists being carried
\* for nothing to take off but what the source holds.
CarriesOn ==
    /\ \A e \in feed' : e \in feed \/ Brought(e) = source'[e.name]
    /\ \A a \in Agents, n \in Names : todo'[a][n] \in {0, todo[a][n], source'[n]}

LEMMA TakesOff ==
    ASSUME TypeOK', CarriesOn
    PROVE  Mirror!TakeOffOrDrop
<1>1. \A e \in feed' : Brought(e) \in Nat
  <2>1. \A e \in feed' : e.rv \in Nat
    BY DEF TypeOK, Changes
  <2>. QED BY <2>1 DEF Brought
<1>2. \A a \in Agents, n \in Names : todo'[a][n] \in Nat
    BY Bounds DEF TypeOK
<1>3. Flying' = [n \in Names |->
          {Brought(e) : e \in {f \in feed' : f.name = n}}
              \cup ({todo'[a][n] : a \in Agents} \ {0})]
    BY DEF Flying, Brought
<1>4. Flying' \in [Names -> SUBSET Nat]
    BY <1>1, <1>2, <1>3
<1>5. ASSUME NEW n \in Names, NEW v \in Flying'[n]
      PROVE  v \in Flying[n] \cup {source'[n]}
  <2>1. Flying[n] = {Brought(e) : e \in {f \in feed : f.name = n}}
                        \cup ({todo[a][n] : a \in Agents} \ {0})
    BY DEF Flying
  <2>2. ASSUME NEW e \in feed', e.name = n, v = Brought(e)
        PROVE  v \in Flying[n] \cup {source'[n]}
    BY <2>1, <2>2 DEF CarriesOn
  <2>3. ASSUME NEW a \in Agents, v = todo'[a][n], v # 0
        PROVE  v \in Flying[n] \cup {source'[n]}
    BY <2>1, <2>3 DEF CarriesOn
  <2>. QED BY <1>3, <1>5, <2>2, <2>3
<1>. QED BY <1>4, <1>5 DEF Mirror!TakeOffOrDrop

\* What is carried is in the air.
LEMMA Carried ==
    /\ \A e \in feed : e.name \in Names => Brought(e) \in Flying[e.name]
    /\ \A a \in Agents, n \in Names : todo[a][n] # 0 => todo[a][n] \in Flying[n]
    BY DEF Flying

LEMMA MirrorInit == Init => Mirror!Init
<1> SUFFICES ASSUME Init PROVE Mirror!Init
    OBVIOUS
<1>1. \A a \in Agents, n \in Names : todo[a][n] = 0
    BY DEF Init, Nothing
<1>2. \A n \in Names : {todo[a][n] : a \in Agents} \ {0} = {}
    BY <1>1
<1>3. \A n \in Names : {Brought(e) : e \in {f \in feed : f.name = n}} = {}
    BY DEF Init
<1>4. Flying = [n \in Names |-> {}]
    BY <1>2, <1>3 DEF Flying
<1>. QED BY <1>4 DEF Init, Mirror!Init

LEMMA MirrorSourceChange ==
    ASSUME TypeOK, TypeOK', NEW n \in Names, Put(n) \/ Remove(n)
    PROVE  Mirror!Change(n)
<1>1. PICK gone \in BOOLEAN : SourceChange(n, gone)
    BY DEF Put, Remove
<1>2. /\ rv' = rv + 1 /\ cache' = cache /\ todo' = todo
      /\ source' = [source EXCEPT ![n] = IF gone THEN 0 ELSE rv + 1]
      /\ feed' \subseteq feed \cup {[rv |-> rv + 1, name |-> n, gone |-> gone]}
    BY <1>1 DEF SourceChange, runVars
<1>3. source'[n] = IF gone THEN 0 ELSE rv + 1
    BY <1>2 DEF TypeOK
<1>4. CarriesOn
  <2>1. ASSUME NEW e \in feed', e \notin feed
        PROVE  Brought(e) = source'[e.name]
    BY <1>2, <1>3, <2>1 DEF Brought
  <2>. QED BY <1>2, <2>1 DEF CarriesOn
<1>5. Mirror!TakeOffOrDrop
    BY <1>4, TakesOff
<1>. QED BY <1>2, <1>5 DEF Mirror!Change

LEMMA MirrorDeliver ==
    ASSUME TypeOK, TypeOK', NEW e \in feed, Deliver(e)
    PROVE  Mirror!Travel \/ \E n \in Names : Mirror!Land(n)
<1>1. /\ source' = source /\ rv' = rv /\ todo' = todo /\ feed' \subseteq feed
      /\ cache' = cache \/ cache' = [cache EXCEPT ![e.name] = Brought(e)]
    BY DEF Deliver, sourceVars, runVars, Brought
<1>2. e.name \in Names
    BY DEF TypeOK, Changes
<1>3. CarriesOn
    BY <1>1 DEF CarriesOn
<1>4. Brought(e) \in Flying[e.name]
    BY <1>2, Carried
<1>. QED BY <1>1, <1>2, <1>3, <1>4, TakesOff DEF Mirror!Land, Mirror!Travel

\* Only Run puts changes on their way: what is in the source at that time.
LEMMA MirrorQuiet ==
    ASSUME TypeOK, TypeOK', Boot \/ LinkDown \/ LinkUp \/ Listener \/ Tick
    PROVE  Mirror!Travel
<1>1. UNCHANGED <<source, rv, cache, todo>>
    BY DEF Boot, Dial, SetConnected, AddLifecycleListener, InitializePanics, StoreReconciliation,
           InitialReconcile, Run, BootFrame, LinkDown, LinkUp, Listener,
           OnDisconnected, OnConnected, ListenerFrame, Tick, sourceVars, runVars
<1>2. \/ feed' = feed
      \/ feed' = {[rv |-> source[n], name |-> n, gone |-> FALSE] : n \in Present(source)}
    BY DEF Boot, Dial, SetConnected, AddLifecycleListener, InitializePanics, StoreReconciliation,
           InitialReconcile, Run, BootFrame, LinkDown, LinkUp, Listener,
           OnDisconnected, OnConnected, ListenerFrame, Tick
<1>3. CarriesOn
    BY <1>1, <1>2 DEF CarriesOn, Brought
<1>. QED BY <1>1, <1>3, TakesOff DEF Mirror!Travel

LEMMA MirrorLoseMember ==
    ASSUME TypeOK, TypeOK', NEW lost \in SUBSET Names, LoseMember(lost)
    PROVE  Mirror!Lose(lost)
<1>1. UNCHANGED <<source, rv, feed, todo>>
    BY DEF LoseMember, sourceVars
<1>2. CarriesOn
    BY <1>1 DEF CarriesOn
<1>. QED BY <1>1, <1>2, TakesOff DEF LoseMember, Mirror!Lose

LEMMA MirrorReconcile ==
    ASSUME TypeOK, TypeOK', NEW a \in Agents, Reconcile(a)
    PROVE  Mirror!Travel \/ \E n \in Names : Mirror!Land(n)
<1> USE DEF TypeOK
<1>1. UNCHANGED <<source, rv, feed>>
    BY DEF Reconcile, TryLock, ListResources, Fetch, EndList, ListFails,
           Count, Keys, Create, Panic, Finish,
           RunFrame, sourceVars
<1>2. ASSUME cache' = cache,
             \A b \in Agents, n \in Names : todo'[b][n] \in {0, todo[b][n], source[n]}
      PROVE  Mirror!Travel
  <2>1. CarriesOn
    BY <1>1, <1>2 DEF CarriesOn
  <2>. QED BY <1>1, <1>2, <2>1, TakesOff DEF Mirror!Travel
<1>3. Leave(a) => \A b \in Agents, n \in Names : todo'[b][n] \in {0, todo[b][n]}
    BY DEF Leave, Nothing
<1>4. CASE TryLock(a)
    BY <1>2, <1>4 DEF TryLock
<1>5. CASE ListResources(a) \/ EndList(a)
    BY <1>2, <1>3, <1>5 DEF ListResources, EndList, ListFails
<1>10. ASSUME NEW n \in Names, Fetch(a, n)
       PROVE  Mirror!Travel
    BY <1>2, <1>10 DEF Fetch
<1>6. CASE Count(a)
    BY <1>2, <1>3, <1>6 DEF Count
<1>7. CASE Keys(a)
    BY <1>2, <1>7 DEF Keys
<1>8. ASSUME NEW n \in Names, Create(a, n)
      PROVE  Mirror!Travel \/ Mirror!Land(n)
  <2>1. \A b \in Agents, m \in Names : todo'[b][m] \in {0, todo[b][m]}
    BY <1>8 DEF Create
  <2>2. CASE cache' = cache
    BY <1>2, <2>1, <2>2
  <2>3. CASE cache' = [cache EXCEPT ![n] = todo[a][n]]
    <3>1. todo[a][n] \in Flying[n]
      BY <1>8, Carried DEF Create
    <3>2. CarriesOn
      BY <1>1, <2>1 DEF CarriesOn
    <3>. QED BY <1>1, <2>3, <3>1, <3>2, TakesOff DEF Mirror!Land
  <2>. QED BY <1>8, <2>2, <2>3 DEF Create
<1>9. CASE Panic(a) \/ Finish(a)
    BY <1>2, <1>3, <1>9 DEF Panic, Finish
<1>. QED BY <1>4, <1>5, <1>6, <1>7, <1>8, <1>9, <1>10 DEF Reconcile

LEMMA MirrorStep ==
    ASSUME TypeOK, TypeOK', [Next]_vars
    PROVE  Mirror!Next \/ UNCHANGED Mirror!vars
<1>1. CASE UNCHANGED vars
    BY <1>1 DEF vars, Mirror!vars, Flying, Brought
<1>2. CASE Next
    BY <1>2, MirrorSourceChange, MirrorDeliver, MirrorQuiet, MirrorLoseMember,
       MirrorReconcile DEF Next, Mirror!Next
<1>. QED BY <1>1, <1>2

\* Reconciliation, with everything that may fail or overlap in it, implements
\* CacheMirror: the map gets nothing that the source did not hold when it
\* was read.
THEOREM Implements == Spec => MirrorSpec
<1>1. TypeOK /\ [Next]_vars => TypeOK'
    BY TypeStep
<1>2. TypeOK /\ TypeOK' /\ [Next]_vars => [Mirror!Next]_Mirror!vars
    BY MirrorStep
<1>. QED BY <1>1, <1>2, TypeInit, MirrorInit, PTL DEF Spec, MirrorSpec, Mirror!Spec
=============================================================================
