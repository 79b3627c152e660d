--------------------------- MODULE ProcessProofs ---------------------------
(***************************************************************************)
(* Proofs about Process and the MetricsRegistry it runs, for any set of    *)
(* collecting goroutines and any modes.                                    *)
(***************************************************************************)
EXTENDS Process, TLAPS

(***************************************************************************)
(* Types.                                                                  *)
(***************************************************************************)
LEMMA CodeType ==
    ASSUME NEW g \in Goroutines
    PROVE  Code(g) \in Seq(Instructions)
<1>1. /\ \A h \in Hooks : <<"register", h>> \in Instructions
      /\ \A f \in Goroutines : <<"go", f>> \in Instructions
      /\ \A c \in {"kubernetes", "mongo", "hazelcast", "handlers", "list"} :
            <<"collect", c>> \in Instructions
      /\ \A k \in {"connect", "serve", "wait"} : <<k, "-">> \in Instructions
    BY DEF Instructions
<1>2. Wait \in Instructions
    BY <1>1 DEF Wait
<1>3. RunCmd \in Seq(Instructions)
  <2>1. << <<"go", "listen">>, <<"go", "expose">>, Wait >> \in Seq(Instructions)
    BY <1>1, <1>2 DEF Goroutines
  <2>2. << <<"register", "store">>, <<"connect", "-">>, <<"collect", "kubernetes">>,
           <<"go", "informer">>, <<"register", "informer">>, <<"go", "expose">>, Wait >>
            \in Seq(Instructions)
    BY <1>1, <1>2 DEF Goroutines, Hooks
  <2>. QED BY <2>1, <2>2 DEF RunCmd
<1>4. Listen \in Seq(Instructions)
    BY <1>1 DEF Listen, Hooks
<1>5. Inform \in Seq(Instructions)
    BY <1>1 DEF Inform
<1>6. Expose \in Seq(Instructions)
    BY <1>1 DEF Expose, Hooks
<1>. QED BY <1>3, <1>4, <1>5, <1>6 DEF Code, Goroutines

\* The instruction a goroutine is at.
LEMMA InstructionType ==
    ASSUME TypeOK, NEW g \in Goroutines, program[g] # <<>>
    PROVE  /\ Head(program[g]) \in Instructions
           /\ Tail(program[g]) \in Seq(Instructions)
           /\ At(g, "go") => Operand(g) \in Goroutines
           /\ At(g, "register") => Operand(g) \in Hooks
<1>1. program[g] \in Seq(Instructions)
    BY DEF TypeOK
<1>2. Head(program[g]) \in Instructions /\ Tail(program[g]) \in Seq(Instructions)
    BY <1>1
<1>3. At(g, "go") => Operand(g) \in Goroutines
    BY <1>2 DEF At, Operand, Instructions
<1>4. At(g, "register") => Operand(g) \in Hooks
    BY <1>2 DEF At, Operand, Instructions
<1>. QED BY <1>2, <1>3, <1>4

LEMMA ContinueType ==
    ASSUME TypeOK, NEW g \in Goroutines, program[g] # <<>>, Continue(g)
    PROVE  program' \in [Goroutines -> Seq(Instructions)]
    BY InstructionType DEF Continue, TypeOK

LEMMA ShutdownType ==
    ASSUME TypeOK, NEW g \in Goroutines, Shutdown(g)
    PROVE  program' \in [Goroutines -> Seq(Instructions)]
<1>1. <<Wait>> \in Seq(Instructions)
    BY DEF Wait, Instructions
<1>. QED BY <1>1 DEF Shutdown, TypeOK

\* What a sort returns has the length and the elements of what it got, in
\* the order of their priorities.
LEMMA SortedShape ==
    ASSUME NEW s \in Seq(Hooks), NEW t \in Sorted(s)
    PROVE  /\ t \in Seq(Hooks) /\ Len(t) = Len(s)
           /\ \A i \in 1..Len(s) : \E j \in 1..Len(s) : t[j] = s[i]
           /\ \A i \in 1..Len(s) : \E j \in 1..Len(s) : t[i] = s[j]
           /\ \A i, j \in 1..Len(s) : i < j => Priority[t[i]] <= Priority[t[j]]
<1>1. DOMAIN s = 1..Len(s) /\ Len(s) \in Nat /\ \A i \in 1..Len(s) : s[i] \in Hooks
    OBVIOUS
<1>2. PICK p \in [DOMAIN s -> DOMAIN s] :
        /\ \A j \in DOMAIN s : \E i \in DOMAIN s : p[i] = j
        /\ \A i, j \in DOMAIN s : i < j =>
                \/ Priority[s[p[i]]] < Priority[s[p[j]]]
                \/ Priority[s[p[i]]] = Priority[s[p[j]]] /\ p[i] < p[j]
        /\ t = [i \in DOMAIN s |-> s[p[i]]]
    BY Zenon DEF Sorted
<1>3. t \in Seq(Hooks) /\ Len(t) = Len(s)
    BY <1>1, <1>2
<1>4. \A i \in 1..Len(s) : t[i] = s[p[i]] /\ p[i] \in 1..Len(s)
    BY <1>1, <1>2
<1>5. \A h \in Hooks : Priority[h] \in Nat
    BY DEF Priority, Hooks
<1>6. ASSUME NEW i \in 1..Len(s), NEW j \in 1..Len(s), i < j
      PROVE  Priority[t[i]] <= Priority[t[j]]
  <2>1. Priority[t[i]] < Priority[t[j]] \/ Priority[t[i]] = Priority[t[j]]
    BY <1>1, <1>2, <1>4, <1>6
  <2>2. t[i] \in Hooks /\ t[j] \in Hooks
    BY <1>1, <1>4
  <2>3. Priority[t[i]] \in Nat /\ Priority[t[j]] \in Nat
    BY <1>5, <2>2
  <2>. QED BY <2>1, <2>3
<1>7. \A i \in 1..Len(s) : \E j \in 1..Len(s) : t[j] = s[i]
    BY <1>1, <1>2, <1>4
<1>. QED BY <1>3, <1>4, <1>6, <1>7

\* The end of an access leaves hooks in the slice.  If no access has met
\* another, it leaves what it meant to, there was no change of the slice
\* since it began, and nobody is in the middle of an access.
LEMMA EndAccessEffect ==
    ASSUME TypeOK, NEW g \in Goroutines, NEW result \in Seq(Hooks), NEW length \in Nat,
           EndAccess(g, result, length)
    PROVE  /\ hooks' \in Seq(Hooks) /\ blurred' \in BOOLEAN
           /\ open' \in [Goroutines -> Seq(Hooks) \cup {Closed}]
           /\ blurred => blurred'
           /\ ~ blurred' => /\ hooks' = result /\ open[g] = hooks
                            /\ \A f \in Goroutines : open'[f] = Closed
<1>1. open' = [open EXCEPT ![g] = Closed]
    BY DEF EndAccess
<1>2. CASE Overlap(g)
  <2>1. hooks' \in Mixed(result, length) /\ blurred' = TRUE
    BY <1>2 DEF EndAccess
  <2>2. hooks' \in [1..length -> Hooks]
    BY <2>1 DEF Mixed
  <2>. QED BY <1>1, <2>1, <2>2 DEF TypeOK
<1>3. CASE ~ Overlap(g)
  <2>1. hooks' = result /\ blurred' = blurred
    BY <1>3 DEF EndAccess
  <2>2. hooks = open[g] /\ \A f \in Goroutines \ {g} : open[f] = Closed
    BY <1>3 DEF Overlap, Meets
  <2>. QED BY <1>1, <2>1, <2>2 DEF TypeOK
<1>. QED BY <1>2, <1>3

\* EndRegister and EndSort of g, and what they mean to leave in the slice.
LEMMA RegisterShape ==
    ASSUME TypeOK, NEW g \in Goroutines, At(g, "register"), open[g] # Closed
    PROVE  /\ Append(open[g], Operand(g)) \in Seq(Hooks)
           /\ Len(open[g]) + 1 \in Nat
<1>1. open[g] \in Seq(Hooks)
    BY DEF TypeOK
<1>2. Operand(g) \in Hooks
    BY InstructionType DEF At
<1>. QED BY <1>1, <1>2

LEMMA DieType ==
    ASSUME TypeOK, Die
    PROVE  TypeOK'
<1>1. /\ <<>> \in Seq(Hooks) /\ <<>> \in Seq(Instructions)
    OBVIOUS
<1>2. RegistryTypeOK'
    BY DEF Die, Forget, RegistryTypeOK, Entries
<1>. QED BY <1>1, <1>2 DEF Die, TypeOK, Idle, Stages

LEMMA TypeInit == Init => TypeOK
<1> SUFFICES ASSUME Init PROVE TypeOK
    OBVIOUS
<1>1. /\ <<>> \in Seq(Hooks) /\ <<>> \in Seq(Instructions) /\ "main" \in Goroutines
    BY DEF Goroutines
<1>2. program \in [Goroutines -> Seq(Instructions)]
    BY <1>1, CodeType DEF Init, Idle
<1>3. RegistryTypeOK
    BY DEF Init, RegistryInit, RegistryTypeOK, Entries
<1>. QED BY <1>1, <1>2, <1>3 DEF Init, TypeOK, Idle, Stages

\* Steps of the goroutines that do not touch the slice of hooks.
LEMMA ProgramType ==
    ASSUME TypeOK, NEW g \in Goroutines,
           Go(g) \/ GoCollect(g) \/ Connect(g) \/ CannotServe(g) \/ Return(g)
    PROVE  TypeOK'
<1>1. /\ UNCHANGED <<lifeVars, hookVars, exitVars>>
      /\ running' \subseteq Collectors \/ running' = running
      /\ running \subseteq running'
      /\ UNCHANGED <<storing, entry, registered, raced>>
    BY DEF Go, GoCollect, Connect, CannotServe, Return, registryVars, TypeOK, RegistryTypeOK
<1>2. program[g] # <<>>
    BY DEF Go, GoCollect, Connect, CannotServe, Return, At
<1>3. program' \in [Goroutines -> Seq(Instructions)]
  <2>1. CASE Go(g)
    BY <1>2, <2>1, InstructionType, CodeType DEF Go, TypeOK
  <2>2. CASE Continue(g)
    BY <1>2, <2>2, ContinueType
  <2>3. CASE Shutdown(g)
    BY <2>3, ShutdownType
  <2>. QED BY <2>1, <2>2, <2>3 DEF GoCollect, Connect, CannotServe, Return
<1>4. RegistryTypeOK'
    BY <1>1 DEF TypeOK, RegistryTypeOK
<1>. QED BY <1>1, <1>3, <1>4 DEF TypeOK, lifeVars, hookVars, exitVars

\* Steps that do.
LEMMA HooksType ==
    ASSUME TypeOK, NEW g \in Goroutines,
           BeginRegister(g) \/ EndRegister(g) \/ BeginSort(g) \/ EndSort(g)
    PROVE  TypeOK'
<1>1. RegistryTypeOK'
    BY DEF TypeOK, BeginRegister, EndRegister, BeginSort, EndSort, Reach,
           registryVars, RegistryTypeOK
<1>2. CASE BeginRegister(g)
    BY <1>1, <1>2 DEF BeginRegister, BeginAccess, TypeOK, lifeVars, exitVars
<1>3. CASE BeginSort(g)
    BY <1>1, <1>3 DEF BeginSort, Reach, BeginAccess, TypeOK, lifeVars, Stages
<1>4. CASE EndRegister(g)
  <2>1. open[g] # Closed /\ program[g] # <<>>
    BY <1>4 DEF EndRegister, EndAccess, At
  <2>2. program' \in [Goroutines -> Seq(Instructions)]
    BY <1>4, <2>1, ContinueType DEF EndRegister
  <2>3. /\ hooks' \in Seq(Hooks) /\ blurred' \in BOOLEAN
        /\ open' \in [Goroutines -> Seq(Hooks) \cup {Closed}]
    BY <1>4, <2>1, RegisterShape, EndAccessEffect DEF EndRegister
  <2>. QED BY <1>1, <1>4, <2>2, <2>3 DEF EndRegister, TypeOK, lifeVars, exitVars
<1>5. CASE EndSort(g)
  <2>1. open[g] \in Seq(Hooks) /\ Len(hooks) \in Nat
    BY <1>5 DEF EndSort, EndAccess, TypeOK
  <2>2. /\ hooks' \in Seq(Hooks) /\ blurred' \in BOOLEAN
        /\ open' \in [Goroutines -> Seq(Hooks) \cup {Closed}]
    BY <1>5, <2>1, SortedShape, EndAccessEffect DEF EndSort
  <2>. QED BY <1>1, <1>5, <2>2 DEF EndSort, Reach, TypeOK, lifeVars, Stages
<1>. QED BY <1>2, <1>3, <1>4, <1>5

LEMMA ShutDownType ==
    ASSUME TypeOK, NEW g \in Goroutines,
           AwaitSignal(g) \/ BeginHooks(g) \/ RunHook(g)
    PROVE  TypeOK'
<1>1. RegistryTypeOK'
    BY DEF TypeOK, AwaitSignal, BeginHooks, RunHook, Reach, registryVars, RegistryTypeOK
<1>2. CASE AwaitSignal(g)
    BY <1>1, <1>2 DEF AwaitSignal, Reach, TypeOK, lifeVars, hookVars, Stages
<1>3. CASE BeginHooks(g)
    BY <1>1, <1>3 DEF BeginHooks, Blur, Reach, TypeOK, lifeVars, Stages
<1>4. CASE RunHook(g)
  <2>1. Head(agenda[g]) \in Hooks /\ Tail(agenda[g]) \in Seq(Hooks)
    BY <1>4 DEF RunHook, TypeOK
  <2>. QED BY <1>1, <1>4, <2>1 DEF RunHook, Blur, TypeOK, lifeVars
<1>. QED BY <1>2, <1>3, <1>4

LEMMA MeasureType ==
    ASSUME TypeOK, Measure
    PROVE  TypeOK'
<1>1. PICK c \in Collectors : BeginStore(c) \/ EndStore(c) \/ Find(c) \/ GiveUp(c)
    BY DEF Measure, Collect
<1>2. RegistryTypeOK'
  <2>1. CASE BeginStore(c)
    BY <2>1 DEF TypeOK, RegistryTypeOK, BeginStore, Race, Clash
  <2>2. CASE EndStore(c)
    BY <2>2 DEF TypeOK, RegistryTypeOK, EndStore, Race, Clash, Entries
  <2>3. CASE Find(c)
    BY <2>3 DEF TypeOK, RegistryTypeOK, Find
  <2>4. CASE GiveUp(c)
    BY <2>4 DEF TypeOK, RegistryTypeOK, GiveUp
  <2>. QED BY <1>1, <2>1, <2>2, <2>3, <2>4
<1>. QED BY <1>2 DEF Measure, TypeOK, lifeVars, hookVars, exitVars

\* Signals that are awaited, and the start of a process that has ended.
LEMMA LifeType ==
    ASSUME TypeOK,
           \/ Signal /\ ~ Die
           \/ Restart
           \/ UNCHANGED vars
    PROVE  TypeOK'
<1>1. RegistryTypeOK'
    BY DEF TypeOK, Signal, Restart, vars, registryVars, RegistryTypeOK
<1>2. CASE Signal /\ ~ Die
  <2>1. due' \in [Goroutines -> SUBSET Hooks]
    <3>1. {hooks[i] : i \in DOMAIN hooks} \in SUBSET Hooks
      <4>1. hooks \in Seq(Hooks)
        BY DEF TypeOK
      <4>. QED BY <4>1
    <3>2. due' = [g \in Goroutines |-> IF stage[g] = "waiting" /\ open = [f \in Goroutines |-> Closed]
                                       THEN {hooks[i] : i \in DOMAIN hooks} ELSE due[g]]
      BY <1>2 DEF Signal
    <3>. QED BY <3>1, <3>2 DEF TypeOK
  <2>2. stage' \in [Goroutines -> Stages]
    BY <1>2 DEF Signal, TypeOK, Stages
  <2>. QED BY <1>1, <1>2, <2>1, <2>2 DEF Signal, TypeOK, lifeVars, hookVars
<1>3. CASE Restart
  <2>1. program' \in [Goroutines -> Seq(Instructions)]
    <3>1. Code("main") \in Seq(Instructions) /\ <<>> \in Seq(Instructions)
      BY CodeType DEF Goroutines
    <3>. QED BY <1>3, <3>1 DEF Restart, Idle
  <2>. QED BY <1>1, <1>3, <2>1 DEF Restart, TypeOK, hookVars, exitVars
<1>4. CASE UNCHANGED vars
    BY <1>1, <1>4 DEF vars, lifeVars, hookVars, exitVars, TypeOK
<1>. QED BY <1>2, <1>3, <1>4

\* The actions, each with its own name.  Those that end the process are Die.
LEMMA Steps ==
    ASSUME [Next]_vars
    PROVE  \/ \E g \in Goroutines :
                Go(g) \/ GoCollect(g) \/ Connect(g) \/ CannotServe(g) \/ Return(g)
           \/ \E g \in Goroutines :
                BeginRegister(g) \/ EndRegister(g) \/ BeginSort(g) \/ EndSort(g)
           \/ \E g \in Goroutines : AwaitSignal(g) \/ BeginHooks(g) \/ RunHook(g)
           \/ Measure
           \/ Signal /\ ~ Die
           \/ Restart
           \/ UNCHANGED vars
           \/ Die
    BY DEF Next, Run, Start, ShutDown, CloseTwice, Exit, HandlerPanics, MapFatal, Kill

LEMMA TypeStep == TypeOK /\ [Next]_vars => TypeOK'
    BY Steps, ProgramType, HooksType, ShutDownType, MeasureType, LifeType, DieType

\* The state of the process, its hooks and its gauges has its type in both
\* modes, for any goroutines that count: accesses of the slice that meet mix
\* hooks, but leave nothing in it that is not a hook.
THEOREM TypeCorrect == Spec => []TypeOK
<1>. QED BY TypeInit, TypeStep, PTL DEF Spec

(***************************************************************************)
(* HooksRun needs to follow the hooks from the signal, when they are in    *)
(* the slice, to the loop, which runs them or has still to, as long as no  *)
(* two accesses of the slice have met: then whoever is in the middle of    *)
(* one knows the slice as it is, and a sort loses nothing.                 *)
(***************************************************************************)
In(s) == {s[i] : i \in 1..Len(s)}

AccessCurrent == ~ blurred => \A g \in Goroutines : open[g] # Closed => open[g] = hooks

DueKept ==
    ~ blurred => \A g \in Goroutines :
        /\ stage[g] \in {"working", "waiting"} => due[g] = {}
        /\ stage[g] \in {"told", "sorting", "sorted"} => due[g] \subseteq In(hooks)
        /\ stage[g] = "running" => due[g] \subseteq shut \cup In(agenda[g])

HooksInv == TypeOK /\ AccessCurrent /\ DueKept

(***************************************************************************)
(* StoresAfterInformers needs the plan of the watcher: its main goroutine  *)
(* alone gets the signal, at the end of what it has to do and after it has *)
(* registered the stores' hook, and meanwhile nothing but the metrics      *)
(* server can be registered, whose hook comes last; so the hooks are run   *)
(* in the order of their priorities.                                       *)
(***************************************************************************)
InOrder(s) == \A i, j \in 1..Len(s) : i < j => Priority[s[i]] <= Priority[s[j]]

Plan ==
    /\ program["listen"] = <<>>
    /\ \A g \in {"expose", "informer"} : \A i \in 1..Len(program[g]) :
            \/ program[g][i][1] \in {"collect", "serve"}
            \/ program[g][i] = <<"register", "server">>
    /\ \A i \in 1..Len(program["main"]) :
            /\ program["main"][i][1] = "wait" => i = Len(program["main"])
            /\ program["main"][i][1] = "go" => program["main"][i][2] \in {"informer", "expose"}

MainAlone ==
    /\ \A g \in Goroutines \ {"main"} : stage[g] = "working"
    /\ stage["main"] # "working" => At("main", "wait") /\ Len(program["main"]) = 1

StoreRegistered ==
    ~ blurred /\ program["main"] # <<>> =>
        program["main"][1] = <<"register", "store">> \/ "store" \in In(hooks)

RunInOrder ==
    ~ blurred =>
        /\ stage["main"] = "sorted" => InOrder(hooks)
        /\ stage["main"] # "running" => shut = {}
        /\ stage["main"] = "running" =>
                /\ InOrder(agenda["main"])
                /\ \A h \in shut, k \in In(agenda["main"]) : Priority[h] <= Priority[k]
                /\ "store" \in shut \cup In(agenda["main"])

NothingLeft == ~ alive => program = Idle

WatcherInv ==
    mode = "watcher" =>
        /\ Plan
        /\ MainAlone
        /\ StoreRegistered
        /\ RunInOrder
        /\ NothingLeft

LEMMA AppendIn ==
    ASSUME NEW s \in Seq(Hooks), NEW h \in Hooks
    PROVE  In(Append(s, h)) = In(s) \cup {h}
<1> DEFINE t == Append(s, h)
<1>1. /\ Len(t) = Len(s) + 1 /\ Len(s) \in Nat
      /\ \A i \in 1..Len(s) : t[i] = s[i]
      /\ t[Len(s) + 1] = h
    OBVIOUS
<1> HIDE DEF t
<1>2. In(t) = In(s) \cup {h}
    BY <1>1 DEF In
<1>. QED BY <1>2 DEF t

LEMMA TailIn ==
    ASSUME NEW s \in Seq(Hooks), s # <<>>
    PROVE  In(s) = {Head(s)} \cup In(Tail(s))
<1> DEFINE t == Tail(s)
<1>1. /\ Len(s) \in Nat \ {0} /\ Len(t) = Len(s) - 1
      /\ \A i \in 1..Len(t) : t[i] = s[i + 1]
      /\ Head(s) = s[1]
    OBVIOUS
<1> HIDE DEF t
<1>2. ASSUME NEW i \in 1..Len(s) PROVE s[i] \in {s[1]} \cup In(t)
  <2>1. CASE i = 1
    BY <2>1
  <2>2. CASE i # 1
    <3>1. i - 1 \in 1..Len(t) /\ t[i - 1] = s[i]
      BY <1>1, <2>2
    <3>. QED BY <3>1 DEF In
  <2>. QED BY <2>1, <2>2
<1>3. ASSUME NEW i \in 1..Len(t) PROVE t[i] \in In(s)
  <2>1. i + 1 \in 1..Len(s) /\ t[i] = s[i + 1]
    BY <1>1
  <2>. QED BY <2>1 DEF In
<1>4. s[1] \in In(s)
    BY <1>1 DEF In
<1>5. In(s) = {s[1]} \cup In(t)
    BY <1>2, <1>3, <1>4 DEF In
<1>. QED BY <1>1, <1>5 DEF t

LEMMA SortedIn ==
    ASSUME NEW s \in Seq(Hooks), NEW t \in Sorted(s)
    PROVE  In(t) = In(s) /\ InOrder(t)
<1>1. /\ Len(t) = Len(s)
      /\ \A i \in 1..Len(s) : \E j \in 1..Len(s) : t[j] = s[i]
      /\ \A i \in 1..Len(s) : \E j \in 1..Len(s) : t[i] = s[j]
      /\ \A i, j \in 1..Len(s) : i < j => Priority[t[i]] <= Priority[t[j]]
    BY SortedShape
<1>2. InOrder(t)
    BY <1>1, Zenon DEF InOrder
<1>3. \A i \in 1..Len(s) : s[i] \in In(t) /\ t[i] \in In(s)
    BY <1>1, Zenon DEF In
<1>4. In(t) = In(s)
    BY <1>1, <1>3 DEF In
<1>. QED BY <1>2, <1>4

LEMMA OrderTail ==
    ASSUME NEW s \in Seq(Hooks), s # <<>>, InOrder(s)
    PROVE  /\ InOrder(Tail(s))
           /\ \A k \in In(Tail(s)) : Priority[Head(s)] <= Priority[k]
<1> DEFINE t == Tail(s)
<1>1. /\ Len(s) \in Nat \ {0} /\ Len(t) = Len(s) - 1
      /\ \A i \in 1..Len(t) : t[i] = s[i + 1]
      /\ Head(s) = s[1]
    OBVIOUS
<1> HIDE DEF t
<1>2. ASSUME NEW i \in 1..Len(t), NEW j \in 1..Len(t), i < j
      PROVE  Priority[t[i]] <= Priority[t[j]]
  <2>1. i + 1 \in 1..Len(s) /\ j + 1 \in 1..Len(s) /\ i + 1 < j + 1
    BY <1>1, <1>2
  <2>2. Priority[s[i + 1]] <= Priority[s[j + 1]]
    BY <2>1 DEF InOrder
  <2>. QED BY <1>1, <2>2
<1>3. ASSUME NEW i \in 1..Len(t)
      PROVE  Priority[s[1]] <= Priority[t[i]]
  <2>1. 1 \in 1..Len(s) /\ i + 1 \in 1..Len(s) /\ 1 < i + 1
    BY <1>1
  <2>2. Priority[s[1]] <= Priority[s[i + 1]]
    BY <2>1 DEF InOrder
  <2>. QED BY <1>1, <2>2
<1>4. InOrder(t) /\ \A k \in In(t) : Priority[s[1]] <= Priority[k]
    BY <1>2, <1>3 DEF InOrder, In
<1>. QED BY <1>1, <1>4 DEF t

\* The metrics server's hook has the last of the priorities.
LEMMA OrderServer ==
    ASSUME NEW s \in Seq(Hooks), InOrder(s)
    PROVE  InOrder(Append(s, "server"))
<1> DEFINE t == Append(s, "server")
<1>1. /\ Len(t) = Len(s) + 1 /\ Len(s) \in Nat
      /\ \A i \in 1..Len(s) : t[i] = s[i] /\ s[i] \in Hooks
      /\ t[Len(s) + 1] = "server"
    BY DEF Hooks
<1> HIDE DEF t
<1>2. \A h \in Hooks : Priority[h] <= Priority["server"]
    BY DEF Priority, Hooks
<1>3. ASSUME NEW i \in 1..Len(t), NEW j \in 1..Len(t), i < j
      PROVE  Priority[t[i]] <= Priority[t[j]]
  <2>1. i \in 1..Len(s) /\ (j \in 1..Len(s) \/ j = Len(s) + 1)
    BY <1>1, <1>3
  <2>2. CASE j \in 1..Len(s)
    <3>1. Priority[s[i]] <= Priority[s[j]]
      BY <1>3, <2>1, <2>2 DEF InOrder
    <3>. QED BY <1>1, <2>1, <2>2, <3>1
  <2>3. CASE j = Len(s) + 1
    BY <1>1, <1>2, <2>1, <2>3
  <2>. QED BY <2>1, <2>2, <2>3
<1>4. InOrder(t)
    BY <1>3 DEF InOrder
<1>. QED BY <1>4 DEF t

(***************************************************************************)
(* The slice: what registering and sorting do to it.                       *)
(***************************************************************************)
LEMMA RegisterEffect ==
    ASSUME HooksInv, NEW g \in Goroutines, EndRegister(g), ~ blurred'
    PROVE  /\ ~ blurred /\ Operand(g) \in Hooks
           /\ hooks' = Append(hooks, Operand(g))
           /\ In(hooks') = In(hooks) \cup {Operand(g)}
           /\ \A f \in Goroutines : open'[f] = Closed
<1>1. TypeOK /\ hooks \in Seq(Hooks)
    BY DEF HooksInv, TypeOK
<1>2. open[g] # Closed /\ At(g, "register")
    BY DEF EndRegister, EndAccess
<1>3. Operand(g) \in Hooks
    BY <1>1, <1>2, InstructionType DEF At
<1>4. /\ ~ blurred /\ hooks' = Append(hooks, Operand(g))
      /\ \A f \in Goroutines : open'[f] = Closed
    BY <1>1, <1>2, RegisterShape, EndAccessEffect DEF EndRegister
<1>. QED BY <1>1, <1>3, <1>4, AppendIn

LEMMA SortEffect ==
    ASSUME HooksInv, NEW g \in Goroutines, EndSort(g), ~ blurred'
    PROVE  /\ ~ blurred /\ In(hooks') = In(hooks) /\ InOrder(hooks')
           /\ \A f \in Goroutines : open'[f] = Closed
<1>1. TypeOK /\ hooks \in Seq(Hooks) /\ open[g] \in Seq(Hooks) /\ Len(hooks) \in Nat
    BY DEF HooksInv, TypeOK, EndSort, EndAccess
<1>2. PICK t \in Sorted(open[g]) : EndAccess(g, t, Len(hooks))
    BY DEF EndSort
<1>3. /\ ~ blurred /\ hooks' = t /\ open[g] = hooks
      /\ \A f \in Goroutines : open'[f] = Closed
    BY <1>1, <1>2, SortedShape, EndAccessEffect
<1>. QED BY <1>1, <1>2, <1>3, SortedIn

LEMMA HooksInvInit == Init => HooksInv
    BY TypeInit DEF Init, HooksInv, AccessCurrent, DueKept

\* A step that leaves the slice alone, or at least what it was found to hold.
LEMMA AccessFrame ==
    ASSUME AccessCurrent, UNCHANGED <<hooks, open>>, blurred => blurred'
    PROVE  AccessCurrent'
    BY DEF AccessCurrent

LEMMA SliceInv ==
    ASSUME HooksInv, TypeOK', NEW g \in Goroutines,
           BeginRegister(g) \/ EndRegister(g) \/ BeginSort(g) \/ EndSort(g)
    PROVE  HooksInv'
<1>1. /\ open \in [Goroutines -> Seq(Hooks) \cup {Closed}]
      /\ stage \in [Goroutines -> Stages]
    BY DEF HooksInv, TypeOK
<1>2. CASE BeginRegister(g)
  <2>1. AccessCurrent'
    BY <1>1, <1>2 DEF BeginRegister, BeginAccess, HooksInv, AccessCurrent
  <2>2. DueKept'
    BY <1>2 DEF BeginRegister, BeginAccess, HooksInv, DueKept, exitVars
  <2>. QED BY <2>1, <2>2 DEF HooksInv
<1>3. CASE BeginSort(g)
  <2>1. AccessCurrent'
    BY <1>1, <1>3 DEF BeginSort, BeginAccess, HooksInv, AccessCurrent
  <2>2. DueKept'
    BY <1>1, <1>3 DEF BeginSort, Reach, BeginAccess, HooksInv, DueKept
  <2>. QED BY <2>1, <2>2 DEF HooksInv
<1>4. CASE EndRegister(g)
  <2>1. AccessCurrent'
    BY <1>4, RegisterEffect DEF AccessCurrent
  <2>2. DueKept'
    BY <1>4, RegisterEffect DEF EndRegister, HooksInv, DueKept, exitVars
  <2>. QED BY <2>1, <2>2 DEF HooksInv
<1>5. CASE EndSort(g)
  <2>1. AccessCurrent'
    BY <1>5, SortEffect DEF AccessCurrent
  <2>2. ~ blurred' => ~ blurred /\ In(hooks)' = In(hooks)
    BY <1>5, SortEffect
  <2>3. DueKept'
    BY <1>1, <1>5, <2>2 DEF EndSort, Reach, HooksInv, DueKept
  <2>. QED BY <2>1, <2>3 DEF HooksInv
<1>. QED BY <1>2, <1>3, <1>4, <1>5

\* What meets what in the loop is not forgotten.
LEMMA BlurKeeps ==
    ASSUME NEW g \in Goroutines, AwaitSignal(g) \/ BeginHooks(g) \/ RunHook(g)
    PROVE  UNCHANGED <<hooks, open>> /\ (blurred => blurred')
<1>1. CASE AwaitSignal(g)
    BY <1>1 DEF AwaitSignal, hookVars
<1>2. CASE BeginHooks(g)
    BY <1>2, Zenon DEF BeginHooks, Blur
<1>3. CASE RunHook(g)
    BY <1>3, Zenon DEF RunHook, Blur
<1>. QED BY <1>1, <1>2, <1>3

LEMMA ShutDownInv ==
    ASSUME HooksInv, TypeOK', NEW g \in Goroutines,
           AwaitSignal(g) \/ BeginHooks(g) \/ RunHook(g)
    PROVE  HooksInv'
<1>1. /\ stage \in [Goroutines -> Stages] /\ agenda \in [Goroutines -> Seq(Hooks)]
    BY DEF HooksInv, TypeOK
<1>2. AccessCurrent'
    BY AccessFrame, BlurKeeps DEF HooksInv
<1>3. CASE AwaitSignal(g)
  <2>1. DueKept'
    BY <1>1, <1>3 DEF AwaitSignal, Reach, HooksInv, DueKept, hookVars
  <2>. QED BY <1>2, <2>1 DEF HooksInv
<1>4. CASE BeginHooks(g)
  <2>1. DueKept'
    BY <1>1, <1>4, BlurKeeps DEF BeginHooks, Reach, HooksInv, DueKept
  <2>. QED BY <1>2, <2>1 DEF HooksInv
<1>5. CASE RunHook(g)
  <2>1. In(agenda[g]) = {Head(agenda[g])} \cup In(Tail(agenda[g]))
    BY <1>1, <1>5, TailIn DEF RunHook
  <2>2. DueKept'
    BY <1>1, <1>5, <2>1, BlurKeeps DEF RunHook, HooksInv, DueKept
  <2>. QED BY <1>2, <2>2 DEF HooksInv
<1>. QED BY <1>3, <1>4, <1>5

LEMMA SignalInv ==
    ASSUME HooksInv, TypeOK', Signal, ~ Die
    PROVE  HooksInv'
<1>1. /\ stage \in [Goroutines -> Stages] /\ due \in [Goroutines -> SUBSET Hooks]
      /\ hooks \in Seq(Hooks)
    BY DEF HooksInv, TypeOK
<1>2. {hooks[i] : i \in DOMAIN hooks} = In(hooks)
    BY <1>1 DEF In
<1>3. AccessCurrent'
    BY AccessFrame DEF HooksInv, Signal, hookVars
<1>4. \A g \in Goroutines :
        /\ stage'[g] = IF stage[g] = "waiting" THEN "told" ELSE stage[g]
        /\ due'[g] \in {due[g], In(hooks)}
        /\ stage[g] # "waiting" => due'[g] = due[g]
    BY <1>2 DEF Signal
<1>5. UNCHANGED <<hookVars, agenda, shut>>
    BY DEF Signal
<1>6. DueKept'
    BY <1>4, <1>5 DEF HooksInv, DueKept, hookVars
<1>. QED BY <1>3, <1>6 DEF HooksInv

LEMMA HooksInvStep == HooksInv /\ [Next]_vars => HooksInv'
<1> SUFFICES ASSUME HooksInv, [Next]_vars PROVE HooksInv'
    OBVIOUS
<1>1. TypeOK'
    BY TypeStep DEF HooksInv
<1>2. CASE Die
    BY <1>1, <1>2 DEF Die, HooksInv, AccessCurrent, DueKept
<1>3. CASE UNCHANGED <<hookVars, exitVars>>
    BY <1>1, <1>3 DEF HooksInv, AccessCurrent, DueKept, hookVars, exitVars
<1>4. ASSUME NEW g \in Goroutines,
             Go(g) \/ GoCollect(g) \/ Connect(g) \/ CannotServe(g) \/ Return(g)
      PROVE  UNCHANGED <<hookVars, exitVars>>
    BY <1>4 DEF Go, GoCollect, Connect, CannotServe, Return
<1>5. Measure \/ Restart \/ UNCHANGED vars => UNCHANGED <<hookVars, exitVars>>
    BY DEF Measure, Restart, vars
<1>. QED BY <1>1, <1>2, <1>3, <1>4, <1>5, Steps, SliceInv, ShutDownInv, SignalInv

\* No hook that was registered at the signal is left out, in either mode and
\* whoever calls GracefulShutdown, unless accesses of the slice have met.
THEOREM AllHooksRun == Spec => []HooksRun
<1>1. HooksInv => HooksRun
    BY DEF HooksInv, DueKept, HooksRun, In
<1>. QED BY HooksInvInit, HooksInvStep, <1>1, PTL DEF Spec

(***************************************************************************)
(* The watcher's plan, and the order in which its hooks are run.           *)
(***************************************************************************)
LEMMA PlanInit ==
    ASSUME mode = "watcher"
    PROVE  /\ Len(Code("main")) = 7 /\ Code("main") # <<>>
           /\ Code("main")[1] = <<"register", "store">>
           /\ \A i \in 1..7 :
                /\ Code("main")[i][1] = "wait" => i = 7
                /\ Code("main")[i][1] = "go" =>
                        Code("main")[i][2] \in {"informer", "expose"}
<1>1. Code("main") = << <<"register", "store">>, <<"connect", "-">>, <<"collect", "kubernetes">>,
                        <<"go", "informer">>, <<"register", "informer">>, <<"go", "expose">>,
                        <<"wait", "-">> >>
    BY DEF Code, RunCmd, Wait
<1>. QED BY <1>1

LEMMA PlanOthers ==
    ASSUME NEW g \in {"expose", "informer"}, NEW i \in 1..Len(Code(g))
    PROVE  Code(g)[i][1] \in {"collect", "serve"} \/ Code(g)[i] = <<"register", "server">>
<1>1. Code("expose") = << <<"register", "server">> >>
    BY DEF Code, Expose
<1>2. Code("informer") = << <<"collect", "hazelcast">>, <<"collect", "mongo">>,
                            <<"collect", "handlers">>, <<"serve", "-">> >>
    BY DEF Code, Inform
<1>. QED BY <1>1, <1>2

LEMMA WatcherInvInit == Init => WatcherInv
<1> SUFFICES ASSUME Init, mode = "watcher"
             PROVE  Plan /\ MainAlone /\ StoreRegistered /\ RunInOrder /\ NothingLeft
    BY DEF WatcherInv
<1>1. /\ program["main"] = Code("main")
      /\ \A g \in Goroutines \ {"main"} : program[g] = <<>>
    BY DEF Init, Idle, Goroutines
<1>2. Plan
  <2>1. \A g \in {"expose", "informer", "listen"} : program[g] = <<>> /\ Len(program[g]) = 0
    BY <1>1 DEF Goroutines
  <2>2. \A i \in 1..Len(program["main"]) :
            /\ program["main"][i][1] = "wait" => i = Len(program["main"])
            /\ program["main"][i][1] = "go" => program["main"][i][2] \in {"informer", "expose"}
    BY <1>1, PlanInit
  <2>. QED BY <2>1, <2>2 DEF Plan
<1>3. MainAlone
    BY DEF Init, MainAlone, Goroutines
<1>4. StoreRegistered
    BY <1>1, PlanInit DEF StoreRegistered
<1>5. RunInOrder
    BY DEF Init, RunInOrder, Goroutines
<1>6. NothingLeft
    BY DEF Init, NothingLeft
<1>. QED BY <1>2, <1>3, <1>4, <1>5, <1>6

\* A goroutine that goes on, and may start others, keeps to the plan.
LEMMA PlanTail ==
    ASSUME TypeOK, Plan, NEW g \in Goroutines, program[g] # <<>>,
           program'[g] = Tail(program[g]),
           \A f \in Goroutines \ {g} :
                program'[f] = program[f] \/ (f \in {"expose", "informer"} /\ program'[f] = Code(f))
    PROVE  Plan'
<1>1. program \in [Goroutines -> Seq(Instructions)]
    BY DEF TypeOK
<1>2. /\ Len(program[g]) \in Nat \ {0} /\ Len(program'[g]) = Len(program[g]) - 1
      /\ \A i \in 1..Len(program'[g]) : program'[g][i] = program[g][i + 1]
  <2>1. program[g] \in Seq(Instructions) /\ program'[g] = Tail(program[g])
    BY <1>1
  <2>. QED BY <2>1
<1>3. \A f \in Goroutines \ {g} :
        program'[f] = program[f] \/ (f \in {"expose", "informer"} /\ program'[f] = Code(f))
    OBVIOUS
<1>4. \A i \in 1..Len(program'[g]) :
        i + 1 \in 1..Len(program[g]) /\ (i + 1 = Len(program[g]) => i = Len(program'[g]))
    BY <1>2
<1>5. g # "listen" /\ program'["listen"] = <<>>
    BY <1>3 DEF Plan, Goroutines
<1>6. ASSUME NEW f \in {"expose", "informer"}, NEW i \in 1..Len(program'[f])
      PROVE  \/ program'[f][i][1] \in {"collect", "serve"}
             \/ program'[f][i] = <<"register", "server">>
  <2>1. CASE f = g
    <3>1. i \in 1..Len(program'[g]) /\ program'[f][i] = program[f][i + 1]
      BY <1>2, <2>1
    <3>2. i + 1 \in 1..Len(program[f])
      BY <1>4, <2>1, <3>1
    <3>. QED BY <3>1, <3>2 DEF Plan
  <2>2. CASE f # g
    <3>1. program'[f] = program[f] \/ program'[f] = Code(f)
      BY <1>3, <2>2 DEF Goroutines
    <3>. QED BY <3>1, PlanOthers DEF Plan
  <2>. QED BY <2>1, <2>2
<1>7. ASSUME NEW i \in 1..Len(program'["main"])
      PROVE  /\ program'["main"][i][1] = "wait" => i = Len(program'["main"])
             /\ program'["main"][i][1] = "go" =>
                    program'["main"][i][2] \in {"informer", "expose"}
  <2>1. CASE g = "main"
    <3>1. /\ program'["main"][i] = program["main"][i + 1]
          /\ i + 1 \in 1..Len(program["main"])
          /\ i + 1 = Len(program["main"]) => i = Len(program'["main"])
      BY <1>2, <1>4, <2>1
    <3>. QED BY <3>1 DEF Plan
  <2>2. CASE g # "main"
    <3>1. program'["main"] = program["main"]
      BY <1>3, <2>2 DEF Goroutines
    <3>. QED BY <3>1 DEF Plan
  <2>. QED BY <2>1, <2>2
<1>. QED BY <1>5, <1>6, <1>7 DEF Plan

\* Where the goroutines of the plan can be.
LEMMA PlanAt ==
    ASSUME TypeOK, Plan, NEW g \in Goroutines, program[g] # <<>>
    PROVE  /\ g # "listen"
           /\ g # "main" => \/ At(g, "collect") \/ At(g, "serve")
                            \/ At(g, "register") /\ Operand(g) = "server"
           /\ At("main", "wait") => Len(program["main"]) = 1
           /\ g = "main" /\ At(g, "go") => Operand(g) \in {"informer", "expose"}
<1>1. \A f \in Goroutines : program[f] # <<>> =>
        1 \in 1..Len(program[f]) /\ Head(program[f]) = program[f][1]
  <2>1. \A f \in Goroutines : program[f] \in Seq(Instructions)
    BY DEF TypeOK
  <2>. QED BY <2>1
<1>2. At("main", "wait") => Len(program["main"]) = 1
    BY <1>1 DEF Plan, At, Goroutines
<1>3. g = "main" /\ At(g, "go") => Operand(g) \in {"informer", "expose"}
    BY <1>1 DEF Plan, At, Operand
<1>4. g # "main" => \/ At(g, "collect") \/ At(g, "serve")
                    \/ At(g, "register") /\ Operand(g) = "server"
    BY <1>1 DEF Plan, At, Operand, Goroutines
<1>5. g # "listen"
    BY DEF Plan
<1>. QED BY <1>2, <1>3, <1>4, <1>5

\* Steps that change nothing the plan and the order depend on.
LEMMA WatcherFrame ==
    ASSUME WatcherInv, UNCHANGED <<program, lifeVars, hooks, blurred, stage, agenda, shut>>
    PROVE  WatcherInv'
    BY DEF WatcherInv, Plan, MainAlone, At, StoreRegistered, RunInOrder, NothingLeft, lifeVars

LEMMA ProgramWatcher ==
    ASSUME HooksInv, WatcherInv, NEW g \in Goroutines,
           Go(g) \/ GoCollect(g) \/ Connect(g) \/ CannotServe(g) \/ Return(g)
    PROVE  WatcherInv'
<1>1. SUFFICES ASSUME mode = "watcher" PROVE WatcherInv'
    BY DEF WatcherInv, Go, GoCollect, Connect, CannotServe, Return, lifeVars
<1>2. /\ TypeOK /\ Plan /\ MainAlone /\ StoreRegistered /\ RunInOrder /\ NothingLeft
      /\ program \in [Goroutines -> Seq(Instructions)]
    BY <1>1 DEF WatcherInv, HooksInv, TypeOK
<1>3. /\ UNCHANGED <<lifeVars, hookVars, exitVars>>
      /\ program[g] # <<>>
      /\ ~ At(g, "wait") /\ ~ At(g, "register")
    BY DEF Go, GoCollect, Connect, CannotServe, Return, At
<1>4. alive /\ alive' = alive
    BY <1>2, <1>3 DEF NothingLeft, Idle, lifeVars
<1>5. RunInOrder' /\ NothingLeft'
    BY <1>2, <1>3, <1>4 DEF RunInOrder, NothingLeft, hookVars, exitVars
<1>6. g = "main" => stage["main"] = "working" /\ (~ blurred => "store" \in In(hooks))
  <2>1. g = "main" => program["main"] # <<>> /\ program["main"][1] # <<"register", "store">>
    <3>1. program[g] \in Seq(Instructions)
      BY <1>2
    <3>2. Head(program[g]) = program[g][1]
      BY <1>3, <3>1
    <3>. QED BY <1>3, <3>2 DEF At
  <2>. QED BY <1>2, <1>3, <2>1 DEF MainAlone, StoreRegistered
<1>7. g # "main" => program'["main"] = program["main"]
  <2>1. g # "main" => ~ At(g, "go") /\ ~ At(g, "connect") /\ g # "listen"
    BY <1>2, <1>3, PlanAt DEF At
  <2>2. g # "main" => Continue(g)
    BY <2>1 DEF Go, GoCollect, Connect, CannotServe, Return
  <2>. QED BY <1>2, <2>2 DEF Continue, Goroutines
<1>8. MainAlone' /\ StoreRegistered'
    BY <1>2, <1>3, <1>6, <1>7
       DEF MainAlone, StoreRegistered, At, hookVars, exitVars
<1>9. Plan'
  <2>1. CASE Go(g)
    <3>1. g = "main" /\ Operand(g) \in {"informer", "expose"}
      BY <1>2, <1>3, <2>1, PlanAt DEF Go, At
    <3>2. /\ program'[g] = Tail(program[g])
          /\ \A f \in Goroutines \ {g} :
                program'[f] = program[f] \/ (f \in {"expose", "informer"} /\ program'[f] = Code(f))
      BY <1>2, <2>1, <3>1 DEF Go, Goroutines
    <3>. QED BY <1>2, <1>3, <3>2, PlanTail
  <2>2. CASE Continue(g)
    <3>1. /\ program'[g] = Tail(program[g])
          /\ \A f \in Goroutines \ {g} : program'[f] = program[f]
      BY <1>2, <2>2 DEF Continue
    <3>. QED BY <1>2, <1>3, <3>1, PlanTail
  <2>3. CASE Shutdown(g) /\ (Connect(g) \/ CannotServe(g))
    <3>1. g = "main"
      BY <1>2, <1>3, <2>3, PlanAt DEF Connect, CannotServe, At
    <3>2. /\ program'["main"] = <<Wait>>
          /\ \A f \in Goroutines \ {"main"} : program'[f] = program[f]
      BY <1>2, <2>3, <3>1 DEF Shutdown
    <3>3. Len(<<Wait>>) = 1 /\ <<Wait>>[1][1] = "wait"
      BY DEF Wait
    <3>4. \A i \in 1..Len(program'["main"]) :
            i = Len(program'["main"]) /\ program'["main"][i][1] # "go"
      BY <3>2, <3>3
    <3>. QED BY <1>2, <3>2, <3>4 DEF Plan, Goroutines
  <2>. QED BY <2>1, <2>2, <2>3 DEF GoCollect, Connect, CannotServe, Return
<1>. QED BY <1>5, <1>8, <1>9 DEF WatcherInv

LEMMA EndRegisterWatcher ==
    ASSUME HooksInv, WatcherInv, NEW g \in Goroutines, EndRegister(g)
    PROVE  WatcherInv'
<1>1. SUFFICES ASSUME mode = "watcher" PROVE WatcherInv'
    BY DEF WatcherInv, EndRegister, lifeVars
<1>2. /\ TypeOK /\ Plan /\ MainAlone /\ StoreRegistered /\ RunInOrder /\ NothingLeft
      /\ program \in [Goroutines -> Seq(Instructions)] /\ hooks \in Seq(Hooks)
    BY <1>1 DEF WatcherInv, HooksInv, TypeOK
<1>3. /\ UNCHANGED <<lifeVars, exitVars>>
      /\ program[g] # <<>> /\ At(g, "register") /\ ~ At(g, "wait")
      /\ program'[g] = Tail(program[g])
      /\ \A f \in Goroutines \ {g} : program'[f] = program[f]
    BY <1>2 DEF EndRegister, Continue, At
<1>4. ~ blurred' => ~ blurred /\ hooks' = Append(hooks, Operand(g))
                              /\ In(hooks)' = In(hooks) \cup {Operand(g)}
    BY RegisterEffect
<1>5. Plan'
    BY <1>2, <1>3, PlanTail
<1>6. NothingLeft'
    BY <1>2, <1>3 DEF NothingLeft, Idle, lifeVars
<1>7. g = "main" => stage["main"] = "working"
    BY <1>2, <1>3 DEF MainAlone
<1>8. MainAlone'
    BY <1>2, <1>3, <1>7 DEF MainAlone, At, exitVars, Goroutines
<1>9. StoreRegistered'
  <2>1. CASE g = "main"
    <3>1. program["main"] \in Seq(Instructions) /\ program["main"] # <<>>
      BY <1>2, <1>3, <2>1
    <3>2. Head(program["main"]) = program["main"][1]
      BY <3>1
    <3>3. program["main"][1] = <<"register", "store">> => Operand(g) = "store"
      BY <2>1, <3>2 DEF Operand
    <3>. QED BY <1>2, <1>4, <3>1, <3>3 DEF StoreRegistered
  <2>2. CASE g # "main"
    BY <1>2, <1>3, <1>4, <2>2 DEF StoreRegistered, Goroutines
  <2>. QED BY <2>1, <2>2
<1>10. RunInOrder'
  <2>1. CASE g = "main"
    BY <1>2, <1>3, <1>4, <1>7, <2>1 DEF RunInOrder, exitVars
  <2>2. CASE g # "main"
    <3>1. Operand(g) = "server"
      BY <1>2, <1>3, <2>2, PlanAt DEF At
    <3>2. ~ blurred' /\ stage["main"] = "sorted" => InOrder(hooks)'
      BY <1>2, <1>4, <3>1, OrderServer DEF RunInOrder
    <3>. QED BY <1>2, <1>3, <1>4, <3>2 DEF RunInOrder, exitVars
  <2>. QED BY <2>1, <2>2
<1>. QED BY <1>5, <1>6, <1>8, <1>9, <1>10 DEF WatcherInv

LEMMA SortWatcher ==
    ASSUME HooksInv, WatcherInv, NEW g \in Goroutines, BeginSort(g) \/ EndSort(g)
    PROVE  WatcherInv'
<1>1. SUFFICES ASSUME mode = "watcher" PROVE WatcherInv'
    BY DEF WatcherInv, BeginSort, EndSort, Reach, lifeVars
<1>2. /\ Plan /\ MainAlone /\ StoreRegistered /\ RunInOrder /\ NothingLeft
      /\ stage \in [Goroutines -> Stages]
    BY <1>1 DEF WatcherInv, HooksInv, TypeOK
<1>3. /\ UNCHANGED <<program, lifeVars, agenda, due, shut>>
      /\ stage[g] \in {"told", "sorting"} /\ stage'[g] \in {"sorting", "sorted"}
      /\ \A f \in Goroutines \ {g} : stage'[f] = stage[f]
    BY <1>2 DEF BeginSort, EndSort, Reach
<1>4. g = "main"
    BY <1>2, <1>3 DEF MainAlone
<1>5. ~ blurred' => ~ blurred /\ In(hooks)' = In(hooks)
    BY SortEffect DEF BeginSort, BeginAccess
<1>6. ~ blurred' /\ stage'["main"] = "sorted" => InOrder(hooks)'
  <2>1. CASE BeginSort(g)
    BY <1>2, <1>4, <2>1 DEF BeginSort, Reach
  <2>2. CASE EndSort(g)
    BY <2>2, SortEffect
  <2>. QED BY <2>1, <2>2
<1>7. Plan' /\ NothingLeft'
    BY <1>2, <1>3 DEF Plan, NothingLeft, lifeVars
<1>8. MainAlone'
    BY <1>2, <1>3, <1>4 DEF MainAlone, At
<1>9. StoreRegistered'
    BY <1>2, <1>3, <1>5 DEF StoreRegistered
<1>10. RunInOrder'
    BY <1>2, <1>3, <1>4, <1>5, <1>6 DEF RunInOrder
<1>. QED BY <1>7, <1>8, <1>9, <1>10 DEF WatcherInv

LEMMA ShutDownWatcher ==
    ASSUME HooksInv, WatcherInv, NEW g \in Goroutines,
           AwaitSignal(g) \/ BeginHooks(g) \/ RunHook(g)
    PROVE  WatcherInv'
<1>1. SUFFICES ASSUME mode = "watcher" PROVE WatcherInv'
    BY DEF WatcherInv, AwaitSignal, BeginHooks, RunHook, Reach, lifeVars
<1>2. /\ TypeOK /\ Plan /\ MainAlone /\ StoreRegistered /\ RunInOrder /\ NothingLeft
      /\ stage \in [Goroutines -> Stages] /\ agenda \in [Goroutines -> Seq(Hooks)]
      /\ program \in [Goroutines -> Seq(Instructions)]
    BY <1>1 DEF WatcherInv, HooksInv, TypeOK
<1>3. UNCHANGED <<program, lifeVars, hooks>> /\ (blurred => blurred')
    BY BlurKeeps DEF AwaitSignal, BeginHooks, RunHook, Reach
<1>4. g = "main"
    BY <1>2, PlanAt DEF AwaitSignal, BeginHooks, RunHook, Reach, MainAlone, At
<1>5. Plan' /\ NothingLeft' /\ StoreRegistered'
    BY <1>2, <1>3 DEF Plan, NothingLeft, lifeVars, StoreRegistered
<1>6. MainAlone'
  <2>1. At("main", "wait") /\ Len(program["main"]) = 1
    BY <1>2, <1>4, PlanAt DEF AwaitSignal, BeginHooks, RunHook, Reach, MainAlone, At
  <2>2. \A f \in Goroutines \ {"main"} : stage'[f] = stage[f]
    BY <1>2, <1>4 DEF AwaitSignal, BeginHooks, RunHook, Reach
  <2>. QED BY <1>2, <1>3, <2>1, <2>2 DEF MainAlone, At
<1>7. RunInOrder'
  <2>1. CASE AwaitSignal(g)
    BY <1>2, <1>3, <1>4, <2>1 DEF AwaitSignal, Reach, RunInOrder
  <2>2. CASE BeginHooks(g)
    <3>1. /\ stage["main"] = "sorted" /\ stage'["main"] = "running"
          /\ agenda'["main"] = hooks /\ shut' = shut
      BY <1>2, <1>4, <2>2 DEF BeginHooks, Reach
    <3>2. ~ blurred => InOrder(hooks) /\ shut = {}
      BY <1>2, <3>1 DEF RunInOrder
    <3>3. ~ blurred => "store" \in In(hooks)
      <4>1. program["main"] # <<>> /\ Head(program["main"])[1] = "wait"
        BY <1>2, <3>1 DEF MainAlone, At
      <4>2. Head(program["main"]) = program["main"][1]
        BY <1>2, <4>1 DEF Goroutines
      <4>3. program["main"][1] # <<"register", "store">>
        BY <4>1, <4>2
      <4>. QED BY <1>2, <4>1, <4>3 DEF StoreRegistered
    <3>. QED BY <1>3, <3>1, <3>2, <3>3 DEF RunInOrder
  <2>3. CASE RunHook(g)
    <3> DEFINE s == agenda["main"]
    <3>1. /\ stage["main"] = "running" /\ stage' = stage /\ s # <<>> /\ s \in Seq(Hooks)
          /\ agenda'["main"] = Tail(s) /\ shut' = shut \cup {Head(s)}
      BY <1>2, <1>4, <2>3 DEF RunHook, Goroutines
    <3>2. In(s) = {Head(s)} \cup In(Tail(s))
      BY <3>1, TailIn
    <3>3. ~ blurred => /\ InOrder(s) /\ "store" \in shut \cup In(s)
                       /\ \A h \in shut, k \in In(s) : Priority[h] <= Priority[k]
      BY <1>2, <3>1 DEF RunInOrder
    <3>4. ~ blurred => /\ InOrder(Tail(s))
                       /\ \A k \in In(Tail(s)) : Priority[Head(s)] <= Priority[k]
      BY <3>1, <3>3, OrderTail
    <3> HIDE DEF s
    <3>. QED BY <1>3, <3>1, <3>2, <3>3, <3>4 DEF RunInOrder
  <2>. QED BY <2>1, <2>2, <2>3
<1>. QED BY <1>5, <1>6, <1>7 DEF WatcherInv

LEMMA LifeWatcher ==
    ASSUME HooksInv, WatcherInv, (Signal /\ ~ Die) \/ Restart \/ Die
    PROVE  WatcherInv'
<1>1. SUFFICES ASSUME mode = "watcher" PROVE WatcherInv'
    BY DEF WatcherInv, Signal, Restart, Die, lifeVars
<1>2. /\ Plan /\ MainAlone /\ StoreRegistered /\ RunInOrder /\ NothingLeft
      /\ stage \in [Goroutines -> Stages]
    BY <1>1 DEF WatcherInv, HooksInv, TypeOK
<1>3. CASE Signal /\ ~ Die
  <2>1. /\ UNCHANGED <<program, lifeVars, hooks, blurred, agenda, shut>>
        /\ \A g \in Goroutines : stage'[g] = IF stage[g] = "waiting" THEN "told" ELSE stage[g]
    BY <1>3 DEF Signal, hookVars
  <2>2. MainAlone'
    BY <1>2, <2>1 DEF MainAlone, At, Goroutines
  <2>3. RunInOrder'
    BY <1>2, <2>1 DEF RunInOrder, Goroutines
  <2>. QED BY <1>2, <2>1, <2>2, <2>3 DEF WatcherInv, Plan, StoreRegistered, NothingLeft, lifeVars
<1>4. CASE Restart
  <2>1. /\ UNCHANGED <<mode, hookVars, exitVars>> /\ ~ alive /\ alive' = TRUE
        /\ program'["main"] = Code("main")'
        /\ \A g \in Goroutines \ {"main"} : program'[g] = <<>>
    BY <1>4 DEF Restart, Idle, Code, RunCmd, Goroutines
  <2>2. mode' = "watcher" /\ Code("main")' = Code("main")
    BY <1>1, <2>1 DEF Code, RunCmd
  <2>3. stage["main"] = "working"
    BY <1>2, <2>1 DEF NothingLeft, Idle, MainAlone, At, Goroutines
  <2>4. Plan'
    <3>1. \A g \in {"expose", "informer", "listen"} : program'[g] = <<>> /\ Len(program'[g]) = 0
      BY <2>1 DEF Goroutines
    <3>2. \A i \in 1..Len(program'["main"]) :
            /\ program'["main"][i][1] = "wait" => i = Len(program'["main"])
            /\ program'["main"][i][1] = "go" =>
                    program'["main"][i][2] \in {"informer", "expose"}
      BY <1>1, <2>1, <2>2, PlanInit
    <3>. QED BY <3>1, <3>2 DEF Plan
  <2>5. MainAlone'
    BY <1>2, <2>1, <2>3 DEF MainAlone, exitVars
  <2>6. StoreRegistered'
    BY <1>1, <2>1, <2>2, PlanInit DEF StoreRegistered
  <2>7. RunInOrder'
    BY <1>2, <2>1, <2>3 DEF RunInOrder, hookVars, exitVars
  <2>8. NothingLeft'
    BY <2>1 DEF NothingLeft
  <2>. QED BY <2>4, <2>5, <2>6, <2>7, <2>8 DEF WatcherInv
<1>5. CASE Die
  <2>1. /\ \A g \in Goroutines : program'[g] = <<>> /\ stage'[g] = "working"
        /\ shut' = {} /\ program' = Idle
    BY <1>5 DEF Die, Idle
  <2>2. Plan'
    <3>1. \A g \in {"expose", "informer", "listen", "main"} :
            program'[g] = <<>> /\ Len(program'[g]) = 0
      BY <2>1 DEF Goroutines
    <3>. QED BY <3>1 DEF Plan
  <2>. QED BY <2>1, <2>2 DEF WatcherInv, MainAlone, StoreRegistered, RunInOrder,
           NothingLeft, Idle, Goroutines
<1>. QED BY <1>3, <1>4, <1>5

LEMMA WatcherInvStep == HooksInv /\ WatcherInv /\ [Next]_vars => WatcherInv'
<1> SUFFICES ASSUME HooksInv, WatcherInv, [Next]_vars PROVE WatcherInv'
    OBVIOUS
<1>1. ASSUME NEW g \in Goroutines, BeginRegister(g) PROVE WatcherInv'
    BY <1>1, WatcherFrame DEF BeginRegister, BeginAccess, exitVars
<1>2. CASE Measure \/ UNCHANGED vars
    BY <1>2, WatcherFrame DEF Measure, vars, hookVars, exitVars
<1>. QED BY <1>1, <1>2, Steps, ProgramWatcher, EndRegisterWatcher, SortWatcher,
            ShutDownWatcher, LifeWatcher

\* The watcher shuts its stores only after its informer, and its metrics
\* server last, whatever else registers hooks while it does.
THEOREM ShutInOrder == Spec => []StoresAfterInformers
<1>1. HooksInv /\ WatcherInv => StoresAfterInformers
  <2> SUFFICES ASSUME HooksInv, WatcherInv, mode = "watcher", ~ blurred
               PROVE  /\ "store" \in shut /\ "informer" \in due["main"] => "informer" \in shut
                      /\ "server" \in shut => "store" \in shut
    BY DEF StoresAfterInformers
  <2>1. RunInOrder
    BY DEF WatcherInv
  <2>2. CASE stage["main"] # "running"
    BY <2>1, <2>2 DEF RunInOrder
  <2>3. CASE stage["main"] = "running"
    <3>1. /\ \A h \in shut, k \in In(agenda["main"]) : Priority[h] <= Priority[k]
          /\ "store" \in shut \cup In(agenda["main"])
      BY <2>1, <2>3 DEF RunInOrder
    <3>2. due["main"] \subseteq shut \cup In(agenda["main"])
      BY <2>3 DEF HooksInv, DueKept, Goroutines
    <3>3. ~ (Priority["store"] <= Priority["informer"])
          /\ ~ (Priority["server"] <= Priority["store"])
      BY DEF Priority, Hooks
    <3>. QED BY <3>1, <3>2, <3>3
  <2>. QED BY <2>2, <2>3
<1>. QED BY HooksInvInit, HooksInvStep, WatcherInvInit, WatcherInvStep, <1>1, PTL DEF Spec
=============================================================================
