------------------------------ MODULE Process ------------------------------
(***************************************************************************)
(* The life of a process in both modes: run (cmd/run.go) and the           *)
(* goroutines it starts, the hooks they register with utils/shutdown.go,   *)
(* GracefulShutdown, and the goroutines of MetricsRegistry while they run. *)
(*                                                                         *)
(* "program[g]" is what goroutine g has still to do.  "hooks" is the slice *)
(* of hooks, which is appended to, sorted and read without a lock; each    *)
(* write of it has a beginning, which "open" records, and an end.          *)
(* "stage[g]" is how far g is in GracefulShutdown, "agenda[g]" the hooks   *)
(* it has still to run.                                                    *)
(*                                                                         *)
(* History variables: "shut", the hooks that have been run; "due[g]", the  *)
(* hooks registered when g got the signal; "blurred", that a write of the  *)
(* slice, or of its elements, has met another access.                      *)
(***************************************************************************)
EXTENDS MetricsRegistry, Naturals, Sequences

CONSTANTS
    Modes           \* config.Current.Mode may be one of these

ASSUME ProcessAssumption == Modes \subseteq {"watcher", "provisioning"}

VARIABLES
    mode, alive,
    program,
    hooks, open, blurred,
    stage, agenda, due, shut

lifeVars == <<mode, alive>>
hookVars == <<hooks, open, blurred>>
exitVars == <<stage, agenda, due, shut>>
vars     == <<registryVars, lifeVars, program, hookVars, exitVars>>

Goroutines == {"main", "listen", "expose", "informer"}
\* What a hook ends: the manager of the stores, the provisioning service, an
\* informer, the metrics server.
Hooks  == {"store", "service", "informer", "server"}
Stages == {"working", "waiting", "told", "sorting", "sorted", "running"}
Closed == <<"no access">>

Priority == [h \in Hooks |-> CASE h = "informer" -> 0 [] h = "server" -> 3 [] OTHER -> 1]

(***************************************************************************)
(* The goroutines.  "connect" and "serve" may fail; then GracefulShutdown  *)
(* is called from there.                                                   *)
(***************************************************************************)
Instructions ==
    ({"register"} \X Hooks) \cup ({"go"} \X Goroutines)
        \cup ({"collect"} \X {"kubernetes", "mongo", "hazelcast", "handlers", "list"})
        \cup ({"connect", "serve", "wait"} \X {"-"})

Wait == <<"wait", "-">>

RunCmd ==
    IF mode = "provisioning"
    THEN << <<"go", "listen">>, <<"go", "expose">>, Wait >>
    ELSE << <<"register", "store">>, <<"connect", "-">>, <<"collect", "kubernetes">>,
            <<"go", "informer">>, <<"register", "informer">>, <<"go", "expose">>, Wait >>

Listen ==
    << <<"register", "store">>, <<"collect", "mongo">>, <<"collect", "hazelcast">>,
       <<"collect", "list">>, <<"register", "service">>, <<"serve", "-">> >>

\* The informer runs the handlers, in a goroutine of theirs, while it serves.
Inform == << <<"collect", "hazelcast">>, <<"collect", "mongo">>, <<"collect", "handlers">>,
             <<"serve", "-">> >>

Expose == << <<"register", "server">> >>

Code(g) == CASE g = "main" -> RunCmd [] g = "listen" -> Listen
             [] g = "informer" -> Inform [] g = "expose" -> Expose

Idle == [g \in Goroutines |-> <<>>]

TypeOK ==
    /\ RegistryTypeOK
    /\ mode \in Modes /\ alive \in BOOLEAN
    /\ program \in [Goroutines -> Seq(Instructions)]
    /\ hooks \in Seq(Hooks)
    /\ open \in [Goroutines -> Seq(Hooks) \cup {Closed}]
    /\ blurred \in BOOLEAN
    /\ stage \in [Goroutines -> Stages]
    /\ agenda \in [Goroutines -> Seq(Hooks)]
    /\ due \in [Goroutines -> SUBSET Hooks] /\ shut \subseteq Hooks

Init ==
    /\ mode \in Modes /\ alive = TRUE
    /\ RegistryInit
    /\ program = [Idle EXCEPT !["main"] = Code("main")]
    /\ hooks = <<>> /\ open = [g \in Goroutines |-> Closed] /\ blurred = FALSE
    /\ stage = [g \in Goroutines |-> "working"]
    /\ agenda = Idle
    /\ due = [g \in Goroutines |-> {}] /\ shut = {}

(***************************************************************************)
(* Steps of a goroutine.                                                   *)
(***************************************************************************)
At(g, kind) == program[g] # <<>> /\ Head(program[g])[1] = kind
Operand(g)  == Head(program[g])[2]
Continue(g) == program' = [program EXCEPT ![g] = Tail(@)]
Shutdown(g) == program' = [program EXCEPT ![g] = <<Wait>>]

Go(g) ==
    /\ At(g, "go")
    /\ program' = [program EXCEPT ![g] = Tail(@), ![Operand(g)] = Code(Operand(g))]
    /\ UNCHANGED <<registryVars, lifeVars, hookVars, exitVars>>

\* Only the goroutines among Collectors are followed.
GoCollect(g) ==
    /\ At(g, "collect")
    /\ running' = running \cup ({Operand(g)} \cap Collectors)
    /\ Continue(g)
    /\ UNCHANGED <<storing, entry, registered, raced, lifeVars, hookVars, exitVars>>

\* Without a client for the API SetupWatchers calls GracefulShutdown.
Connect(g) ==
    /\ At(g, "connect")
    /\ Continue(g) \/ Shutdown(g)
    /\ UNCHANGED <<registryVars, lifeVars, hookVars, exitVars>>

\* So does Listen if its port is taken.
CannotServe(g) ==
    /\ At(g, "serve") /\ g = "listen"
    /\ Shutdown(g)
    /\ UNCHANGED <<registryVars, lifeVars, hookVars, exitVars>>

\* The service and the informer return when their hooks have been run.
Return(g) ==
    /\ At(g, "serve")
    /\ (IF g = "listen" THEN "service" ELSE "informer") \in shut
    /\ Continue(g)
    /\ UNCHANGED <<registryVars, lifeVars, hookVars, exitVars>>

(***************************************************************************)
(* The slice of hooks.  Where accesses overlap, any mixture of what they   *)
(* write may be what is there in the end.                                  *)
(***************************************************************************)
\* Defect: the hooks stay in the order in which they were registered.
Unsorted(s) == {s}

\* The one sequence that has the hooks of s in the order of their priorities,
\* and those of one priority in the order they have in s.
Sorted(s) ==
    LET Places == {p \in [DOMAIN s -> DOMAIN s] :
            /\ \A j \in DOMAIN s : \E i \in DOMAIN s : p[i] = j
            /\ \A i, j \in DOMAIN s : i < j =>
                    \/ Priority[s[p[i]]] < Priority[s[p[j]]]
                    \/ Priority[s[p[i]]] = Priority[s[p[j]]] /\ p[i] < p[j]}
    IN  {[i \in DOMAIN s |-> s[p[i]]] : p \in Places}

\* g is in the middle of a sort that moves elements.
Moves(g) == stage[g] = "sorting" /\ open[g] \notin Sorted(open[g])

BeginAccess(g) ==
    /\ open[g] = Closed
    /\ open' = [open EXCEPT ![g] = hooks]
    /\ UNCHANGED <<hooks, blurred>>

\* The loop over the hooks reads an element at each turn.
Reads(g) == stage[g] = "running" /\ agenda[g] # <<>>

Meets(g) == \E f \in Goroutines \ {g} : open[f] # Closed

Overlap(g) ==
    \/ hooks # open[g]
    \/ Meets(g)
    \/ Moves(g) /\ \E f \in Goroutines : Reads(f)

Mixed(result, length) ==
    {s \in [1..length -> Hooks] : \A i \in 1..length :
        \E t \in {result, hooks} : i \in DOMAIN t /\ s[i] = t[i]}

EndAccess(g, result, length) ==
    /\ open[g] # Closed
    /\ open' = [open EXCEPT ![g] = Closed]
    /\ IF Overlap(g) THEN hooks' \in Mixed(result, length) /\ blurred' = TRUE
                     ELSE hooks' = result /\ UNCHANGED blurred

BeginRegister(g) ==
    /\ At(g, "register") /\ BeginAccess(g)
    /\ UNCHANGED <<registryVars, lifeVars, program, exitVars>>

EndRegister(g) ==
    /\ At(g, "register")
    /\ EndAccess(g, Append(open[g], Operand(g)), Len(open[g]) + 1)
    /\ Continue(g)
    /\ UNCHANGED <<registryVars, lifeVars, exitVars>>

(***************************************************************************)
(* GracefulShutdown of g.                                                  *)
(***************************************************************************)
Reach(g, from, to) ==
    /\ stage[g] = from
    /\ stage' = [stage EXCEPT ![g] = to]
    /\ UNCHANGED <<registryVars, lifeVars, program>>

\* signal.Notify: from here on a signal no longer ends the process.
AwaitSignal(g) ==
    /\ At(g, "wait") /\ Reach(g, "working", "waiting")
    /\ UNCHANGED <<hookVars, agenda, due, shut>>

BeginSort(g) ==
    /\ Reach(g, "told", "sorting") /\ BeginAccess(g)
    /\ UNCHANGED <<agenda, due, shut>>

\* The sort writes elements, not the slice itself.  It keeps the order of
\* hooks of one priority as long as there are no more than 12.
EndSort(g) ==
    /\ Reach(g, "sorting", "sorted")
    /\ \E result \in Sorted(open[g]) : EndAccess(g, result, Len(hooks))
    /\ UNCHANGED <<agenda, due, shut>>

Blur(met) == blurred' = (blurred \/ met) /\ UNCHANGED <<hooks, open>>

\* range reads the slice once more, and its elements one by one.  Here they
\* are all taken at once: only the sort of another goroutine can move them
\* under the loop.  Then the accesses meet, and what the loop comes to run
\* is not followed any further.
BeginHooks(g) ==
    /\ Reach(g, "sorted", "running")
    /\ agenda' = [agenda EXCEPT ![g] = hooks]
    /\ Blur(Meets(g))
    /\ UNCHANGED <<due, shut>>

Closes(g) == agenda[g] # <<>> /\ Head(agenda[g]) = "informer" /\ "informer" \in shut

\* Defect: the first hook that fails is the last.
RunFirstHook(g) ==
    /\ stage[g] = "running" /\ agenda[g] # <<>> /\ ~ Closes(g)
    /\ agenda' = [agenda EXCEPT ![g] = <<>>]
    /\ shut' = shut \cup {Head(agenda[g])}
    /\ Blur(\E f \in Goroutines \ {g} : Moves(f))
    /\ UNCHANGED <<registryVars, lifeVars, program, stage, due>>

RunHook(g) ==
    /\ stage[g] = "running" /\ agenda[g] # <<>> /\ ~ Closes(g)
    /\ agenda' = [agenda EXCEPT ![g] = Tail(@)]
    /\ shut' = shut \cup {Head(agenda[g])}
    /\ Blur(\E f \in Goroutines \ {g} : Moves(f))
    /\ UNCHANGED <<registryVars, lifeVars, program, stage, due>>

(***************************************************************************)
(* The end of the process.                                                 *)
(***************************************************************************)
Die ==
    /\ alive /\ alive' = FALSE
    /\ program' = Idle
    /\ hooks' = <<>> /\ open' = [g \in Goroutines |-> Closed] /\ blurred' = FALSE
    /\ stage' = [g \in Goroutines |-> "working"]
    /\ agenda' = Idle
    /\ due' = [g \in Goroutines |-> {}] /\ shut' = {}
    /\ Forget
    /\ UNCHANGED mode

\* A hook that closes the informer's channel a second time panics.
CloseTwice(g) == stage[g] = "running" /\ Closes(g) /\ Die

\* Defect: GracefulShutdown returns, which ends the process in main only.
ReturnAfterHooks(g) ==
    /\ stage[g] = "running" /\ agenda[g] = <<>>
    /\ IF g = "main" THEN Die
       ELSE /\ stage' = [stage EXCEPT ![g] = "working"] /\ Continue(g)
            /\ UNCHANGED <<registryVars, lifeVars, hookVars, agenda, due, shut>>

Exit(g) == stage[g] = "running" /\ agenda[g] = <<>> /\ Die

\* Every channel that waits gets the signal; if none does, the process ends.
Signal ==
    \/ /\ alive /\ \E g \in Goroutines : stage[g] = "waiting"
       /\ stage' = [g \in Goroutines |-> IF stage[g] = "waiting" THEN "told" ELSE stage[g]]
       /\ due' = [g \in Goroutines |-> IF stage[g] = "waiting" /\ open = [f \in Goroutines |-> Closed]
                                       THEN {hooks[i] : i \in DOMAIN hooks} ELSE due[g]]
       /\ UNCHANGED <<registryVars, lifeVars, program, hookVars, agenda, shut>>
    \/ stage = [g \in Goroutines |-> "working"] /\ Die

\* The informer's Stop does not wait for its handlers: one that still runs
\* asks a client that is shut for a map, and panics.
HandlerPanics == At("informer", "serve") /\ "store" \in shut /\ Die

\* The runtime notices that accesses of a map meet.
MapFatal ==
    \E c \in running : Clash(c) /\ Die

\* log.Fatal during the start, a panic elsewhere, a kill.
Kill == Die

Restart ==
    /\ ~ alive /\ alive' = TRUE
    /\ program' = [Idle EXCEPT !["main"] = Code("main")]
    /\ UNCHANGED <<registryVars, mode, hookVars, exitVars>>

Start(g)    == Go(g) \/ GoCollect(g) \/ Connect(g) \/ Return(g) \/ BeginRegister(g) \/ EndRegister(g)
ShutDown(g) == BeginSort(g) \/ EndSort(g) \/ BeginHooks(g) \/ RunHook(g) \/ CloseTwice(g) \/ Exit(g)
Run(g)      == Start(g) \/ AwaitSignal(g) \/ ShutDown(g)

Measure == /\ \E c \in Collectors : Collect(c) \/ Find(c) \/ GiveUp(c)
           /\ UNCHANGED <<lifeVars, program, hookVars, exitVars>>

Next ==
    \/ \E g \in Goroutines : Run(g) \/ CannotServe(g)
    \/ Measure
    \/ Signal
    \/ HandlerPanics
    \/ MapFatal
    \/ Kill
    \/ Restart

\* Goroutines that can run do.  Nothing sends a signal, or starts a process
\* that has ended.
Spec     == Init /\ [][Next]_vars
FairSpec == Spec /\ (\A g \in Goroutines : WF_vars(Run(g))) /\ RegistryFairness

(***************************************************************************)
(* Correctness.                                                            *)
(***************************************************************************)

\* A process that ends by itself has run every hook that was registered when
\* it was told to, unless another access of the slice has met the
\* registration, the sort or the loop.
HooksRun ==
    \A g \in Goroutines :
        stage[g] = "running" /\ agenda[g] = <<>> /\ ~ blurred => due[g] \subseteq shut

\* The watcher's stores are shut only when its informer has been told to
\* stop, and scrapes are answered until then, although the stores' hook is
\* registered before the informer's.
StoresAfterInformers ==
    mode = "watcher" /\ ~ blurred =>
        /\ "store" \in shut /\ "informer" \in due["main"] => "informer" \in shut
        /\ "server" \in shut => "store" \in shut

\* Whoever gets the signal ends the process, also where the service has no
\* port, the watcher no client, two goroutines shut down at once, and
\* whatever has become of the hooks.
StopsWhenTold == (\E g \in Goroutines : stage[g] = "told") ~> ~ alive

\* Whatever goroutine counts in a loop gets a gauge into the registry, also
\* where accesses of the map meet, unless it ends or the process does.
GaugesAppear ==
    \A c \in Periodic : c \in running ~> c \in registered \/ c \notin running
=============================================================================
