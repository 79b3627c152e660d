-------------------------- MODULE MetricsRegistry --------------------------
(***************************************************************************)
(* internal/metrics/metrics.go under the goroutines that set gauges: those *)
(* that count every 15 seconds, collectMetrics of the MongoDB store, of    *)
(* the Hazelcast store and of the watcher; "list", the goroutine of        *)
(* provisioning/metrics.go; and "handlers", the watcher's handlers, which  *)
(* count what they are notified of.  Each has a gauge of its own in one    *)
(* map, "gauges", which they read and write without a lock, and in a       *)
(* registry, which has one.  The first three get it by GetOrCreateCustom,  *)
(* the others by GetOrCreate, which does the same under another name.      *)
(* What they count is left out, and so is the map of the counters.         *)
(*                                                                         *)
(* A write of the map has a beginning and an end.  An access of another    *)
(* goroutine in between is a data race: the entry may not be seen, it may  *)
(* be lost, or the runtime notices and ends the process, which the module  *)
(* that runs these goroutines adds.                                        *)
(*                                                                         *)
(* "raced" is a history variable: the map has been accessed in this way.   *)
(***************************************************************************)
CONSTANTS
    Collectors      \* the goroutines, and the names of their gauges

VARIABLES
    running,        \* goroutines that have been started and have not ended
    storing,        \* those in the middle of a write of the map
    entry,          \* the map gauges
    registered,     \* gauges of the registry
    raced

registryVars == <<running, storing, entry, registered, raced>>

\* No gauge, the one that is registered, one that is not and that nobody scrapes.
Entries == {"none", "scraped", "unscraped"}

RegistryTypeOK ==
    /\ running \subseteq Collectors /\ storing \subseteq running
    /\ entry \in [Collectors -> Entries]
    /\ registered \subseteq Collectors
    /\ raced \in BOOLEAN

RegistryInit ==
    /\ running = {} /\ storing = {}
    /\ entry = [c \in Collectors |-> "none"]
    /\ registered = {}
    /\ raced = FALSE

\* The process ends: the next one starts with an empty registry.
Forget ==
    /\ running' = {} /\ storing' = {}
    /\ entry' = [c \in Collectors |-> "none"]
    /\ registered' = {}
    /\ raced' = FALSE

\* Another goroutine is in the middle of a write.
Clash(c) == storing \ {c} # {}

Race(c) == raced' = (raced \/ Clash(c))

\* GetOrCreate and GetOrCreateCustom find no gauge and make one.
BeginStore(c) ==
    /\ c \in running \ storing
    /\ entry[c] = "none" \/ Clash(c)
    /\ storing' = storing \cup {c}
    /\ Race(c)
    /\ UNCHANGED <<running, entry, registered>>

\* Defect: stored under another name than it is looked up by.
EndStoreMisnamed(c) ==
    /\ c \in storing
    /\ storing' = storing \ {c}
    /\ registered' = registered \cup {c}
    /\ Race(c)
    /\ UNCHANGED <<running, entry>>

\* Defect: the gauge is not registered.
EndStoreUnregistered(c) ==
    /\ c \in storing
    /\ storing' = storing \ {c}
    /\ entry' = [entry EXCEPT ![c] = "scraped"]
    /\ Race(c)
    /\ UNCHANGED <<running, registered>>

\* Of two writes that overlap, the one that ends first may be lost.  Then the
\* registry is asked: it refuses a second gauge of the name, which is used
\* all the same.
EndStore(c) ==
    /\ c \in storing
    /\ storing' = storing \ {c}
    /\ \/ entry' = [entry EXCEPT ![c] = IF c \in registered THEN "unscraped" ELSE "scraped"]
       \/ Clash(c) /\ UNCHANGED entry
    /\ registered' = registered \cup {c}
    /\ Race(c)
    /\ UNCHANGED running

\* The gauge is found, with another goroutine in the middle of a write.
Find(c) ==
    /\ c \in running \ storing /\ entry[c] # "none" /\ Clash(c)
    /\ raced' = TRUE
    /\ UNCHANGED <<running, storing, entry, registered>>

\* Defect: in the middle of a write too.
GiveUpAnywhere(c) ==
    /\ c = "hazelcast" /\ c \in running
    /\ running' = running \ {c}
    /\ UNCHANGED <<storing, entry, registered, raced>>

\* The Hazelcast goroutine cannot get the map and logs the map's name: it
\* dereferences nil, recovers outside of its loop, and has ended.
GiveUp(c) ==
    /\ c = "hazelcast" /\ c \in running \ storing
    /\ running' = running \ {c}
    /\ UNCHANGED <<storing, entry, registered, raced>>

Collect(c) == BeginStore(c) \/ EndStore(c)

\* Nothing makes a resource change, so that the handlers may never count.
Periodic == Collectors \ {"handlers"}

\* The loops of the others go on, sleeps are over, and of the counts and
\* lists of each one succeeds in the end.  The last is asked of the stores
\* and the API: as long as counts fail the loop sleeps and makes no gauge.
RegistryFairness == \A c \in Periodic : WF_registryVars(Collect(c))

(***************************************************************************)
(* Correctness.                                                            *)
(***************************************************************************)

\* As long as no access of the map has met the write of another goroutine,
\* each that has a gauge in the registry finds this one when it asks for its
\* gauge: what it sets is scraped.  Once accesses have met nothing of the
\* kind is true: a gauge may be lost from the map, and a second one, that
\* the registry refuses, be set until the process ends.
GaugesScraped == ~ raced => \A c \in registered : entry[c] = "scraped"
=============================================================================
