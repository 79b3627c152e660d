----------------------------- MODULE CacheMirror -----------------------------
(***************************************************************************)
(* What reconciliation and the changes that travel beside it promise about *)
(* the Hazelcast map, apart from how they do it.  A version is taken from  *)
(* the data source only while it is the current one; from then on it is    *)
(* on its way, and may be dropped at any time.  The map changes one object *)
(* at a time, to a version that is on its way (0: not there), in any order *)
(* and any number of times, or loses objects with a member of the cluster. *)
(***************************************************************************)
EXTENDS Naturals

CONSTANT Names

VARIABLES
    source, rv,     \* versions in the data source; the last one given out
    cache,          \* the Hazelcast map
    flying          \* of each object, the versions on their way to the map

vars == <<source, rv, cache, flying>>

Init ==
    /\ rv = 1
    /\ source \in [Names -> {0, 1}]
    /\ cache \in [Names -> {0, 1}]
    /\ flying = [n \in Names |-> {}]

\* Nothing takes off but what the data source holds.
TakeOffOrDrop ==
    /\ flying' \in [Names -> SUBSET Nat]
    /\ \A n \in Names : flying'[n] \subseteq flying[n] \cup {source'[n]}

Change(n) ==
    /\ rv' = rv + 1
    /\ \E version \in {0, rv + 1} : source' = [source EXCEPT ![n] = version]
    /\ UNCHANGED cache
    /\ TakeOffOrDrop

Travel == UNCHANGED <<source, rv, cache>> /\ TakeOffOrDrop

Land(n) ==
    /\ \E version \in flying[n] : cache' = [cache EXCEPT ![n] = version]
    /\ UNCHANGED <<source, rv>>
    /\ TakeOffOrDrop

Lose(lost) ==
    /\ cache' = [n \in Names |-> IF n \in lost THEN 0 ELSE cache[n]]
    /\ UNCHANGED <<source, rv>>
    /\ TakeOffOrDrop

Next ==
    \/ \E n \in Names : Change(n) \/ Land(n)
    \/ Travel
    \/ \E lost \in SUBSET Names : Lose(lost)

Spec == Init /\ [][Next]_vars
=============================================================================
