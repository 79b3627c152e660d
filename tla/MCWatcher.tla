----------------------------- MODULE MCWatcher -----------------------------
(***************************************************************************)
(* Small instances of Watcher: two objects, up to four versions.           *)
(***************************************************************************)
EXTENDS Watcher

CONSTANTS a, b

FixedLabel == [n \in Names |-> [v \in Versions |-> IF n = a THEN "odd" ELSE "even"]]

\* Version 3 of a has the other label, version 3 of b has none.
SomeLabels == [FixedLabel EXCEPT ![a][3] = "even", ![b][3] = "none"]
=============================================================================
