-------------------------- MODULE MCReconciliation --------------------------
(***************************************************************************)
(* Small instances of Reconciliation: two objects.                         *)
(***************************************************************************)
EXTENDS Reconciliation

CONSTANTS a, b

\* Quasar starts over a map that is in step with its source.
InStepSpec == Init /\ cache = source /\ [][Next]_vars /\ Fairness
=============================================================================
