---------------------------- MODULE MirroredStore ----------------------------
(***************************************************************************)
(* What a DualStoreManager promises its callers, apart from how it does    *)
(* it.  A write is first tried on the primary store; only then may the     *)
(* secondary store get it, at most once, whatever became of it on the      *)
(* primary; writes reach the secondary in any order, and a write that has  *)
(* not reached it yet may be forgotten when the process ends.  Nothing     *)
(* else touches a store.                                                   *)
(***************************************************************************)
EXTENDS Backends

CONSTANTS PrimaryType, SecondaryType

VARIABLES
    primary,    \* contents of the primary store
    secondary,  \* contents of the secondary store
    seen,       \* numbers of the writes that are past the primary store
    backlog     \* writes past the primary that may still reach the secondary

vars == <<primary, secondary, seen, backlog>>

Init ==
    /\ primary = EmptyStore(PrimaryType)
    /\ secondary = EmptyStore(SecondaryType)
    /\ seen = {}
    /\ backlog = {}

Put(t) ==
    /\ t.id \notin seen
    /\ seen' = seen \cup {t.id}
    /\ primary' \in {primary, Apply(PrimaryType, primary, t.write)}
    /\ backlog' = backlog \cup {t}
    /\ UNCHANGED secondary

Land(t) ==
    /\ t \in backlog
    /\ backlog' = backlog \ {t}
    /\ secondary' \in {secondary, Apply(SecondaryType, secondary, t.write)}
    /\ UNCHANGED <<primary, seen>>

Forget ==
    /\ seen \subseteq seen'
    /\ backlog' \subseteq backlog
    /\ UNCHANGED <<primary, secondary>>

Next ==
    \/ \E t \in backlog' \ backlog : Put(t)
    \/ \E t \in backlog : Land(t)
    \/ Forget

Spec == Init /\ [][Next]_vars
=============================================================================
