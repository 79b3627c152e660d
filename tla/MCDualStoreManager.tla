------------------------- MODULE MCDualStoreManager -------------------------
(***************************************************************************)
(* Small instances of DualStoreManager.  Two objects, a with the identity  *)
(* i and b with j; an object c that lacks the configured identity field.   *)
(***************************************************************************)
EXTENDS DualStoreManager

CONSTANTS a, b, c, i, j

Obj(n, id, v) == [name |-> n, id |-> id, version |-> v]
Created(o)    == [op |-> "create", old |-> Absent, new |-> o]
Updated(o, p) == [op |-> "update", old |-> o, new |-> p]
Deleted(o)    == [op |-> "delete", old |-> o, new |-> Absent]

\* One object through its life, one that is created, one without identity.
LifeCycle ==
    {Created(Obj(a, i, 1)), Updated(Obj(a, i, 1), Obj(a, i, 2)),
     Deleted(Obj(a, i, 2)), Created(Obj(b, j, 1)), Created(Obj(c, NoId, 1))}

\* A client replaces an object and waits for the answer in between.
PutTwice == {Created(Obj(a, i, 1)), Created(Obj(a, i, 2))}
=============================================================================
