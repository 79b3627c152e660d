--------------------------- MODULE MCProvisioning ---------------------------
(***************************************************************************)
(* Small instances of Provisioning: two objects, one of them in two        *)
(* states, and requests whose URL names the other object.                  *)
(***************************************************************************)
EXTENDS Provisioning

CONSTANTS a, b, NoUid

Obj(n, id, v) == [name |-> n, id |-> id, version |-> v]
Ask(m, n, o)  == [method |-> m, url |-> n, body |-> o]

\* With a mongoId field that holds the name.
ByName ==
    {Ask("PUT", a, Obj(a, a, 1)), Ask("PUT", a, Obj(a, a, 2)), Ask("DELETE", a, Obj(a, a, 2)),
     Ask("PUT", b, Obj(b, b, 1)), Ask("PUT", b, Obj(a, a, 1))}

\* With the default mongoId and bodies without a UID.
ByUid == {Ask("PUT", n, Obj(n, NoUid, 1)) : n \in {a, b}}
=============================================================================
