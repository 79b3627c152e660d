----------------------------- MODULE MCListing -----------------------------
(***************************************************************************)
(* Listing with objects whose identity is their name (mongoId), so that    *)
(* both stores file two states of an object under one key.                 *)
(***************************************************************************)
EXTENDS Listing

CONSTANTS a, b

Ofs(v)    == {[name |-> n, id |-> n, version |-> v] : n \in Names}
Versioned == Ofs(1) \cup Ofs(2)

Is(k, x) == [key |-> k, value |-> x]
OfA      == <<Is("name", a)>>
\* The second part overrides the first.
Twice    == <<Is("version", 1), Is("version", 2)>>
\* A text that occurs in the JSON of a, and says nothing to MongoDB.
Word     == <<Is(NoKey, a)>>

Queries ==
    [op : {"list"}, selector : {<<>>, OfA, Twice, Word}, limit : {0, 1}]
        \cup [op : {"keys", "count"}, selector : {<<>>}, limit : {0}]

Fields == [o \in Objects |-> [k \in {"name", "version"} |-> o[k]]]
Texts  == [o \in Objects |-> IF o.name = a THEN {Word} ELSE {}]

\* The label is taken from a field that version 2 of a does not have.
SomeLabels == [o \in Objects |-> IF o.version = 1 THEN "first"
                                 ELSE IF o.name = a THEN "none" ELSE "second"]
=============================================================================
