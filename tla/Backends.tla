------------------------------ MODULE Backends ------------------------------
(***************************************************************************)
(* What one write does to one store of internal/store, as operators on the *)
(* contents of that store.  A store holds the documents of one kind of     *)
(* resource: a function from keys to documents.  Hazelcast and Redis file  *)
(* a document under the name of its object, MongoDB under the identity     *)
(* that utils.GetMongoId derives (a configured field of the object or its  *)
(* UID), and each operation of each store chooses the object, old or new,  *)
(* that the key is taken from.                                             *)
(***************************************************************************)
EXTENDS Naturals

CONSTANTS
    Names,      \* metadata.name of the objects
    Ids,        \* values that GetMongoId may return
    Versions,   \* what distinguishes two states of one object
    NoId,       \* GetMongoId fails: the configured field is missing
    Absent      \* no object, no document

Objects == [name : Names, id : Ids \cup {NoId}, version : Versions]

ASSUME BackendsAssumption ==
    /\ NoId \notin Ids
    /\ Absent \notin Objects

(***************************************************************************)
(* The calls of the DualStore interface that change a store.  Create and   *)
(* Delete get one object; Update gets two states of one object.            *)
(***************************************************************************)
Creates == [op : {"create"}, old : {Absent}, new : Objects]
Updates == {w \in [op : {"update"}, old : Objects, new : Objects] :
                w.old.name = w.new.name}
Deletes == [op : {"delete"}, old : Objects, new : {Absent}]
Writes  == Creates \cup Updates \cup Deletes

Subject(w) == IF w.op = "delete" THEN w.old ELSE w.new
Target(w)  == Subject(w).name

(***************************************************************************)
(* The key that each store files a write under.                            *)
(***************************************************************************)
StoreTypes == {"hazelcast", "mongo", "redis"}

HazelcastKey(w) == IF w.op = "delete" THEN w.old.name ELSE w.new.name
MongoKey(w)     == IF w.op = "create" THEN w.new.id ELSE w.old.id
RedisKey(w)     == IF w.op = "create" THEN w.new.name ELSE w.old.name

Key(type, w) == IF type = "hazelcast" THEN HazelcastKey(w)
                ELSE IF type = "mongo" THEN MongoKey(w) ELSE RedisKey(w)

KeySpace(type) == IF type = "mongo" THEN Ids ELSE Names
Contents(type) == [KeySpace(type) -> Objects \cup {Absent}]

(***************************************************************************)
(* createFilter refuses an object without an identity before the database  *)
(* is asked; the other stores accept every object.                         *)
(***************************************************************************)
Accepts(type, w) == Key(type, w) \in KeySpace(type)

\* Set, ReplaceOne with upsert and JSONSet overwrite or insert; Delete,
\* DeleteOne and JSONDel remove, and succeed on a missing document.
Apply(type, content, w) ==
    IF Accepts(type, w) THEN [content EXCEPT ![Key(type, w)] = w.new]
                        ELSE content

\* The documents a store holds about the object named n.
Documents(content, n) ==
    {content[k] : k \in {j \in DOMAIN content :
                            /\ content[j] # Absent
                            /\ content[j].name = n}}

EmptyStore(type) == [k \in KeySpace(type) |-> Absent]
=============================================================================
