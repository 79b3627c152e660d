---------------------------- MODULE WatcherProofs ----------------------------
(***************************************************************************)
(* Proofs about Watcher, for any objects, labels, stores and bounds.       *)
(***************************************************************************)
EXTENDS Watcher, SequenceTheorems, FiniteSetTheorems, TLAPS

(***************************************************************************)
(* Queues of notifications.  q is what the handlers have to work off about *)
(* n before they have been told k: each notification begins where the one  *)
(* before it ended, and one that brings no new version brings nothing new. *)
(***************************************************************************)
Of(n, s) == s # Absent => s.name = n

Queue(n, q, k) ==
    \A i \in 1..Len(q) :
        /\ Of(n, q[i].old) /\ Of(n, q[i].new)
        /\ q[i].op = "update" /\ q[i].old.version = q[i].new.version
                => q[i].old = q[i].new
        /\ q[i].new = IF i = Len(q) THEN k ELSE q[i+1].old

Said(q, k) == IF q = <<>> THEN k ELSE Head(q).old

LEMMA QueueTail ==
    ASSUME NEW n, NEW k, NEW q \in Seq(Notes), q # <<>>, Queue(n, q, k)
    PROVE  /\ Queue(n, Tail(q), k)
           /\ Said(Tail(q), k) = Head(q).new
           /\ Tail(q) \in Seq(Notes)
<1> DEFINE r == Tail(q)
           m == Len(r)
<1>1. Len(q) \in Nat \ {0} /\ Head(q) = q[1]
    BY HeadTailProperties, EmptySeq
<1>2. r \in Seq(Notes) /\ m \in Nat /\ Len(q) = m + 1
  <2>1. r \in Seq(Notes) /\ Len(r) = Len(q) - 1
    BY HeadTailProperties, EmptySeq
  <2>. QED BY <1>1, <2>1
<1>3. \A i \in 1..m : r[i] = q[i+1]
    BY HeadTailProperties, EmptySeq
<1>4. r = <<>> <=> m = 0
    BY <1>2, EmptySeq
<1>5. m # 0 => Head(r) = r[1]
    BY <1>2
<1> HIDE DEF r, m
<1>6. Queue(n, r, k)
  <2> SUFFICES ASSUME NEW i \in 1..m
               PROVE  /\ Of(n, r[i].old) /\ Of(n, r[i].new)
                      /\ r[i].op = "update" /\ r[i].old.version = r[i].new.version
                            => r[i].old = r[i].new
                      /\ r[i].new = IF i = m THEN k ELSE r[i+1].old
    BY DEF Queue, m
  <2>1. i + 1 \in 1..Len(q) /\ r[i] = q[i+1]
    BY <1>2, <1>3
  <2>2. i # m => i + 1 \in 1..m
    BY <1>2
  <2>3. i # m => r[i+1] = q[i+1+1]
    BY <1>3, <2>2
  <2>4. i + 1 = Len(q) <=> i = m
    BY <1>2
  <2>5. /\ Of(n, q[i+1].old) /\ Of(n, q[i+1].new)
        /\ q[i+1].op = "update" /\ q[i+1].old.version = q[i+1].new.version
                => q[i+1].old = q[i+1].new
        /\ q[i+1].new = IF i + 1 = Len(q) THEN k ELSE q[i+1+1].old
    BY <2>1 DEF Queue
  <2>. QED BY <2>1, <2>3, <2>4, <2>5
<1>7. Said(r, k) = Head(q).new
  <2>1. q[1].new = IF 1 = Len(q) THEN k ELSE q[2].old
    <3>1. 1 \in 1..Len(q) /\ 1 + 1 = 2
      BY <1>1
    <3>. QED BY <3>1 DEF Queue
  <2>2. CASE m = 0
    <3>1. Len(q) = 1
      BY <1>2, <2>2
    <3>. QED BY <1>1, <1>4, <2>1, <2>2, <3>1 DEF Said
  <2>3. CASE m # 0
    <3>1. Len(q) # 1 /\ 1 \in 1..m /\ 1 + 1 = 2
      BY <1>2, <2>3
    <3>2. Head(r) = q[2]
      BY <1>3, <1>5, <2>3, <3>1
    <3>. QED BY <1>1, <1>4, <2>1, <2>3, <3>1, <3>2 DEF Said
  <2>. QED BY <2>2, <2>3
<1>. QED BY <1>6, <1>7, <1>2 DEF r

LEMMA QueueAppend ==
    ASSUME NEW n, NEW k, NEW q \in Seq(Notes), Queue(n, q, k),
           NEW w \in Notes, w.old = k, Of(n, w.old), Of(n, w.new),
           w.op = "update" /\ w.old.version = w.new.version => w.old = w.new
    PROVE  /\ Append(q, w) \in Seq(Notes)
           /\ Queue(n, Append(q, w), w.new)
           /\ Said(Append(q, w), w.new) = Said(q, k)
<1> DEFINE r == Append(q, w)
<1>1. /\ r \in Seq(Notes) /\ r # <<>> /\ Len(q) \in Nat
      /\ Len(r) = Len(q) + 1 /\ r[Len(q) + 1] = w
      /\ \A i \in 1..Len(q) : r[i] = q[i]
    BY AppendProperties, LenProperties
<1> HIDE DEF r
<1>2. Queue(n, r, w.new)
  <2> SUFFICES ASSUME NEW i \in 1..Len(r)
               PROVE  /\ Of(n, r[i].old) /\ Of(n, r[i].new)
                      /\ r[i].op = "update" /\ r[i].old.version = r[i].new.version
                            => r[i].old = r[i].new
                      /\ r[i].new = IF i = Len(r) THEN w.new ELSE r[i+1].old
    BY DEF Queue
  <2>1. CASE i = Len(q) + 1
    BY <1>1, <2>1
  <2>2. CASE i \in 1..Len(q)
    <3>1. r[i] = q[i] /\ i # Len(r)
      BY <1>1, <2>2
    <3>2. r[i+1].old = IF i = Len(q) THEN k ELSE q[i+1].old
      BY <1>1, <2>2
    <3>. QED BY <2>2, <3>1, <3>2 DEF Queue
  <2>. QED BY <1>1, <2>1, <2>2
<1>3. Said(r, w.new) = Said(q, k)
  <2>1. Head(r) = r[1]
    BY <1>1
  <2>2. CASE q = <<>>
    <3>1. Len(q) = 0
      BY <2>2, EmptySeq
    <3>. QED BY <1>1, <2>1, <2>2, <3>1 DEF Said
  <2>3. CASE q # <<>>
    <3>1. Len(q) \in Nat \ {0} /\ Head(q) = q[1]
      BY <2>3, EmptySeq
    <3>. QED BY <1>1, <2>1, <2>3, <3>1 DEF Said
  <2>. QED BY <2>2, <2>3
<1>. QED BY <1>1, <1>2, <1>3 DEF r

(***************************************************************************)
(* Wires.  w is what the watch has still to bring of n to an informer that *)
(* knows k: no two states in a row are missing.                            *)
(***************************************************************************)
Wire(n, w, k) ==
    \A i \in 1..Len(w) :
        /\ Of(n, w[i])
        /\ w[i] = Absent => (IF i = 1 THEN k ELSE w[i-1]) # Absent

End(w, k) == IF w = <<>> THEN k ELSE w[Len(w)]

Elements(w) == {w[i] : i \in 1..Len(w)}

LEMMA WireAppend ==
    ASSUME NEW n, NEW k, NEW w \in Seq(States), Wire(n, w, k),
           NEW s \in States, Of(n, s), s = Absent => End(w, k) # Absent
    PROVE  /\ Append(w, s) \in Seq(States)
           /\ Wire(n, Append(w, s), k)
           /\ End(Append(w, s), k) = s
           /\ Elements(Append(w, s)) = Elements(w) \cup {s}
<1> DEFINE r == Append(w, s)
<1>1. /\ r \in Seq(States) /\ r # <<>> /\ Len(w) \in Nat
      /\ Len(r) = Len(w) + 1 /\ r[Len(w) + 1] = s
      /\ \A i \in 1..Len(w) : r[i] = w[i]
    BY AppendProperties, LenProperties
<1> HIDE DEF r
<1>2. Wire(n, r, k)
  <2> SUFFICES ASSUME NEW i \in 1..Len(r)
               PROVE  /\ Of(n, r[i])
                      /\ r[i] = Absent => (IF i = 1 THEN k ELSE r[i-1]) # Absent
    BY DEF Wire
  <2>1. CASE i = Len(w) + 1
    <3>1. w = <<>> <=> Len(w) = 0
      BY EmptySeq
    <3>2. s = Absent => (IF i = 1 THEN k ELSE w[i-1]) # Absent
      BY <1>1, <2>1, <3>1 DEF End
    <3>3. i # 1 => r[i-1] = w[i-1]
      BY <1>1, <2>1
    <3>. QED BY <1>1, <2>1, <3>2, <3>3
  <2>2. CASE i \in 1..Len(w)
    <3>1. i # 1 => r[i-1] = w[i-1]
      BY <1>1, <2>2
    <3>. QED BY <1>1, <2>2, <3>1 DEF Wire
  <2>. QED BY <1>1, <2>1, <2>2
<1>3. End(r, k) = s
    BY <1>1 DEF End
<1>4. Elements(r) = Elements(w) \cup {s}
    BY <1>1 DEF Elements
<1>. QED BY <1>1, <1>2, <1>3, <1>4 DEF r

LEMMA WireTail ==
    ASSUME NEW n, NEW k, NEW w \in Seq(States), w # <<>>, Wire(n, w, k)
    PROVE  /\ Tail(w) \in Seq(States) /\ Head(w) \in States
           /\ Of(n, Head(w))
           /\ Head(w) = Absent => k # Absent
           /\ Wire(n, Tail(w), Head(w))
           /\ End(Tail(w), Head(w)) = End(w, k)
           /\ Head(w) \in Elements(w) /\ Elements(Tail(w)) \subseteq Elements(w)
<1>1. /\ Len(w) \in Nat \ {0} /\ Head(w) = w[1] /\ Head(w) \in States
      /\ Tail(w) \in Seq(States) /\ Len(Tail(w)) = Len(w) - 1
      /\ \A i \in 1..Len(Tail(w)) : Tail(w)[i] = w[i+1]
    BY HeadTailProperties, EmptySeq
<1>2. Of(n, Head(w)) /\ (Head(w) = Absent => k # Absent)
    BY <1>1 DEF Wire
<1>3. Wire(n, Tail(w), Head(w))
  <2> SUFFICES ASSUME NEW i \in 1..Len(Tail(w))
               PROVE  /\ Of(n, Tail(w)[i])
                      /\ Tail(w)[i] = Absent => (IF i = 1 THEN Head(w) ELSE Tail(w)[i-1]) # Absent
    BY DEF Wire
  <2>1. i + 1 \in 1..Len(w) /\ Tail(w)[i] = w[i+1] /\ i + 1 # 1 /\ (i + 1) - 1 = i
    BY <1>1
  <2>2. (IF i = 1 THEN Head(w) ELSE Tail(w)[i-1]) = w[i]
    BY <1>1
  <2>. QED BY <2>1, <2>2 DEF Wire
<1>4. End(Tail(w), Head(w)) = End(w, k)
  <2>1. Tail(w) = <<>> <=> Len(Tail(w)) = 0
    BY <1>1, EmptySeq
  <2>. QED BY <1>1, <2>1 DEF End
<1>5. Head(w) \in Elements(w) /\ Elements(Tail(w)) \subseteq Elements(w)
    BY <1>1 DEF Elements
<1>. QED BY <1>1, <1>2, <1>3, <1>4, <1>5

(***************************************************************************)
(* Versions: among the states E of one object that are about, all of them  *)
(* no newer than r, the version tells two apart.                           *)
(***************************************************************************)
Fresh(E, r) ==
    /\ \A o \in E \ {Absent} : o.version <= r
    /\ \A o, p \in E \ {Absent} : o.version = p.version => o = p

LEMMA FreshSubset ==
    ASSUME NEW E, NEW F \in SUBSET E, NEW r, Fresh(E, r)
    PROVE  Fresh(F, r)
    BY DEF Fresh

LEMMA FreshPlus ==
    ASSUME NEW E \in SUBSET States, NEW r \in Versions, Fresh(E, r), r + 1 \in Versions,
           NEW s \in States, s # Absent => s.version = r + 1
    PROVE  Fresh(E \cup {s}, r + 1)
<1>1. \A o \in States \ {Absent} : o.version \in Versions
    BY DEF States, Objects
<1>2. Versions \subseteq Nat
  <2>1. MaxRv \in Nat /\ Versions = 1..MaxRv
    BY WatcherAssumption
  <2>. QED BY <2>1
<1>3. ASSUME NEW o \in (E \cup {s}) \ {Absent}
      PROVE  o.version \in Nat /\ o.version <= r + 1 /\ (o \in E => o.version <= r)
                /\ (o \notin E => o = s /\ o.version = r + 1)
  <2>1. o \in States \ {Absent}
    OBVIOUS
  <2>2. o.version \in Nat
    BY <1>1, <1>2, <2>1
  <2>3. o \in E => o.version <= r
    BY DEF Fresh
  <2>. QED BY <1>2, <2>2, <2>3
<1>4. ASSUME NEW o \in (E \cup {s}) \ {Absent}, NEW p \in (E \cup {s}) \ {Absent},
             o.version = p.version
      PROVE  o = p
  <2>1. CASE o \in E /\ p \in E
    BY <1>4, <2>1 DEF Fresh
  <2>2. r \in Nat
    BY <1>2
  <2>. QED BY <1>3, <1>4, <2>1, <2>2
<1>. QED BY <1>3, <1>4 DEF Fresh

(***************************************************************************)
(* The inductive invariant: types, and how the API, the watch, the         *)
(* informer and the queue of the handlers hang together for each object.   *)
(***************************************************************************)
Line(n) ==
    /\ Of(n, api[n]) /\ Of(n, known[n])
    /\ Wire(n, wire[n], known[n])
    /\ Fresh({known[n], api[n]} \cup Elements(wire[n]), rv)
    /\ phase = "watching" => End(wire[n], known[n]) = api[n]
    /\ phase # "watching" => wire[n] = <<>>

Waiting(n) == Queue(n, notes[n], known[n])

IInv == TypeOK /\ \A n \in Names : Line(n) /\ Waiting(n)

LEMMA NoteShape ==
    ASSUME NEW n \in Names, NEW s \in States, NEW t \in States, Of(n, s), Of(n, t),
           s # Absent \/ t # Absent,
           s # Absent /\ t # Absent /\ s.version = t.version => s = t,
           NEW d \in {"delete", "tombstone", "none"}, t = Absent => d # "none"
    PROVE  LET w == Note(s, t, d) IN
           /\ w \in Notes /\ w.old = s /\ w.new = t
           /\ w.op = "update" /\ w.old.version = w.new.version => w.old = w.new
<1>1. CASE s = Absent
    BY <1>1 DEF Note, Notes, Writes, Creates, States
<1>2. CASE s # Absent /\ t = Absent
    BY <1>2 DEF Note, Notes, Writes, Deletes, Tombstones, States
<1>3. CASE s # Absent /\ t # Absent
    BY <1>3 DEF Note, Notes, Writes, Updates, States, Of
<1>. QED BY <1>1, <1>2, <1>3

LEMMA EmptyQueues ==
    ASSUME NEW n, NEW k
    PROVE  /\ Queue(n, <<>>, k) /\ Wire(n, <<>>, k)
           /\ End(<<>>, k) = k /\ Elements(<<>>) = {} /\ Said(<<>>, k) = k
           /\ <<>> \in Seq(Notes) /\ <<>> \in Seq(States)
<1>1. Len(<<>>) = 0 /\ 1..0 = {}
    BY EmptySeq
<1>. QED BY <1>1, EmptySeq DEF Queue, Wire, End, Elements, Said

\* A note that an operation of the store takes names the object it is about.
LEMMA NoteParts ==
    ASSUME NEW w \in Notes
    PROVE  /\ w.old \in States /\ w.new \in States
           /\ w.op \in {"create", "update", "delete", "tombstone"}
           /\ w.op = "create" => w.old = Absent /\ w.new \in Objects
           /\ w.op = "update" => w.old \in Objects /\ w.new \in Objects
           /\ w.op \in {"delete", "tombstone"} => w.old \in Objects /\ w.new = Absent
    BY DEF Notes, Writes, Creates, Updates, Deletes, Tombstones, States

\* Applying a note leaves a well-formed store.
LEMMA ApplyType ==
    ASSUME NEW w \in Notes, NEW c \in Contents(PrimaryType)
    PROVE  Apply(PrimaryType, c, w) \in Contents(PrimaryType)
    BY NoteParts DEF Apply, Accepts, Contents, States

\* What taking the oldest notification about n does.
LEMMA Popped ==
    ASSUME IInv, NEW n \in Names, NEW op, Pop(n, op)
    PROVE  /\ notes' \in [Names -> Seq(Notes)]
           /\ \A m \in Names : Line(m)' /\ Waiting(m)'
           /\ Head(notes[n]) \in Notes /\ Head(notes[n]).op = op
           /\ Of(n, Head(notes[n]).old) /\ Of(n, Head(notes[n]).new)
           /\ op = "update" /\ Head(notes[n]).old.version = Head(notes[n]).new.version
                => Head(notes[n]).old = Head(notes[n]).new
           /\ Told(n) = Head(notes[n]).old /\ Told(n)' = Head(notes[n]).new
           /\ \A m \in Names \ {n} : Told(m)' = Told(m)
<1>1. notes \in [Names -> Seq(Notes)] /\ notes[n] # <<>> /\ Waiting(n)
    BY DEF IInv, TypeOK, Pop
<1>2. notes' = [notes EXCEPT ![n] = Tail(notes[n])] /\ known' = known
    BY DEF Pop, informerVars
<1>3. /\ Queue(n, Tail(notes[n]), known[n])
      /\ Said(Tail(notes[n]), known[n]) = Head(notes[n]).new
      /\ Tail(notes[n]) \in Seq(Notes)
    BY <1>1, QueueTail DEF Waiting
<1>4. notes' \in [Names -> Seq(Notes)] /\ notes'[n] = Tail(notes[n])
      /\ \A m \in Names \ {n} : notes'[m] = notes[m]
    BY <1>1, <1>2, <1>3
<1>5. ASSUME NEW m \in Names PROVE Line(m)'
  <2>1. api' = api /\ rv' = rv /\ phase' = phase /\ wire' = wire /\ known' = known
    BY DEF Pop, apiVars, informerVars
  <2>. QED BY <2>1 DEF IInv, Line
<1>6. ASSUME NEW m \in Names PROVE Waiting(m)'
    BY <1>2, <1>3, <1>4 DEF Waiting, IInv
<1>7. /\ Head(notes[n]) \in Notes
      /\ Of(n, Head(notes[n]).old) /\ Of(n, Head(notes[n]).new)
      /\ Head(notes[n]).op = "update"
            /\ Head(notes[n]).old.version = Head(notes[n]).new.version
                => Head(notes[n]).old = Head(notes[n]).new
  <2>1. 1 \in 1..Len(notes[n]) /\ Head(notes[n]) = notes[n][1] /\ Head(notes[n]) \in Notes
    BY <1>1, EmptySeq, HeadTailProperties
  <2>. QED BY <1>1, <2>1 DEF Waiting, Queue
<1>8. Told(n) = Head(notes[n]).old /\ Told(n)' = Head(notes[n]).new
  <2>1. Told(n) = Head(notes[n]).old
    BY <1>1 DEF Told
  <2>2. Told(n)' = Said(notes'[n], known'[n])
    BY DEF Told, Said
  <2>. QED BY <1>2, <1>3, <1>4, <2>1, <2>2
<1>9. \A m \in Names \ {n} : Told(m)' = Told(m)
    BY <1>2, <1>4 DEF Told
<1>10. Head(notes[n]).op = op
    BY DEF Pop
<1>. QED BY <1>4, <1>5, <1>6, <1>7, <1>8, <1>9, <1>10

\* Facts about the constants that the solver needs one by one.
LEMMA Constants ==
    /\ Versions \subseteq Nat /\ 1 \in Versions /\ Ids = Versions
    /\ \A r \in Versions : r < MaxRv => r + 1 \in Versions
    /\ Absent \notin Objects
    /\ IsFiniteSet(Names) /\ Initially \subseteq Names
<1>1. MaxRv \in Nat \ {0} /\ Versions = 1..MaxRv
    BY WatcherAssumption
<1>2. Ids = Versions
    BY WatcherAssumption
<1>3. IsFiniteSet(Names) /\ Initially \subseteq Names /\ Absent \notin Objects
    BY WatcherAssumption, BackendsAssumption
<1>. QED BY <1>1, <1>2, <1>3

LEMMA Initial == Init => IInv
<1> SUFFICES ASSUME Init PROVE IInv
    OBVIOUS
<1>1. api \in [Names -> States] /\ \A n \in Names : Of(n, api[n])
            /\ (api[n] # Absent => api[n].version = 1)
    BY Constants DEF Init, States, Objects, Of
<1>2. EmptyStore(PrimaryType) \in Contents(PrimaryType)
    BY DEF EmptyStore, Contents
<1>3. TypeOK
  <2>1. wire \in [Names -> Seq(States)] /\ notes \in [Names -> Seq(Notes)]
    BY EmptyQueues DEF Init, Quiet
  <2>2. known \in [Names -> States] /\ gauge \in [Labels -> Int]
    BY DEF Init, States
  <2>3. /\ rv \in Versions /\ reachable \in BOOLEAN /\ phase \in Phases
        /\ synced \in BOOLEAN /\ trusted \subseteq Names /\ clean \in BOOLEAN
    BY Constants DEF Init, Phases
  <2>4. outages \in Nat /\ expiries \in Nat /\ exits \in Nat /\ errors \in Nat
    BY DEF Init
  <2>5. store \in Contents(PrimaryType)
    BY <1>2 DEF Init
  <2>. QED BY <1>1, <2>1, <2>2, <2>3, <2>4, <2>5 DEF TypeOK
<1>4. ASSUME NEW n \in Names PROVE Line(n) /\ Waiting(n)
  <2>1. known[n] = Absent /\ wire[n] = <<>> /\ notes[n] = <<>> /\ rv = 1 /\ phase = "down"
    BY DEF Init, Quiet
  <2>2. Fresh({known[n], api[n]} \cup Elements(wire[n]), rv)
    BY <1>1, <2>1, EmptyQueues DEF Fresh
  <2>. QED BY <1>1, <2>1, <2>2, EmptyQueues DEF Line, Waiting, Of
<1>. QED BY <1>3, <1>4 DEF IInv

\* The API moving on leaves what was fresh fresh.
LEMMA Later ==
    ASSUME NEW E \in SUBSET States, NEW r \in Versions, Fresh(E, r)
    PROVE  Fresh(E, r + 1)
<1>1. ASSUME NEW o \in E \ {Absent} PROVE o.version <= r + 1
  <2>1. o.version \in Nat /\ r \in Nat /\ o.version <= r
    BY Constants DEF Fresh, States, Objects
  <2>. QED BY <2>1
<1>. QED BY <1>1 DEF Fresh

LEMMA OnTheLine ==
    ASSUME TypeOK, NEW n \in Names
    PROVE  {known[n], api[n]} \cup Elements(wire[n]) \subseteq States
<1>1. wire[n] \in Seq(States) /\ known[n] \in States /\ api[n] \in States
    BY DEF TypeOK
<1>. QED BY <1>1, ElementOfSeq DEF Elements

LEMMA Becomes ==
    ASSUME IInv, NEW n \in Names, NEW s \in States, Become(n, s), Of(n, s),
           s # Absent => s.version = rv + 1, s = Absent => api[n] # Absent
    PROVE  IInv'
<1>1. /\ rv \in Versions /\ rv' = rv + 1 /\ rv + 1 \in Versions
      /\ api' = [api EXCEPT ![n] = s] /\ api' \in [Names -> States]
    BY Constants DEF Become, IInv, TypeOK
<1>2. phase' = phase /\ known' = known /\ notes' = notes
    BY DEF Become, informerVars
<1>3. ASSUME NEW m \in Names, m # n
      PROVE  api'[m] = api[m] /\ wire'[m] = wire[m]
    BY <1>3 DEF Become, IInv, TypeOK
<1>4. /\ wire[n] \in Seq(States) /\ known[n] \in States /\ api[n] \in States
      /\ Elements(wire[n]) \subseteq States
  <2>1. wire[n] \in Seq(States) /\ known[n] \in States /\ api[n] \in States
    BY DEF IInv, TypeOK
  <2>. QED BY <2>1, ElementOfSeq DEF Elements
<1>5. CASE phase = "watching"
  <2>1. wire' = [wire EXCEPT ![n] = Append(wire[n], s)]
    BY <1>5 DEF Become
  <2>2. /\ Append(wire[n], s) \in Seq(States)
        /\ Wire(n, Append(wire[n], s), known[n])
        /\ End(Append(wire[n], s), known[n]) = s
        /\ Elements(Append(wire[n], s)) = Elements(wire[n]) \cup {s}
    <3>1. Wire(n, wire[n], known[n]) /\ (s = Absent => End(wire[n], known[n]) # Absent)
      BY <1>5 DEF IInv, Line
    <3>. QED BY <1>4, <3>1, WireAppend
  <2>3. wire' \in [Names -> Seq(States)] /\ wire'[n] = Append(wire[n], s)
    BY <2>1, <2>2 DEF IInv, TypeOK
  <2>4. TypeOK'
    BY <1>1, <2>3 DEF IInv, TypeOK, Become, informerVars
  <2>5. Fresh({known[n], s} \cup (Elements(wire[n]) \cup {s}), rv + 1)
    <3> DEFINE E == {known[n], api[n]} \cup Elements(wire[n])
    <3>1. Fresh(E \cup {s}, rv + 1)
      BY <1>1, <1>4, FreshPlus DEF IInv, Line
    <3>2. {known[n], s} \cup (Elements(wire[n]) \cup {s}) \subseteq E \cup {s}
      OBVIOUS
    <3>. QED BY <3>1, <3>2, FreshSubset
  <2>6. Line(n)'
    BY <1>1, <1>2, <1>5, <2>2, <2>3, <2>5 DEF IInv, TypeOK, Line
  <2>7. ASSUME NEW m \in Names, m # n PROVE Line(m)'
    <3>1. Line(m) /\ rv \in Versions /\ rv \in Nat
      BY <1>1, Constants DEF IInv
    <3>2. {known[m], api[m]} \cup Elements(wire[m]) \subseteq States
      BY OnTheLine DEF IInv
    <3>3. Fresh({known[m], api[m]} \cup Elements(wire[m]), rv + 1)
      BY <3>1, <3>2, Later DEF Line
    <3>. QED BY <1>1, <1>2, <1>3, <2>7, <3>1, <3>3 DEF Line
  <2>8. \A m \in Names : Waiting(m)'
    BY <1>2 DEF IInv, Waiting
  <2>. QED BY <2>4, <2>6, <2>7, <2>8 DEF IInv
<1>6. CASE phase # "watching"
  <2>1. wire' = wire /\ wire[n] = <<>>
    BY <1>6 DEF Become, IInv, Line
  <2>2. TypeOK'
    BY <1>1, <2>1 DEF IInv, TypeOK, Become, informerVars
  <2>3. Fresh({known[n], s} \cup Elements(wire[n]), rv + 1)
    <3> DEFINE E == {known[n], api[n]} \cup Elements(wire[n])
    <3>1. Fresh(E \cup {s}, rv + 1)
      BY <1>1, <1>4, FreshPlus DEF IInv, Line
    <3>2. {known[n], s} \cup Elements(wire[n]) \subseteq E \cup {s}
      OBVIOUS
    <3>. QED BY <3>1, <3>2, FreshSubset
  <2>4. Line(n)'
    BY <1>1, <1>2, <1>6, <2>1, <2>3 DEF IInv, TypeOK, Line
  <2>5. ASSUME NEW m \in Names, m # n PROVE Line(m)'
    <3>1. Line(m) /\ rv \in Versions /\ rv \in Nat
      BY <1>1, Constants DEF IInv
    <3>2. {known[m], api[m]} \cup Elements(wire[m]) \subseteq States
      BY OnTheLine DEF IInv
    <3>3. Fresh({known[m], api[m]} \cup Elements(wire[m]), rv + 1)
      BY <3>1, <3>2, Later DEF Line
    <3>. QED BY <1>1, <1>2, <1>3, <2>5, <3>1, <3>3 DEF Line
  <2>6. \A m \in Names : Waiting(m)'
    BY <1>2 DEF IInv, Waiting
  <2>. QED BY <2>2, <2>4, <2>5, <2>6 DEF IInv
<1>. QED BY <1>5, <1>6

\* What the informer reports is put behind what the handlers have still to
\* work off.
LEMMA Reported ==
    ASSUME IInv, NEW n \in Names, NEW s \in States, Of(n, s), known[n] # Absent \/ s # Absent,
           known[n] # Absent /\ s # Absent /\ known[n].version = s.version => known[n] = s,
           NEW d \in {"delete", "tombstone"}
    PROVE  LET q == Append(notes[n], Note(known[n], s, d)) IN
           q \in Seq(Notes) /\ Queue(n, q, s) /\ Said(q, s) = Told(n)
<1> DEFINE w == Note(known[n], s, d)
<1>1. known[n] \in States /\ notes[n] \in Seq(Notes) /\ Of(n, known[n])
      /\ Queue(n, notes[n], known[n])
    BY DEF IInv, TypeOK, Line, Waiting
<1>2. /\ w \in Notes /\ w.old = known[n] /\ w.new = s
      /\ w.op = "update" /\ w.old.version = w.new.version => w.old = w.new
    BY <1>1, NoteShape
<1> HIDE DEF w
<1>3. /\ Append(notes[n], w) \in Seq(Notes)
      /\ Queue(n, Append(notes[n], w), w.new)
      /\ Said(Append(notes[n], w), w.new) = Said(notes[n], known[n])
    BY <1>1, <1>2, QueueAppend
<1>. QED BY <1>2, <1>3 DEF w, Said, Told

LEMMA Lists ==
    ASSUME IInv, List
    PROVE  IInv' /\ \A n \in Names : Told(n)' = Told(n)
<1>1. /\ phase' = "watching" /\ wire' = wire /\ known' = api /\ api' = api /\ rv' = rv
      /\ \A n \in Names : wire[n] = <<>>
    BY DEF List, HandlerFrame, apiVars, IInv, Line
<1>2. ASSUME NEW n \in Names
      PROVE  /\ notes'[n] \in Seq(Notes) /\ Queue(n, notes'[n], api[n])
             /\ Said(notes'[n], api[n]) = Told(n)
  <2>1. /\ api[n] \in States /\ known[n] \in States /\ Of(n, api[n]) /\ notes[n] \in Seq(Notes)
        /\ Queue(n, notes[n], known[n]) /\ Fresh({known[n], api[n]} \cup Elements(wire[n]), rv)
    BY DEF IInv, TypeOK, Line, Waiting
  <2>2. notes'[n] = IF known[n] = Absent /\ api[n] = Absent THEN notes[n]
                    ELSE Append(notes[n], Note(known[n], api[n], "tombstone"))
    BY DEF List
  <2>3. CASE known[n] = Absent /\ api[n] = Absent
    BY <2>1, <2>2, <2>3 DEF Said, Told
  <2>4. CASE known[n] # Absent \/ api[n] # Absent
    <3>1. known[n] # Absent /\ api[n] # Absent /\ known[n].version = api[n].version
                => known[n] = api[n]
      BY <2>1 DEF Fresh
    <3>. QED BY <2>1, <2>2, <2>4, <3>1, Reported
  <2>. QED BY <2>3, <2>4
<1>3. TypeOK'
  <2>1. notes' \in [Names -> Seq(Notes)]
    BY <1>2 DEF List
  <2>. QED BY <1>1, <2>1 DEF IInv, TypeOK, List, HandlerFrame, apiVars, Phases
<1>4. ASSUME NEW n \in Names PROVE Line(n)' /\ Waiting(n)'
  <2>1. Of(n, api[n]) /\ Fresh({known[n], api[n]} \cup Elements(wire[n]), rv)
    BY DEF IInv, Line
  <2>2. Fresh({api[n], api[n]} \cup Elements(wire[n]), rv)
    BY <2>1 DEF Fresh
  <2>. QED BY <1>1, <1>2, <2>1, <2>2, EmptyQueues DEF Line, Waiting
<1>5. ASSUME NEW n \in Names PROVE Told(n)' = Told(n)
    BY <1>1, <1>2 DEF Said, Told
<1>. QED BY <1>3, <1>4, <1>5 DEF IInv

LEMMA Receives ==
    ASSUME IInv, NEW n \in Names, Receive(n)
    PROVE  IInv' /\ \A m \in Names : Told(m)' = Told(m)
<1> DEFINE s == Head(wire[n])
<1>1. /\ wire[n] \in Seq(States) /\ wire[n] # <<>> /\ phase = "watching"
      /\ known[n] \in States /\ Wire(n, wire[n], known[n])
      /\ End(wire[n], known[n]) = api[n]
      /\ Fresh({known[n], api[n]} \cup Elements(wire[n]), rv)
    BY DEF Receive, IInv, TypeOK, Line
<1>2. /\ Tail(wire[n]) \in Seq(States) /\ s \in States /\ Of(n, s)
      /\ s = Absent => known[n] # Absent
      /\ Wire(n, Tail(wire[n]), s)
      /\ End(Tail(wire[n]), s) = api[n]
      /\ s \in Elements(wire[n]) /\ Elements(Tail(wire[n])) \subseteq Elements(wire[n])
    BY <1>1, WireTail
<1>3. /\ wire' = [wire EXCEPT ![n] = Tail(wire[n])]
      /\ known' = [known EXCEPT ![n] = s]
      /\ notes' = [notes EXCEPT ![n] = Append(notes[n], Note(known[n], s, "delete"))]
      /\ phase' = phase /\ api' = api /\ rv' = rv
    BY DEF Receive, informerVars, HandlerFrame, apiVars
<1> HIDE DEF s
<1>4. /\ Append(notes[n], Note(known[n], s, "delete")) \in Seq(Notes)
      /\ Queue(n, Append(notes[n], Note(known[n], s, "delete")), s)
      /\ Said(Append(notes[n], Note(known[n], s, "delete")), s) = Told(n)
  <2>1. known[n] # Absent /\ s # Absent /\ known[n].version = s.version => known[n] = s
    BY <1>1, <1>2 DEF Fresh
  <2>. QED BY <1>2, <2>1, Reported
<1>5. /\ wire' \in [Names -> Seq(States)] /\ wire'[n] = Tail(wire[n])
      /\ known' \in [Names -> States] /\ known'[n] = s
      /\ notes' \in [Names -> Seq(Notes)]
      /\ notes'[n] = Append(notes[n], Note(known[n], s, "delete"))
      /\ \A m \in Names \ {n} : wire'[m] = wire[m] /\ known'[m] = known[m] /\ notes'[m] = notes[m]
    BY <1>2, <1>3, <1>4 DEF IInv, TypeOK
<1>6. TypeOK'
    BY <1>5 DEF IInv, TypeOK, Receive, informerVars, HandlerFrame, apiVars
<1>7. Line(n)' /\ Waiting(n)'
  <2>1. Fresh({s, api[n]} \cup Elements(Tail(wire[n])), rv)
    <3>1. {s, api[n]} \cup Elements(Tail(wire[n]))
                \subseteq {known[n], api[n]} \cup Elements(wire[n])
      BY <1>2
    <3>. QED BY <1>1, <3>1, FreshSubset
  <2>2. Of(n, api[n])
    BY DEF IInv, Line
  <2>. QED BY <1>1, <1>2, <1>3, <1>4, <1>5, <2>1, <2>2 DEF Line, Waiting
<1>8. ASSUME NEW m \in Names \ {n} PROVE Line(m)' /\ Waiting(m)'
    BY <1>3, <1>5 DEF IInv, Line, Waiting
<1>9. ASSUME NEW m \in Names PROVE Told(m)' = Told(m)
    BY <1>4, <1>5 DEF Said, Told
<1>. QED BY <1>6, <1>7, <1>8, <1>9 DEF IInv

LEMMA Resyncs ==
    ASSUME IInv, Resync
    PROVE  IInv' /\ \A n \in Names : Told(n)' = Told(n)
<1>1. /\ known' = known /\ wire' = wire /\ phase' = phase /\ api' = api /\ rv' = rv
      /\ \A n \in Names : notes[n] = <<>>
    BY DEF Resync, informerVars, HandlerFrame, apiVars, Quiet
<1>2. ASSUME NEW n \in Names
      PROVE  /\ notes'[n] \in Seq(Notes) /\ Queue(n, notes'[n], known[n])
             /\ Said(notes'[n], known[n]) = known[n]
  <2> DEFINE w == Note(known[n], known[n], "none")
  <2>1. CASE known[n] = Absent
    <3>1. notes'[n] = <<>>
      BY <2>1 DEF Resync
    <3>. QED BY <3>1, EmptyQueues
  <2>2. CASE known[n] # Absent
    <3>1. notes'[n] = <<w>>
      BY <2>2 DEF Resync
    <3>2. known[n] \in States /\ Of(n, known[n])
      BY DEF IInv, TypeOK, Line
    <3>3. w \in Notes /\ w.old = known[n] /\ w.new = known[n]
      BY <2>2, <3>2, NoteShape
    <3> HIDE DEF w
    <3>4. <<w>> = Append(<<>>, w)
      OBVIOUS
    <3>5. /\ Append(<<>>, w) \in Seq(Notes) /\ Queue(n, Append(<<>>, w), w.new)
          /\ Said(Append(<<>>, w), w.new) = Said(<<>>, known[n])
      <4>1. <<>> \in Seq(Notes) /\ Queue(n, <<>>, known[n])
        BY EmptyQueues
      <4>. QED BY <3>2, <3>3, <4>1, QueueAppend
    <3>. QED BY <3>1, <3>3, <3>4, <3>5, EmptyQueues
  <2>. QED BY <2>1, <2>2
<1>3. TypeOK'
  <2>1. notes' \in [Names -> Seq(Notes)]
    BY <1>2 DEF Resync
  <2>. QED BY <1>1, <2>1 DEF IInv, TypeOK, Resync, informerVars, HandlerFrame, apiVars
<1>4. ASSUME NEW n \in Names PROVE Line(n)' /\ Waiting(n)'
    BY <1>1, <1>2 DEF IInv, Line, Waiting
<1>5. ASSUME NEW n \in Names PROVE Told(n)' = Told(n)
    BY <1>1, <1>2 DEF Said, Told
<1>. QED BY <1>3, <1>4, <1>5 DEF IInv

\* The end of the process, whatever its cause.
LEMMA Dies ==
    ASSUME IInv, Die, exits' \in Nat, store' \in Contents(PrimaryType)
    PROVE  IInv' /\ \A n \in Names : Told(n)' = Absent
<1>1. /\ \A n \in Names : known'[n] = Absent /\ wire'[n] = <<>> /\ notes'[n] = <<>>
      /\ api' = api /\ rv' = rv /\ phase' = "down"
    BY DEF Die, Quiet, apiVars
<1>2. TypeOK'
  <2>1. wire' \in [Names -> Seq(States)] /\ notes' \in [Names -> Seq(Notes)]
    BY EmptyQueues DEF Die, Quiet
  <2>2. known' \in [Names -> States] /\ gauge' \in [Labels -> Int]
    BY DEF Die, States
  <2>. QED BY <2>1, <2>2 DEF IInv, TypeOK, Die, apiVars, Phases
<1>3. ASSUME NEW n \in Names PROVE Line(n)' /\ Waiting(n)'
  <2>1. Of(n, api[n]) /\ Fresh({known[n], api[n]} \cup Elements(wire[n]), rv)
    BY DEF IInv, Line
  <2>2. Fresh({Absent, api[n]} \cup {}, rv)
    BY <2>1 DEF Fresh
  <2>3. Elements(<<>>) = {} /\ Wire(n, <<>>, Absent) /\ Queue(n, <<>>, Absent)
    BY EmptyQueues
  <2>4. Of(n, Absent)
    BY DEF Of
  <2>. QED BY <1>1, <2>1, <2>2, <2>3, <2>4 DEF Line, Waiting
<1>4. ASSUME NEW n \in Names PROVE Told(n)' = Absent
    BY <1>1 DEF Told
<1>. QED BY <1>2, <1>3, <1>4 DEF IInv

\* What the handlers change besides the queue.
Handlers(n) ==
    /\ store' \in {store, Apply(PrimaryType, store, Head(notes[n]))}
    /\ gauge' \in [Labels -> Int]
    /\ trusted' \in {trusted, trusted \cup {n}, trusted \ {n}}
    /\ clean' \in {clean, FALSE}
    /\ errors' \in {errors, errors + 1}

LEMMA Handles ==
    ASSUME IInv, NEW n \in Names, Handle(n)
    PROVE  Handlers(n) /\ \E op \in {"create", "update", "delete", "tombstone"} : Pop(n, op)
<1> USE DEF Handlers
<1>1. gauge \in [Labels -> Int] /\ notes \in [Names -> Seq(Notes)] /\ clean \in BOOLEAN
    BY DEF IInv, TypeOK
<1>2. ASSUME NEW o \in Objects, NEW step \in Int, Count(o, step)
      PROVE  gauge' \in [Labels -> Int]
  <2>1. Label(o) \in Labels
    BY <1>2 DEF Count, Labelled
  <2>. QED BY <1>1, <1>2, <2>1 DEF Count
<1>3. CASE Add(n)
  <2>1. Pop(n, "create")
    BY <1>3 DEF Add
  <2>2. Head(notes[n]).new \in Objects
    BY <2>1, Popped, NoteParts
  <2>3. CASE Stored(n) /\ Count(Head(notes[n]).new, 1)
    <3>1. gauge' \in [Labels -> Int]
      BY <1>2, <2>2, <2>3
    <3>2. clean' = clean
      BY <2>3 DEF Count
    <3>. QED BY <2>1, <2>3, <3>1, <3>2 DEF Stored
  <2>4. CASE NotStored(n)
    BY <1>1, <2>1, <2>4 DEF NotStored
  <2>. QED BY <1>3, <2>3, <2>4 DEF Add
<1>4. CASE Update(n)
    BY <1>1, <1>4 DEF Update, Stored, NotStored
<1>5. CASE Delete(n)
  <2>1. Pop(n, "delete")
    BY <1>5 DEF Delete
  <2>2. Head(notes[n]).old \in Objects
    BY <2>1, Popped, NoteParts
  <2>3. CASE Stored(n) /\ Count(Head(notes[n]).old, -1)
    <3>1. gauge' \in [Labels -> Int]
      BY <1>2, <2>2, <2>3
    <3>2. clean' = clean
      BY <2>3 DEF Count
    <3>. QED BY <2>1, <2>3, <3>1, <3>2 DEF Stored
  <2>4. CASE NotStored(n)
    BY <1>1, <2>1, <2>4 DEF NotStored
  <2>. QED BY <1>5, <2>3, <2>4 DEF Delete
<1>6. CASE Unexpected(n)
    BY <1>1, <1>6 DEF Unexpected
<1>. QED BY <1>3, <1>4, <1>5, <1>6 DEF Handle

\* A handler that panics has written its object like one that does not.
LEMMA Panics ==
    ASSUME IInv, NEW n \in Names, CountPanics(n)
    PROVE  /\ Head(notes[n]) \in Notes /\ Head(notes[n]).op # "tombstone"
           /\ Of(n, Head(notes[n]).old) /\ Of(n, Head(notes[n]).new)
           /\ store' = Apply(PrimaryType, store, Head(notes[n]))
           /\ store' \in Contents(PrimaryType)
           /\ Die /\ exits' = exits
<1>1. notes[n] \in Seq(Notes) /\ notes[n] # <<>> /\ Waiting(n)
    BY DEF IInv, TypeOK, CountPanics
<1>2. 1 \in 1..Len(notes[n]) /\ Head(notes[n]) = notes[n][1] /\ Head(notes[n]) \in Notes
    BY <1>1, EmptySeq, HeadTailProperties
<1>3. Of(n, Head(notes[n]).old) /\ Of(n, Head(notes[n]).new)
    BY <1>1, <1>2 DEF Waiting, Queue
<1>4. /\ Head(notes[n]).op # "tombstone"
      /\ store' = Apply(PrimaryType, store, Head(notes[n]))
      /\ Die /\ exits' = exits
    BY DEF CountPanics
<1>. QED BY <1>2, <1>3, <1>4, ApplyType DEF IInv, TypeOK

LEMMA Step == IInv /\ [Next]_vars => IInv'
<1> SUFFICES ASSUME IInv, [Next]_vars PROVE IInv'
    OBVIOUS
<1>1. ASSUME NEW n \in Names, Put(n) PROVE IInv'
  <2> DEFINE s == [name |-> n, version |-> rv + 1,
                   id |-> IF api[n] = Absent THEN rv + 1 ELSE api[n].id]
  <2>1. rv + 1 \in Versions
    BY <1>1, Constants DEF Put, Become, IInv, TypeOK
  <2>2. api[n] # Absent => api[n].id \in Ids \cup {NoId}
    BY DEF IInv, TypeOK, States, Objects
  <2>3. s \in Objects /\ Of(n, s) /\ s.version = rv + 1
    BY <2>1, <2>2, Constants DEF Objects, Of
  <2>4. s \in States /\ s # Absent /\ Become(n, s)
    BY <1>1, <2>3, Constants DEF States, Put
  <2>. QED BY <2>3, <2>4, Becomes
<1>2. ASSUME NEW n \in Names, Remove(n) PROVE IInv'
  <2>1. Absent \in States /\ Of(n, Absent)
    BY DEF States, Of
  <2>. QED BY <1>2, <2>1, Becomes DEF Remove
<1>3. CASE Outage
  <2>1. outages' \in Nat
    <3>1. outages \in Nat /\ outages' = outages + 1
      BY <1>3 DEF Outage, IInv, TypeOK
    <3>. QED BY <3>1
  <2>2. TypeOK'
    BY <1>3, <2>1 DEF Outage, informerVars, IInv, TypeOK
  <2>3. ASSUME NEW n \in Names PROVE Line(n)' /\ Waiting(n)'
    BY <1>3 DEF Outage, informerVars, IInv, Line, Waiting
  <2>. QED BY <2>2, <2>3 DEF IInv
<1>4. CASE Recover
    BY <1>4 DEF Recover, informerVars, IInv, TypeOK, Line, Waiting
<1>5. CASE Expire
  <2>1. /\ TypeOK'
        /\ api' = api /\ rv' = rv /\ known' = known /\ notes' = notes
        /\ phase' = "listing" /\ \A n \in Names : wire'[n] = <<>>
    BY <1>5, EmptyQueues DEF Expire, HandlerFrame, apiVars, IInv, TypeOK, Phases, Quiet
  <2>2. ASSUME NEW n \in Names PROVE Line(n)' /\ Waiting(n)'
    <3>1. Fresh({known[n], api[n]} \cup Elements(wire[n]), rv)
      BY DEF IInv, Line
    <3>2. Fresh({known[n], api[n]} \cup {}, rv)
      BY <3>1 DEF Fresh
    <3>3. Elements(<<>>) = {} /\ Wire(n, <<>>, known[n])
      BY EmptyQueues
    <3>. QED BY <2>1, <3>2, <3>3 DEF IInv, Line, Waiting
  <2>. QED BY <2>1, <2>2 DEF IInv
<1>6. ASSUME NEW n \in Names, Handle(n) PROVE IInv'
  <2>1. PICK op \in {"create", "update", "delete", "tombstone"} : Pop(n, op)
    BY <1>6, Handles
  <2>2. Handlers(n)
    BY <1>6, Handles
  <2>3. /\ notes' \in [Names -> Seq(Notes)] /\ Head(notes[n]) \in Notes
        /\ \A m \in Names : Line(m)' /\ Waiting(m)'
    BY <2>1, Popped
  <2>4. store' \in Contents(PrimaryType)
    BY <2>2, <2>3, ApplyType DEF Handlers, IInv, TypeOK
  <2>5. TypeOK'
    <3>1. gauge' \in [Labels -> Int] /\ clean' \in BOOLEAN
      BY <2>2 DEF Handlers, IInv, TypeOK
    <3>2. trusted' \subseteq Names
      BY <2>2 DEF Handlers, IInv, TypeOK
    <3>3. errors' \in Nat
      <4>1. errors \in Nat /\ errors' \in {errors, errors + 1}
        BY <2>2 DEF Handlers, IInv, TypeOK
      <4>. QED BY <4>1
    <3>4. UNCHANGED <<apiVars, informerVars, wire, known>>
      BY <2>1 DEF Pop
    <3>. QED BY <2>3, <2>4, <3>1, <3>2, <3>3, <3>4 DEF apiVars, informerVars, IInv, TypeOK
  <2>. QED BY <2>3, <2>5 DEF IInv
<1>7. CASE Start
    BY <1>7 DEF Start, HandlerFrame, apiVars, IInv, TypeOK, Phases, Line, Waiting
<1>8. CASE Replay
    BY <1>8, Dies DEF Replay, IInv, TypeOK
<1>9. CASE Fatal
    BY <1>9, Dies DEF Fatal, IInv, TypeOK
<1>10. CASE Exit
    BY <1>10, Dies DEF Exit, IInv, TypeOK
<1>11. CASE UNCHANGED vars
    BY <1>11 DEF vars, IInv, TypeOK, Line, Waiting
<1>12. ASSUME NEW n \in Names, CountPanics(n) PROVE IInv'
  <2>1. store' \in Contents(PrimaryType) /\ exits' = exits
    BY <1>12, Panics
  <2>. QED BY <1>12, <2>1, Dies DEF CountPanics, IInv, TypeOK
<1>. QED BY <1>1, <1>2, <1>3, <1>4, <1>5, <1>6, <1>7, <1>8, <1>9, <1>10, <1>11, <1>12,
            Lists, Receives, Resyncs DEF Next

\* The types hold in every state.
THEOREM TypeCorrect == Spec => []TypeOK
<1>1. IInv => TypeOK
    BY DEF IInv
<1>. QED BY <1>1, Initial, Step, PTL DEF Spec

(***************************************************************************)
(* The store and what the handlers were told, where the store files by     *)
(* name: Hazelcast and Redis.                                              *)
(***************************************************************************)
KeyedByName == PrimaryType # "mongo"

Filed   == \A k \in Names : store[k] # Absent => store[k].name = k
Follows == \A n \in trusted : store[n] = Told(n)
FInv    == IInv /\ Filed /\ Follows

LEMMA ApplyByName ==
    ASSUME KeyedByName, NEW c \in Contents(PrimaryType), NEW n \in Names, NEW w \in Notes,
           w.op # "tombstone", Of(n, w.old), Of(n, w.new)
    PROVE  Apply(PrimaryType, c, w) = [c EXCEPT ![n] = w.new]
<1>1. PrimaryType \in {"hazelcast", "redis"}
    BY WatcherAssumption DEF KeyedByName, StoreTypes
<1>2. /\ w.op = "create" => w.new.name = n
      /\ w.op = "update" => w.old.name = n /\ w.new.name = n
      /\ w.op = "delete" => w.old.name = n
      /\ w.op \in {"create", "update", "delete"}
    BY NoteParts, Constants DEF Of
<1>3. Key(PrimaryType, w) = n
    BY <1>1, <1>2 DEF Key, HazelcastKey, RedisKey
<1>. QED BY <1>1, <1>3 DEF Apply, Accepts, KeySpace

LEMMA InStore ==
    ASSUME KeyedByName, NEW c \in Contents(PrimaryType),
           \A k \in Names : c[k] # Absent => c[k].name = k, NEW n \in Names
    PROVE  Documents(c, n) = IF c[n] = Absent THEN {} ELSE {c[n]}
<1>1. DOMAIN c = Names
    BY DEF Contents, KeySpace, KeyedByName
<1>. QED BY <1>1 DEF Documents

\* A handler writes its own object only, and the state it is told of.
LEMMA HandlerFollows ==
    ASSUME KeyedByName, FInv, NEW n \in Names, Handle(n)
    PROVE  Filed' /\ Follows'
<1> DEFINE w == Head(notes[n])
<1>1. PICK op \in {"create", "update", "delete", "tombstone"} : Pop(n, op)
    BY Handles DEF FInv
<1>2. /\ w \in Notes /\ w.op = op
      /\ Of(n, w.old) /\ Of(n, w.new)
      /\ op = "update" /\ w.old.version = w.new.version => w.old = w.new
      /\ Told(n) = w.old /\ Told(n)' = w.new
      /\ \A m \in Names \ {n} : Told(m)' = Told(m)
    BY <1>1, Popped DEF FInv
<1>3. store \in [Names -> States] /\ store \in Contents(PrimaryType) /\ trusted \subseteq Names
    BY DEF FInv, IInv, TypeOK, Contents, KeySpace, KeyedByName, States
<1>4. w.new \in States
    BY <1>2, NoteParts
<1> HIDE DEF w
<1>5. ASSUME op # "tombstone", store' = Apply(PrimaryType, store, w)
      PROVE  /\ store'[n] = w.new
             /\ \A m \in Names \ {n} : store'[m] = store[m]
    BY <1>2, <1>3, <1>4, <1>5, ApplyByName
<1>6. ASSUME \A m \in Names \ {n} : store'[m] = store[m], store'[n] \in {store[n], w.new}
      PROVE  Filed'
    BY <1>2, <1>6 DEF FInv, Filed, Of
<1>7. CASE Stored(n) /\ op # "tombstone"
  <2>1. store' = Apply(PrimaryType, store, w) /\ trusted' = trusted \cup {n}
    BY <1>7 DEF Stored, w
  <2>2. store'[n] = w.new /\ \A m \in Names \ {n} : store'[m] = store[m]
    BY <1>5, <1>7, <2>1
  <2>. QED BY <1>2, <1>3, <1>6, <2>1, <2>2 DEF FInv, Follows
<1>8. CASE NotStored(n) /\ op # "tombstone"
  <2>1. store' \in {store, Apply(PrimaryType, store, w)} /\ trusted' = trusted \ {n}
    BY <1>8 DEF NotStored, w
  <2>2. store'[n] \in {store[n], w.new} /\ \A m \in Names \ {n} : store'[m] = store[m]
    BY <1>5, <1>8, <2>1
  <2>. QED BY <1>2, <1>3, <1>6, <2>1, <2>2 DEF FInv, Follows
<1>9. CASE store' = store /\ trusted' = trusted \ {n}
    BY <1>2, <1>3, <1>6, <1>9 DEF FInv, Follows
<1>10. CASE store' = store /\ trusted' = trusted /\ w.old = w.new
    BY <1>2, <1>3, <1>6, <1>10 DEF FInv, Follows
<1>11. CASE Add(n)
  <2>1. op = "create"
    BY <1>1, <1>11 DEF Add, Pop
  <2>. QED BY <1>7, <1>8, <1>11, <2>1 DEF Add
<1>12. CASE Update(n)
  <2>1. op = "update"
    BY <1>1, <1>12 DEF Update, Pop
  <2>2. CASE w.old.version = w.new.version /\ UNCHANGED <<store, gauge, trusted, clean, errors>>
    BY <1>2, <1>10, <2>1, <2>2
  <2>. QED BY <1>7, <1>8, <1>12, <2>1, <2>2 DEF Update, w
<1>13. CASE Delete(n)
  <2>1. op = "delete"
    BY <1>1, <1>13 DEF Delete, Pop
  <2>. QED BY <1>7, <1>8, <1>13, <2>1 DEF Delete
<1>14. CASE Unexpected(n)
    BY <1>9, <1>14 DEF Unexpected
<1>. QED BY <1>11, <1>12, <1>13, <1>14 DEF Handle

\* The end of the process leaves only the names without a document trusted.
LEMMA EndFollows ==
    ASSUME KeyedByName, FInv, Die, exits' \in Nat, store' \in Contents(PrimaryType), Filed'
    PROVE  Follows'
<1>1. trusted' = {n \in Names : Documents(store', n) = {}}
    BY DEF Die
<1>2. \A n \in Names : Told(n)' = Absent
    BY Dies DEF FInv
<1> DEFINE c == store'
<1>3. c \in Contents(PrimaryType) /\ \A k \in Names : c[k] # Absent => c[k].name = k
    BY DEF Filed
<1>4. \A n \in trusted' : c[n] = Absent
  <2> HIDE DEF c
  <2>1. \A n \in Names : Documents(c, n) = {} => c[n] = Absent
    BY <1>3, InStore
  <2>. QED BY <1>1, <2>1 DEF c
<1>5. trusted' \subseteq Names
    BY <1>1
<1>. QED BY <1>2, <1>4, <1>5 DEF Follows

LEMMA FollowsStep == KeyedByName /\ FInv /\ [Next]_vars => FInv'
<1> SUFFICES ASSUME KeyedByName, FInv, [Next]_vars PROVE Filed' /\ Follows'
    BY Step DEF FInv
<1>1. IInv /\ Filed /\ Follows /\ trusted \subseteq Names /\ exits \in Nat
    BY DEF FInv, IInv, TypeOK
<1>2. ASSUME store' = store, trusted' = trusted, \A n \in Names : Told(n)' = Told(n)
      PROVE  Filed' /\ Follows'
    BY <1>1, <1>2 DEF Filed, Follows
<1>3. ASSUME store' = store, trusted' = trusted, known' = known, notes' = notes
      PROVE  Filed' /\ Follows'
    BY <1>2, <1>3 DEF Told
<1>4. ASSUME NEW n \in Names, Put(n) \/ Remove(n) PROVE Filed' /\ Follows'
    BY <1>3, <1>4 DEF Put, Remove, Become
<1>5. CASE Outage \/ Recover \/ Expire \/ Start \/ UNCHANGED vars
    BY <1>3, <1>5 DEF Outage, Recover, Expire, Start, HandlerFrame, vars
<1>6. CASE List
    BY <1>1, <1>2, <1>6, Lists DEF List, HandlerFrame
<1>7. ASSUME NEW n \in Names, Receive(n) PROVE Filed' /\ Follows'
    BY <1>1, <1>2, <1>7, Receives DEF Receive, HandlerFrame
<1>8. CASE Resync
    BY <1>1, <1>2, <1>8, Resyncs DEF Resync, HandlerFrame
<1>9. ASSUME NEW n \in Names, Handle(n) PROVE Filed' /\ Follows'
    BY <1>9, HandlerFollows
<1>10. CASE Replay \/ Fatal \/ Exit
  <2>1. Die /\ exits' \in Nat /\ store' = store
    BY <1>1, <1>10 DEF Replay, Fatal, Exit
  <2>2. store' \in Contents(PrimaryType) /\ Filed'
    BY <1>1, <2>1 DEF IInv, TypeOK, Filed
  <2>. QED BY <2>1, <2>2, EndFollows
<1>11. ASSUME NEW n \in Names, CountPanics(n) PROVE Filed' /\ Follows'
  <2>1. Filed'
    <3>1. /\ store' = [store EXCEPT ![n] = Head(notes[n]).new]
          /\ Of(n, Head(notes[n]).new)
      BY <1>1, <1>11, Panics, ApplyByName DEF IInv, TypeOK
    <3>. QED BY <1>1, <3>1 DEF Filed, Of, IInv, TypeOK, Contents, KeySpace, KeyedByName
  <2>. QED BY <1>1, <1>11, <2>1, Panics, EndFollows
<1>. QED BY <1>4, <1>5, <1>6, <1>7, <1>8, <1>9, <1>10, <1>11 DEF Next

\* With Hazelcast or Redis as the primary store, what an object was last
\* reported as is what the store holds of it.
THEOREM FollowsInformer == KeyedByName /\ Spec => []StoreFollowsInformer
<1> SUFFICES ASSUME KeyedByName PROVE Spec => []StoreFollowsInformer
    OBVIOUS
<1>1. Init => FInv
  <2> SUFFICES ASSUME Init PROVE Filed /\ Follows
    BY Initial DEF FInv
  <2>1. \A n \in Names : store[n] = Absent /\ Told(n) = Absent
    BY DEF Init, EmptyStore, KeySpace, KeyedByName, Told, Quiet
  <2>. QED BY <2>1 DEF Init, Filed, Follows
<1>2. FInv /\ [Next]_vars => FInv'
    BY FollowsStep
<1>3. FInv => StoreFollowsInformer
    BY InStore DEF FInv, IInv, TypeOK, Filed, Follows, StoreFollowsInformer
<1>. QED BY <1>1, <1>2, <1>3, PTL DEF Spec

(***************************************************************************)
(* The gauge.                                                              *)
(***************************************************************************)
Carriers(l) == {n \in Names : Told(n) # Absent /\ Label(Told(n)) = l}

Counted == clean => \A l \in Labels : gauge[l] = Cardinality(Carriers(l))
GInv    == IInv /\ Counted

LEMMA ToldState ==
    ASSUME IInv, NEW n \in Names
    PROVE  /\ Told(n) \in States
           /\ Told(n) # Absent => Told(n) \in Objects /\ Told(n).name = n
<1>1. notes[n] \in Seq(Notes) /\ known[n] \in States /\ Of(n, known[n]) /\ Waiting(n)
    BY DEF IInv, TypeOK, Line
<1>2. CASE notes[n] = <<>>
    BY <1>1, <1>2 DEF Told, States, Of
<1>3. CASE notes[n] # <<>>
  <2>1. 1 \in 1..Len(notes[n]) /\ Head(notes[n]) = notes[n][1] /\ Head(notes[n]) \in Notes
    BY <1>1, <1>3, EmptySeq, HeadTailProperties
  <2>2. Head(notes[n]).old \in States /\ Of(n, Head(notes[n]).old)
    BY <1>1, <2>1, NoteParts DEF Waiting, Queue
  <2>. QED BY <1>3, <2>2 DEF Told, States, Of
<1>. QED BY <1>2, <1>3

\* Adding and removing one name moves a count by one.
LEMMA OneMore ==
    ASSUME NEW S \in SUBSET Names, NEW n \in Names
    PROVE  /\ n \notin S => Cardinality(S \cup {n}) = Cardinality(S) + 1
           /\ n \in S => Cardinality(S \ {n}) = Cardinality(S) - 1
           /\ Cardinality(S) \in Nat
<1>1. IsFiniteSet(S)
    BY Constants, FS_Subset
<1>. QED BY <1>1, FS_AddElement, FS_RemoveElement, FS_CardinalityType

\* Handlers that count leave the gauge right.
LEMMA HandlerCounts ==
    ASSUME GInv, NEW n \in Names, Handle(n)
    PROVE  Counted'
<1> DEFINE w == Head(notes[n])
<1>1. PICK op \in {"create", "update", "delete", "tombstone"} : Pop(n, op)
    BY Handles DEF GInv
<1>2. /\ w \in Notes /\ w.op = op
      /\ Of(n, w.old) /\ Of(n, w.new)
      /\ op = "update" /\ w.old.version = w.new.version => w.old = w.new
      /\ Told(n) = w.old /\ Told(n)' = w.new
      /\ \A m \in Names \ {n} : Told(m)' = Told(m)
    BY <1>1, Popped DEF GInv
<1>3. /\ w.op = "create" => w.old = Absent /\ w.new \in Objects
      /\ w.op = "update" => w.old \in Objects /\ w.new \in Objects
      /\ w.op = "delete" => w.old \in Objects /\ w.new = Absent
    BY <1>2, NoteParts
<1>4. gauge \in [Labels -> Int] /\ Absent \notin Objects
    BY Constants DEF GInv, IInv, TypeOK
<1>5. CASE ~ clean'
    BY <1>5 DEF Counted
<1>6. CASE clean' /\ op = "create" /\ Count(w.new, 1) /\ clean' = clean
  <2> DEFINE k == Label(w.new)
  <2>1. w.old = Absent /\ w.new \in Objects /\ w.new.name = n /\ w.new # Absent
    BY <1>2, <1>3, <1>4, <1>6 DEF Of
  <2>2. gauge' = [gauge EXCEPT ![k] = gauge[k] + 1]
    BY <1>6, <2>1 DEF Count
  <2>3. ASSUME NEW l \in Labels
        PROVE  Carriers(l)' = IF l = k THEN Carriers(l) \cup {n} ELSE Carriers(l)
    BY <1>2, <2>1 DEF Carriers
  <2>4. \A l \in Labels : n \notin Carriers(l) /\ Carriers(l) \subseteq Names
    BY <1>2, <2>1 DEF Carriers
  <2> HIDE DEF k
  <2>5. ASSUME NEW l \in Labels PROVE gauge'[l] = Cardinality(Carriers(l)')
    <3>1. gauge[l] = Cardinality(Carriers(l))
      BY <1>6 DEF GInv, Counted
    <3>2. CASE l = k
      BY <1>4, <2>2, <2>3, <2>4, <3>1, <3>2, OneMore
    <3>3. CASE l # k
      BY <1>4, <2>2, <2>3, <3>1, <3>3
    <3>. QED BY <3>2, <3>3
  <2>. QED BY <2>5 DEF Counted
<1>7. CASE clean' /\ op = "delete" /\ Count(w.old, -1) /\ clean' = clean
  <2> DEFINE k == Label(w.old)
  <2>1. w.new = Absent /\ w.old \in Objects /\ w.old.name = n /\ w.old # Absent
    BY <1>2, <1>3, <1>4, <1>7 DEF Of
  <2>2. gauge' = [gauge EXCEPT ![k] = gauge[k] - 1]
    BY <1>4, <1>7, <2>1 DEF Count
  <2>3. ASSUME NEW l \in Labels
        PROVE  Carriers(l)' = IF l = k THEN Carriers(l) \ {n} ELSE Carriers(l)
    BY <1>2, <2>1 DEF Carriers
  <2>4. n \in Carriers(k) /\ \A l \in Labels : Carriers(l) \subseteq Names
    BY <1>2, <2>1 DEF Carriers
  <2> HIDE DEF k
  <2>5. ASSUME NEW l \in Labels PROVE gauge'[l] = Cardinality(Carriers(l)')
    <3>1. gauge[l] = Cardinality(Carriers(l))
      BY <1>7 DEF GInv, Counted
    <3>2. CASE l = k
      BY <1>4, <2>2, <2>3, <2>4, <3>1, <3>2, OneMore
    <3>3. CASE l # k
      BY <1>4, <2>2, <2>3, <3>1, <3>3
    <3>. QED BY <3>2, <3>3
  <2>. QED BY <2>5 DEF Counted
<1>8. CASE gauge' = gauge /\ clean /\ Label(w.old) = Label(w.new) /\ op = "update"
  <2>1. \A l \in Labels : Carriers(l)' = Carriers(l)
    <3>1. w.old # Absent /\ w.new # Absent
      BY <1>2, <1>3, <1>4, <1>8
    <3>. QED BY <1>2, <1>8, <3>1 DEF Carriers
  <2>. QED BY <1>8, <2>1 DEF GInv, Counted
<1> HIDE DEF w
<1>9. CASE Add(n)
  <2>1. op = "create"
    BY <1>1, <1>9 DEF Add, Pop
  <2>. QED BY <1>5, <1>6, <1>9, <2>1 DEF Add, Count, NotStored, w
<1>10. CASE Update(n)
  <2>1. op = "update"
    BY <1>1, <1>10 DEF Update, Pop
  <2>2. CASE w.old = w.new /\ gauge' = gauge /\ clean' = clean
    BY <1>5, <1>8, <2>1, <2>2
  <2>3. CASE gauge' = gauge /\ clean' = (clean /\ Label(w.old) = Label(w.new))
    BY <1>5, <1>8, <2>1, <2>3
  <2>4. CASE ~ clean'
    BY <1>5, <2>4
  <2>5. \/ w.old.version = w.new.version /\ gauge' = gauge /\ clean' = clean
        \/ gauge' = gauge /\ clean' = (clean /\ Label(w.old) = Label(w.new))
        \/ NotStored(n)
    BY <1>10 DEF Update, w
  <2>6. NotStored(n) => ~ clean'
    BY DEF NotStored
  <2>. QED BY <1>2, <2>1, <2>2, <2>3, <2>4, <2>5, <2>6
<1>11. CASE Delete(n)
  <2>1. op = "delete"
    BY <1>1, <1>11 DEF Delete, Pop
  <2>. QED BY <1>5, <1>7, <1>11, <2>1 DEF Delete, Count, NotStored, w
<1>12. CASE Unexpected(n)
    BY <1>5, <1>12 DEF Unexpected
<1>. QED BY <1>9, <1>10, <1>11, <1>12 DEF Handle

LEMMA EndCounts ==
    ASSUME IInv, Die, exits' \in Nat, store' \in Contents(PrimaryType)
    PROVE  Counted'
<1>1. \A l \in Labels : gauge'[l] = 0
    BY DEF Die
<1>2. \A l \in Labels : Carriers(l)' = {}
    BY Dies DEF Carriers
<1>. QED BY <1>1, <1>2, FS_EmptySet DEF Counted

LEMMA CountedStep == GInv /\ [Next]_vars => GInv'
<1> SUFFICES ASSUME GInv, [Next]_vars PROVE Counted'
    BY Step DEF GInv
<1>1. IInv /\ Counted /\ exits \in Nat
    BY DEF GInv, IInv, TypeOK
<1>2. ASSUME gauge' = gauge, clean' = clean, \A n \in Names : Told(n)' = Told(n)
      PROVE  Counted'
  <2>1. \A l \in Labels : Carriers(l)' = Carriers(l)
    BY <1>2 DEF Carriers
  <2>. QED BY <1>1, <1>2, <2>1 DEF Counted
<1>3. ASSUME gauge' = gauge, clean' = clean, known' = known, notes' = notes
      PROVE  Counted'
    BY <1>2, <1>3 DEF Told
<1>4. ASSUME NEW n \in Names, Put(n) \/ Remove(n) PROVE Counted'
    BY <1>3, <1>4 DEF Put, Remove, Become
<1>5. CASE Outage \/ Recover \/ Expire \/ Start \/ UNCHANGED vars
    BY <1>3, <1>5 DEF Outage, Recover, Expire, Start, HandlerFrame, vars
<1>6. CASE List
    BY <1>1, <1>2, <1>6, Lists DEF List, HandlerFrame
<1>7. ASSUME NEW n \in Names, Receive(n) PROVE Counted'
    BY <1>1, <1>2, <1>7, Receives DEF Receive, HandlerFrame
<1>8. CASE Resync
    BY <1>1, <1>2, <1>8, Resyncs DEF Resync, HandlerFrame
<1>9. ASSUME NEW n \in Names, Handle(n) PROVE Counted'
    BY <1>9, HandlerCounts
<1>10. CASE Replay \/ Fatal \/ Exit
  <2>1. Die /\ exits' \in Nat /\ store' \in Contents(PrimaryType)
    BY <1>1, <1>10 DEF Replay, Fatal, Exit, IInv, TypeOK
  <2>. QED BY <1>1, <2>1, EndCounts
<1>11. ASSUME NEW n \in Names, CountPanics(n) PROVE Counted'
    BY <1>1, <1>11, Panics, EndCounts
<1>. QED BY <1>4, <1>5, <1>6, <1>7, <1>8, <1>9, <1>10, <1>11 DEF Next

\* As long as no call failed, no delete was ignored and no update changed a
\* label, the gauge counts what was reported.
THEOREM GaugeCorrect == Spec => []GaugeCounts
<1>1. Init => GInv
  <2> SUFFICES ASSUME Init PROVE Counted
    BY Initial DEF GInv
  <2>1. \A n \in Names : Told(n) = Absent
    BY DEF Init, Told, Quiet
  <2>2. \A l \in Labels : gauge[l] = 0 /\ Carriers(l) = {}
    BY <2>1 DEF Init, Carriers
  <2>. QED BY <2>2, FS_EmptySet DEF Counted
<1>2. GInv /\ [Next]_vars => GInv'
    BY CountedStep
<1>3. GInv => GaugeCounts
    BY DEF GInv, Counted, Carriers, GaugeCounts
<1>. QED BY <1>1, <1>2, <1>3, PTL DEF Spec
=============================================================================
