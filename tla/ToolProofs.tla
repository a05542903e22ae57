----------------------------- MODULE ToolProofs -----------------------------
(***************************************************************************)
(* Proofs about two of the small tools, which share no state.              *)
(*                                                                         *)
(* addrswap_replay: the search tree holds exactly the table of             *)
(* substitutions whatever the order of its entries, packets leave with     *)
(* their addresses replaced by it, the port is given back, and the wait at *)
(* the end covers the packets due by its stop time; for every table,       *)
(* capture, word length and headroom.                                      *)
(*                                                                         *)
(* bufferProfile and hbMonitor: types, the samples that are written, the   *)
(* rows that are shown and the index that stays in its array; for every    *)
(* number of streams and every size of the ring.                           *)
(***************************************************************************)
EXTENDS AddrSwap, StreamMonitors, SequenceTheorems, FiniteSetTheorems, WellFoundedInduction, TLAPS

-----------------------------------------------------------------------------
(* addrswap_replay.                                                        *)

\* A path from the root of the tree.
Path == Seq({0, 1})

\* A search tree: a search for a node's key gets to the node, and a search for
\* any value ends somewhere.
Shaped(t) ==
    /\ DOMAIN t \subseteq Path
    /\ \A p \in DOMAIN t : t[p].key \in Int /\ Reaches(t, p, t[p].key)
    /\ \A v \in Int : \E p \in Places(t) : Stops(t, p, v)

-----------------------------------------------------------------------------
(* Paths.                                                                  *)

\* A set of numbers with a member has a least one.
LEMMA LeastIn ==
    ASSUME NEW S \in SUBSET Nat, S # {}
    PROVE  \E x \in S : \A y \in S : x <= y
<1> DEFINE R == OpToRel(<, Nat)
<1>1. \A x, y \in Nat : y < x => <<y, x>> \in R
  BY DEF OpToRel
<1>2. IsWellFoundedOn(R, Nat)
  BY NatLessThanWellFounded
<1> HIDE DEF R
<1>3. PICK x \in S : \A y \in S : ~(<<y, x>> \in R)
  BY <1>2, WFMin
<1>4. \A y \in S : x <= y
  <2> SUFFICES ASSUME NEW y \in S PROVE x <= y
    OBVIOUS
  <2>1. x \in Nat /\ y \in Nat /\ ~(y < x)
    BY <1>1, <1>3
  <2> QED  BY <2>1
<1> QED  BY <1>4

\* Where two paths of one length differ, there is a first place.
LEMMA FirstDifference ==
    ASSUME NEW p \in Path, NEW q \in Path, NEW n \in 1 .. Len(p), n <= Len(q),
           p[n] # q[n]
    PROVE  \E i \in 1 .. n : p[i] # q[i] /\ \A j \in 1 .. i - 1 : p[j] = q[j]
<1> DEFINE S == {i \in 1 .. n : p[i] # q[i]}
<1>1. S \in SUBSET Nat /\ n \in S
  BY DEF Path
<1>2. PICK i \in S : \A j \in S : i <= j
  BY <1>1, LeastIn
<1>3. ASSUME NEW j \in 1 .. i - 1 PROVE p[j] = q[j]
  BY <1>2, <1>3
<1> QED  BY <1>2, <1>3

\* The beginning of a path is a path, of the length asked for.
LEMMA Beginning ==
    ASSUME NEW p \in Path, NEW n \in 0 .. Len(p)
    PROVE  /\ SubSeq(p, 1, n) \in Path /\ Len(SubSeq(p, 1, n)) = n
           /\ \A j \in 1 .. n : SubSeq(p, 1, n)[j] = p[j]
<1>1. \A j \in 1 .. n : p[j] \in {0, 1}
  BY ElementOfSeq DEF Path
<1>2. n \in Int /\ 1 \in Int /\ n - 1 + 1 = n /\ \A j \in 1 .. n : 1 + j - 1 = j
  BY LenProperties DEF Path
<1>3. /\ SubSeq(p, 1, n) \in Seq({0, 1})
      /\ Len(SubSeq(p, 1, n)) = (IF 1 <= n THEN n - 1 + 1 ELSE 0)
      /\ \A j \in 1 .. n - 1 + 1 : SubSeq(p, 1, n)[j] = p[1 + j - 1]
  BY <1>1, <1>2, SubSeqProperties
<1> QED  BY <1>2, <1>3 DEF Path

\* Paths that agree up to some length begin alike.
LEMMA SameBeginning ==
    ASSUME NEW p \in Path, NEW q \in Path, NEW n \in 0 .. Len(p), n <= Len(q),
           \A j \in 1 .. n : p[j] = q[j]
    PROVE  SubSeq(p, 1, n) = SubSeq(q, 1, n)
<1>1. n \in 0 .. Len(q)
  BY LenProperties DEF Path
<1>2. /\ SubSeq(p, 1, n) \in Path /\ Len(SubSeq(p, 1, n)) = n
      /\ \A j \in 1 .. n : SubSeq(p, 1, n)[j] = p[j]
  BY Beginning
<1>3. /\ SubSeq(q, 1, n) \in Path /\ Len(SubSeq(q, 1, n)) = n
      /\ \A j \in 1 .. n : SubSeq(q, 1, n)[j] = q[j]
  BY <1>1, Beginning
<1>4. \A j \in 1 .. Len(SubSeq(p, 1, n)) : SubSeq(p, 1, n)[j] = SubSeq(q, 1, n)[j]
  BY <1>2, <1>3
<1> QED  BY <1>2, <1>3, <1>4, SeqEqual DEF Path

\* A path one step longer.
LEMMA Longer ==
    ASSUME NEW p \in Path, NEW b \in {0, 1}
    PROVE  /\ Append(p, b) \in Path /\ Len(Append(p, b)) = Len(p) + 1
           /\ Append(p, b)[Len(p) + 1] = b
           /\ \A i \in 1 .. Len(p) : Append(p, b)[i] = p[i]
           /\ \A n \in 0 .. Len(p) : SubSeq(Append(p, b), 1, n) = SubSeq(p, 1, n)
           /\ SubSeq(p, 1, Len(p)) = p
<1>1. /\ Append(p, b) \in Path /\ Len(Append(p, b)) = Len(p) + 1
      /\ Append(p, b)[Len(p) + 1] = b
      /\ \A i \in 1 .. Len(p) : Append(p, b)[i] = p[i]
  BY AppendProperties DEF Path
<1>2. ASSUME NEW n \in 0 .. Len(p) PROVE SubSeq(Append(p, b), 1, n) = SubSeq(p, 1, n)
  <2>1. n <= Len(Append(p, b)) /\ \A j \in 1 .. n : p[j] = Append(p, b)[j]
    BY <1>1, LenProperties DEF Path
  <2>2. SubSeq(p, 1, n) = SubSeq(Append(p, b), 1, n)
    BY <1>1, <2>1, SameBeginning
  <2> QED  BY <2>2
<1>3. SubSeq(p, 1, Len(p)) = p
  BY SubSeqFull DEF Path
<1> QED  BY <1>1, <1>2, <1>3

-----------------------------------------------------------------------------
(* Searches.                                                               *)

\* If one search comes to two places, the longer one goes through the other.
LEMMA NotBelow ==
    ASSUME NEW t, NEW v, NEW p \in Path, NEW q \in Path,
           Stops(t, p, v), Reaches(t, q, v), Len(p) < Len(q),
           \A i \in 1 .. Len(p) : p[i] = q[i]
    PROVE  FALSE
<1>1. Len(p) \in Nat /\ Len(q) \in Nat /\ Len(p) + 1 \in 1 .. Len(q)
      /\ Len(p) + 1 - 1 = Len(p) /\ Len(p) \in 0 .. Len(p)
  BY LenProperties DEF Path
<1>2. SubSeq(q, 1, Len(p)) = p
  BY <1>1, SameBeginning, SubSeqFull DEF Path
<1>3. SubSeq(q, 1, Len(p) + 1 - 1) \in DOMAIN t /\ t[SubSeq(q, 1, Len(p) + 1 - 1)].key # v
  BY <1>1 DEF Reaches
<1> QED  BY <1>1, <1>2, <1>3 DEF Stops

\* Two places one search comes to do not part.
LEMMA SameWay ==
    ASSUME NEW t, NEW v, NEW p \in Path, NEW q \in Path,
           Reaches(t, p, v), Reaches(t, q, v), NEW n \in 1 .. Len(p), n <= Len(q)
    PROVE  p[n] = q[n]
<1> SUFFICES ASSUME p[n] # q[n] PROVE FALSE
  OBVIOUS
<1>1. PICK i \in 1 .. n : p[i] # q[i] /\ \A j \in 1 .. i - 1 : p[j] = q[j]
  BY FirstDifference
<1>2. i \in 1 .. Len(p) /\ i \in 1 .. Len(q) /\ i - 1 \in 0 .. Len(p) /\ i - 1 <= Len(q)
  BY <1>1, LenProperties DEF Path
<1>3. SubSeq(p, 1, i - 1) = SubSeq(q, 1, i - 1)
  BY <1>1, <1>2, SameBeginning
<1>4. p[i] = Turn(t[SubSeq(p, 1, i - 1)].key, v) /\ q[i] = Turn(t[SubSeq(q, 1, i - 1)].key, v)
  BY <1>2 DEF Reaches
<1> QED  BY <1>1, <1>3, <1>4

\* A search ends in one place only.
LEMMA PlaceUnique ==
    ASSUME NEW t, NEW v, NEW p \in Path, NEW q \in Path, Stops(t, p, v), Stops(t, q, v)
    PROVE  p = q
<1>1. Len(p) \in Nat /\ Len(q) \in Nat /\ Reaches(t, p, v) /\ Reaches(t, q, v)
  BY LenProperties DEF Path, Stops
<1>2. \A i \in 1 .. Len(p) : i <= Len(q) => p[i] = q[i]
  BY <1>1, SameWay
<1>3. ~(Len(p) < Len(q))
  BY <1>1, <1>2, NotBelow
<1>4. ASSUME Len(q) < Len(p) PROVE FALSE
  <2>1. \A i \in 1 .. Len(q) : q[i] = p[i]
    BY <1>1, <1>2, <1>4
  <2> QED  BY <1>1, <1>4, <2>1, NotBelow
<1>5. Len(p) = Len(q) /\ \A i \in 1 .. Len(p) : p[i] = q[i]
  BY <1>1, <1>2, <1>3, <1>4
<1> QED  BY <1>5, SeqEqual DEF Path

\* Where a search may end is a path.
LEMMA PlacesArePaths ==
    ASSUME NEW t, DOMAIN t \subseteq Path, NEW p \in Places(t)
    PROVE  p \in Path
<1>1. CASE p = <<>>
  BY <1>1, EmptySeq DEF Path
<1>2. CASE \E q \in DOMAIN t, b \in {0, 1} : p = Append(q, b)
  BY <1>2, Longer
<1> QED  BY <1>1, <1>2 DEF Places

\* Place is where the search ends.
LEMMA PlaceOf ==
    ASSUME NEW t, Shaped(t), NEW v \in Int
    PROVE  /\ Place(t, v) \in Places(t) /\ Place(t, v) \in Path
           /\ Stops(t, Place(t, v), v)
<1>1. \E p \in Places(t) : Stops(t, p, v)
  BY DEF Shaped
<1>2. Place(t, v) \in Places(t) /\ Stops(t, Place(t, v), v)
  BY <1>1 DEF Place
<1> QED  BY <1>2, PlacesArePaths DEF Shaped

\* A node is where a search for its key ends.
LEMMA NodeFound ==
    ASSUME NEW t, Shaped(t), NEW p \in DOMAIN t
    PROVE  Place(t, t[p].key) = p
<1>1. p \in Path /\ t[p].key \in Int /\ Stops(t, p, t[p].key)
  BY DEF Shaped, Stops
<1> QED  BY <1>1, PlaceOf, PlaceUnique

\* A search that ends at a node has found its key.
LEMMA FoundIsKey ==
    ASSUME NEW t, Shaped(t), NEW v \in Int, Place(t, v) \in DOMAIN t
    PROVE  t[Place(t, v)].key = v
BY PlaceOf DEF Stops

\* The empty tree is a search tree.
LEMMA EmptyShaped ==
    ASSUME NEW t, DOMAIN t = {}
    PROVE  Shaped(t)
<1>1. Len(<<>>) = 0 /\ <<>> \in Places(t)
  BY DEF Places
<1>2. \A v : Stops(t, <<>>, v)
  BY <1>1 DEF Stops, Reaches
<1> QED  BY <1>1, <1>2 DEF Shaped

\* What insert() leaves: the nodes there were and one more.
LEMMA Inserted ==
    ASSUME NEW t, NEW key, NEW data, Place(t, key) \notin DOMAIN t,
           NEW u, u = Insert(t, key, data), NEW at, at = Place(t, key)
    PROVE  /\ DOMAIN u = DOMAIN t \cup {at}
           /\ u[at].key = key /\ u[at].data = data
           /\ \A p \in DOMAIN t : u[p] = t[p]
BY DEF Insert

\* A new node is in nobody's way.
LEMMA ReachesKept ==
    ASSUME NEW t, NEW key, NEW data, NEW p, NEW v,
           Place(t, key) \notin DOMAIN t, Reaches(t, p, v)
    PROVE  Reaches(Insert(t, key, data), p, v)
<1> DEFINE u == Insert(t, key, data)
           at == Place(t, key)
<1>1. DOMAIN u = DOMAIN t \cup {at} /\ \A q \in DOMAIN t : u[q] = t[q]
  BY Inserted
<1> HIDE DEF u
<1>2. Reaches(u, p, v)
  BY <1>1 DEF Reaches
<1> QED  BY <1>2 DEF u

\* A search that ended where the new node is goes on to one side of it.
LEMMA OneFurther ==
    ASSUME NEW t, Shaped(t), NEW key \in Int, NEW data, Place(t, key) \notin DOMAIN t,
           NEW v \in Int, v # key, Reaches(t, Place(t, key), v)
    PROVE  LET u == Insert(t, key, data) IN
           \E p \in Places(u) : Stops(u, p, v)
<1> DEFINE u == Insert(t, key, data)
           at == Place(t, key)
           b == Turn(key, v)
           r == Append(at, b)
<1>1. at \in Path /\ b \in {0, 1} /\ Len(at) \in Nat
  BY PlaceOf, LenProperties DEF Turn, Path
<1>2. /\ r \in Path /\ Len(r) = Len(at) + 1 /\ r[Len(at) + 1] = b
      /\ \A i \in 1 .. Len(at) : r[i] = at[i]
      /\ \A n \in 0 .. Len(at) : SubSeq(r, 1, n) = SubSeq(at, 1, n)
      /\ SubSeq(at, 1, Len(at)) = at
  BY <1>1, Longer
<1>3. /\ DOMAIN u = DOMAIN t \cup {at} /\ u[at].key = key
      /\ \A p \in DOMAIN t : u[p] = t[p]
  BY Inserted
<1>4. Reaches(u, at, v)
  BY ReachesKept
<1>5. r \notin DOMAIN t
  <2> SUFFICES ASSUME r \in DOMAIN t PROVE FALSE
    OBVIOUS
  <2>1. Reaches(t, r, t[r].key) /\ Len(at) + 1 \in 1 .. Len(r) /\ Len(at) + 1 - 1 = Len(at)
        /\ Len(at) \in 0 .. Len(at)
    BY <1>1, <1>2 DEF Shaped
  <2>2. SubSeq(r, 1, Len(at)) \in DOMAIN t
    BY <2>1 DEF Reaches
  <2> QED  BY <1>2, <2>1, <2>2
<1>6. r \in Places(u)
  BY <1>1, <1>3 DEF Places
<1> HIDE DEF u, at, r
<1>7. r # at
  BY <1>1, <1>2
<1>8. ASSUME NEW i \in 1 .. Len(r)
      PROVE  LET q == SubSeq(r, 1, i - 1)
             IN  q \in DOMAIN u /\ u[q].key # v /\ r[i] = Turn(u[q].key, v)
  <2>1. CASE i \in 1 .. Len(at)
    <3>1. SubSeq(r, 1, i - 1) = SubSeq(at, 1, i - 1) /\ r[i] = at[i]
      BY <1>1, <1>2, <2>1
    <3> QED  BY <1>4, <2>1, <3>1 DEF Reaches
  <2>2. CASE i = Len(at) + 1
    <3>1. SubSeq(r, 1, i - 1) = at /\ r[i] = Turn(key, v)
      BY <1>1, <1>2, <2>2 DEF b
    <3> QED  BY <1>3, <3>1
  <2> QED  BY <1>1, <1>2, <2>1, <2>2
<1>9. Stops(u, r, v)
  BY <1>3, <1>5, <1>7, <1>8 DEF Stops, Reaches
<1> QED  BY <1>6, <1>9 DEF u

\* insert() keeps a search tree one.
LEMMA InsertShaped ==
    ASSUME NEW t, Shaped(t), NEW key \in Int, NEW data, Place(t, key) \notin DOMAIN t
    PROVE  Shaped(Insert(t, key, data))
<1> DEFINE u == Insert(t, key, data)
           at == Place(t, key)
<1>1. /\ DOMAIN u = DOMAIN t \cup {at} /\ u[at].key = key
      /\ \A p \in DOMAIN t : u[p] = t[p]
  BY Inserted
<1>2. at \in Path /\ Stops(t, at, key)
  BY PlaceOf
<1>3. ASSUME NEW p \in DOMAIN u PROVE u[p].key \in Int /\ Reaches(u, p, u[p].key)
  <2>1. CASE p = at
    BY <1>1, <1>2, <2>1, ReachesKept DEF Stops
  <2>2. CASE p \in DOMAIN t
    BY <1>1, <2>2, ReachesKept DEF Shaped
  <2> QED  BY <1>1, <2>1, <2>2
<1>4. ASSUME NEW v \in Int PROVE \E p \in Places(u) : Stops(u, p, v)
  <2>1. PICK p \in Places(t) : Stops(t, p, v)
    BY DEF Shaped
  <2>2. p \in Places(u) /\ Reaches(u, p, v)
    BY <1>1, <2>1, ReachesKept DEF Places, Stops
  <2>3. CASE p # at
    <3>1. Stops(u, p, v)
      BY <1>1, <2>1, <2>2, <2>3 DEF Stops
    <3> QED  BY <2>2, <3>1
  <2>4. CASE p = at /\ v = key
    <3>1. Stops(u, p, v)
      BY <1>1, <2>2, <2>4 DEF Stops
    <3> QED  BY <2>2, <3>1
  <2>5. CASE p = at /\ v # key
    BY <2>1, <2>5, OneFurther DEF Stops
  <2> QED  BY <2>3, <2>4, <2>5
<1> QED  BY <1>1, <1>2, <1>3, <1>4 DEF Shaped

-----------------------------------------------------------------------------
(* The tree and the table.                                                 *)

\* i is the first of the entries loaded for its address.
IsFirst(i) == \A j \in 1 .. i - 1 : table[j].old # table[i].old

\* The nodes are the first entries for their addresses, one for each address.
Content ==
    /\ \A p \in DOMAIN tree : \E i \in 1 .. loaded :
         /\ tree[p].key = Signed(table[i].old) /\ tree[p].data = Signed(table[i].new)
         /\ IsFirst(i)
    /\ \A i \in 1 .. loaded : \E p \in DOMAIN tree : tree[p].key = Signed(table[i].old)

Inputs == table \in Tables /\ capture \in Captures

\* Control of the two threads, and the capture a replay works on.
Control ==
    /\ tpc # "none" => mpc \in {"wait", "join", "exit", "failed"}
    /\ tpc \in {"setup", "stamp", "loop", "await", "clear"} => capture # <<>>
    /\ tpc \in {"none", "first", "setup", "stamp"} => sent = <<>> /\ ~onTs
    /\ mpc = "exit" => tpc = "done"

\* What the port and the packets say of the time.
Offset == startTime - capture[1].ts + Headroom
Numbers == timeDelta \in Int /\ startTime \in Nat
Dues ==
    /\ onTs => capture # <<>> /\ timeDelta = Offset
    /\ \A i \in DOMAIN sent :
         /\ sent[i].ts = capture[i].ts
         /\ sent[i].due <= clock \/ sent[i].due = sent[i].ts + Offset

Sent == sent \in Seq(Packet) /\ Len(sent) = next

IInv == TypeOK /\ PortRestored /\ Inputs /\ Shaped(tree) /\ Content /\ Control
        /\ Numbers /\ Dues /\ Sent /\ Swapped

\* Words and ints.
LEMMA SignedInts ==
    ASSUME NEW w \in Words
    PROVE  /\ Signed(w) \in Ints /\ Signed(w) \in Int /\ w \in Nat
           /\ \A x \in Words : Signed(x) = Signed(w) => x = w
           /\ Signed(w) >= 0 => Signed(w) = w
BY SwapAssumption DEF Signed, Words, Ints

\* An entry of the table is two words.
LEMMA EntryWords ==
    ASSUME Inputs, NEW i \in 1 .. Len(table)
    PROVE  table[i].old \in Words /\ table[i].new \in Words
<1>1. table \in Seq([old : Words, new : Words])
  BY SwapAssumption DEF Inputs
<1>2. table[i] \in [old : Words, new : Words]
  BY <1>1, ElementOfSeq
<1> QED  BY <1>2

\* A packet of the capture is two words and a stamp.
LEMMA CaptureWords ==
    ASSUME Inputs, NEW i \in 1 .. Len(capture)
    PROVE  /\ capture[i].src \in Words /\ capture[i].dst \in Words
           /\ capture[i].ts \in Nat
<1>1. capture \in Seq([src : Words, dst : Words, ts : Nat])
  BY SwapAssumption DEF Inputs
<1>2. capture[i] \in [src : Words, dst : Words, ts : Nat]
  BY <1>1, ElementOfSeq
<1> QED  BY <1>2

\* The loaded entry that a node stands for is the first for its address.
LEMMA FirstIsFirst ==
    ASSUME loaded \in Nat, NEW i \in 1 .. loaded, IsFirst(i)
    PROVE  FirstEntry(table[i].old) = table[i].new
<1> DEFINE E == Entries(table[i].old)
<1>1. i \in E /\ E \subseteq Nat
  BY DEF Entries
<1>2. \A j \in E : i <= j
  BY DEF Entries, IsFirst
<1>3. \A k \in E : (\A j \in E : k <= j) => k = i
  BY <1>1, <1>2
<1>4. Min(E) = i
  <2> HIDE DEF E
  <2> QED  BY <1>1, <1>2, <1>3 DEF Min
<1> QED  BY <1>4 DEF FirstEntry

\* A search tree with the right nodes is the table.
LEMMA TreeHoldsTable ==
    ASSUME TypeOK, Inputs, Shaped(tree), Content
    PROVE  TreeIsTable
<1> SUFFICES ASSUME NEW w \in Words
             PROVE  Search(w) = IF Entries(w) = {} THEN -1 ELSE Signed(FirstEntry(w))
  BY DEF TreeIsTable
<1> DEFINE at == Place(tree, Signed(w))
<1>1. Signed(w) \in Int /\ \A x \in Words : Signed(x) = Signed(w) => x = w
  BY SignedInts
<1>2. loaded \in Nat /\ \A i \in 1 .. loaded : i \in 1 .. Len(table)
  BY DEF TypeOK
<1>3. CASE at \in DOMAIN tree
  <2>1. tree[at].key = Signed(w)
    BY <1>1, <1>3, FoundIsKey
  <2>2. PICK i \in 1 .. loaded :
          tree[at].key = Signed(table[i].old) /\ tree[at].data = Signed(table[i].new)
          /\ IsFirst(i)
    BY <1>3 DEF Content
  <2>3. table[i].old = w
    BY <1>1, <1>2, <2>1, <2>2, EntryWords
  <2>4. i \in Entries(w) /\ FirstEntry(w) = table[i].new
    BY <1>2, <2>2, <2>3, FirstIsFirst DEF Entries
  <2> QED  BY <1>3, <2>2, <2>4 DEF Search
<1>4. CASE at \notin DOMAIN tree
  <2>1. ASSUME NEW i \in Entries(w) PROVE FALSE
    <3>1. i \in 1 .. loaded /\ table[i].old = w
      BY <2>1 DEF Entries
    <3>2. PICK p \in DOMAIN tree : tree[p].key = Signed(w)
      BY <3>1 DEF Content
    <3> QED  BY <1>4, <3>2, NodeFound
  <2> QED  BY <1>4, <2>1 DEF Search
<1> QED  BY <1>3, <1>4

\* The first entry of a listed address is a word.
LEMMA FirstIsWord ==
    ASSUME TypeOK, Inputs, NEW w, Entries(w) # {}
    PROVE  FirstEntry(w) \in Words
<1>1. Entries(w) \in SUBSET Nat /\ Entries(w) \subseteq 1 .. Len(table)
  BY DEF Entries, TypeOK
<1>2. \E k \in Entries(w) : \A j \in Entries(w) : k <= j
  BY <1>1, LeastIn
<1>3. Min(Entries(w)) \in Entries(w)
  BY <1>2 DEF Min
<1> QED  BY <1>1, <1>3, EntryWords DEF FirstEntry

\* What becomes of one address.
LEMMA SwapIs ==
    ASSUME TypeOK, Inputs, TreeIsTable, NEW w \in Words
    PROVE  /\ Swap(w) = IF Entries(w) # {} /\ Signed(FirstEntry(w)) >= 0
                        THEN FirstEntry(w) ELSE w
           /\ Swap(w) \in Words
<1>1. Search(w) = IF Entries(w) = {} THEN -1 ELSE Signed(FirstEntry(w))
  BY DEF TreeIsTable
<1>2. CASE Entries(w) = {}
  BY <1>1, <1>2 DEF Swap
<1>3. CASE Entries(w) # {}
  <2>1. FirstEntry(w) \in Words
    BY <1>3, FirstIsWord
  <2> QED  BY <1>1, <1>3, <2>1, SignedInts DEF Swap
<1> QED  BY <1>2, <1>3

\* A step that leaves the tree, the capture and the packets alone keeps what
\* is said of them.
LEMMA DataKept ==
    ASSUME IInv, UNCHANGED <<maps, capture, sent>>
    PROVE  /\ Inputs' /\ Shaped(tree)' /\ Content' /\ Swapped'
           /\ (next' = next => Sent')
<1>1. Inputs' /\ Shaped(tree)' /\ Content'
  BY DEF IInv, maps, Inputs, Content, IsFirst
<1>2. \A w : Entries(w)' = Entries(w)
  BY DEF maps, Entries
<1>3. Swapped'
  BY <1>2 DEF IInv, maps, Swapped, FirstEntry
<1>4. next' = next => Sent'
  BY DEF IInv, Sent
<1> QED  BY <1>1, <1>3, <1>4

-----------------------------------------------------------------------------
(* The initial states and the steps.                                       *)

LEMMA InitIInv == Init => IInv
<1> SUFFICES ASSUME Init PROVE IInv
  OBVIOUS
<1>1. DOMAIN tree = {} /\ loaded = 0 /\ sent = <<>> /\ next = 0 /\ Len(sent) = 0
  BY DEF Init
<1>2. Inputs /\ Len(table) \in Nat /\ Len(capture) \in Nat
  <2>1. table \in Seq([old : Words, new : Words])
        /\ capture \in Seq([src : Words, dst : Words, ts : Nat])
    BY SwapAssumption DEF Init
  <2> QED  BY <2>1, LenProperties DEF Init, Inputs
<1>3. TypeOK /\ PortRestored
  <2>1. MaxClock \in Nat /\ 0 \in 0 .. MaxClock
    BY SwapAssumption
  <2>2. loaded \in 0 .. Len(table) /\ next \in 0 .. Len(capture) /\ clock \in 0 .. MaxClock
    BY <1>1, <1>2, <2>1 DEF Init
  <2>3. \A i \in DOMAIN sent : sent[i] \in Packet
    BY <1>1
  <2> QED  BY <1>1, <2>2, <2>3 DEF Init, TypeOK, PortRestored
<1>4. Shaped(tree) /\ Content
  BY <1>1, EmptyShaped DEF Content
<1>5. Control /\ Numbers /\ Dues /\ Swapped
  BY <1>1 DEF Init, Control, Numbers, Dues, Swapped
<1>6. Sent
  BY <1>1, EmptySeq DEF Sent
<1> QED  BY <1>2, <1>3, <1>4, <1>5, <1>6 DEF IInv

\* An entry read: it is in the tree afterwards, and nothing else changes there.
LEMMA LoadStep == IInv /\ Load => IInv'
<1> SUFFICES ASSUME IInv, Load PROVE IInv'
  OBVIOUS
<1> DEFINE n == loaded + 1
           old == Signed(table[n].old)
           new == Signed(table[n].new)
           at == Place(tree, old)
<1>1. /\ loaded \in Nat /\ n \in 1 .. Len(table) /\ loaded' = n /\ table' = table
      /\ Len(table) \in Nat /\ 1 .. n = 1 .. loaded \cup {n}
  <2>1. table \in Seq([old : Words, new : Words])
    BY SwapAssumption DEF IInv, Inputs
  <2>2. Len(table) \in Nat
    BY <2>1, LenProperties
  <2> QED  BY <2>2 DEF IInv, TypeOK, Load
<1>2. old \in Int /\ old \in Ints /\ new \in Ints
  BY <1>1, EntryWords, SignedInts DEF IInv
<1>3. tree' = IF at \in DOMAIN tree THEN tree ELSE Insert(tree, old, new)
  BY DEF Load
<1>4. sent = <<>> /\ mpc = "load" /\ tpc = "none"
  BY DEF IInv, Control, Load, TypeOK
<1>5. \A i \in 1 .. loaded : IsFirst(i) => IsFirst(i)'
  BY <1>1 DEF IsFirst
<1>6. CASE at \in DOMAIN tree
  <2>1. tree' = tree /\ tree[at].key = old
    BY <1>2, <1>3, <1>6, FoundIsKey DEF IInv
  <2>2. Shaped(tree)'
    BY <2>1 DEF IInv
  <2>3. Content'
    BY <1>1, <1>5, <1>6, <2>1 DEF IInv, Content
  <2>4. \A p \in DOMAIN tree' : tree'[p] \in [key : Ints, data : Ints]
    BY <2>1 DEF IInv, TypeOK
  <2> QED  BY <1>1, <1>4, <2>2, <2>3, <2>4
           DEF IInv, Load, TypeOK, PortRestored, Inputs, Control, Numbers, Dues, Offset,
               Sent, Swapped, port, flags
<1>7. CASE at \notin DOMAIN tree
  <2>1. /\ DOMAIN tree' = DOMAIN tree \cup {at}
        /\ tree'[at] = [key |-> old, data |-> new]
        /\ \A p \in DOMAIN tree : tree'[p] = tree[p]
    BY <1>3, <1>7 DEF Insert
  <2>2. Shaped(tree)'
    <3>1. Shaped(Insert(tree, old, new))
      BY <1>2, <1>7, InsertShaped DEF IInv
    <3> QED  BY <1>3, <1>7, <3>1
  <2>3. IsFirst(n)
    <3> SUFFICES ASSUME NEW j \in 1 .. loaded, table[j].old = table[n].old PROVE FALSE
      BY <1>1 DEF IsFirst
    <3>1. PICK p \in DOMAIN tree : tree[p].key = old
      BY DEF IInv, Content
    <3> QED  BY <1>7, <3>1, NodeFound DEF IInv
  <2>4. Content'
    <3>1. ASSUME NEW p \in DOMAIN tree'
          PROVE  \E i \in 1 .. n : /\ tree'[p].key = Signed(table[i].old)
                                   /\ tree'[p].data = Signed(table[i].new) /\ IsFirst(i)
      <4>1. CASE p = at
        BY <1>1, <2>1, <2>3, <4>1
      <4>2. CASE p \in DOMAIN tree
        <5>1. PICK i \in 1 .. loaded :
                tree[p].key = Signed(table[i].old) /\ tree[p].data = Signed(table[i].new)
                /\ IsFirst(i)
          BY <4>2 DEF IInv, Content
        <5> QED  BY <1>1, <2>1, <4>2, <5>1
      <4> QED  BY <2>1, <4>1, <4>2
    <3>2. ASSUME NEW i \in 1 .. n
          PROVE  \E p \in DOMAIN tree' : tree'[p].key = Signed(table[i].old)
      <4>1. CASE i = n
        BY <2>1, <4>1
      <4>2. CASE i \in 1 .. loaded
        <5>1. PICK p \in DOMAIN tree : tree[p].key = Signed(table[i].old)
          BY <4>2 DEF IInv, Content
        <5> QED  BY <2>1, <5>1
      <4> QED  BY <1>1, <4>1, <4>2
    <3> QED  BY <1>1, <3>1, <3>2 DEF Content, IsFirst
  <2>5. \A p \in DOMAIN tree' : tree'[p] \in [key : Ints, data : Ints]
    BY <1>2, <2>1 DEF IInv, TypeOK
  <2> QED  BY <1>1, <1>4, <2>2, <2>4, <2>5
           DEF IInv, Load, TypeOK, PortRestored, Inputs, Control, Numbers, Dues, Offset,
               Sent, Swapped, port, flags
<1> QED  BY <1>6, <1>7

\* The steps of main() after the load, Ctrl-C and the clock.
LEMMA MainStep ==
    ASSUME IInv, Tick \/ Interrupt \/ LoadEnd \/ Check \/ Create \/ WaitReady \/ Join
    PROVE  IInv'
<1>1. UNCHANGED <<maps, capture, sent, next>>
  BY DEF Tick, Interrupt, LoadEnd, Check, Create, WaitReady, Join
<1>2. Inputs' /\ Shaped(tree)' /\ Content' /\ Swapped' /\ Sent'
  BY <1>1, DataKept
<1>3. TypeOK'
  <2>1. /\ UNCHANGED <<table, loaded, tree>>
        /\ onTs' \in BOOLEAN /\ running' \in BOOLEAN /\ ready' \in BOOLEAN
        /\ code' \in {"success", "config", "ntapi"}
    BY <1>1
       DEF IInv, TypeOK, Tick, Interrupt, LoadEnd, Check, Create, WaitReady, Join,
           ClearPort, maps, port, flags
  <2>2. /\ mpc' \in {"load", "check", "create", "wait", "join", "exit", "failed"}
        /\ tpc' \in {"none", "first", "setup", "stamp", "loop", "await", "clear", "done"}
    BY DEF IInv, TypeOK, Tick, Interrupt, LoadEnd, Check, Create, WaitReady, Join
  <2>3. clock' \in 0 .. MaxClock
    <3>1. clock \in 0 .. MaxClock /\ MaxClock \in Nat
      BY SwapAssumption DEF IInv, TypeOK
    <3>2. CASE Tick
      BY <3>1, <3>2 DEF Tick
    <3>3. CASE ~Tick
      BY <3>1, <3>3 DEF Interrupt, LoadEnd, Check, Create, WaitReady, Join
    <3> QED  BY <3>2, <3>3
  <2> QED  BY <1>1, <2>1, <2>2, <2>3 DEF IInv, TypeOK
<1>4. PortRestored' /\ Control' /\ Numbers'
  BY <1>1 DEF IInv, TypeOK, PortRestored, Control, Numbers, Tick, Interrupt, LoadEnd,
              Check, Create, WaitReady, Join, ClearPort, maps, port, flags
<1>5. Dues'
  <2>1. startTime' = startTime /\ timeDelta' = timeDelta /\ (onTs' => onTs)
        /\ clock' >= clock /\ clock \in Int
    BY DEF IInv, TypeOK, Tick, Interrupt, LoadEnd, Check, Create, WaitReady, Join,
           ClearPort, port, flags
  <2>2. \A i \in DOMAIN sent : sent[i].due \in Int
    BY DEF IInv, TypeOK, Packet
  <2>3. clock' \in Int
    BY <1>3 DEF TypeOK
  <2> QED  BY <1>1, <2>1, <2>2, <2>3 DEF IInv, Dues, Offset
<1> QED  BY <1>2, <1>3, <1>4, <1>5 DEF IInv

\* The steps of the thread other than a packet.
LEMMA ThreadStep ==
    ASSUME IInv, First \/ SetupTx \/ SetTimestamp \/ ReplayFails \/ ReplayEnd \/ Clear
                 \/ Await \/ AwaitFails
    PROVE  IInv'
<1>1. UNCHANGED <<maps, capture, sent, next, clock, mpc>>
  BY DEF First, SetupTx, SetTimestamp, ReplayFails, ReplayEnd, Clear, Await, AwaitFails
<1>2. Inputs' /\ Shaped(tree)' /\ Content' /\ Swapped' /\ Sent'
  BY <1>1, DataKept
<1>3. TypeOK'
  <2>1. /\ onTs' \in BOOLEAN /\ running' \in BOOLEAN /\ ready' \in BOOLEAN
        /\ code' \in {"success", "config", "ntapi"}
    BY DEF IInv, TypeOK, First, SetupTx, SetTimestamp, ReplayFails, ReplayEnd, Clear,
           Await, AwaitFails, Abort, Leave, Go, ClearPort, port, flags
  <2>2. tpc' \in {"none", "first", "setup", "stamp", "loop", "await", "clear", "done"}
    BY DEF First, SetupTx, SetTimestamp, ReplayFails, ReplayEnd, Clear, Await, AwaitFails,
           Abort, Leave, Go
  <2> QED  BY <1>1, <2>1, <2>2 DEF IInv, TypeOK, maps
<1>4. PortRestored' /\ Control'
  BY <1>1 DEF IInv, TypeOK, PortRestored, Control, First, SetupTx, SetTimestamp,
              ReplayFails, ReplayEnd, Clear, Await, AwaitFails, Abort, Leave, Go,
              ClearPort, maps, port, flags
<1>5. CASE SetTimestamp /\ UNCHANGED port
  BY <1>1, <1>2, <1>3, <1>4, <1>5 DEF IInv, Numbers, Dues, Offset, port
<1>6. CASE SetTimestamp /\ timeDelta' = clock - capture[1].ts + Headroom
             /\ startTime' = clock /\ onTs'
  <2>1. capture # <<>> /\ sent = <<>> /\ clock \in Nat /\ Headroom \in Int
    BY <1>6, SwapAssumption DEF IInv, Control, SetTimestamp, TypeOK
  <2>2. capture[1].ts \in Nat
    <3>1. capture \in Seq([src : Words, dst : Words, ts : Nat])
      BY SwapAssumption DEF IInv, Inputs
    <3>2. 1 \in 1 .. Len(capture)
      BY <2>1, <3>1, EmptySeq
    <3> QED  BY <3>2, CaptureWords DEF IInv
  <2>3. Numbers' /\ Dues'
    BY <1>1, <1>6, <2>1, <2>2 DEF Numbers, Dues, Offset
  <2> QED  BY <1>2, <1>3, <1>4, <2>3 DEF IInv
<1>7. CASE ~SetTimestamp
  <2>1. startTime' = startTime /\ timeDelta' = timeDelta /\ (onTs' => onTs)
    BY <1>7 DEF IInv, TypeOK, First, SetupTx, ReplayFails, ReplayEnd, Clear, Await,
           AwaitFails, ClearPort, port
  <2>2. Numbers' /\ Dues'
    BY <1>1, <2>1 DEF IInv, Numbers, Dues, Offset
  <2> QED  BY <1>2, <1>3, <1>4, <2>2 DEF IInv
<1> QED  BY <1>5, <1>6, <1>7 DEF SetTimestamp

\* A packet: swapped by the table, with a time that the offset gives.
LEMMA PacketStep == IInv /\ ReplayPacket => IInv'
<1> SUFFICES ASSUME IInv, ReplayPacket PROVE IInv'
  OBVIOUS
<1> DEFINE n == next + 1
           c == capture[n]
           pk == [src |-> Swap(c.src), dst |-> Swap(c.dst), ts |-> c.ts,
                  due |-> IF onTs THEN c.ts + timeDelta ELSE clock]
<1>1. /\ sent' = Append(sent, pk) /\ next' = n
      /\ UNCHANGED <<maps, capture, clock, port, flags, mpc, tpc>> /\ tpc = "loop"
  BY DEF ReplayPacket
<1>2. n \in 1 .. Len(capture) /\ Len(sent) = next /\ next \in Nat
  <2>1. capture \in Seq([src : Words, dst : Words, ts : Nat])
    BY SwapAssumption DEF IInv, Inputs
  <2> QED  BY <2>1, LenProperties DEF IInv, TypeOK, Sent, ReplayPacket
<1>3. c.src \in Words /\ c.dst \in Words /\ c.ts \in Nat
  BY <1>2, CaptureWords DEF IInv
<1> DEFINE Is(w, x) == /\ Entries(w) = {} => x = w
                       /\ Entries(w) # {} /\ Signed(FirstEntry(w)) >= 0 => x = FirstEntry(w)
<1>4. Is(c.src, Swap(c.src)) /\ Is(c.dst, Swap(c.dst))
  BY <1>3, SwapIs, TreeHoldsTable DEF IInv
<1>5. Swap(c.src) \in Words /\ Swap(c.dst) \in Words
  BY <1>3, SwapIs, TreeHoldsTable DEF IInv
<1>6. pk \in Packet
  <2>1. (IF onTs THEN c.ts + timeDelta ELSE clock) \in Int
    BY <1>3 DEF IInv, TypeOK, Numbers
  <2> QED  BY <1>3, <1>5, <2>1 DEF Packet
<1> HIDE DEF pk
<1>7. /\ sent' \in Seq(Packet) /\ Len(sent') = n /\ DOMAIN sent' = 1 .. n
      /\ sent'[n] = pk /\ DOMAIN sent = 1 .. next
      /\ \A i \in 1 .. next : sent'[i] = sent[i]
  BY <1>1, <1>2, <1>6, AppendProperties, LenProperties DEF IInv, Sent
<1>8. TypeOK'
  <2>1. \A i \in DOMAIN sent' : sent'[i] \in Packet
    BY <1>7, ElementOfSeq
  <2> QED  BY <1>1, <1>2, <2>1 DEF IInv, TypeOK, maps, port, flags
<1>9. Inputs' /\ Shaped(tree)' /\ Content'
  BY <1>1 DEF IInv, maps, Inputs, Content, IsFirst
<1>10. PortRestored' /\ Control' /\ Numbers'
  BY <1>1 DEF IInv, PortRestored, Control, Numbers, port
<1>11. Dues'
  <2>1. pk.ts = c.ts /\ (pk.due <= clock \/ pk.due = pk.ts + Offset)
    <3>1. CASE onTs
      BY <1>3, <3>1 DEF IInv, Dues, pk
    <3>2. CASE ~onTs
      BY <3>2 DEF pk, IInv, TypeOK
    <3> QED  BY <3>1, <3>2
  <2>2. ASSUME NEW i \in 1 .. n
        PROVE  sent'[i].ts = capture[i].ts
               /\ (sent'[i].due <= clock \/ sent'[i].due = sent'[i].ts + Offset)
    <3>1. CASE i = n
      BY <1>7, <2>1, <3>1
    <3>2. CASE i \in 1 .. next
      BY <1>7, <3>2 DEF IInv, Dues
    <3> QED  BY <1>2, <3>1, <3>2
  <2> QED  BY <1>1, <1>7, <2>2 DEF IInv, Dues, Offset, port
<1>12. Sent'
  BY <1>1, <1>7 DEF Sent
<1>13. Swapped'
  <2>1. ASSUME NEW i \in 1 .. n, NEW f \in {"src", "dst"}
        PROVE  Is(capture[i][f], sent'[i][f])
    <3>1. CASE i = n
      <4>1. CASE f = "src"
        BY <1>4, <1>7, <3>1, <4>1 DEF pk
      <4>2. CASE f = "dst"
        BY <1>4, <1>7, <3>1, <4>2 DEF pk
      <4> QED  BY <4>1, <4>2
    <3>2. CASE i \in 1 .. next
      BY <1>7, <3>2 DEF IInv, Swapped
    <3> QED  BY <1>2, <3>1, <3>2
  <2>2. \A w : Entries(w)' = Entries(w)
    BY <1>1 DEF maps, Entries
  <2> QED  BY <1>1, <1>7, <2>1, <2>2 DEF Swapped, FirstEntry, maps
<1> QED  BY <1>8, <1>9, <1>10, <1>11, <1>12, <1>13 DEF IInv

LEMMA StepIInv == IInv /\ [Next]_vars => IInv'
<1> SUFFICES ASSUME IInv, [Next]_vars PROVE IInv'
  OBVIOUS
<1>1. CASE UNCHANGED vars
  <2>1. UNCHANGED <<maps, capture, sent, next, clock, port, flags, mpc, tpc>>
    BY <1>1 DEF vars
  <2>2. Inputs' /\ Shaped(tree)' /\ Content' /\ Swapped' /\ Sent'
    BY <2>1, DataKept
  <2> QED  BY <2>1, <2>2 DEF IInv, TypeOK, PortRestored, Control, Numbers, Dues, Offset,
                            maps, port, flags
<1> QED  BY <1>1, LoadStep, MainStep, ThreadStep, PacketStep DEF Next, Main, Replay

\* The invariant behind the theorems.
THEOREM Invariance == Spec => []IInv
BY InitIInv, StepIInv, PTL DEF Spec

-----------------------------------------------------------------------------
(* The theorems.                                                           *)

\* Types; the tree finds exactly the addresses loaded so far, each with its
\* first replacement, whatever the order of the entries; and the program never
\* ends with the port in transmit-on-timestamp mode.
THEOREM TreeIsRight == Spec => []SwapInv
<1>1. IInv => SwapInv
  BY TreeHoldsTable DEF IInv, SwapInv
<1> QED  BY <1>1, Invariance, PTL

\* Every packet handed to the port is the capture's, with no address changed
\* that is not listed, and each listed one replaced by the first substitute for
\* it when that is not negative as an int.
THEOREM PacketsAreSwapped == Spec => []Swapped
<1>1. IInv => Swapped
  BY DEF IInv
<1> QED  BY <1>1, Invariance, PTL

\* A time stamp at least the headroom before the last one is due by the stop time.
LEMMA DueBefore ==
    ASSUME NEW due \in Int, NEW ts \in Int, NEW last \in Int, NEW first \in Int,
           NEW start \in Int, NEW now \in Int, NEW ahead \in Int,
           due <= now \/ due = ts + (start - first + ahead),
           ts + ahead <= last, now > start + last - first
    PROVE  due <= now
OBVIOUS

\* When the wait at the end sees the stop time pass, every packet has left
\* whose stamp is at least the headroom before the last one's.
THEOREM WaitIsLongEnough == Spec => WaitsForPackets
<1> DEFINE Waits ==
      tpc = "await" /\ tpc' = "clear" /\ running =>
         \/ clock <= StopTime
         \/ \A i \in DOMAIN sent : sent[i].ts + Headroom <= sent[Len(sent)].ts
                                   => sent[i].due <= clock
<1>1. IInv => Waits
  <2> SUFFICES ASSUME IInv, tpc = "await", ~(clock <= StopTime), NEW i \in DOMAIN sent,
                      sent[i].ts + Headroom <= sent[Len(sent)].ts
               PROVE  sent[i].due <= clock
    OBVIOUS
  <2>1. DOMAIN sent = 1 .. Len(sent) /\ Len(sent) \in Nat /\ sent # <<>>
        /\ Len(sent) \in DOMAIN sent
    BY LenProperties DEF IInv, Sent
  <2>2. sent[i] \in Packet /\ sent[Len(sent)] \in Packet
    BY <2>1 DEF IInv, TypeOK
  <2>3. capture[1].ts \in Nat
    <3>1. capture \in Seq([src : Words, dst : Words, ts : Nat])
      BY SwapAssumption DEF IInv, Inputs
    <3>2. 1 \in 1 .. Len(capture)
      BY <3>1, EmptySeq DEF IInv, Control
    <3> QED  BY <3>2, CaptureWords DEF IInv
  <2>4. startTime \in Nat /\ clock \in Nat /\ Headroom \in Nat
    BY SwapAssumption DEF IInv, Numbers, TypeOK
  <2>5. StopTime = startTime + sent[Len(sent)].ts - capture[1].ts
    BY <2>1 DEF StopTime
  <2>6. sent[i].due <= clock \/ sent[i].due = sent[i].ts + Offset
    BY DEF IInv, Dues
  <2>7. /\ sent[i].due \in Int /\ sent[i].ts \in Int /\ sent[Len(sent)].ts \in Int
        /\ capture[1].ts \in Int /\ startTime \in Int /\ clock \in Int /\ Headroom \in Int
    BY <2>2, <2>3, <2>4 DEF Packet
  <2>8. clock > startTime + sent[Len(sent)].ts - capture[1].ts
    BY <2>5, <2>7
  <2> QED  BY <2>6, <2>7, <2>8, DueBefore DEF Offset
<1>2. IInv => [Waits]_vars
  BY <1>1
<1> QED  BY <1>2, Invariance, PTL DEF WaitsForPackets

-----------------------------------------------------------------------------
(***************************************************************************)
(* The stream monitors.                                                    *)
(*                                                                         *)
(* RingInv says what the backlog's ring and the output have of the samples *)
(* so far, SearchInv what the search for streams has passed and what it    *)
(* has before it.                                                          *)
(***************************************************************************)

RingEntries == [sample : Nat, processed : BOOLEAN]
Cells == 0 .. NumEntries - 1

\* Where the sample after the first n goes.
Cell(n) == n % NumEntries

\* The ring r, of n samples, has the last NumEntries of them, each in its cell.
RingHas(r, n) ==
    /\ \A p \in Cells : r[p].sample # 0 =>
         Cell(r[p].sample - 1) = p /\ n - NumEntries < r[p].sample /\ r[p].sample <= n
    /\ \A s \in 1 .. n : n - NumEntries < s => r[Cell(s - 1)].sample = s

\* What of it is processed is in the output o, and what is not is later than that.
OutHas(r, o, n) ==
    /\ \A k \in DOMAIN o : o[k] \in 1 .. n
    /\ \A p \in Cells :
         /\ r[p].processed /\ r[p].sample # 0 => \E k \in DOMAIN o : o[k] = r[p].sample
         /\ ~r[p].processed => r[p].sample # 0 /\ \A k \in DOMAIN o : o[k] < r[p].sample

Increasing(s) == \A j, k \in DOMAIN s : j < k => s[j] < s[k]

\* The ring u is r with the sample after the first n entered.
Takes(u, r, n) ==
    /\ u[Cell(n)] = [sample |-> n + 1, processed |-> FALSE]
    /\ \A p \in Cells : p # Cell(n) => u[p] = r[p]

\* The samples w follow those of the output o, and with them it has all of r.
Continues(w, r, o, n) ==
    /\ w \in Seq(Nat) /\ Increasing(w)
    /\ \A k \in DOMAIN w : w[k] \in 1 .. n /\ \A j \in DOMAIN o : o[j] < w[k]
    /\ \A p \in Cells : ~r[p].processed => \E k \in DOMAIN w : w[k] = r[p].sample

\* The output v has what the ring r of n samples has, in order.
Written(v, r, n) ==
    /\ v \in Seq(Nat) /\ Increasing(v) /\ \A k \in DOMAIN v : v[k] \in 1 .. n
    /\ \A p \in Cells : r[p].sample # 0 => \E k \in DOMAIN v : v[k] = r[p].sample
    /\ \A s \in 1 .. n : n - NumEntries < s => \E k \in DOMAIN v : v[k] = s

BacklogShape ==
    /\ ring \in [Cells -> RingEntries] /\ currPos \in Cells
    /\ sample \in Nat /\ out \in Seq(Nat) /\ \A k \in DOMAIN out : out[k] \in 1 .. sample
    /\ \A p \in Cells : ring[p].sample <= sample

\* The samples that were entered into the ring.
Entered == IF pc = "count" THEN sample ELSE sample - 1
BacklogInv ==
    prog = "bufferProfile" /\ pc \in {"count", "read", "output"} =>
        Entered \in Nat /\ currPos = Cell(Entered) /\ RingHas(ring, Entered) /\ OutHas(ring, out, Entered)

ReadingShape ==
    /\ on \in [Ids -> Layouts] /\ gone \subseteq Ids /\ found \in Seq(Ids)
    /\ want \in 0 .. MaxStreams /\ id \in 0 .. 2 * MaxStreams - 1
    /\ DOMAIN slot = Ids /\ \A i \in Ids : "active" \in DOMAIN slot[i]

\* The streams that were read are those the search has passed, in its order.
FoundInv ==
    /\ \A k \in DOMAIN found : found[k] < id
    /\ \A j, k \in DOMAIN found : j < k => found[j] < found[k]
    /\ pc = "read" => Len(found) <= want
    /\ pc = "output" => Len(found) = want
    /\ prog = "hbMonitor" /\ pc \in {"read", "output"} =>
         \A i \in Ids : i < id => (slot[i].active <=> \E k \in DOMAIN found : found[k] = i)

\* The streams the search has before it.
Ahead == {i \in Ids : id <= i /\ on[i] # <<>>}
AheadInv == pc = "read" => want <= Len(found) + Cardinality(Ahead \cup gone)

FlagsInv ==
    /\ alert \in BOOLEAN /\ prevAlert \in BOOLEAN /\ continuous \in BOOLEAN
    /\ pc \in {"off", "count", "read", "output", "broken", "crashed"}

RingInv == BacklogShape /\ Increasing(out) /\ BacklogInv
SearchInv == ReadingShape /\ FoundInv /\ AheadInv
MonitorInv == RingInv /\ SearchInv /\ FlagsInv

-----------------------------------------------------------------------------
(* InOrder.                                                                *)

\* Fewer elements than the set has come before one of it.
LEMMA BeforeBounds ==
    ASSUME NEW S, IsFiniteSet(S), NEW i \in S, S \subseteq Int
    PROVE  /\ IsFiniteSet(Before(S, i)) /\ Cardinality(Before(S, i)) \in Nat
           /\ Cardinality(S) \in Nat /\ Cardinality(Before(S, i)) < Cardinality(S)
<1>1. IsFiniteSet(S \ {i}) /\ Cardinality(S \ {i}) = Cardinality(S) - 1
  BY FS_RemoveElement
<1>2. Before(S, i) \in SUBSET (S \ {i})
  BY DEF Before
<1>3. IsFiniteSet(Before(S, i)) /\ Cardinality(Before(S, i)) <= Cardinality(S \ {i})
  BY <1>1, <1>2, FS_Subset
<1>4. Cardinality(Before(S, i)) \in Nat /\ Cardinality(S) \in Nat
  BY <1>3, FS_CardinalityType
<1> QED
  BY <1>1, <1>3, <1>4

\* A later element has more before it.
LEMMA BeforeGrows ==
    ASSUME NEW S, IsFiniteSet(S), NEW i \in S, NEW j \in S, S \subseteq Int, i < j
    PROVE  Cardinality(Before(S, i)) < Cardinality(Before(S, j))
<1>1. IsFiniteSet(Before(S, j)) /\ Cardinality(Before(S, j)) \in Nat
  BY BeforeBounds, Zenon
<1>2. i \in Before(S, j)
  BY DEF Before
<1>3. IsFiniteSet(Before(S, j) \ {i}) /\ Cardinality(Before(S, j) \ {i}) = Cardinality(Before(S, j)) - 1
  BY <1>1, <1>2, FS_RemoveElement
<1>4. Before(S, i) \in SUBSET (Before(S, j) \ {i})
  <2> SUFFICES ASSUME NEW x \in S, x < i
               PROVE  x < j /\ x # i
    BY Zenon DEF Before
  <2>1. x \in Int /\ i \in Int /\ j \in Int
    OBVIOUS
  <2> QED
    BY <2>1
<1>5. Cardinality(Before(S, i)) <= Cardinality(Before(S, j) \ {i})
  BY <1>3, <1>4, FS_Subset
<1>6. Cardinality(Before(S, i)) \in Nat
  BY BeforeBounds, Zenon
<1> QED
  BY <1>1, <1>3, <1>5, <1>6

\* A set has a k-th element, for every k up to its size.
LEMMA NthExists ==
    ASSUME NEW S, IsFiniteSet(S), S \subseteq Int, NEW k \in 1 .. Cardinality(S)
    PROVE  Nth(S, k) \in S /\ Cardinality(Before(S, Nth(S, k))) = k - 1
<1> DEFINE f == [i \in S |-> Cardinality(Before(S, i))]
           n == Cardinality(S)
           T == 0 .. n - 1
<1>1. n \in Nat
  BY FS_CardinalityType
<1>2. IsFiniteSet(T) /\ Cardinality(T) = n
  <2>1. 0 \in Int /\ n - 1 \in Int
    BY <1>1
  <2> QED
    BY <1>1, <2>1, FS_Interval
<1>3. f \in [S -> T]
  <2>1. ASSUME NEW i \in S
        PROVE  Cardinality(Before(S, i)) \in T
    <3>1. Cardinality(Before(S, i)) \in Nat /\ Cardinality(Before(S, i)) < n
      BY BeforeBounds, Zenon
    <3> QED
      BY <1>1, <3>1
  <2> QED
    BY <2>1, Zenon
<1>4. ASSUME NEW i \in S, NEW j \in S, f[i] = f[j]
      PROVE  i = j
  <2>1. Cardinality(Before(S, i)) \in Nat /\ Cardinality(Before(S, j)) = Cardinality(Before(S, i))
    BY <1>4, BeforeBounds, Zenon
  <2>2. i < j => Cardinality(Before(S, i)) < Cardinality(Before(S, j))
    BY BeforeGrows, Zenon
  <2>3. j < i => Cardinality(Before(S, j)) < Cardinality(Before(S, i))
    BY BeforeGrows, Zenon
  <2> QED
    BY <2>1, <2>2, <2>3
<1>5. f \in Injection(S, T)
  BY <1>3, <1>4 DEF Injection, IsInjective
<1>6. f \in Surjection(S, T)
  BY <1>2, <1>5, FS_Injection
<1>7. PICK i \in S : f[i] = k - 1
  <2>1. k - 1 \in T
    BY <1>1
  <2> QED
    BY <1>6, <2>1 DEF Surjection
<1> QED
  BY <1>7 DEF Nth

\* An element is the k-th when k - 1 come before it.
LEMMA NthIs ==
    ASSUME NEW S, IsFiniteSet(S), S \subseteq Int, NEW i \in S
    PROVE  /\ Cardinality(Before(S, i)) + 1 \in 1 .. Cardinality(S)
           /\ Nth(S, Cardinality(Before(S, i)) + 1) = i
<1> DEFINE k == Cardinality(Before(S, i)) + 1
           j == Nth(S, k)
<1>1. k \in 1 .. Cardinality(S) /\ k - 1 = Cardinality(Before(S, i))
  <2>1. /\ Cardinality(Before(S, i)) \in Nat /\ Cardinality(S) \in Nat
        /\ Cardinality(Before(S, i)) < Cardinality(S)
    BY BeforeBounds, Zenon
  <2> QED
    BY <2>1
<1>2. j \in S /\ Cardinality(Before(S, j)) = k - 1
  BY <1>1, NthExists
<1> HIDE DEF j
<1>3. ~(i < j) /\ ~(j < i)
  <2>1. i < j => Cardinality(Before(S, i)) < Cardinality(Before(S, j))
    BY <1>2, BeforeGrows, Zenon
  <2>2. j < i => Cardinality(Before(S, j)) < Cardinality(Before(S, i))
    BY <1>2, BeforeGrows, Zenon
  <2>3. Cardinality(Before(S, i)) \in Nat
    BY BeforeBounds, Zenon
  <2> QED
    BY <1>1, <1>2, <2>1, <2>2, <2>3
<1>4. i = j
  BY <1>2, <1>3
<1> QED
  BY <1>1, <1>4 DEF j

\* InOrder is the set as an increasing sequence.
LEMMA InOrderOf ==
    ASSUME NEW S, IsFiniteSet(S), S \subseteq Int
    PROVE  /\ Cardinality(S) \in Nat
           /\ InOrder(S) \in Seq(S) /\ Len(InOrder(S)) = Cardinality(S)
           /\ DOMAIN InOrder(S) = 1 .. Cardinality(S)
           /\ \A i \in S : \E k \in DOMAIN InOrder(S) : InOrder(S)[k] = i
           /\ \A j, k \in DOMAIN InOrder(S) : j < k => InOrder(S)[j] < InOrder(S)[k]
<1> DEFINE n == Cardinality(S)
<1>1. n \in Nat
  BY FS_CardinalityType
<1>2. \A k \in 1 .. n : InOrder(S)[k] = Nth(S, k)
  BY DEF InOrder
<1>3. \A k \in 1 .. n : Nth(S, k) \in S
  BY NthExists
<1>4. InOrder(S) \in [1 .. n -> S]
  BY <1>3 DEF InOrder
<1>5. ASSUME NEW i \in S
      PROVE  \E k \in 1 .. n : InOrder(S)[k] = i
  BY <1>2, NthIs
<1>6. ASSUME NEW j \in 1 .. n, NEW k \in 1 .. n, j < k
      PROVE  Nth(S, j) < Nth(S, k)
  <2> DEFINE a == Nth(S, j)
             b == Nth(S, k)
  <2>1. a \in S /\ b \in S /\ Cardinality(Before(S, a)) = j - 1 /\ Cardinality(Before(S, b)) = k - 1
    BY NthExists
  <2> HIDE DEF a, b
  <2>2. a # b
    BY <1>6, <1>1, <2>1
  <2>3. ~(b < a)
    <3>1. b < a => Cardinality(Before(S, b)) < Cardinality(Before(S, a))
      BY <2>1, BeforeGrows, Zenon
    <3> QED
      BY <1>1, <1>6, <2>1, <3>1
  <2>4. a < b
    BY <2>1, <2>2, <2>3
  <2> QED
    BY <2>4 DEF a, b
<1> HIDE DEF n
<1>7. InOrder(S) \in Seq(S) /\ Len(InOrder(S)) = n /\ DOMAIN InOrder(S) = 1 .. n
  BY <1>1, <1>4
<1> QED
  BY <1>1, <1>2, <1>5, <1>6, <1>7 DEF n

\* The numbers of an increasing sequence below its k-th are the k - 1 before.
LEMMA PrefixCount ==
    ASSUME NEW s \in Seq(Int), \A i, j \in DOMAIN s : i < j => s[i] < s[j], NEW k \in DOMAIN s
    PROVE  Cardinality({s[i] : i \in 1 .. k - 1}) = k - 1
<1> DEFINE T == {s[i] : i \in 1 .. k - 1}
           f == [i \in 1 .. k - 1 |-> s[i]]
<1>1. DOMAIN s = 1 .. Len(s) /\ Len(s) \in Nat
  OBVIOUS
<1>2. k - 1 \in Nat /\ 1 .. k - 1 \subseteq DOMAIN s
  BY <1>1
<1>3. f \in [1 .. k - 1 -> T]
  OBVIOUS
<1>4. ASSUME NEW i \in 1 .. k - 1, NEW j \in 1 .. k - 1, f[i] = f[j]
      PROVE  i = j
  <2>1. i \in DOMAIN s /\ j \in DOMAIN s /\ s[i] = s[j]
    BY <1>2, <1>4
  <2>2. s[i] \in Int /\ s[j] \in Int /\ i \in Int /\ j \in Int
    BY <1>1, <2>1
  <2>3. ~(i < j) /\ ~(j < i)
    BY <2>1, <2>2
  <2> QED
    BY <2>2, <2>3
<1>5. f \in Injection(1 .. k - 1, T)
  BY <1>3, <1>4 DEF Injection, IsInjective
<1>6. f \in Surjection(1 .. k - 1, T)
  BY <1>3 DEF Surjection
<1>7. ExistsBijection(1 .. k - 1, T)
  BY <1>5, <1>6 DEF ExistsBijection, Bijection
<1> QED
  BY <1>2, <1>7, FS_CountingElements

-----------------------------------------------------------------------------
(* The cells of the ring.                                                  *)

\* Quotient and remainder of the ring's size determine a number.
LEMMA CellIs ==
    ASSUME NEW a \in Int, NEW q \in Int, NEW r \in Cells, a = NumEntries * q + r
    PROVE  Cell(a) = r
<1> DEFINE k == a \div NumEntries
           s == a % NumEntries
<1>1. k \in Int /\ s \in Cells /\ a = NumEntries * k + s
  BY MonitorAssumption, SMTT(30) DEF Cells
<1>2. NumEntries * (k - q) = r - s
  <2> HIDE DEF k, s
  <2> QED
    BY <1>1, MonitorAssumption, SMTT(30) DEF Cells
<1>3. k - q = 0
  <2> HIDE DEF k, s
  <2>1. k - q >= 1 => FALSE
    BY <1>1, <1>2, MonitorAssumption, SMTT(30) DEF Cells
  <2>2. k - q <= -1 => FALSE
    BY <1>1, <1>2, MonitorAssumption, SMTT(30) DEF Cells
  <2> QED
    BY <1>1, <2>1, <2>2
<1>4. r - s = 0 /\ r \in Int /\ s \in Int
  <2> HIDE DEF k, s
  <2> QED
    BY <1>1, <1>2, <1>3, MonitorAssumption DEF Cells
<1> QED
  BY <1>4 DEF Cell

\* A number is its cell and a multiple of the ring's size.
LEMMA CellOf ==
    ASSUME NEW a \in Int
    PROVE  Cell(a) \in Cells /\ \E q \in Int : a = NumEntries * q + Cell(a)
<1>1. /\ a \div NumEntries \in Int /\ a % NumEntries \in 0 .. NumEntries - 1
      /\ a = NumEntries * (a \div NumEntries) + (a % NumEntries)
  BY MonitorAssumption, SMTT(30)
<1> QED
  BY <1>1 DEF Cell, Cells

\* One turn of the ring leads to the same cell.
LEMMA CellTurn ==
    ASSUME NEW a \in Int
    PROVE  Cell(a + NumEntries) = Cell(a)
<1>1. Cell(a) \in Cells
  BY CellOf
<1>2. PICK q \in Int : a = NumEntries * q + Cell(a)
  BY CellOf
<1>3. a + NumEntries \in Int /\ q + 1 \in Int /\ Cell(a) \in Int
  BY <1>1, MonitorAssumption DEF Cells
<1>4. a + NumEntries = NumEntries * (q + 1) + Cell(a)
  BY <1>2, <1>3, MonitorAssumption, SMTT(30)
<1> QED
  BY <1>1, <1>3, <1>4, CellIs

\* Some steps on from a cell.
LEMMA CellSteps ==
    ASSUME NEW a \in Int, NEW i \in Int
    PROVE  (Cell(a) + i) % NumEntries = Cell(a + i)
<1> DEFINE b == Cell(a) + i
<1>1. Cell(a) \in Cells /\ Cell(a) \in Int /\ b \in Int
  BY CellOf DEF Cells
<1>2. PICK q \in Int : a = NumEntries * q + Cell(a)
  BY CellOf
<1>3. PICK p \in Int : b = NumEntries * p + Cell(b)
  BY <1>1, CellOf
<1>4. Cell(b) \in Cells /\ Cell(b) \in Int
  BY <1>1, CellOf DEF Cells
<1>5. a + i \in Int /\ p + q \in Int
  OBVIOUS
<1>6. a + i = NumEntries * (p + q) + Cell(b)
  <2> DEFINE c == Cell(a)
             d == Cell(b)
  <2>1. c + i = NumEntries * p + d /\ a = NumEntries * q + c /\ c \in Int /\ d \in Int
    BY <1>1, <1>2, <1>3, <1>4
  <2> HIDE DEF c, d, b
  <2>2. a + i = NumEntries * (p + q) + d
    BY <2>1, MonitorAssumption, SMTT(30)
  <2> QED
    BY <2>2 DEF d
<1>7. Cell(a + i) = Cell(b)
  BY <1>4, <1>5, <1>6, CellIs
<1> QED
  BY <1>7 DEF Cell

\* Two numbers with one cell are a turn apart.
LEMMA CellInjective ==
    ASSUME NEW a \in Int, NEW b \in Int, Cell(a) = Cell(b), a - b < NumEntries, b - a < NumEntries
    PROVE  a = b
<1>1. PICK p \in Int : a = NumEntries * p + Cell(a)
  BY CellOf
<1>2. PICK q \in Int : b = NumEntries * q + Cell(b)
  BY CellOf
<1>3. Cell(a) \in Int
  BY CellOf DEF Cells
<1>4. a - b = NumEntries * (p - q)
  <2> DEFINE c == Cell(a)
  <2>1. a = NumEntries * p + c /\ b = NumEntries * q + c /\ c \in Int
    BY <1>1, <1>2, <1>3
  <2> HIDE DEF c
  <2> QED
    BY <2>1, MonitorAssumption, SMTT(30)
<1>5. p - q >= 1 => FALSE
  BY <1>4, MonitorAssumption, SMTT(30)
<1>6. p - q <= -1 => FALSE
  BY <1>4, MonitorAssumption, SMTT(30)
<1>7. p - q = 0
  BY <1>5, <1>6
<1> QED
  BY <1>4, <1>7, MonitorAssumption

-----------------------------------------------------------------------------
(* One sample more in the ring, and the ring written out.                  *)

\* The two parts of RingHas.
LEMMA RingIs ==
    ASSUME NEW r, NEW n,
           \A p \in Cells : r[p].sample # 0 =>
             Cell(r[p].sample - 1) = p /\ n - NumEntries < r[p].sample /\ r[p].sample <= n,
           \A s \in 1 .. n : n - NumEntries < s => r[Cell(s - 1)].sample = s
    PROVE  RingHas(r, n)
BY DEF RingHas

\* A new sample takes the cell of the oldest.
LEMMA Enter ==
    ASSUME NEW r \in [Cells -> RingEntries], NEW o \in Seq(Nat), NEW n \in Nat, RingHas(r, n), OutHas(r, o, n),
           NEW m, m = n + 1,
           NEW u, Takes(u, r, n)
    PROVE  RingHas(u, m) /\ OutHas(u, o, m)
<1>1. Cell(n) \in Cells /\ m \in Nat
  BY CellOf
<1>3. u[Cell(n)].sample = m /\ u[Cell(n)].processed = FALSE
  <2>1. u[Cell(n)] = [sample |-> m, processed |-> FALSE]
    BY DEF Takes
  <2> QED
    BY <2>1
<1>4. \A p \in Cells : p # Cell(n) => u[p] = r[p]
  BY DEF Takes
<1>5. ASSUME NEW p \in Cells, u[p].sample # 0
      PROVE  Cell(u[p].sample - 1) = p /\ m - NumEntries < u[p].sample /\ u[p].sample <= m
  <2>1. CASE p = Cell(n)
    BY <1>3, <2>1, MonitorAssumption
  <2>2. CASE p # Cell(n)
    <3> DEFINE x == r[p].sample
    <3>1. u[p].sample = x /\ x \in Nat /\ x # 0
      BY <1>4, <1>5, <2>2 DEF RingEntries
    <3>2. Cell(x - 1) = p /\ n - NumEntries < x /\ x <= n
      BY <3>1 DEF RingHas
    <3> HIDE DEF x
    <3>3. x # n - NumEntries + 1
      <4> SUFFICES ASSUME x = n - NumEntries + 1
                   PROVE  FALSE
        OBVIOUS
      <4>1. n - NumEntries \in Int /\ x - 1 = n - NumEntries /\ n - NumEntries + NumEntries = n
        BY MonitorAssumption
      <4>2. Cell(n) = Cell(n - NumEntries)
        BY <4>1, CellTurn
      <4> QED
        BY <2>2, <3>2, <4>1, <4>2
    <3> QED
      BY <3>1, <3>2, <3>3, MonitorAssumption
  <2> QED
    BY <2>1, <2>2
<1>6. ASSUME NEW s \in 1 .. m, m - NumEntries < s
      PROVE  u[Cell(s - 1)].sample = s
  <2>1. CASE s = m
    BY <1>3, <2>1
  <2>2. CASE s # m
    <3>1. s \in 1 .. n /\ n - NumEntries < s /\ s - 1 \in Int /\ n \in Int
      BY <1>6, <2>2, MonitorAssumption
    <3>2. r[Cell(s - 1)].sample = s
      BY <3>1 DEF RingHas
    <3>3. Cell(s - 1) # Cell(n)
      <4>1. n - (s - 1) < NumEntries /\ (s - 1) - n < NumEntries /\ s - 1 # n
        BY <1>6, <3>1, MonitorAssumption
      <4> QED
        BY <3>1, <4>1, CellInjective
    <3>4. Cell(s - 1) \in Cells
      BY <3>1, CellOf
    <3> QED
      BY <1>4, <3>2, <3>3, <3>4
  <2> QED
    BY <2>1, <2>2
<1>7. RingHas(u, m)
  <2>1. \A p \in Cells : u[p].sample # 0 =>
           Cell(u[p].sample - 1) = p /\ m - NumEntries < u[p].sample /\ u[p].sample <= m
    BY <1>5, Zenon
  <2>2. \A s \in 1 .. m : m - NumEntries < s => u[Cell(s - 1)].sample = s
    BY <1>6, Zenon
  <2> QED
    BY <2>1, <2>2, RingIs
<1>8. \A k \in DOMAIN o : o[k] \in 1 .. m /\ o[k] < m
  BY DEF OutHas
<1>9. ASSUME NEW p \in Cells
      PROVE  /\ u[p].processed /\ u[p].sample # 0 => \E k \in DOMAIN o : o[k] = u[p].sample
             /\ ~u[p].processed => u[p].sample # 0 /\ \A k \in DOMAIN o : o[k] < u[p].sample
  <2>1. CASE p = Cell(n)
    BY <1>3, <1>8, <2>1
  <2>2. CASE p # Cell(n)
    BY <1>4, <2>2 DEF OutHas
  <2> QED
    BY <2>1, <2>2
<1>10. OutHas(u, o, m)
  BY <1>8, <1>9 DEF OutHas
<1> QED
  BY <1>7, <1>10

\* Round goes from the oldest cell to the one of the latest sample, and what
\* it meets at step i is sample n - NumEntries + i, if there is one.
LEMMA RoundMeets ==
    ASSUME NEW r \in [Cells -> RingEntries], NEW n \in Nat, RingHas(r, n), NEW i \in 1 .. NumEntries
    PROVE  /\ Round(Cell(n))[i] = Cell(n + i - 1) /\ Cell(n + i - 1) \in Cells
           /\ LET x == r[Cell(n + i - 1)].sample IN x # 0 => x = n - NumEntries + i
<1> DEFINE c == Cell(n + i - 1)
           x == r[c].sample
           y == n - NumEntries + i
<1>1. NumEntries \in Nat /\ n + i - 1 \in Int /\ i \in Int /\ i - 1 \in Int /\ y \in Int /\ y - 1 \in Int
  BY MonitorAssumption
<1>2. Round(Cell(n))[i] = (Cell(n) + i - 1) % NumEntries
  BY DEF Round
<1>3. Cell(n) \in Int
  BY CellOf DEF Cells
<1>4. Cell(n) + i - 1 = Cell(n) + (i - 1) /\ n + (i - 1) = n + i - 1
  BY <1>1, <1>3
<1>5. (Cell(n) + (i - 1)) % NumEntries = c
  BY <1>1, <1>4, CellSteps
<1>6. c \in Cells
  BY <1>1, CellOf
<1>7. ASSUME x # 0
      PROVE  x = y
  <2>1. x \in Nat
    BY <1>6 DEF RingEntries
  <2>2. Cell(x - 1) = c /\ n - NumEntries < x /\ x <= n
    BY <1>6, <1>7 DEF RingHas
  <2>3. y - 1 + NumEntries = n + i - 1
    BY <1>1
  <2>4. Cell(y - 1) = c
    BY <1>1, <2>3, CellTurn
  <2> HIDE DEF x, c
  <2>5. x - 1 \in Int /\ (x - 1) - (y - 1) < NumEntries /\ (y - 1) - (x - 1) < NumEntries
    BY <1>1, <2>1, <2>2
  <2>6. x - 1 = y - 1
    BY <1>1, <2>2, <2>4, <2>5, CellInjective
  <2> QED
    BY <1>1, <2>1, <2>6
<1> QED
  BY <1>2, <1>4, <1>5, <1>6, <1>7

\* Unwritten goes up, above everything written, and leaves nothing out.
LEMMA UnwrittenIs ==
    ASSUME NEW r \in [Cells -> RingEntries], NEW o \in Seq(Nat), NEW n \in Nat, RingHas(r, n), OutHas(r, o, n),
           NEW w, w = Unwritten(r, Cell(n))
    PROVE  Continues(w, r, o, n)
<1> DEFINE D == {i \in 1 .. NumEntries : ~r[Round(Cell(n))[i]].processed}
           e == InOrder(D)
<1>1. D \in SUBSET (1 .. NumEntries) /\ D \subseteq Int
  BY MonitorAssumption
<1>2. IsFiniteSet(D)
  <2>1. NumEntries \in Int
    BY MonitorAssumption
  <2>2. IsFiniteSet(1 .. NumEntries)
    BY <2>1, FS_Interval
  <2> QED
    BY <1>1, <2>2, FS_Subset, Zenon
<1>3. /\ Len(e) \in Nat /\ DOMAIN e = 1 .. Len(e) /\ \A k \in DOMAIN e : e[k] \in D
      /\ \A i \in D : \E k \in DOMAIN e : e[k] = i
      /\ \A j, k \in DOMAIN e : j < k => e[j] < e[k]
  <2>1. e \in Seq(D) /\ Cardinality(D) \in Nat /\ Len(e) = Cardinality(D)
    BY <1>1, <1>2, InOrderOf, Zenon
  <2>2. /\ \A i \in D : \E k \in DOMAIN e : e[k] = i
        /\ \A j, k \in DOMAIN e : j < k => e[j] < e[k]
    BY <1>1, <1>2, InOrderOf, Zenon
  <2> HIDE DEF D, e
  <2> QED
    BY <2>1, <2>2
<1>4. w = [k \in DOMAIN e |-> r[Round(Cell(n))[e[k]]].sample]
  BY DEF Unwritten
<1>5. ASSUME NEW i \in D
      PROVE  /\ i \in 1 .. NumEntries /\ Cell(n + i - 1) \in Cells
             /\ r[Round(Cell(n))[i]].sample = n - NumEntries + i
             /\ n - NumEntries + i \in 1 .. n
             /\ \A j \in DOMAIN o : o[j] < n - NumEntries + i
  <2> DEFINE c == Cell(n + i - 1)
  <2>1. Round(Cell(n))[i] = c /\ c \in Cells /\ (r[c].sample # 0 => r[c].sample = n - NumEntries + i)
    BY RoundMeets
  <2>2. ~r[c].processed
    BY <2>1
  <2>3. r[c].sample # 0 /\ r[c].sample \in Nat /\ \A j \in DOMAIN o : o[j] < r[c].sample
    BY <2>1, <2>2 DEF OutHas, RingEntries
  <2>4. r[c].sample <= n
    BY <2>1, <2>3 DEF RingHas
  <2> HIDE DEF c
  <2> QED
    BY <2>1, <2>3, <2>4 DEF c
<1> HIDE DEF D, e
<1>6. DOMAIN w = 1 .. Len(e) /\ \A k \in DOMAIN w : e[k] \in D /\ w[k] = n - NumEntries + e[k]
  BY <1>3, <1>4, <1>5
<1>7. \A k \in DOMAIN w : w[k] \in 1 .. n /\ \A j \in DOMAIN o : o[j] < w[k]
  BY <1>5, <1>6
<1>8. w \in Seq(Nat)
  <2>1. w \in [1 .. Len(e) -> Nat]
    <3>1. \A k \in DOMAIN w : w[k] \in Nat
      BY <1>7
    <3> QED
      BY <1>4, <1>6, <3>1
  <2>2. Len(e) \in Nat
    BY <1>3
  <2> HIDE DEF e, D
  <2> QED
    BY <2>1, <2>2
<1>9. ASSUME NEW j \in DOMAIN w, NEW k \in DOMAIN w, j < k
      PROVE  w[j] < w[k]
  <2>1. e[j] < e[k]
    BY <1>3, <1>6, <1>9
  <2>2. e[j] \in Int /\ e[k] \in Int /\ w[j] = n - NumEntries + e[j] /\ w[k] = n - NumEntries + e[k]
    BY <1>1, <1>6
  <2> QED
    BY <2>1, <2>2, MonitorAssumption
<1>10. ASSUME NEW p \in Cells, ~r[p].processed
       PROVE  \E k \in DOMAIN w : w[k] = r[p].sample
  <2> DEFINE x == r[p].sample
             i == x - n + NumEntries
  <2>1. x # 0 /\ x \in Nat
    BY <1>10 DEF OutHas, RingEntries
  <2>2. Cell(x - 1) = p /\ n - NumEntries < x /\ x <= n
    BY <2>1 DEF RingHas
  <2> HIDE DEF x
  <2>3. i \in 1 .. NumEntries /\ n + i - 1 = (x - 1) + NumEntries /\ x - 1 \in Int
    BY <2>1, <2>2, MonitorAssumption
  <2>4. Cell(n + i - 1) = p
    BY <2>2, <2>3, CellTurn
  <2>5. Round(Cell(n))[i] = p
    BY <2>3, <2>4, RoundMeets
  <2>6. i \in D
    BY <1>10, <2>3, <2>5 DEF D
  <2>7. PICK k \in DOMAIN e : e[k] = i
    BY <1>3, <2>6
  <2>8. k \in DOMAIN w /\ w[k] = n - NumEntries + i
    BY <1>3, <1>6, <2>7
  <2>9. n - NumEntries + i = x
    BY <2>1, MonitorAssumption
  <2> QED
    BY <2>8, <2>9 DEF x
<1> QED
  BY <1>7, <1>8, <1>9, <1>10 DEF Continues, Increasing

\* What was written and what is written now.
LEMMA WriteOut ==
    ASSUME NEW r \in [Cells -> RingEntries], NEW o \in Seq(Nat), NEW n \in Nat, RingHas(r, n), OutHas(r, o, n),
           Increasing(o), NEW w, Continues(w, r, o, n), NEW v, v = o \o w
    PROVE  Written(v, r, n)
<1>1. /\ w \in Seq(Nat)
      /\ \A k \in DOMAIN w : w[k] \in 1 .. n /\ \A j \in DOMAIN o : o[j] < w[k]
      /\ \A j, k \in DOMAIN w : j < k => w[j] < w[k]
      /\ \A p \in Cells : ~r[p].processed => \E k \in DOMAIN w : w[k] = r[p].sample
  BY DEF Continues, Increasing
<1>3. /\ v \in Seq(Nat) /\ DOMAIN v = 1 .. Len(o) + Len(w) /\ DOMAIN o = 1 .. Len(o) /\ DOMAIN w = 1 .. Len(w)
      /\ Len(o) \in Nat /\ Len(w) \in Nat
      /\ \A k \in DOMAIN v : v[k] = IF k <= Len(o) THEN o[k] ELSE w[k - Len(o)]
  BY <1>1
<1>4. \A k \in DOMAIN o : k \in DOMAIN v /\ v[k] = o[k]
  BY <1>3
<1>5. \A k \in DOMAIN w : k + Len(o) \in DOMAIN v /\ v[k + Len(o)] = w[k]
  <2> SUFFICES ASSUME NEW k \in DOMAIN w
               PROVE  k + Len(o) \in DOMAIN v /\ v[k + Len(o)] = w[k]
    OBVIOUS
  <2>1. k \in Nat /\ 1 <= k /\ k <= Len(w)
    BY <1>3
  <2>2. k + Len(o) \in DOMAIN v /\ ~(k + Len(o) <= Len(o)) /\ (k + Len(o)) - Len(o) = k
    BY <1>3, <2>1
  <2> QED
    BY <1>3, <2>2
<1>6. \A k \in DOMAIN v : (k \in DOMAIN o /\ v[k] = o[k]) \/ (k - Len(o) \in DOMAIN w /\ v[k] = w[k - Len(o)])
  BY <1>3
<1>7. ASSUME NEW j \in DOMAIN v, NEW k \in DOMAIN v, j < k
      PROVE  v[j] < v[k]
  <2>1. CASE k \in DOMAIN o
    <3>1. j \in DOMAIN o
      BY <1>3, <1>7, <2>1
    <3> QED
      BY <1>4, <1>7, <2>1, <3>1 DEF Increasing
  <2>2. CASE k \notin DOMAIN o
    <3>1. k - Len(o) \in DOMAIN w /\ v[k] = w[k - Len(o)]
      BY <1>6, <2>2
    <3>2. CASE j \in DOMAIN o
      BY <1>1, <1>4, <3>1, <3>2
    <3>3. CASE j \notin DOMAIN o
      <4>1. j - Len(o) \in DOMAIN w /\ v[j] = w[j - Len(o)]
        BY <1>6, <3>3
      <4>2. j - Len(o) < k - Len(o)
        BY <1>3, <1>7
      <4> QED
        BY <1>1, <3>1, <4>1, <4>2
    <3> QED
      BY <3>2, <3>3
  <2> QED
    BY <2>1, <2>2
<1>10. \A p \in Cells : r[p].sample # 0 => \E k \in DOMAIN v : v[k] = r[p].sample
  <2> SUFFICES ASSUME NEW p \in Cells, r[p].sample # 0
               PROVE  \E k \in DOMAIN v : v[k] = r[p].sample
    OBVIOUS
  <2>1. CASE r[p].processed
    <3>1. PICK k \in DOMAIN o : o[k] = r[p].sample
      BY <2>1 DEF OutHas
    <3> QED
      BY <1>4, <3>1
  <2>2. CASE ~r[p].processed
    <3>1. PICK k \in DOMAIN w : w[k] = r[p].sample
      BY <1>1, <2>2
    <3> QED
      BY <1>5, <3>1
  <2> QED
    BY <2>1, <2>2
<1>11. \A k \in DOMAIN v : v[k] \in 1 .. n
  BY <1>1, <1>6 DEF OutHas
<1>12. ASSUME NEW s \in 1 .. n, n - NumEntries < s
       PROVE  \E k \in DOMAIN v : v[k] = s
  <2>1. Cell(s - 1) \in Cells /\ r[Cell(s - 1)].sample = s /\ s # 0
    BY <1>12, CellOf DEF RingHas
  <2> QED
    BY <1>10, <2>1
<1> QED
  BY <1>3, <1>7, <1>10, <1>11, <1>12 DEF Increasing, Written

\* Once everything is written nothing is left to be.
LEMMA AllProcessed ==
    ASSUME NEW r \in [Cells -> RingEntries], NEW n \in Nat, RingHas(r, n), NEW v, Written(v, r, n),
           NEW u, u = [p \in DOMAIN r |-> [r[p] EXCEPT !.processed = TRUE]]
    PROVE  u \in [Cells -> RingEntries] /\ RingHas(u, n) /\ OutHas(u, v, n)
<1>1. /\ u \in [Cells -> RingEntries]
      /\ \A p \in Cells : u[p].sample = r[p].sample /\ u[p].processed = TRUE
  BY DEF RingEntries
<1>2. \A p \in Cells : u[p].sample # 0 =>
         Cell(u[p].sample - 1) = p /\ n - NumEntries < u[p].sample /\ u[p].sample <= n
  BY <1>1 DEF RingHas
<1>3. ASSUME NEW s \in 1 .. n, n - NumEntries < s
      PROVE  u[Cell(s - 1)].sample = s
  <2>1. Cell(s - 1) \in Cells
    BY CellOf
  <2>2. r[Cell(s - 1)].sample = s
    BY <1>3 DEF RingHas
  <2> QED
    BY <1>1, <2>1, <2>2
<1>4. RingHas(u, n)
  BY <1>2, <1>3, RingIs
<1>5. OutHas(u, v, n)
  BY <1>1 DEF OutHas, Written
<1> QED
  BY <1>1, <1>4, <1>5

-----------------------------------------------------------------------------
(* The invariant of the backlog.                                           *)

\* A ring without samples.
LEMMA EmptyRing ==
    ASSUME NEW r, r = [p \in Cells |-> [sample |-> 0, processed |-> TRUE]]
    PROVE  r \in [Cells -> RingEntries] /\ RingHas(r, 0) /\ OutHas(r, <<>>, 0) /\ Cell(0) = 0
<1>1. 0 \in Cells /\ 0 \in Int /\ 0 = NumEntries * 0 + 0
  BY MonitorAssumption DEF Cells
<1>2. Cell(0) = 0
  BY <1>1, CellIs, Zenon
<1>3. r \in [Cells -> RingEntries] /\ \A p \in Cells : r[p].sample = 0 /\ r[p].processed = TRUE
  BY DEF RingEntries
<1>4. RingHas(r, 0)
  BY <1>3 DEF RingHas
<1>5. OutHas(r, <<>>, 0)
  BY <1>3 DEF OutHas
<1> QED
  BY <1>2, <1>3, <1>4, <1>5

\* Steps that do not touch the backlog.
LEMMA RingRests ==
    ASSUME RingInv, UNCHANGED <<prog, sample, ring, currPos, out>>,
           pc' = pc \/ pc' \in {"off", "broken"} \/ (pc = "read" /\ pc' = "output")
    PROVE  RingInv'
<1>1. BacklogShape' /\ Increasing(out')
  BY DEF RingInv, BacklogShape
<1>2. ASSUME (prog = "bufferProfile" /\ pc \in {"count", "read", "output"})'
      PROVE  prog = "bufferProfile" /\ pc \in {"count", "read", "output"} /\ Entered' = Entered
  BY <1>2 DEF Entered
<1>3. BacklogInv'
  BY <1>2 DEF RingInv, BacklogInv
<1> QED
  BY <1>1, <1>3 DEF RingInv

\* Start empties the ring.
LEMMA StartRing ==
    ASSUME RingInv, NEW p, NEW f, NEW c, NEW d, Start(p, f, c, d)
    PROVE  RingInv'
<1>1. /\ ring' = [q \in Cells |-> [sample |-> 0, processed |-> TRUE]]
      /\ sample' = 0 /\ currPos' = 0 /\ out' = <<>> /\ pc' = "count"
  <2>1. DOMAIN ring = Cells
    BY DEF RingInv, BacklogShape
  <2> QED
    BY <2>1 DEF Start
<1>2. /\ ring' \in [Cells -> RingEntries] /\ RingHas(ring', 0) /\ OutHas(ring', <<>>, 0) /\ Cell(0) = 0
  BY <1>1, EmptyRing
<1>3. BacklogShape'
  <2>1. 0 \in Cells
    BY MonitorAssumption DEF Cells
  <2>2. \A q \in Cells : ring'[q].sample = 0
    BY <1>1
  <2> QED
    BY <1>1, <1>2, <2>1, <2>2 DEF BacklogShape
<1>4. Increasing(out')
  BY <1>1 DEF Increasing
<1>5. Entered' = 0
  BY <1>1 DEF Entered
<1>6. BacklogInv'
  BY <1>1, <1>2, <1>5 DEF BacklogInv
<1> QED
  BY <1>3, <1>4, <1>6 DEF RingInv

\* Count begins a sample that is not in the ring yet.
LEMMA CountRing ==
    ASSUME RingInv, Count
    PROVE  RingInv'
<1>1. pc = "count" /\ pc' = "read" /\ sample' = sample + 1 /\ UNCHANGED <<prog, ring, currPos, out>>
  BY DEF Count, options, backlog
<1>2. sample \in Nat
  BY DEF RingInv, BacklogShape
<1>3. BacklogShape' /\ Increasing(out')
  <2>1. (\A k \in DOMAIN out : out[k] \in 1 .. sample)'
    BY <1>1, <1>2 DEF RingInv, BacklogShape
  <2>2. (\A q \in Cells : ring[q].sample <= sample)'
    BY <1>1, <1>2 DEF RingInv, BacklogShape, RingEntries
  <2> QED
    BY <1>1, <1>2, <2>1, <2>2 DEF RingInv, BacklogShape
<1>4. Entered' = Entered
  BY <1>1, <1>2 DEF Entered
<1>5. BacklogInv'
  BY <1>1, <1>4 DEF RingInv, BacklogInv
<1> QED
  BY <1>3, <1>5 DEF RingInv

\* Output enters the sample, and writes what is not written if it has to; then
\* the output has every sample of the last NumEntries.
LEMMA OutputRing ==
    ASSUME RingInv, Output
    PROVE  /\ RingInv'
           /\ WriteNow => \A s \in 1 .. sample : sample - NumEntries < s => \E k \in DOMAIN out' : out'[k] = s
<1> DEFINE n == sample - 1
           r == [ring EXCEPT ![currPos] = [sample |-> sample, processed |-> FALSE]]
           w == Unwritten(r, Cell(sample))
           done == [p \in DOMAIN r |-> [r[p] EXCEPT !.processed = TRUE]]
<1>1. /\ prog = "bufferProfile" /\ pc = "output" /\ pc' \in {"count", "crashed"}
      /\ prog' = prog /\ sample' = sample /\ currPos' = (currPos + 1) % NumEntries
      /\ WriteNow => out' = out \o Unwritten(r, currPos') /\ ring' = done
      /\ ~WriteNow => ring' = r /\ out' = out
  BY DEF Output, options
<1>2. /\ ring \in [Cells -> RingEntries] /\ sample \in Nat /\ out \in Seq(Nat) /\ Increasing(out)
  BY DEF RingInv, BacklogShape
<1>3. n \in Nat /\ currPos = Cell(n) /\ RingHas(ring, n) /\ OutHas(ring, out, n) /\ sample = n + 1
  BY <1>1, <1>2 DEF RingInv, BacklogInv, Entered
<1>4. currPos' = Cell(sample)
  BY <1>1, <1>3, CellSteps
<1>5. Cell(n) \in Cells /\ Cell(sample) \in Cells
  BY <1>2, <1>3, CellOf
<1>6. r \in [Cells -> RingEntries] /\ Takes(r, ring, n)
  BY <1>2, <1>3, <1>5 DEF RingEntries, Takes
<1>0. w = Unwritten(r, Cell(sample)) /\ done = [p \in DOMAIN r |-> [r[p] EXCEPT !.processed = TRUE]]
  OBVIOUS
<1> HIDE DEF n, r, w, done
<1>7. RingHas(r, sample) /\ OutHas(r, out, sample)
  BY <1>2, <1>3, <1>6, Enter
<1>8. /\ RingHas(ring', sample) /\ OutHas(ring', out', sample) /\ ring' \in [Cells -> RingEntries]
      /\ out' \in Seq(Nat) /\ Increasing(out')
      /\ WriteNow => \A s \in 1 .. sample : sample - NumEntries < s => \E k \in DOMAIN out' : out'[k] = s
  <2>1. CASE ~WriteNow
    BY <1>1, <1>2, <1>6, <1>7, <2>1
  <2>2. CASE WriteNow
    <3>1. out' = out \o w /\ ring' = done
      BY <1>0, <1>1, <1>4, <2>2
    <3>2. Continues(w, r, out, sample)
      BY <1>0, <1>2, <1>6, <1>7, UnwrittenIs
    <3>3. PICK v, u : v = out' /\ u = ring'
      OBVIOUS
    <3>4. v = out \o w /\ u = [p \in DOMAIN r |-> [r[p] EXCEPT !.processed = TRUE]]
      BY <1>0, <3>1, <3>3
    <3>5. Written(v, r, sample)
      BY <1>2, <1>6, <1>7, <3>2, <3>4, WriteOut, Zenon
    <3>6. u \in [Cells -> RingEntries] /\ RingHas(u, sample) /\ OutHas(u, v, sample)
      BY <1>2, <1>6, <1>7, <3>4, <3>5, AllProcessed, Zenon
    <3> QED
      BY <3>3, <3>5, <3>6 DEF Written
  <2> QED
    BY <2>1, <2>2
<1>9. BacklogShape'
  <2>1. (\A k \in DOMAIN out : out[k] \in 1 .. sample)'
    BY <1>1, <1>8 DEF OutHas
  <2>2. ASSUME NEW p \in Cells
        PROVE  ring'[p].sample <= sample'
    BY <1>1, <1>2, <1>8 DEF RingHas, RingEntries
  <2> QED
    BY <1>1, <1>2, <1>4, <1>5, <1>8, <2>1, <2>2 DEF BacklogShape
<1>10. BacklogInv'
  <2>1. pc' = "count" => Entered' = sample
    BY <1>1 DEF Entered
  <2> QED
    BY <1>1, <1>2, <1>4, <1>8, <2>1 DEF BacklogInv
<1> QED
  BY <1>8, <1>9, <1>10 DEF RingInv

\* Every step keeps the invariant of the backlog.
LEMMA RingStep ==
    ASSUME RingInv, [MonitorNext]_monitorVars
    PROVE  RingInv'
<1>1. CASE UNCHANGED monitorVars
  <2>1. UNCHANGED <<prog, sample, ring, currPos, out, pc>>
    BY <1>1 DEF monitorVars, options, backlog
  <2> QED
    BY <2>1, RingRests
<1>2. ASSUME NEW i \in Ids, NEW b \in Bufs, Drop(i, b)
      PROVE  RingInv'
  <2>1. UNCHANGED <<prog, sample, ring, currPos, out, pc>>
    BY <1>2 DEF Drop, options, backlog
  <2> QED
    BY <2>1, RingRests
<1>3. ASSUME NEW i \in Ids, NEW l \in Layouts, Change(i, l)
      PROVE  RingInv'
  <2>1. UNCHANGED <<prog, sample, ring, currPos, out, pc>>
    BY <1>3 DEF Change, options, backlog
  <2> QED
    BY <2>1, RingRests
<1>4. ASSUME NEW p \in {"bufferProfile", "hbMonitor"}, NEW f \in BOOLEAN, NEW c \in BOOLEAN, NEW d \in BOOLEAN,
             Start(p, f, c, d)
      PROVE  RingInv'
  BY <1>4, StartRing
<1>5. CASE StartFails \/ StopApplication \/ Kill \/ PortsFail
  <2>1. UNCHANGED <<prog, sample, ring, currPos, out>> /\ (pc' = pc \/ pc' = "off")
    BY <1>5 DEF StartFails, StopApplication, Kill, PortsFail, End, options, backlog
  <2> QED
    BY <2>1, RingRests
<1>6. CASE Count
  BY <1>6, CountRing
<1>7. CASE ReadFails
  <2>1. UNCHANGED <<prog, sample, ring, currPos, out>> /\ pc = "read" /\ (pc' = "off" \/ pc' = "output")
    BY <1>7 DEF ReadFails, End, options, backlog
  <2> QED
    BY <2>1, RingRests
<1>8. CASE Skip \/ Read \/ ReadEnd
  <2>1. UNCHANGED <<prog, sample, ring, currPos, out>>
        /\ (pc' = pc \/ pc' = "broken" \/ (pc = "read" /\ pc' = "output"))
    BY <1>8 DEF Skip, Read, ReadEnd, options, backlog
  <2> QED
    BY <2>1, RingRests
<1>9. CASE Output
  BY <1>9, OutputRing
<1>10. CASE Show
  <2>1. prog = "hbMonitor" /\ UNCHANGED <<prog, sample, ring, currPos, out>>
    BY <1>10 DEF Show, options
  <2>2. BacklogShape' /\ Increasing(out')
    BY <2>1 DEF RingInv, BacklogShape
  <2>3. BacklogInv'
    BY <2>1 DEF BacklogInv
  <2> QED
    BY <2>2, <2>3 DEF RingInv
<1> QED
  BY <1>1, <1>2, <1>3, <1>4, <1>5, <1>6, <1>7, <1>8, <1>9, <1>10 DEF MonitorNext

-----------------------------------------------------------------------------
(* The invariant of the search for streams.                                *)

\* The sets of streams are finite.
LEMMA StreamsFinite ==
    ASSUME NEW S, S \subseteq Ids
    PROVE  IsFiniteSet(S) /\ Cardinality(S) \in 0 .. MaxStreams
<1>1. 0 \in Int /\ MaxStreams - 1 \in Int /\ MaxStreams \in Nat /\ MaxStreams > 0
  BY MonitorAssumption
<1>2. IsFiniteSet(Ids) /\ Cardinality(Ids) = MaxStreams
  <2>1. /\ IsFiniteSet(0 .. MaxStreams - 1)
        /\ Cardinality(0 .. MaxStreams - 1) = IF 0 > MaxStreams - 1 THEN 0 ELSE MaxStreams - 1 - 0 + 1
    BY <1>1, FS_Interval
  <2> QED
    BY <1>1, <2>1 DEF Ids
<1>3. IsFiniteSet(S) /\ Cardinality(S) <= Cardinality(Ids)
  BY <1>2, FS_Subset
<1>4. Cardinality(S) \in Nat
  BY <1>3, FS_CardinalityType
<1> QED
  BY <1>1, <1>2, <1>3, <1>4

\* Of two sets of streams the larger has more.
LEMMA MoreStreams ==
    ASSUME NEW S, NEW T, T \subseteq Ids, S \subseteq T
    PROVE  Cardinality(S) <= Cardinality(T)
BY StreamsFinite, FS_Subset, Zenon

\* Without one of them a set has at most one less.
LEMMA OneStreamLess ==
    ASSUME NEW S, NEW T, NEW i, T \subseteq Ids, S \subseteq T \cup {i}
    PROVE  Cardinality(S) <= Cardinality(T) + 1
<1>1. IsFiniteSet(T) /\ Cardinality(T) \in Nat
  BY StreamsFinite
<1>2. IsFiniteSet(T \cup {i}) /\ Cardinality(T \cup {i}) = IF i \in T THEN Cardinality(T) ELSE Cardinality(T) + 1
  BY <1>1, FS_AddElement
<1>3. Cardinality(S) <= Cardinality(T \cup {i}) /\ IsFiniteSet(S)
  BY <1>2, FS_Subset
<1>4. Cardinality(S) \in Nat
  BY <1>3, FS_CardinalityType
<1> QED
  BY <1>1, <1>2, <1>3, <1>4

\* The index of a stream is its byte, and the next one follows.
LEMMA IdBounds ==
    ASSUME id \in 0 .. 2 * MaxStreams - 1
    PROVE  /\ NextId \in 0 .. 2 * MaxStreams - 1
           /\ id \in Ids => id % MaxStreams = id /\ NextId = id + 1
           /\ id \notin Ids => NextId \notin Ids /\ id >= MaxStreams /\ NextId >= MaxStreams
<1>1. MaxStreams \in Nat /\ MaxStreams > 0
  BY MonitorAssumption
<1>2. id \in Ids => id % MaxStreams = id
  BY <1>1, SMTT(30) DEF Ids
<1> QED
  BY <1>1, <1>2 DEF Ids, NextId

\* Steps that do not touch the search, or end it with every stream found.
LEMMA SearchRests ==
    ASSUME SearchInv, UNCHANGED <<on, prog, slot, want, id, found, gone>>,
           pc' = pc \/ pc' \in {"off", "count", "broken", "crashed"} \/ (pc = "read" /\ pc' = "output" /\ Len(found) = want)
    PROVE  SearchInv'
<1>1. ReadingShape' /\ Ahead' = Ahead
  BY DEF SearchInv, ReadingShape, Ahead
<1>2. pc' \in {"read", "output"} => pc \in {"read", "output"}
  OBVIOUS
<1>3. FoundInv'
  BY <1>2 DEF SearchInv, FoundInv
<1>4. AheadInv'
  <2>1. pc' = "read" => pc = "read"
    OBVIOUS
  <2> QED
    BY <1>1, <2>1 DEF SearchInv, AheadInv
<1> QED
  BY <1>1, <1>3, <1>4 DEF SearchInv

\* A stream that is deleted moves from the streams ahead to those gone.
LEMMA ChangeSearch ==
    ASSUME SearchInv, NEW i \in Ids, NEW l \in Layouts, Change(i, l)
    PROVE  SearchInv'
<1>1. /\ on' = [on EXCEPT ![i] = l] /\ gone' = IF l = <<>> THEN gone \cup {i} ELSE gone
      /\ UNCHANGED <<prog, slot, want, id, found, pc>>
  BY DEF Change, options, reading
<1>2. ReadingShape /\ FoundInv /\ AheadInv
  BY DEF SearchInv
<1>3. on' \in [Ids -> Layouts] /\ on'[i] = l /\ (\A j \in Ids : j # i => on'[j] = on[j]) /\ gone' \subseteq Ids
  BY <1>1, <1>2 DEF ReadingShape
<1>4. ReadingShape'
  BY <1>1, <1>2, <1>3 DEF ReadingShape
<1>5. FoundInv'
  BY <1>1, <1>2 DEF FoundInv
<1>6. Ahead \cup gone \subseteq Ahead' \cup gone'
  <2>1. gone \subseteq gone'
    BY <1>1
  <2>2. ASSUME NEW j \in Ahead
        PROVE  j \in Ahead' \cup gone'
    <3>1. j \in Ids /\ id <= j /\ on[j] # <<>>
      BY DEF Ahead
    <3>2. CASE j = i /\ l = <<>>
      BY <1>1, <3>2
    <3>3. CASE ~(j = i /\ l = <<>>)
      <4>1. on'[j] # <<>>
        BY <1>3, <3>1, <3>3
      <4> QED
        BY <1>1, <3>1, <4>1 DEF Ahead
    <3> QED
      BY <3>2, <3>3
  <2> QED
    BY <2>1, <2>2
<1>7. AheadInv'
  <2>1. Ahead' \cup gone' \subseteq Ids
    BY <1>3 DEF Ahead
  <2>2. Cardinality(Ahead \cup gone) <= Cardinality(Ahead' \cup gone')
    BY <1>6, <2>1, MoreStreams
  <2>3. Cardinality(Ahead \cup gone) \in Nat /\ Cardinality(Ahead' \cup gone') \in Nat
    BY <1>6, <2>1, StreamsFinite
  <2>4. want \in Nat /\ Len(found) \in Nat
    BY <1>2 DEF ReadingShape
  <2> QED
    BY <1>1, <1>2, <2>2, <2>3, <2>4 DEF AheadInv
<1> QED
  BY <1>4, <1>5, <1>7 DEF SearchInv

\* A new process has not searched yet.
LEMMA StartSearch ==
    ASSUME SearchInv, NEW p, NEW f, NEW c, NEW d, Start(p, f, c, d)
    PROVE  SearchInv'
<1>1. /\ slot' = [i \in Ids |-> EmptySlot(IF p = "hbMonitor" THEN 0 ELSE Junk)] /\ pc' = "count"
      /\ UNCHANGED <<on, want, id, found, gone>>
  BY DEF Start, adapter
<1>2. ReadingShape'
  <2>1. DOMAIN slot' = Ids /\ \A i \in Ids : "active" \in DOMAIN slot'[i]
    BY <1>1 DEF EmptySlot
  <2> QED
    BY <1>1, <2>1 DEF SearchInv, ReadingShape
<1>3. FoundInv'
  BY <1>1 DEF SearchInv, FoundInv
<1>4. AheadInv'
  BY <1>1 DEF AheadInv
<1> QED
  BY <1>2, <1>3, <1>4 DEF SearchInv

\* Once counted, all the streams are ahead.
LEMMA CountSearch ==
    ASSUME SearchInv, Count
    PROVE  SearchInv'
<1>1. /\ id' = 0 /\ found' = <<>> /\ gone' = {} /\ want' = Cardinality(Streams) /\ pc' = "read"
      /\ UNCHANGED <<on, prog, slot>>
  BY DEF Count, adapter, options
<1>2. Streams \subseteq Ids
  BY DEF Streams
<1>3. want' \in 0 .. MaxStreams
  BY <1>1, <1>2, StreamsFinite
<1>4. ReadingShape'
  <2>1. 0 \in 0 .. 2 * MaxStreams - 1
    BY MonitorAssumption
  <2> QED
    BY <1>1, <1>3, <2>1 DEF SearchInv, ReadingShape
<1>5. FoundInv'
  <2>1. Len(found') = 0 /\ DOMAIN found' = {} /\ want' >= 0
    BY <1>1, <1>3
  <2>2. \A i \in Ids : ~(i < id')
    BY <1>1 DEF Ids
  <2> QED
    BY <1>1, <1>3, <2>1, <2>2 DEF FoundInv
<1>6. AheadInv'
  <2>1. Ahead' = Streams
    BY <1>1 DEF Ahead, Streams, Ids
  <2>2. Ahead' \cup gone' = Streams
    BY <1>1, <2>1
  <2>3. Len(found') = 0 /\ want' \in Int
    BY <1>1, <1>3
  <2> QED
    BY <1>1, <2>2, <2>3 DEF AheadInv
<1> QED
  BY <1>4, <1>5, <1>6 DEF SearchInv

\* bufferProfile goes on without streams when one cannot be read.
LEMMA ReadFailsSearch ==
    ASSUME SearchInv, ReadFails
    PROVE  SearchInv'
<1>1. CASE prog = "hbMonitor"
  <2>1. UNCHANGED <<on, prog, slot, want, id, found, gone>> /\ pc' = "off"
    BY <1>1 DEF ReadFails, End, adapter, options, reading
  <2> QED
    BY <2>1, SearchRests
<1>2. CASE prog # "hbMonitor"
  <2>1. want' = 0 /\ found' = <<>> /\ pc' = "output" /\ UNCHANGED <<on, prog, slot, id, gone>>
    BY <1>2 DEF ReadFails, adapter, options
  <2>2. ReadingShape'
    <3>1. 0 \in 0 .. MaxStreams
      BY MonitorAssumption
    <3> QED
      BY <2>1, <3>1 DEF SearchInv, ReadingShape
  <2>3. Len(found') = 0 /\ DOMAIN found' = {}
    BY <2>1
  <2>4. FoundInv'
    BY <1>2, <2>1, <2>3 DEF FoundInv
  <2>5. AheadInv'
    BY <2>1 DEF AheadInv
  <2> QED
    BY <2>2, <2>4, <2>5 DEF SearchInv
<1> QED
  BY <1>1, <1>2

\* An identifier without host buffers is none of the streams ahead.
LEMMA SkipSearch ==
    ASSUME SearchInv, Skip
    PROVE  SearchInv'
<1>1. /\ pc = "read" /\ Len(found) < want /\ on[id % MaxStreams] = <<>> /\ id' = NextId
      /\ slot' = IF prog = "hbMonitor" /\ id \in Ids THEN [slot EXCEPT ![id].active = FALSE] ELSE slot
      /\ pc' = IF prog = "hbMonitor" /\ id \notin Ids THEN "broken" ELSE pc
      /\ UNCHANGED <<on, prog, want, found, gone>>
  BY DEF Skip, adapter, options
<1>2. ReadingShape /\ FoundInv /\ AheadInv
  BY DEF SearchInv
<1>3. /\ id \in 0 .. 2 * MaxStreams - 1 /\ found \in Seq(Ids) /\ want \in 0 .. MaxStreams
      /\ MaxStreams \in Nat /\ Len(found) \in Nat
  BY <1>2, MonitorAssumption DEF ReadingShape
<1>4. /\ NextId \in 0 .. 2 * MaxStreams - 1
      /\ id \in Ids => id % MaxStreams = id /\ NextId = id + 1
      /\ id \notin Ids => NextId \notin Ids /\ id >= MaxStreams /\ NextId >= MaxStreams
  BY <1>3, IdBounds
<1>5. /\ DOMAIN slot' = Ids
      /\ \A i \in Ids : i # id => slot'[i] = slot[i]
      /\ prog = "hbMonitor" /\ id \in Ids => slot'[id].active = FALSE
      /\ \A i \in Ids : "active" \in DOMAIN slot'[i]
  BY <1>1, <1>2 DEF ReadingShape
<1>6. ReadingShape'
  BY <1>1, <1>2, <1>4, <1>5 DEF ReadingShape
<1>7. \A k \in DOMAIN found : found[k] \in Ids /\ found[k] < id /\ found[k] < id'
  <2> SUFFICES ASSUME NEW k \in DOMAIN found
               PROVE  found[k] \in Ids /\ found[k] < id /\ found[k] < id'
    OBVIOUS
  <2>1. found[k] \in Ids /\ found[k] < id
    BY <1>2, <1>3 DEF FoundInv
  <2>2. found[k] < id'
    BY <1>1, <1>3, <1>4, <2>1 DEF Ids
  <2> QED
    BY <2>1, <2>2
<1>8. ASSUME prog = "hbMonitor", pc' \in {"read", "output"}, NEW i \in Ids, i < id'
      PROVE  slot'[i].active <=> \E k \in DOMAIN found : found[k] = i
  <2>1. id \in Ids /\ id' = id + 1
    BY <1>1, <1>4, <1>8
  <2>2. CASE i = id
    <3>1. ~\E k \in DOMAIN found : found[k] = i
      BY <1>3, <1>7, <2>2 DEF Ids
    <3> QED
      BY <1>5, <1>8, <2>1, <2>2, <3>1
  <2>3. CASE i # id
    <3>1. i < id
      BY <1>3, <1>8, <2>1, <2>3 DEF Ids
    <3>2. slot[i].active <=> \E k \in DOMAIN found : found[k] = i
      BY <1>1, <1>2, <1>8, <3>1 DEF FoundInv
    <3> QED
      BY <1>5, <2>3, <3>2
  <2> QED
    BY <2>2, <2>3
<1>9. FoundInv'
  <2>1. pc' = "read" => Len(found') <= want'
    BY <1>1, <1>3
  <2>2. pc' # "output"
    BY <1>1
  <2>3. \A k \in DOMAIN found' : found'[k] < id'
    BY <1>1, <1>7
  <2>4. \A j, k \in DOMAIN found' : j < k => found'[j] < found'[k]
    BY <1>1, <1>2 DEF FoundInv
  <2>5. prog' = "hbMonitor" /\ pc' \in {"read", "output"} =>
          \A i \in Ids : i < id' => (slot'[i].active <=> \E k \in DOMAIN found' : found'[k] = i)
    BY <1>1, <1>8
  <2> QED
    BY <2>1, <2>2, <2>3, <2>4, <2>5 DEF FoundInv
<1>10. Ahead \subseteq Ahead'
  <2> SUFFICES ASSUME NEW i \in Ids, id <= i, on[i] # <<>>
               PROVE  id' <= i
    BY <1>1 DEF Ahead
  <2>1. id \in Ids
    BY <1>3, <1>4 DEF Ids
  <2>2. i # id /\ id' = id + 1
    BY <1>1, <1>4, <2>1
  <2> QED
    BY <1>3, <2>2 DEF Ids
<1>11. AheadInv'
  <2>1. Ahead' \cup gone' \subseteq Ids /\ Ahead \cup gone \subseteq Ahead' \cup gone'
    BY <1>1, <1>2, <1>10 DEF Ahead, ReadingShape
  <2>2. Cardinality(Ahead \cup gone) <= Cardinality(Ahead' \cup gone')
    BY <2>1, MoreStreams
  <2>3. Cardinality(Ahead \cup gone) \in Nat /\ Cardinality(Ahead' \cup gone') \in Nat
    BY <2>1, StreamsFinite
  <2> QED
    BY <1>1, <1>2, <1>3, <2>2, <2>3 DEF AheadInv
<1> QED
  BY <1>6, <1>9, <1>11 DEF SearchInv

\* A stream that is read is one ahead less and one found more.
LEMMA ReadSearch ==
    ASSUME SearchInv, Read
    PROVE  SearchInv'
<1>1. CASE id \notin Ids
  <2>1. UNCHANGED <<on, prog, slot, want, id, found, gone>> /\ pc' = "broken"
    BY <1>1 DEF Read, adapter, options
  <2> QED
    BY <2>1, SearchRests
<1>2. CASE id \in Ids
  <2>1. PICK g : slot' = [slot EXCEPT ![id] = Updated(@, id, g)]
    BY <1>2 DEF Read
  <2>2. /\ pc = "read" /\ pc' = "read" /\ Len(found) < want /\ id' = NextId /\ found' = Append(found, id)
        /\ UNCHANGED <<on, prog, want, gone>>
    BY <1>2 DEF Read, adapter, options
  <2>3. ReadingShape /\ FoundInv /\ AheadInv
    BY DEF SearchInv
  <2>4. /\ id \in 0 .. 2 * MaxStreams - 1 /\ found \in Seq(Ids) /\ want \in 0 .. MaxStreams
        /\ MaxStreams \in Nat /\ Len(found) \in Nat /\ DOMAIN slot = Ids
        /\ DOMAIN found = 1 .. Len(found)
    BY <2>3, MonitorAssumption DEF ReadingShape
  <2>5. NextId \in 0 .. 2 * MaxStreams - 1 /\ id' = id + 1
    BY <1>2, <2>2, <2>4, IdBounds
  <2>6. /\ DOMAIN slot' = Ids /\ (\A i \in Ids : i # id => slot'[i] = slot[i])
        /\ slot'[id].active = TRUE /\ \A i \in Ids : "active" \in DOMAIN slot'[i]
    BY <1>2, <2>1, <2>3, <2>4 DEF ReadingShape, Updated
  <2>7. /\ found' \in Seq(Ids) /\ Len(found') = Len(found) + 1 /\ DOMAIN found' = 1 .. Len(found) + 1
        /\ found'[Len(found) + 1] = id /\ \A k \in DOMAIN found : found'[k] = found[k]
    BY <1>2, <2>2, <2>4
  <2>8. ReadingShape'
    BY <2>2, <2>3, <2>5, <2>6, <2>7 DEF ReadingShape
  <2>9. \A k \in DOMAIN found : found[k] \in Ids /\ found[k] < id
    <3>1. \A k \in DOMAIN found : found[k] \in Ids
      BY <2>4
    <3>2. \A k \in DOMAIN found : found[k] < id
      BY <2>3 DEF FoundInv
    <3> QED
      BY <3>1, <3>2
  <2>10. \A k \in DOMAIN found' : k = Len(found) + 1 \/ k \in DOMAIN found
    BY <2>4, <2>7
  <2>11. \A k \in DOMAIN found' : found'[k] < id'
    BY <2>4, <2>5, <2>7, <2>9, <2>10 DEF Ids
  <2>12. ASSUME NEW j \in DOMAIN found', NEW k \in DOMAIN found', j < k
         PROVE  found'[j] < found'[k]
    <3>1. j \in DOMAIN found
      BY <2>4, <2>7, <2>12
    <3>2. CASE k \in DOMAIN found
      BY <2>3, <2>7, <2>12, <3>1, <3>2 DEF FoundInv
    <3>3. CASE k = Len(found) + 1
      BY <2>7, <2>9, <3>1, <3>3
    <3> QED
      BY <2>10, <3>2, <3>3
  <2>13. ASSUME prog = "hbMonitor", NEW i \in Ids, i < id'
         PROVE  slot'[i].active <=> \E k \in DOMAIN found' : found'[k] = i
    <3>1. CASE i = id
      <4>1. Len(found) + 1 \in DOMAIN found'
        BY <2>4, <2>7
      <4> QED
        BY <2>6, <2>7, <3>1, <4>1
    <3>2. CASE i # id
      <4>1. i < id
        BY <2>4, <2>5, <2>13, <3>2 DEF Ids
      <4>2. slot'[i].active <=> \E k \in DOMAIN found : found[k] = i
        BY <2>2, <2>3, <2>6, <2>13, <3>2, <4>1 DEF FoundInv
      <4>3. (\E k \in DOMAIN found : found[k] = i) => \E k \in DOMAIN found' : found'[k] = i
        <5>1. DOMAIN found \subseteq DOMAIN found'
          BY <2>4, <2>7
        <5> QED
          BY <2>7, <5>1
      <4>4. (\E k \in DOMAIN found' : found'[k] = i) => \E k \in DOMAIN found : found[k] = i
        BY <2>7, <2>10, <3>2
      <4> QED
        BY <4>2, <4>3, <4>4
    <3> QED
      BY <3>1, <3>2
  <2>14. FoundInv'
    <3>1. Len(found') <= want' /\ pc' # "output"
      BY <2>2, <2>4, <2>7
    <3>2. prog' = "hbMonitor" =>
            \A i \in Ids : i < id' => (slot'[i].active <=> \E k \in DOMAIN found' : found'[k] = i)
      BY <2>2, <2>13
    <3>3. \A j, k \in DOMAIN found' : j < k => found'[j] < found'[k]
      BY <2>12
    <3> QED
      BY <2>11, <3>1, <3>2, <3>3 DEF FoundInv
  <2>15. Ahead \cup gone \subseteq (Ahead' \cup gone') \cup {id}
    <3>1. ASSUME NEW i \in Ids, id <= i, on[i] # <<>>, i # id
          PROVE  id' <= i
      BY <2>4, <2>5, <3>1 DEF Ids
    <3> QED
      BY <2>2, <3>1 DEF Ahead
  <2>16. AheadInv'
    <3>1. Ahead' \cup gone' \subseteq Ids /\ Ahead \cup gone \subseteq Ids
      BY <2>2, <2>3 DEF Ahead, ReadingShape
    <3>2. Cardinality(Ahead \cup gone) <= Cardinality(Ahead' \cup gone') + 1
      BY <2>15, <3>1, OneStreamLess
    <3>3. Cardinality(Ahead \cup gone) \in Nat /\ Cardinality(Ahead' \cup gone') \in Nat
      BY <3>1, StreamsFinite
    <3> QED
      BY <2>2, <2>3, <2>4, <2>7, <3>2, <3>3 DEF AheadInv
  <2> QED
    BY <2>8, <2>14, <2>16 DEF SearchInv
<1> QED
  BY <1>1, <1>2

\* Every step keeps the invariant of the search.
LEMMA SearchStep ==
    ASSUME SearchInv, [MonitorNext]_monitorVars
    PROVE  SearchInv'
<1>1. CASE UNCHANGED monitorVars
  <2>1. UNCHANGED <<on, prog, slot, want, id, found, gone>> /\ pc' = pc
    BY <1>1 DEF monitorVars, adapter, options, reading
  <2> QED
    BY <2>1, SearchRests
<1>2. ASSUME NEW i \in Ids, NEW b \in Bufs, Drop(i, b)
      PROVE  SearchInv'
  <2>1. UNCHANGED <<on, prog, slot, want, id, found, gone>> /\ pc' = pc
    BY <1>2 DEF Drop, options, reading
  <2> QED
    BY <2>1, SearchRests
<1>3. ASSUME NEW i \in Ids, NEW l \in Layouts, Change(i, l)
      PROVE  SearchInv'
  BY <1>3, ChangeSearch
<1>4. ASSUME NEW p \in {"bufferProfile", "hbMonitor"}, NEW f \in BOOLEAN, NEW c \in BOOLEAN, NEW d \in BOOLEAN,
             Start(p, f, c, d)
      PROVE  SearchInv'
  BY <1>4, StartSearch
<1>5. CASE StartFails \/ StopApplication \/ Kill \/ PortsFail
  <2>1. UNCHANGED <<on, prog, slot, want, id, found, gone>> /\ (pc' = pc \/ pc' = "off")
    BY <1>5 DEF StartFails, StopApplication, Kill, PortsFail, End, adapter, options, reading
  <2> QED
    BY <2>1, SearchRests
<1>6. CASE Count
  BY <1>6, CountSearch
<1>7. CASE ReadFails
  BY <1>7, ReadFailsSearch
<1>8. CASE Skip
  BY <1>8, SkipSearch
<1>9. CASE Read
  BY <1>9, ReadSearch
<1>10. CASE ReadEnd
  <2>1. UNCHANGED <<on, prog, slot, want, id, found, gone>> /\ pc = "read" /\ pc' = "output" /\ Len(found) = want
    BY <1>10 DEF ReadEnd, adapter, options, reading
  <2> QED
    BY <2>1, SearchRests
<1>11. CASE Output \/ Show
  <2>1. UNCHANGED <<on, prog, slot, want, id, found, gone>> /\ pc' \in {"count", "crashed"}
    BY <1>11 DEF Output, Show, adapter, options, reading
  <2> QED
    BY <2>1, SearchRests
<1> QED
  BY <1>1, <1>2, <1>3, <1>4, <1>5, <1>6, <1>7, <1>8, <1>9, <1>10, <1>11 DEF MonitorNext

-----------------------------------------------------------------------------
(* The theorems.                                                           *)

\* The initial states satisfy the invariant.
LEMMA MonitorInitInv ==
    ASSUME MonitorInit
    PROVE  MonitorInv
<1>0. /\ ring = [p \in Cells |-> [sample |-> 0, processed |-> TRUE]] /\ currPos = 0 /\ out = <<>> /\ sample = 0
      /\ pc = "off"
  BY DEF MonitorInit, Cells
<1>1. /\ ring \in [Cells -> RingEntries] /\ \A p \in Cells : ring[p].sample = 0
  BY <1>0 DEF RingEntries
<1>2. RingInv
  <2>1. 0 \in Cells
    BY MonitorAssumption DEF Cells
  <2>2. BacklogShape
    <3>1. out \in Seq(Nat) /\ DOMAIN out = {} /\ sample \in Nat /\ currPos \in Cells
      BY <1>0, <2>1
    <3>2. \A p \in Cells : ring[p].sample <= sample
      BY <1>0, <1>1
    <3> QED
      BY <1>1, <3>1, <3>2 DEF BacklogShape
  <2>3. Increasing(out) /\ BacklogInv
    BY <1>0 DEF Increasing, BacklogInv
  <2> QED
    BY <2>2, <2>3 DEF RingInv
<1>3. SearchInv
  <2>1. 0 \in 0 .. MaxStreams /\ 0 \in 0 .. 2 * MaxStreams - 1
    BY MonitorAssumption
  <2>2. DOMAIN slot = Ids /\ \A i \in Ids : "active" \in DOMAIN slot[i]
    BY DEF EmptySlot, MonitorInit
  <2>3. ReadingShape
    BY <2>1, <2>2 DEF ReadingShape, MonitorInit
  <2>4. FoundInv /\ AheadInv
    BY DEF FoundInv, AheadInv, MonitorInit
  <2> QED
    BY <2>3, <2>4 DEF SearchInv
<1>4. FlagsInv
  BY DEF FlagsInv, MonitorInit
<1> QED
  BY <1>2, <1>3, <1>4 DEF MonitorInv

\* Every step keeps the types of the flags.
LEMMA FlagsStep ==
    ASSUME FlagsInv, [MonitorNext]_monitorVars
    PROVE  FlagsInv'
<1>1. CASE UNCHANGED monitorVars
  BY <1>1 DEF FlagsInv, monitorVars, alerts, options
<1>2. ASSUME NEW i \in Ids, NEW b \in Bufs, Drop(i, b)
      PROVE  FlagsInv'
  BY <1>2 DEF FlagsInv, Drop, alerts, options
<1>3. ASSUME NEW i \in Ids, NEW l \in Layouts, Change(i, l)
      PROVE  FlagsInv'
  BY <1>3 DEF FlagsInv, Change, alerts, options
<1>4. ASSUME NEW p \in {"bufferProfile", "hbMonitor"}, NEW f \in BOOLEAN, NEW c \in BOOLEAN, NEW d \in BOOLEAN,
             Start(p, f, c, d)
      PROVE  FlagsInv'
  <2>1. continuous' = c /\ prevAlert' = FALSE /\ alert' = FALSE /\ pc' = "count"
    BY <1>4 DEF Start
  <2> QED
    BY <2>1 DEF FlagsInv
<1>5. CASE StartFails \/ StopApplication \/ Kill \/ PortsFail \/ Count \/ ReadFails
  BY <1>5 DEF FlagsInv, StartFails, StopApplication, Kill, PortsFail, Count, ReadFails, End, alerts, options
<1>6. CASE Skip \/ ReadEnd \/ Show
  BY <1>6 DEF FlagsInv, Skip, ReadEnd, Show, alerts, options
<1>7. CASE Read
  <2>1. UNCHANGED <<continuous, prevAlert>> /\ (pc' = "broken" \/ pc' = pc)
    BY <1>7 DEF Read, options
  <2>2. alert' \in BOOLEAN
    BY <1>7 DEF Read, FlagsInv
  <2> QED
    BY <2>1, <2>2 DEF FlagsInv
<1>8. CASE Output
  BY <1>8 DEF FlagsInv, Output, AlertNow, options
<1> QED
  BY <1>1, <1>2, <1>3, <1>4, <1>5, <1>6, <1>7, <1>8 DEF MonitorNext

\* The invariant of the monitors, by induction over the steps.
THEOREM MonitorInvariance == MonitorSpec => []MonitorInv
<1>1. MonitorInit => MonitorInv
  BY MonitorInitInv
<1>2. MonitorInv /\ [MonitorNext]_monitorVars => MonitorInv'
  BY RingStep, SearchStep, FlagsStep DEF MonitorInv
<1> QED
  BY <1>1, <1>2, PTL DEF MonitorSpec

\* Every variable of the reading loop and of the backlog has its type: counts
\* and identifiers stay within the streams, positions within the ring.
THEOREM MonitorTypeCorrect == MonitorSpec => []MonitorTypeOK
<1>1. MonitorInv => MonitorTypeOK
  <2> SUFFICES ASSUME MonitorInv
               PROVE  MonitorTypeOK
    OBVIOUS
  <2>1. want \in 0 .. MaxStreams /\ id \in 0 .. 2 * MaxStreams - 1 /\ Range(found) \subseteq Ids
    BY DEF MonitorInv, SearchInv, ReadingShape, Range
  <2>2. currPos \in 0 .. NumEntries - 1
    BY DEF MonitorInv, RingInv, BacklogShape, Cells
  <2>3. \A p \in DOMAIN ring : ring[p].sample \in 0 .. sample
    BY DEF MonitorInv, RingInv, BacklogShape, RingEntries
  <2>4. Range(out) \subseteq 1 .. sample
    BY DEF MonitorInv, RingInv, BacklogShape, Range
  <2> QED
    BY <2>1, <2>2, <2>3, <2>4 DEF MonitorTypeOK, MonitorInv, FlagsInv
<1> QED
  BY <1>1, MonitorInvariance, PTL

\* CBacklog::output writes every sample at most once, and in the order in which
\* they were taken, over any number of alerts and turns of a ring of any size.
THEOREM SamplesInOrder == MonitorSpec => []WrittenInOrder
<1>1. MonitorInv => WrittenInOrder
  BY DEF MonitorInv, RingInv, Increasing, WrittenInOrder
<1> QED
  BY <1>1, MonitorInvariance, PTL

\* When outputStats finds that packets were dropped, everything the ring still
\* has of the samples before is in the output with the sample itself; after an
\* alert so is the next sample.
THEOREM AlertHasItsPast == MonitorSpec => Window
<1>1. ASSUME MonitorInv, [MonitorNext]_monitorVars, pc = "output", pc' \in {"count", "crashed"}, prog = "bufferProfile"
      PROVE  /\ AlertNow => (sample - NumEntries + 1 .. sample) \cap (1 .. sample) \subseteq Range(out')
             /\ prevAlert => sample \in Range(out')
  <2>1. Output
    <3>1. pc' # pc
      BY <1>1
    <3>2. ~UNCHANGED monitorVars
      BY <3>1 DEF monitorVars
    <3>3. ~(\E i \in Ids, b \in Bufs : Drop(i, b)) /\ ~(\E i \in Ids, l \in Layouts : Change(i, l))
      BY <3>1 DEF Drop, Change
    <3>4. ~(\E p \in {"bufferProfile", "hbMonitor"}, f, c, d \in BOOLEAN : Start(p, f, c, d))
      BY <1>1 DEF Start
    <3>5. ~StartFails /\ ~StopApplication /\ ~Kill /\ ~Count /\ ~ReadFails /\ ~Skip /\ ~Read /\ ~ReadEnd /\ ~PortsFail
      BY <1>1, <3>1 DEF StartFails, StopApplication, Kill, Count, ReadFails, Skip, Read, ReadEnd, PortsFail, End
    <3>6. ~Show
      BY <1>1 DEF Show
    <3> QED
      BY <1>1, <3>2, <3>3, <3>4, <3>5, <3>6 DEF MonitorNext
  <2>2. RingInv
    BY <1>1 DEF MonitorInv
  <2>3. WriteNow => \A s \in 1 .. sample : sample - NumEntries < s => \E k \in DOMAIN out' : out'[k] = s
    BY <2>1, <2>2, OutputRing
  <2>4. sample - 1 \in Nat /\ sample \in Nat /\ NumEntries \in Nat /\ NumEntries > 0
    BY <1>1, <2>2, MonitorAssumption DEF RingInv, BacklogShape, BacklogInv, Entered
  <2>5. AlertNow => (sample - NumEntries + 1 .. sample) \cap (1 .. sample) \subseteq Range(out')
    <3> SUFFICES ASSUME AlertNow, NEW s \in sample - NumEntries + 1 .. sample, s \in 1 .. sample
                 PROVE  s \in Range(out')
      OBVIOUS
    <3>1. sample - NumEntries < s
      BY <2>4
    <3>2. PICK k \in DOMAIN out' : out'[k] = s
      BY <2>3, <3>1 DEF WriteNow
    <3> QED
      BY <3>2 DEF Range
  <2>6. prevAlert => sample \in Range(out')
    <3> SUFFICES ASSUME prevAlert
                 PROVE  sample \in Range(out')
      OBVIOUS
    <3>1. sample \in 1 .. sample /\ sample - NumEntries < sample
      BY <2>4
    <3>2. PICK k \in DOMAIN out' : out'[k] = sample
      BY <2>3, <3>1 DEF WriteNow
    <3> QED
      BY <3>2 DEF Range
  <2> QED
    BY <2>5, <2>6
<1>2. MonitorInv /\ [MonitorNext]_monitorVars =>
        [pc = "output" /\ pc' \in {"count", "crashed"} /\ prog = "bufferProfile" =>
           /\ AlertNow => (sample - NumEntries + 1 .. sample) \cap (1 .. sample) \subseteq Range(out')
           /\ prevAlert => sample \in Range(out')]_monitorVars
  BY <1>1
<1> QED
  BY <1>2, MonitorInvariance, PTL DEF MonitorSpec, Window

\* What was found is where the search of hbMonitor's display finds it.
LEMMA FoundAreFirst ==
    ASSUME SearchInv, pc = "output", prog = "hbMonitor", NEW k \in DOMAIN found
    PROVE  ActiveIds[k] = found[k]
<1> DEFINE S == {i \in Ids : slot[i].active}
           T == {found[j] : j \in 1 .. k - 1}
<1>1. /\ found \in Seq(Ids) /\ (\A j \in DOMAIN found : found[j] < id)
      /\ \A i, j \in DOMAIN found : i < j => found[i] < found[j]
      /\ \A i \in Ids : i < id => (slot[i].active <=> \E j \in DOMAIN found : found[j] = i)
      /\ id \in Int
  BY DEF SearchInv, ReadingShape, FoundInv
<1>2. Ids \subseteq Int /\ found \in Seq(Int) /\ DOMAIN found = 1 .. Len(found) /\ Len(found) \in Nat
  BY <1>1, MonitorAssumption DEF Ids
<1>3. \A j \in DOMAIN found : found[j] \in S /\ found[j] \in Int
  BY <1>1, <1>2
<1>4. Before(S, found[k]) = T
  <2>1. ASSUME NEW i \in S, i < found[k]
        PROVE  i \in T
    <3>1. i \in Ids /\ i \in Int /\ found[k] < id /\ found[k] \in Int
      BY <1>1, <1>2, <1>3
    <3>2. PICK j \in DOMAIN found : found[j] = i
      BY <1>1, <2>1, <3>1
    <3>3. ~(j = k) /\ ~(k < j)
      BY <1>1, <2>1, <3>1, <3>2
    <3>4. j \in 1 .. k - 1
      BY <1>2, <3>3
    <3> QED
      BY <3>2, <3>4
  <2>2. ASSUME NEW j \in 1 .. k - 1
        PROVE  found[j] \in S /\ found[j] < found[k]
    <3>1. j \in DOMAIN found /\ j < k
      BY <1>2
    <3> QED
      BY <1>1, <1>3, <3>1
  <2> QED
    BY <2>1, <2>2 DEF Before
<1>5. Cardinality(T) = k - 1
  BY <1>1, <1>2, PrefixCount
<1>6. IsFiniteSet(S) /\ S \subseteq Int /\ found[k] \in S
  BY <1>2, <1>3, StreamsFinite
<1> HIDE DEF S, T
<1>7. /\ Cardinality(Before(S, found[k])) + 1 \in 1 .. Cardinality(S)
      /\ Nth(S, Cardinality(Before(S, found[k])) + 1) = found[k]
  BY <1>6, NthIs
<1>8. Cardinality(Before(S, found[k])) + 1 = k
  BY <1>2, <1>4, <1>5
<1>9. k \in 1 .. Cardinality(S) /\ Nth(S, k) = found[k]
  BY <1>7, <1>8
<1>10. InOrder(S)[k] = found[k]
  BY <1>9 DEF InOrder
<1> QED
  BY <1>10 DEF ActiveIds, S

\* The rows that outputStats shows are the streams that readStreamStats read, in
\* its order: in hbMonitor always, in bufferProfile when they are 0, 1, 2...
THEOREM RowsShowStreams == MonitorSpec => RowsAreStreams
<1>1. ASSUME MonitorInv, [MonitorNext]_monitorVars, pc = "output", pc' \in {"count", "crashed"}, Shown
      PROVE  rows' = found
  <2>1. Output \/ Show
    <3>1. pc' # pc
      BY <1>1
    <3>2. ~UNCHANGED monitorVars
      BY <3>1 DEF monitorVars
    <3>3. ~(\E i \in Ids, b \in Bufs : Drop(i, b)) /\ ~(\E i \in Ids, l \in Layouts : Change(i, l))
      BY <3>1 DEF Drop, Change
    <3>4. ~(\E p \in {"bufferProfile", "hbMonitor"}, f, c, d \in BOOLEAN : Start(p, f, c, d))
      BY <1>1 DEF Start
    <3>5. ~StartFails /\ ~StopApplication /\ ~Kill /\ ~Count /\ ~ReadFails /\ ~Skip /\ ~Read /\ ~ReadEnd /\ ~PortsFail
      BY <1>1, <3>1 DEF StartFails, StopApplication, Kill, Count, ReadFails, Skip, Read, ReadEnd, PortsFail, End
    <3> QED
      BY <1>1, <3>2, <3>3, <3>4, <3>5 DEF MonitorNext
  <2>2. SearchInv /\ found \in Seq(Ids) /\ Len(found) = want
    BY <1>1 DEF MonitorInv, SearchInv, ReadingShape, FoundInv
  <2>3. DOMAIN found = 1 .. want /\ found = [k \in 1 .. want |-> found[k]]
    BY <2>2
  <2>4. CASE Output
    <3>1. prog # "hbMonitor" /\ rows' = RowsOf(want)
      BY <2>4 DEF Output
    <3>2. rows' = [k \in 1 .. want |-> k - 1]
      BY <3>1 DEF RowsOf
    <3>3. \A k \in 1 .. want : found[k] = k - 1
      BY <1>1, <2>3, <3>1 DEF Shown
    <3> QED
      BY <2>3, <3>2, <3>3
  <2>5. CASE Show
    <3>1. prog = "hbMonitor" /\ sample # 1 /\ rows' = RowsOf(want)
      <4>1. prog = "hbMonitor" /\ sample > 1 /\ sample \in Nat
        BY <1>1, <2>5 DEF Show, Shown, MonitorInv, RingInv, BacklogShape
      <4> QED
        BY <2>5, <4>1 DEF Show
    <3>2. rows' = [k \in 1 .. want |-> ActiveIds[k]]
      BY <3>1 DEF RowsOf
    <3>3. \A k \in 1 .. want : ActiveIds[k] = found[k]
      BY <1>1, <2>2, <2>3, <3>1, FoundAreFirst
    <3> QED
      BY <2>3, <3>2, <3>3
  <2> QED
    BY <2>1, <2>4, <2>5
<1>2. MonitorInv /\ [MonitorNext]_monitorVars =>
        [pc = "output" /\ pc' \in {"count", "crashed"} /\ Shown => rows' = found]_monitorVars
  BY <1>1
<1> QED
  BY <1>2, MonitorInvariance, PTL DEF MonitorSpec, RowsAreStreams

\* The index of readStreamStats leaves its array only after as many deletions
\* of streams, since they were counted, as there are streams missing.
THEOREM IndexInBounds == MonitorSpec => InBounds
<1>1. ASSUME MonitorInv, [MonitorNext]_monitorVars, pc' = "broken", pc # "broken"
      PROVE  want <= Len(found) + Cardinality(gone)
  <2>1. pc = "read" /\ id \notin Ids
    <3>1. ~UNCHANGED monitorVars
      BY <1>1 DEF monitorVars
    <3>2. ~(\E i \in Ids, b \in Bufs : Drop(i, b)) /\ ~(\E i \in Ids, l \in Layouts : Change(i, l))
      BY <1>1 DEF Drop, Change
    <3>3. ~(\E p \in {"bufferProfile", "hbMonitor"}, f, c, d \in BOOLEAN : Start(p, f, c, d))
      BY <1>1 DEF Start
    <3>4. ~StartFails /\ ~StopApplication /\ ~Kill /\ ~Count /\ ~ReadFails /\ ~ReadEnd /\ ~PortsFail /\ ~Output /\ ~Show
      BY <1>1 DEF StartFails, StopApplication, Kill, Count, ReadFails, ReadEnd, PortsFail, Output, Show, End
    <3>5. Skip \/ Read
      BY <1>1, <3>1, <3>2, <3>3, <3>4 DEF MonitorNext
    <3> QED
      BY <1>1, <3>5 DEF Skip, Read
  <2>2. ReadingShape /\ AheadInv
    BY <1>1 DEF MonitorInv, SearchInv
  <2>3. Ahead = {}
    <3>1. MaxStreams \in Nat /\ id \in Nat /\ id >= MaxStreams
      BY <2>1, <2>2, MonitorAssumption DEF Ids, ReadingShape
    <3>2. \A i \in Ids : ~(id <= i)
      BY <3>1 DEF Ids
    <3> QED
      BY <3>2 DEF Ahead
  <2>4. Ahead \cup gone = gone
    BY <2>3
  <2> QED
    BY <2>1, <2>2, <2>4 DEF AheadInv
<1>2. MonitorInv /\ [MonitorNext]_monitorVars =>
        [pc' = "broken" => pc = "broken" \/ want <= Len(found) + Cardinality(gone)]_monitorVars
  BY <1>1
<1> QED
  BY <1>2, MonitorInvariance, PTL DEF MonitorSpec, InBounds
=============================================================================
