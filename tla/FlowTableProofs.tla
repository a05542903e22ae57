-------------------------- MODULE FlowTableProofs --------------------------
(***************************************************************************)
(* Proofs about FlowTable, for any rx threads, flows, bucket sizes and     *)
(* number of buckets: the bits of a bucket's mask, the reference counts    *)
(* and the chain's lock keep claimed and referenced entries from being     *)
(* given away or freed, and walkers from losing the bucket they are at.    *)
(*                                                                         *)
(* With the one bucket per chain that the program starts with by default,  *)
(* the chain is exactly the buckets that are allocated and ends at         *)
(* chain->last; then every referenced entry is found, and a flow has one.  *)
(***************************************************************************)
EXTENDS FlowTable, FiniteSetTheorems, WellFoundedInduction, TLAPS

InUse(e) ==
  /\ e \in Entry
  /\ e[1] \in allocated \ toFree
  /\ e[2] \in Used(e[1])

\* A thread holds an entry while ft_add sets it up, and while ft_remove takes
\* it down.
Holds(t) == pc[t] \in {"init", "write", "ref", "remove", "mark"}

\* The chain: nobody walks outside the allocated buckets, and following a link
\* and its inverse leads back.
Walking ==
  \A t \in Rx : pc[t] \in {"lookup", "test", "claim"}
                  => t \in readers /\ cur[t] \in allocated

Linked ==
  /\ First \in allocated \ dynamic
  /\ \A b \in allocated :
       next[b] # Null => next[b] \in allocated /\ prev[next[b]] = b
  /\ \A b \in dynamic : prev[b] # Null

\* The entries: referenced ones are in use and nobody sets them up or takes
\* them down; held ones are in use, have no reference and one holder.
Live == \A e \in Entry : rc[e] > 0 => InUse(e)
Held ==
  /\ \A t \in Thread : Holds(t) => InUse(entry[t]) /\ rc[entry[t]] = 0
  /\ \A t, u \in Thread : t # u /\ Holds(t) /\ Holds(u) => entry[t] # entry[u]

\* The buckets to be freed: they are empty, were not there at the start, and
\* one thread frees each of them.
Freeing ==
  /\ \A b \in toFree : b \in dynamic /\ unused[b] = Index
  /\ \A t \in Thread : pc[t] = "unlink" => entry[t][1] \in toFree
  /\ \A t, u \in Thread : t # u /\ pc[t] = "unlink" /\ pc[u] = "unlink"
                            => entry[t][1] # entry[u][1]

EntryInv == Live /\ Held /\ Freeing
IInv == TypeOK /\ Walking /\ Linked /\ EntryInv

-----------------------------------------------------------------------------
\* The code's search for a set bit finds one.
LEMMA LowestIsIn ==
  ASSUME NEW S \in SUBSET Nat, S # {}
  PROVE  Lowest(S) \in S
<1> DEFINE R == OpToRel(<, Nat)
<1>1. \A x, y \in Nat : y < x => <<y, x>> \in R
  BY DEF OpToRel
<1>2. IsWellFoundedOn(R, Nat)
  BY NatLessThanWellFounded
<1> HIDE DEF R
<1>3. PICK x \in S : \A y \in S : ~ (<<y, x>> \in R)
  BY <1>2, WFMin
<1>4. \A y \in S : x <= y
  <2> SUFFICES ASSUME NEW y \in S PROVE x <= y
    OBVIOUS
  <2>1. x \in Nat /\ y \in Nat /\ ~(y < x)
    BY <1>1, <1>3
  <2> QED  BY <2>1
<1> QED  BY <1>4 DEF Lowest

\* A bucket that ft_add appends was not allocated, and is a bucket.
LEMMA FreshBucket ==
  ASSUME TypeOK, Cardinality(allocated) * bucketSize < MaxEntries
  PROVE  Lowest(Bucket \ allocated) \in Bucket \ allocated
<1> USE TableAssumption DEF TypeOK, Bucket
<1>1. IsFiniteSet(Bucket) /\ Cardinality(Bucket) = MaxEntries
  BY FS_Interval
<1>2. IsFiniteSet(allocated) /\ Cardinality(allocated) \in Nat
  BY <1>1, FS_Subset, FS_CardinalityType
<1>3. bucketSize \in Nat /\ bucketSize >= 1
  OBVIOUS
<1>4. Cardinality(allocated) < MaxEntries
  <2> DEFINE c == Cardinality(allocated)
  <2> HIDE DEF c
  <2>1. c \in Nat /\ c * bucketSize < MaxEntries
    BY <1>2 DEF c
  <2>2. c <= c * bucketSize
    BY <2>1, <1>3, SMTT(30)
  <2>3. c < MaxEntries
    <3> DEFINE m == c * bucketSize
    <3>1. m \in Nat /\ c <= m /\ m < MaxEntries
      BY <2>1, <2>2, <1>3
    <3> HIDE DEF m
    <3> QED  BY <2>1, <3>1
  <2> QED  BY <2>3 DEF c
<1>5. Bucket \ allocated # {}
  <2> SUFFICES ASSUME Bucket \ allocated = {} PROVE FALSE
    OBVIOUS
  <2>1. allocated = Bucket
    OBVIOUS
  <2> QED  BY <1>1, <1>4, <2>1
<1>6. Bucket \ allocated \in SUBSET Nat
  OBVIOUS
<1> QED  BY <1>5, <1>6, LowestIsIn

\* The first index of a bucket is an entry of it.
LEMMA IndexIsEntry ==
  ASSUME TypeOK, NEW b \in Bucket, NEW i \in Index
  PROVE  <<b, i>> \in Entry
  BY DEF TypeOK, Entry, Index

LEMMA SizeIsPositive == TypeOK => 0 \in Index /\ Index \subseteq Nat
  BY TableAssumption DEF TypeOK, Index

-----------------------------------------------------------------------------
(***************************************************************************)
(* Types                                                                   *)
(***************************************************************************)

\* Moving on through the chain keeps the types of what it changes.
LEMMA AdvanceTyped ==
  ASSUME TypeOK, NEW t \in Rx, cur[t] \in Bucket, Advance(t)
  PROVE  /\ cur' \in [Thread -> Bucket \cup {Null}]
         /\ pc' = [pc EXCEPT ![t] = "test"] \/ pc' = [pc EXCEPT ![t] = "append"]
         /\ readers' \subseteq Rx /\ writer' \subseteq Rx
<1> USE DEF TypeOK, Goto, Unlock, lockVars, Thread
<1>1. CASE next[cur[t]] # Null /\ cur' = [cur EXCEPT ![t] = next[cur[t]]]
           /\ Goto(t, "test") /\ UNCHANGED lockVars
  <2>1. next[cur[t]] \in Bucket
    BY <1>1
  <2> QED  BY <1>1, <2>1
<1>2. CASE cur' = [cur EXCEPT ![t] = Null] /\ Goto(t, "append") /\ Unlock(t)
  BY <1>2
<1> QED  BY <1>1, <1>2 DEF Advance

\* Every step keeps the types.
LEMMA TypeStep == IInv /\ [Next]_vars => TypeOK'
<1> SUFFICES ASSUME IInv, [Next]_vars
             PROVE  TypeOK'
  OBVIOUS
<1>0. /\ TypeOK /\ Walking /\ Linked /\ Live /\ Held /\ Freeing
      /\ 0 \in Index /\ Index \subseteq Nat /\ First \in Bucket
  BY SizeIsPositive DEF IInv, EntryInv, Linked, TypeOK
<1> USE <1>0, TableAssumption DEF Goto, chainVars, entryVars, lockVars, threadVars
<1>1. ASSUME NEW t \in Rx, NEW k \in Key, LookupBegin(t, k)
      PROVE  TypeOK'
  BY <1>1 DEF LookupBegin, ReadLock, TypeOK, Index, Thread
<1>2. ASSUME NEW t \in Rx, LookupBucket(t)
      PROVE  TypeOK'
  <2> DEFINE hits == Matches(cur[t], arg[t])
  <2>1. cur[t] \in Bucket /\ t \in Thread
    BY <1>2 DEF LookupBucket, Walking, TypeOK, Thread
  <2>2. hits # {} => <<cur[t], Lowest(hits)>> \in Entry
    <3>1. hits \in SUBSET Nat /\ hits \subseteq Index
      BY DEF Matches, Used
    <3> QED  BY <2>1, <3>1, LowestIsIn, IndexIsEntry
  <2> HIDE DEF hits
  <2>3. /\ entry' \in [Thread -> Entry \cup {NoEntry}]
        /\ pc' \in [Thread -> {"idle", "lookup", "found", "missing", "test",
                   "claim", "append", "init", "write", "ref", "remove", "mark",
                   "unlink"}]
        /\ cur' \in [Thread -> Bucket \cup {Null}]
        /\ readers' \subseteq Rx /\ writer' \subseteq Rx
    BY <1>2, <2>1, <2>2 DEF LookupBucket, Unlock, TypeOK, hits
  <2> QED  BY <1>2, <2>3 DEF LookupBucket, TypeOK, Index
<1>3. ASSUME NEW t \in Rx, Found(t) \/ AddBegin(t)
      PROVE  TypeOK'
  BY <1>3 DEF Found, AddBegin, Finish, ReadLock, TypeOK, Index, Thread
<1>4. ASSUME NEW t \in Rx, AddTest(t)
      PROVE  TypeOK'
  <2>1. CASE Goto(t, "claim") /\ UNCHANGED <<cur, lockVars>>
    BY <1>4, <2>1 DEF AddTest, TypeOK, Index, Thread
  <2>2. CASE Advance(t)
    <3>1. cur[t] \in Bucket
      BY <1>4 DEF AddTest, Walking, TypeOK
    <3> QED  BY <1>4, <2>2, <3>1, AdvanceTyped DEF AddTest, TypeOK, Index, Thread
  <2> QED  BY <1>4, <2>1, <2>2 DEF AddTest
<1>5. ASSUME NEW t \in Rx, AddClaim(t)
      PROVE  TypeOK'
  <2> DEFINE b == cur[t]
             i == Lowest(unused[b])
  <2>1. CASE /\ HasRoom(b)
             /\ unused' = [unused EXCEPT ![b] = @ \ {i}]
             /\ entry' = [entry EXCEPT ![t] = <<b, i>>]
             /\ Goto(t, "init")
             /\ UNCHANGED <<cur, lockVars>>
    <3>1. b \in Bucket /\ t \in Thread
      BY <1>5 DEF AddClaim, Walking, TypeOK, Thread
    <3>2. i \in Index
      <4>1. unused[b] \in SUBSET Nat /\ unused[b] \subseteq Index /\ unused[b] # {}
        BY <2>1, <3>1 DEF TypeOK, HasRoom
      <4> QED  BY <4>1, LowestIsIn
    <3>3. <<b, i>> \in Entry
      BY <3>1, <3>2, IndexIsEntry
    <3> HIDE DEF b, i
    <3> QED  BY <1>5, <2>1, <3>1, <3>3 DEF AddClaim, TypeOK, Index
  <2>2. CASE Advance(t) /\ UNCHANGED <<unused, entry>>
    <3>1. cur[t] \in Bucket
      BY <1>5 DEF AddClaim, Walking, TypeOK
    <3> QED  BY <1>5, <2>2, <3>1, AdvanceTyped DEF AddClaim, TypeOK, Index, Thread
  <2> QED  BY <1>5, <2>1, <2>2 DEF AddClaim
<1>6. ASSUME NEW t \in Rx, AddAppend(t)
      PROVE  TypeOK'
  <2> DEFINE b == Lowest(Bucket \ allocated)
  <2>1. b \in Bucket /\ <<b, 0>> \in Entry /\ t \in Thread
    BY <1>6, FreshBucket, IndexIsEntry DEF AddAppend, Thread
  <2>2. /\ next' = [next EXCEPT ![b] = Null, ![last] = b]
        /\ prev' = [prev EXCEPT ![b] = last]
        /\ last' = b /\ allocated' = allocated \cup {b}
        /\ dynamic' = dynamic \cup {b} /\ toFree' = toFree
        /\ unused' = [unused EXCEPT ![b] = Index \ {0}]
        /\ key' = [e \in Entry |-> IF e[1] = b THEN NoKey ELSE key[e]]
        /\ rc' = [e \in Entry |-> IF e[1] = b THEN 0 ELSE rc[e]]
        /\ entry' = [entry EXCEPT ![t] = <<b, 0>>]
        /\ pc' = [pc EXCEPT ![t] = "init"] /\ bucketSize' = bucketSize
        /\ writer' = {t} /\ readers' = readers /\ cur' = cur /\ arg' = arg
    BY <1>6 DEF AddAppend, WriteLock
  <2> HIDE DEF b
  <2> QED  BY <2>1, <2>2 DEF TypeOK, Index
<1>7. ASSUME NEW t \in Rx, AddUnlock(t) \/ AddWrite(t)
      PROVE  TypeOK'
  BY <1>7 DEF AddUnlock, AddWrite, Unlock, TypeOK, Index, Thread
<1>8. ASSUME NEW t \in Rx, AddRef(t)
      PROVE  TypeOK'
  <2>1. entry[t] \in Entry /\ rc[entry[t]] = 0 /\ t \in Thread
    BY <1>8 DEF AddRef, Held, Holds, InUse, Thread
  <2>2. rc' \in [Entry -> 0 .. MaxRefs]
    BY <1>8, <2>1 DEF AddRef, TypeOK
  <2> QED  BY <1>8, <2>1, <2>2 DEF AddRef, Finish, TypeOK, Index
<1>9. ASSUME NEW t \in Dropper, NEW e \in Entry, Ref(t, e)
      PROVE  TypeOK'
  <2>1. rc' \in [Entry -> 0 .. MaxRefs]
    BY <1>9 DEF Ref, TypeOK
  <2> QED  BY <1>9, <2>1 DEF Ref, TypeOK, Index
<1>10. ASSUME NEW t \in Dropper, NEW e \in Entry, Deref(t, e)
      PROVE  TypeOK'
  <2>1. rc' \in [Entry -> 0 .. MaxRefs]
    BY <1>10 DEF Deref, TypeOK
  <2> QED  BY <1>10, <2>1 DEF Deref, TypeOK, Index, Thread
<1>11. ASSUME NEW t \in Dropper, RemoveTest(t)
      PROVE  TypeOK'
  BY <1>11 DEF RemoveTest, Finish, TypeOK, Index, Thread
<1>12. ASSUME NEW t \in Dropper, RemoveMark(t)
      PROVE  TypeOK'
  <2> DEFINE b == entry[t][1]
             i == entry[t][2]
  <2>1. b \in allocated /\ b \in Bucket /\ i \in Index /\ t \in Thread
    BY <1>12 DEF RemoveMark, Held, Holds, InUse, Used, TypeOK, Thread
  <2>2. /\ unused' = [unused EXCEPT ![b] = @ \cup {i}]
        /\ UNCHANGED <<bucketSize, next, prev, last, allocated, dynamic, key, rc,
                       lockVars>>
    BY <1>12 DEF RemoveMark
  <2>3. \/ toFree' = toFree \cup {b} /\ Goto(t, "unlink") /\ UNCHANGED <<cur, arg, entry>>
        \/ toFree' = toFree /\ Finish(t)
    BY <1>12 DEF RemoveMark
  <2> HIDE DEF b, i
  <2>4. unused' \in [Bucket -> SUBSET Index]
    BY <2>1, <2>2 DEF TypeOK
  <2>5. /\ toFree' \subseteq allocated /\ cur' \in [Thread -> Bucket \cup {Null}]
        /\ arg' \in [Thread -> Key \cup {NoKey}]
        /\ entry' \in [Thread -> Entry \cup {NoEntry}]
    BY <2>1, <2>3 DEF Finish, TypeOK
  <2>6. pc' = [pc EXCEPT ![t] = "unlink"] \/ pc' = [pc EXCEPT ![t] = "idle"]
    BY <2>3 DEF Finish
  <2> QED  BY <2>1, <2>2, <2>4, <2>5, <2>6 DEF TypeOK, Index
<1>13. ASSUME NEW t \in Dropper, RemoveBucket(t)
      PROVE  TypeOK'
  <2> DEFINE b == entry[t][1]
  <2>1. b \in Bucket /\ prev[b] \in Bucket /\ t \in Thread
    BY <1>13 DEF RemoveBucket, Freeing, Linked, TypeOK, Thread
  <2>2. /\ last' = (IF last = b THEN prev[b] ELSE last)
        /\ next' = [next EXCEPT ![prev[b]] = next[b], ![b] = Null]
        /\ prev' = [c \in Bucket |->
                      IF c = b THEN Null
                      ELSE IF c = next[b] THEN prev[b] ELSE prev[c]]
        /\ allocated' = allocated \ {b} /\ dynamic' = dynamic \ {b}
        /\ toFree' = toFree \ {b} /\ unused' = [unused EXCEPT ![b] = Index]
        /\ Finish(t) /\ UNCHANGED <<bucketSize, key, rc, lockVars>>
    BY <1>13 DEF RemoveBucket, FreeBucket, NewLast
  <2> HIDE DEF b
  <2> QED  BY <2>1, <2>2 DEF Finish, TypeOK, Index
<1>14. CASE UNCHANGED vars
  BY <1>14 DEF vars, TypeOK, Index
<1> QED
  BY <1>1, <1>2, <1>3, <1>4, <1>5, <1>6, <1>7, <1>8, <1>9, <1>10, <1>11, <1>12,
     <1>13, <1>14 DEF Next

-----------------------------------------------------------------------------
(***************************************************************************)
(* The chain                                                               *)
(***************************************************************************)

\* Moving on through the chain keeps the other threads where they are, and the
\* moving one in the chain or out of it.
LEMMA AdvanceWalks ==
  ASSUME IInv, NEW t \in Rx, t \in readers, cur[t] \in allocated, Advance(t),
         UNCHANGED chainVars
  PROVE  Walking'
<1> USE DEF IInv, TypeOK, Walking, Goto, Unlock, lockVars, chainVars, Thread
<1>1. CASE next[cur[t]] # Null /\ cur' = [cur EXCEPT ![t] = next[cur[t]]]
           /\ Goto(t, "test") /\ UNCHANGED lockVars
  <2>1. next[cur[t]] \in allocated
    BY <1>1 DEF Linked
  <2> QED  BY <1>1, <2>1
<1>2. CASE cur' = [cur EXCEPT ![t] = Null] /\ Goto(t, "append") /\ Unlock(t)
  BY <1>2
<1> QED  BY <1>1, <1>2 DEF Advance

\* The threads in the chain keep its lock, and nobody frees a bucket then.
LEMMA WalkingStep == IInv /\ [Next]_vars => Walking'
<1> SUFFICES ASSUME IInv, [Next]_vars
             PROVE  Walking'
  OBVIOUS
<1>0. TypeOK /\ Walking /\ First \in allocated
  BY DEF IInv, Linked
<1> USE <1>0 DEF Goto, chainVars, entryVars, lockVars, threadVars, Thread
<1>1. ASSUME NEW t \in Rx, NEW k \in Key, LookupBegin(t, k)
      PROVE  Walking'
  BY <1>1 DEF LookupBegin, ReadLock, TypeOK, Walking
<1>2. ASSUME NEW t \in Rx, LookupBucket(t)
      PROVE  Walking'
  <2>1. t \in readers /\ cur[t] \in allocated
    BY <1>2 DEF LookupBucket, Walking
  <2>2. next[cur[t]] # Null => next[cur[t]] \in allocated
    BY <2>1 DEF IInv, Linked
  <2>3. \/ pc' = [pc EXCEPT ![t] = "found"] /\ Unlock(t) /\ UNCHANGED cur
        \/ pc' = [pc EXCEPT ![t] = "missing"] /\ Unlock(t) /\ UNCHANGED cur
        \/ /\ next[cur[t]] # Null /\ cur' = [cur EXCEPT ![t] = next[cur[t]]]
           /\ UNCHANGED <<pc, lockVars>>
    BY <1>2 DEF LookupBucket
  <2>4. allocated' = allocated
    BY <1>2 DEF LookupBucket
  <2> QED  BY <2>1, <2>2, <2>3, <2>4 DEF Unlock, TypeOK, Walking
<1>3. ASSUME NEW t \in Rx, Found(t) \/ AddBegin(t)
      PROVE  Walking'
  BY <1>3 DEF Found, AddBegin, Finish, ReadLock, TypeOK, Walking
<1>4. ASSUME NEW t \in Rx, AddTest(t) \/ AddClaim(t)
      PROVE  Walking'
  <2>1. t \in readers /\ cur[t] \in allocated /\ UNCHANGED chainVars
    BY <1>4 DEF AddTest, AddClaim, Walking
  <2>2. \/ Advance(t)
        \/ /\ UNCHANGED <<cur, lockVars>>
           /\ pc' = [pc EXCEPT ![t] = "claim"] \/ pc' = [pc EXCEPT ![t] = "init"]
    BY <1>4 DEF AddTest, AddClaim
  <2>3. CASE Advance(t)
    BY <2>1, <2>3, AdvanceWalks
  <2>4. CASE ~Advance(t)
    BY <2>1, <2>2, <2>4 DEF TypeOK, Walking
  <2> QED  BY <2>3, <2>4
<1>5. ASSUME NEW t \in Rx, AddAppend(t)
      PROVE  Walking'
  BY <1>5 DEF AddAppend, WriteLock, TypeOK, Walking
<1>6. ASSUME NEW t \in Rx, AddUnlock(t) \/ AddWrite(t) \/ AddRef(t)
      PROVE  Walking'
  BY <1>6 DEF AddUnlock, AddWrite, AddRef, Finish, Unlock, TypeOK, Walking
<1>7. ASSUME NEW t \in Dropper, NEW e \in Entry, Ref(t, e) \/ Deref(t, e)
      PROVE  Walking'
  BY <1>7 DEF Ref, Deref, TypeOK, Walking
<1>8. ASSUME NEW t \in Dropper, RemoveTest(t) \/ RemoveMark(t)
      PROVE  Walking'
  BY <1>8 DEF RemoveTest, RemoveMark, Finish, TypeOK, Walking
<1>9. ASSUME NEW t \in Dropper, RemoveBucket(t)
      PROVE  Walking'
  BY <1>9 DEF RemoveBucket, FreeBucket, Finish, TypeOK, Walking
<1>10. CASE UNCHANGED vars
  BY <1>10 DEF vars, Walking
<1> QED
  BY <1>1, <1>2, <1>3, <1>4, <1>5, <1>6, <1>7, <1>8, <1>9, <1>10 DEF Next

\* Appending a bucket and taking one out keep the links each other's inverse.
LEMMA LinkedStep == IInv /\ [Next]_vars => Linked'
<1> SUFFICES ASSUME IInv, [Next]_vars
             PROVE  Linked'
  OBVIOUS
<1>0. TypeOK /\ Linked /\ Freeing /\ Null \notin Bucket
  BY DEF IInv, EntryInv, Bucket, Null
<1> USE <1>0 DEF chainVars
<1>1. ASSUME NEW t \in Rx, AddAppend(t)
      PROVE  Linked'
  <2> DEFINE b == Lowest(Bucket \ allocated)
  <2>1. b \in Bucket /\ b \notin allocated
    BY <1>1, FreshBucket DEF AddAppend
  <2>2. /\ next' = [next EXCEPT ![b] = Null, ![last] = b]
        /\ prev' = [prev EXCEPT ![b] = last]
        /\ allocated' = allocated \cup {b} /\ dynamic' = dynamic \cup {b}
    BY <1>1 DEF AddAppend
  <2> HIDE DEF b
  <2>3. First \in allocated' \ dynamic'
    BY <2>1, <2>2 DEF Linked
  <2>4. ASSUME NEW c \in allocated', next'[c] # Null
        PROVE  next'[c] \in allocated' /\ prev'[next'[c]] = c
    <3>1. CASE c = last
      BY <2>1, <2>2, <3>1 DEF TypeOK
    <3>2. CASE c # last /\ c # b
      <4>1. c \in allocated /\ next'[c] = next[c]
        BY <2>2, <3>2 DEF TypeOK
      <4> QED  BY <2>1, <2>2, <2>4, <4>1 DEF TypeOK, Linked
    <3>3. CASE c # last /\ c = b
      BY <2>1, <2>2, <2>4, <3>3 DEF TypeOK
    <3> QED  BY <3>1, <3>2, <3>3
  <2>5. \A c \in dynamic' : prev'[c] # Null
    BY <2>1, <2>2 DEF TypeOK, Linked
  <2> QED  BY <2>3, <2>4, <2>5 DEF Linked
<1>2. ASSUME NEW t \in Dropper, RemoveBucket(t)
      PROVE  Linked'
  <2> DEFINE b == entry[t][1]
  <2>1. b \in dynamic /\ b \in Bucket /\ prev[b] \in Bucket
    BY <1>2 DEF RemoveBucket, Freeing, Linked, TypeOK, Thread
  <2>2. /\ next' = [next EXCEPT ![prev[b]] = next[b], ![b] = Null]
        /\ prev' = [c \in Bucket |->
                      IF c = b THEN Null
                      ELSE IF c = next[b] THEN prev[b] ELSE prev[c]]
        /\ allocated' = allocated \ {b} /\ dynamic' = dynamic \ {b}
    BY <1>2 DEF RemoveBucket, FreeBucket
  <2> HIDE DEF b
  <2>3. First \in allocated' \ dynamic'
    BY <2>1, <2>2 DEF Linked
  <2>4. ASSUME NEW c \in allocated', next'[c] # Null
        PROVE  next'[c] \in allocated' /\ prev'[next'[c]] = c
    <3>1. c \in allocated /\ c # b /\ c \in Bucket /\ b \in allocated
      BY <2>1, <2>2 DEF TypeOK
    <3>2. CASE c = prev[b]
      <4>1. next'[c] = next[b] /\ next[b] # Null
        BY <2>1, <2>2, <2>4, <3>1, <3>2 DEF TypeOK
      <4>2. next[b] \in allocated /\ prev[next[b]] = b
        BY <3>1, <4>1 DEF Linked
      <4>3. next[b] # b
        BY <3>1, <3>2, <4>2
      <4> QED  BY <2>2, <3>2, <4>1, <4>2, <4>3 DEF TypeOK
    <3>3. CASE c # prev[b]
      <4>1. next'[c] = next[c]
        BY <2>2, <3>1, <3>3 DEF TypeOK
      <4>2. next[c] \in allocated /\ prev[next[c]] = c
        BY <2>4, <3>1, <4>1 DEF Linked
      <4>3. next[c] # b
        BY <3>3, <4>2
      <4>4. next[c] # next[b]
        BY <3>1, <4>1, <2>4, <4>2 DEF Linked
      <4> QED  BY <2>2, <4>1, <4>2, <4>3, <4>4 DEF TypeOK
    <3> QED  BY <3>2, <3>3
  <2>5. \A c \in dynamic' : prev'[c] # Null
    BY <2>1, <2>2 DEF TypeOK, Linked
  <2> QED  BY <2>3, <2>4, <2>5 DEF Linked
<1>3. CASE UNCHANGED <<next, prev, allocated, dynamic>>
  BY <1>3 DEF Linked
<1>4. \/ \E t \in Rx : AddAppend(t)
      \/ \E t \in Dropper : RemoveBucket(t)
      \/ UNCHANGED <<next, prev, allocated, dynamic>>
  BY DEF Next, vars, LookupBegin, LookupBucket, Found, AddBegin, AddTest,
         AddClaim, AddUnlock, AddWrite, AddRef, Ref, Deref, RemoveTest, RemoveMark
<1> QED  BY <1>1, <1>2, <1>3, <1>4

-----------------------------------------------------------------------------
(***************************************************************************)
(* The entries                                                             *)
(***************************************************************************)

\* A step of t that leaves the masks, the counts and the buckets alone, and
\* gives t no new entry or bucket to work on.
LEMMA EntriesKept ==
  ASSUME EntryInv, NEW t \in Thread,
         UNCHANGED <<bucketSize, allocated, toFree, dynamic, unused, rc>>,
         \A u \in Thread \ {t} : pc'[u] = pc[u] /\ entry'[u] = entry[u],
         Holds(t)' => Holds(t) /\ entry'[t] = entry[t],
         pc'[t] = "unlink" => pc[t] = "unlink" /\ entry'[t] = entry[t]
  PROVE  EntryInv'
<1>1. \A e : InUse(e)' <=> InUse(e)
  BY DEF InUse, Used, Index, Entry
<1>2. Live'
  BY <1>1 DEF EntryInv, Live
<1>3. \A u \in Thread : Holds(u)' => Holds(u) /\ entry'[u] = entry[u]
  BY DEF Holds
<1>4. Held'
  BY <1>1, <1>3 DEF EntryInv, Held
<1>5. \A u \in Thread : pc'[u] = "unlink" => pc[u] = "unlink" /\ entry'[u] = entry[u]
  OBVIOUS
<1>6. Freeing'
  BY <1>5 DEF EntryInv, Freeing, Index
<1> QED  BY <1>2, <1>4, <1>6 DEF EntryInv

\* ft_add takes an index that was unused: nobody had the entry.
LEMMA ClaimStep ==
  ASSUME IInv, NEW t \in Rx, AddClaim(t), ~(UNCHANGED <<unused, entry>>)
  PROVE  EntryInv'
<1> DEFINE b == cur[t]
           i == Lowest(unused[b])
<1>f. PICK f : f = <<b, i>>
  OBVIOUS
<1>0. TypeOK /\ Live /\ Held /\ Freeing /\ t \in Thread
  BY DEF IInv, EntryInv, Thread
<1>1. /\ HasRoom(b) /\ unused' = [unused EXCEPT ![b] = @ \ {i}]
      /\ entry' = [entry EXCEPT ![t] = f] /\ pc' = [pc EXCEPT ![t] = "init"]
      /\ UNCHANGED <<bucketSize, allocated, toFree, dynamic, rc>>
  BY <1>f DEF AddClaim, Goto, chainVars
<1>2. b \in allocated \ toFree /\ b \in Bucket /\ i \in unused[b] /\ i \in Index
  <2>1. b \in allocated /\ b \in Bucket
    BY <1>0 DEF IInv, Walking, AddClaim, TypeOK
  <2>2. unused[b] \in SUBSET Nat /\ unused[b] \subseteq Index /\ unused[b] # {}
    BY <1>0, <1>1, <2>1, SizeIsPositive DEF TypeOK, HasRoom
  <2> QED  BY <1>1, <2>1, <2>2, LowestIsIn DEF HasRoom
<1>3. f \in Entry /\ ~InUse(f) /\ rc[f] = 0
  <2>1. f \in Entry
    BY <1>f, <1>0, <1>2, IndexIsEntry
  <2>2. ~InUse(f)
    BY <1>f, <1>2 DEF InUse, Used
  <2> QED  BY <1>0, <2>1, <2>2 DEF Live, TypeOK
<1>4. f[1] = b /\ f[2] = i
  BY <1>f
<1> HIDE DEF b, i
<1>5. InUse(f)' /\ \A e : InUse(e) => InUse(e)'
  <2>1. InUse(f)'
    BY <1>0, <1>1, <1>2, <1>3, <1>4 DEF InUse, Used, Index, TypeOK
  <2>2. ASSUME NEW e, InUse(e)
        PROVE  InUse(e)'
    BY <1>0, <1>1, <1>2, <2>2 DEF InUse, Used, Index, TypeOK
  <2> QED  BY <2>1, <2>2
<1>6. Live'
  BY <1>0, <1>1, <1>5 DEF Live, Entry
<1>7. Held'
  <2>1. ASSUME NEW u \in Thread, Holds(u)'
        PROVE  InUse(entry[u])' /\ rc'[entry'[u]] = 0
    <3>1. CASE u = t
      BY <1>0, <1>1, <1>3, <1>5, <3>1 DEF TypeOK, InUse
    <3>2. CASE u # t
      BY <1>0, <1>1, <1>5, <2>1, <3>2 DEF TypeOK, Held, Holds
    <3> QED  BY <3>1, <3>2
  <2>2. ASSUME NEW u \in Thread, NEW v \in Thread, u # v, Holds(u)', Holds(v)'
        PROVE  entry'[u] # entry'[v]
    BY <1>0, <1>1, <1>3, <2>2 DEF TypeOK, Held, Holds
  <2> QED  BY <2>1, <2>2 DEF Held
<1>8. Freeing'
  BY <1>0, <1>1, <1>2 DEF Freeing, TypeOK, Index
<1> QED  BY <1>6, <1>7, <1>8 DEF EntryInv

\* Nor had anybody an entry of a bucket that ft_add appends.
LEMMA AppendStep ==
  ASSUME IInv, NEW t \in Rx, AddAppend(t)
  PROVE  EntryInv'
<1> DEFINE b == Lowest(Bucket \ allocated)
<1>f. PICK f : f = <<b, 0>>
  OBVIOUS
<1>0. TypeOK /\ Live /\ Held /\ Freeing /\ t \in Thread /\ 0 \in Index
  BY SizeIsPositive DEF IInv, EntryInv, Thread
<1>1. /\ allocated' = allocated \cup {b} /\ dynamic' = dynamic \cup {b}
      /\ unused' = [unused EXCEPT ![b] = Index \ {0}]
      /\ rc' = [e \in Entry |-> IF e[1] = b THEN 0 ELSE rc[e]]
      /\ entry' = [entry EXCEPT ![t] = f] /\ pc' = [pc EXCEPT ![t] = "init"]
      /\ UNCHANGED <<bucketSize, toFree>>
  BY <1>f DEF AddAppend, Goto
<1>2. b \in Bucket /\ b \notin allocated /\ f \in Entry
  BY <1>f, <1>0, FreshBucket, IndexIsEntry DEF AddAppend
<1> HIDE DEF b
<1>3. f[1] = b /\ f[2] = 0
  BY <1>f
<1>4. InUse(f)' /\ \A e : InUse(e) => InUse(e)' /\ e[1] # b
  <2>1. InUse(f)'
    BY <1>0, <1>1, <1>2, <1>3 DEF InUse, Used, Index, TypeOK
  <2>2. ASSUME NEW e, InUse(e)
        PROVE  InUse(e)' /\ e[1] # b
    BY <1>0, <1>1, <1>2, <2>2 DEF InUse, Used, Index, TypeOK
  <2> QED  BY <2>1, <2>2
<1>5. Live'
  BY <1>0, <1>1, <1>4 DEF Live, Entry, TypeOK
<1>6. Held'
  <2>1. ASSUME NEW u \in Thread, Holds(u)'
        PROVE  InUse(entry[u])' /\ rc'[entry'[u]] = 0
    <3>1. CASE u = t
      BY <1>0, <1>1, <1>2, <1>3, <1>4, <3>1 DEF TypeOK, InUse
    <3>2. CASE u # t
      <4>1. Holds(u) /\ entry'[u] = entry[u]
        BY <1>0, <1>1, <2>1, <3>2 DEF TypeOK, Holds
      <4>2. InUse(entry[u]) /\ rc[entry[u]] = 0
        BY <1>0, <4>1 DEF Held
      <4> QED  BY <1>1, <1>4, <4>1, <4>2 DEF InUse
    <3> QED  BY <3>1, <3>2
  <2>2. ASSUME NEW u \in Thread, NEW v \in Thread, u # v, Holds(u)', Holds(v)'
        PROVE  entry'[u] # entry'[v]
    <3>1. \A w \in Thread \ {t} : Holds(w)' => Holds(w) /\ entry'[w] = entry[w]
                                               /\ InUse(entry[w])
      BY <1>0, <1>1 DEF TypeOK, Held, Holds
    <3> QED  BY <1>0, <1>1, <1>3, <1>4, <2>2, <3>1 DEF TypeOK, Held
  <2> QED  BY <2>1, <2>2 DEF Held
<1>7. Freeing'
  BY <1>0, <1>1, <1>2 DEF Freeing, TypeOK, Index
<1> QED  BY <1>5, <1>6, <1>7 DEF EntryInv

\* References come and go; the one who drops the last has the entry.
LEMMA CountStep ==
  ASSUME IInv, NEW t \in Thread, NEW e \in Entry,
         \/ t \in Rx /\ e = entry[t] /\ AddRef(t)
         \/ t \in Dropper /\ (Ref(t, e) \/ Deref(t, e))
  PROVE  EntryInv'
<1>0. TypeOK /\ Live /\ Held /\ Freeing
  BY DEF IInv, EntryInv
<1>1. UNCHANGED <<bucketSize, allocated, toFree, dynamic, unused>> /\ InUse(e)
  BY <1>0 DEF AddRef, Ref, Deref, chainVars, Held, Holds, Live
<1>2. \A g : InUse(g)' <=> InUse(g)
  BY <1>1 DEF InUse, Used, Index, Entry
<1>3. /\ \A g \in Entry \ {e} : rc'[g] = rc[g]
      /\ \A u \in Thread \ {t} : pc'[u] = pc[u] /\ entry'[u] = entry[u]
  BY <1>0 DEF AddRef, Ref, Deref, Finish, Goto, threadVars, TypeOK
<1>4. Live'
  BY <1>0, <1>1, <1>2, <1>3 DEF Live, Entry
<1>5. /\ pc'[t] # "unlink" /\ pc[t] # "unlink"
      /\ Holds(t)' => entry'[t] = e /\ rc'[e] = 0
      /\ \A u \in Thread \ {t} : Holds(u) => entry[u] # e
  <2>1. CASE t \in Rx /\ e = entry[t] /\ AddRef(t)
    BY <1>0, <2>1 DEF AddRef, Finish, Goto, TypeOK, Held, Holds
  <2>2. CASE t \in Dropper /\ Ref(t, e)
    BY <1>0, <2>2 DEF Ref, threadVars, TypeOK, Held, Holds
  <2>3. CASE t \in Dropper /\ Deref(t, e)
    BY <1>0, <2>3 DEF Deref, Goto, TypeOK, Held, Holds
  <2> QED  BY <2>1, <2>2, <2>3
<1>6. Held'
  <2>1. ASSUME NEW u \in Thread, Holds(u)'
        PROVE  InUse(entry[u])' /\ rc'[entry'[u]] = 0
    <3>1. CASE u = t
      BY <1>1, <1>2, <1>5, <2>1, <3>1 DEF InUse
    <3>2. CASE u # t
      BY <1>0, <1>2, <1>3, <1>5, <2>1, <3>2 DEF Held, Holds, InUse
    <3> QED  BY <3>1, <3>2
  <2>2. ASSUME NEW u \in Thread, NEW v \in Thread, u # v, Holds(u)', Holds(v)'
        PROVE  entry'[u] # entry'[v]
    BY <1>0, <1>3, <1>5, <2>2 DEF Held, Holds
  <2> QED  BY <2>1, <2>2 DEF Held
<1>7. Freeing'
  BY <1>0, <1>1, <1>3, <1>5 DEF Freeing, Index
<1> QED  BY <1>4, <1>6, <1>7 DEF EntryInv

\* ft_remove gives an entry back that only the thread itself has; the bucket is
\* to be freed if no entry of it is in use.
LEMMA MarkStep ==
  ASSUME IInv, NEW t \in Dropper, RemoveMark(t)
  PROVE  EntryInv'
<1> DEFINE f == entry[t]
           b == f[1]
           i == f[2]
<1>0. TypeOK /\ Live /\ Held /\ Freeing /\ t \in Thread
  BY DEF IInv, EntryInv, Thread
<1>1. /\ unused' = [unused EXCEPT ![b] = @ \cup {i}]
      /\ UNCHANGED <<bucketSize, allocated, dynamic, rc>>
      /\ \A u \in Thread \ {t} : pc'[u] = pc[u] /\ entry'[u] = entry[u]
      /\ ~Holds(t)'
  BY <1>0 DEF RemoveMark, Finish, Goto, Holds, TypeOK
<1>2. \/ /\ b \in dynamic /\ unused'[b] = Index
         /\ toFree' = toFree \cup {b} /\ pc'[t] = "unlink" /\ entry'[t] = f
      \/ toFree' = toFree /\ pc'[t] = "idle"
  BY <1>0 DEF RemoveMark, Finish, Goto, TypeOK
<1>3. Holds(t) /\ InUse(f) /\ rc[f] = 0
  BY <1>0 DEF RemoveMark, Holds, Held
<1>4. b \in allocated \ toFree /\ b \in Bucket /\ f \in Entry
  BY <1>0, <1>3 DEF InUse, TypeOK
<1> HIDE DEF f
<1>5. ASSUME NEW e, e # f, InUse(e)
      PROVE  InUse(e)'
  <2>1. e \in Entry /\ e[1] \in allocated \ toFree /\ e[2] \in Index \ unused[e[1]]
    BY <1>5 DEF InUse, Used
  <2>2. e[1] # b \/ e[2] # i
    BY <1>4, <1>5, <2>1 DEF Entry
  <2>3. e[1] \in Bucket
    BY <1>0, <2>1 DEF TypeOK
  <2>4. e[2] \notin unused'[e[1]]
    BY <1>0, <1>1, <1>4, <2>1, <2>2, <2>3 DEF TypeOK
  <2>5. e[1] \notin toFree'
    BY <1>2, <2>1, <2>4
  <2> QED  BY <1>1, <2>1, <2>4, <2>5 DEF InUse, Used, Index, Entry
<1>6. Live'
  BY <1>0, <1>1, <1>3, <1>5 DEF Live, Entry
<1>7. Held'
  <2>1. ASSUME NEW u \in Thread, Holds(u)'
        PROVE  /\ u # t /\ Holds(u) /\ entry'[u] = entry[u] /\ entry[u] # f
               /\ InUse(entry[u])' /\ rc'[entry'[u]] = 0
    <3>1. u # t /\ Holds(u) /\ entry'[u] = entry[u]
      BY <1>1, <2>1 DEF Holds
    <3>2. entry[u] # f /\ InUse(entry[u]) /\ rc[entry[u]] = 0
      BY <1>0, <1>3, <3>1 DEF Held, f
    <3> QED  BY <1>1, <1>5, <3>1, <3>2 DEF InUse
  <2> QED  BY <1>0, <2>1 DEF Held
<1>8. Freeing'
  <2>1. \A u \in Thread \ {t} : pc[u] = "unlink" => entry[u][1] \in toFree
    BY <1>0 DEF Freeing
  <2>2. ASSUME NEW c \in toFree'
        PROVE  c \in dynamic' /\ unused'[c] = Index'
    <3>1. CASE c \in toFree
      <4>1. c \in dynamic /\ unused[c] = Index /\ c # b /\ c \in Bucket
        BY <1>0, <1>4, <3>1 DEF Freeing, TypeOK
      <4>2. unused'[c] = unused[c]
        BY <1>0, <1>1, <4>1 DEF TypeOK
      <4> QED  BY <1>1, <4>1, <4>2 DEF Index
    <3>2. CASE c \notin toFree
      BY <1>1, <1>2, <2>2, <3>2 DEF Index
    <3> QED  BY <3>1, <3>2
  <2>3. \A u \in Thread : pc'[u] = "unlink" => entry'[u][1] \in toFree'
    BY <1>1, <1>2, <2>1
  <2>4. \A u, v \in Thread : u # v /\ pc'[u] = "unlink" /\ pc'[v] = "unlink"
                               => entry'[u][1] # entry'[v][1]
    <3>1. \A u \in Thread \ {t} : pc'[u] = "unlink"
                                    => entry'[u][1] \in toFree /\ entry'[u][1] # b
      BY <1>1, <1>4, <2>1
    <3>2. pc'[t] = "unlink" => entry'[t][1] = b
      BY <1>2
    <3>3. \A u, v \in Thread \ {t} : u # v /\ pc'[u] = "unlink" /\ pc'[v] = "unlink"
                                      => entry'[u][1] # entry'[v][1]
      BY <1>0, <1>1 DEF Freeing
    <3> QED  BY <3>1, <3>2, <3>3
  <2> QED  BY <2>2, <2>3, <2>4 DEF Freeing
<1> QED  BY <1>6, <1>7, <1>8 DEF EntryInv

\* A bucket is freed that nobody has an entry of, and that nobody else frees.
LEMMA FreeStep ==
  ASSUME IInv, NEW t \in Dropper, RemoveBucket(t)
  PROVE  EntryInv'
<1> DEFINE b == entry[t][1]
<1>0. TypeOK /\ Live /\ Held /\ Freeing /\ t \in Thread
  BY DEF IInv, EntryInv, Thread
<1>1. /\ allocated' = allocated \ {b} /\ dynamic' = dynamic \ {b}
      /\ toFree' = toFree \ {b} /\ unused' = [unused EXCEPT ![b] = Index]
      /\ UNCHANGED <<bucketSize, rc>> /\ pc'[t] = "idle"
      /\ \A u \in Thread \ {t} : pc'[u] = pc[u] /\ entry'[u] = entry[u]
  BY <1>0 DEF RemoveBucket, FreeBucket, Finish, Goto, TypeOK
<1>2. b \in toFree /\ b \in Bucket /\ pc[t] = "unlink"
  BY <1>0 DEF RemoveBucket, Freeing, TypeOK
<1>3. \A u \in Thread \ {t} : pc[u] = "unlink" => entry[u][1] # b
  BY <1>0, <1>2 DEF Freeing
<1> HIDE DEF b
<1>4. \A e : InUse(e) => InUse(e)'
  BY <1>0, <1>1, <1>2 DEF InUse, Used, Index, Entry, TypeOK
<1>5. Live'
  BY <1>0, <1>1, <1>4 DEF Live, Entry
<1>6. Held'
  <2>1. \A u \in Thread : Holds(u)' => Holds(u) /\ entry'[u] = entry[u]
    BY <1>1 DEF Holds
  <2> QED  BY <1>0, <1>1, <1>4, <2>1 DEF Held
<1>7. Freeing'
  <2>1. ASSUME NEW c \in toFree'
        PROVE  c \in dynamic' /\ unused'[c] = Index'
    <3>1. c \in toFree /\ c # b /\ c \in Bucket
      BY <1>0, <1>1, <2>1 DEF TypeOK
    <3> QED  BY <1>0, <1>1, <3>1 DEF Freeing, Index, TypeOK
  <2>2. \A u \in Thread : pc'[u] = "unlink"
          => /\ u # t /\ pc[u] = "unlink" /\ entry'[u] = entry[u]
             /\ entry[u][1] \in toFree /\ entry[u][1] # b
    BY <1>0, <1>1, <1>3 DEF Freeing
  <2> QED  BY <1>0, <1>1, <2>1, <2>2 DEF Freeing
<1> QED  BY <1>5, <1>6, <1>7 DEF EntryInv

\* Every step keeps the entries safe.
LEMMA EntryStep == IInv /\ [Next]_vars => EntryInv'
<1> SUFFICES ASSUME IInv, [Next]_vars
             PROVE  EntryInv'
  OBVIOUS
<1>0. TypeOK /\ EntryInv /\ Held
  BY DEF IInv, EntryInv
<1> USE <1>0 DEF chainVars, entryVars
<1>1. ASSUME NEW t \in Rx,
             \/ \E k \in Key : LookupBegin(t, k)
             \/ LookupBucket(t) \/ Found(t) \/ AddBegin(t) \/ AddTest(t)
             \/ AddUnlock(t) \/ AddWrite(t)
      PROVE  EntryInv'
  <2>1. UNCHANGED <<bucketSize, allocated, toFree, dynamic, unused, rc>>
    BY <1>1 DEF LookupBegin, LookupBucket, Found, AddBegin, AddTest, AddUnlock,
                AddWrite
  <2>2. /\ \A u \in Thread \ {t} : pc'[u] = pc[u] /\ entry'[u] = entry[u]
        /\ Holds(t)' => Holds(t) /\ entry'[t] = entry[t]
        /\ pc'[t] # "unlink"
    BY <1>1 DEF LookupBegin, LookupBucket, Found, AddBegin, AddTest, Advance,
                AddUnlock, AddWrite, Finish, Goto, Holds, TypeOK, Thread
  <2> QED  BY <2>1, <2>2, EntriesKept DEF Thread
<1>2. ASSUME NEW t \in Rx, AddClaim(t)
      PROVE  EntryInv'
  <2>1. CASE UNCHANGED <<unused, entry>>
    <3>1. UNCHANGED <<bucketSize, allocated, toFree, dynamic, unused, rc>>
      BY <1>2, <2>1 DEF AddClaim
    <3>2. Advance(t)
      <4>1. HasRoom(cur[t]) => unused[cur[t]] \in SUBSET Nat
                               /\ cur[t] \in Bucket /\ unused[cur[t]] # {}
        BY <1>2, SizeIsPositive DEF AddClaim, HasRoom, IInv, Walking, TypeOK
      <4>2. HasRoom(cur[t]) => Lowest(unused[cur[t]]) \in unused[cur[t]]
        BY <4>1, LowestIsIn
      <4> QED  BY <1>2, <2>1, <4>1, <4>2 DEF AddClaim, TypeOK
    <3>3. /\ \A u \in Thread \ {t} : pc'[u] = pc[u] /\ entry'[u] = entry[u]
          /\ ~Holds(t)' /\ pc'[t] # "unlink"
      BY <2>1, <3>2 DEF Advance, Goto, Holds, TypeOK, Thread
    <3> QED  BY <3>1, <3>3, EntriesKept DEF Thread
  <2>2. CASE ~(UNCHANGED <<unused, entry>>)
    BY <1>2, <2>2, ClaimStep
  <2> QED  BY <2>1, <2>2
<1>3. ASSUME NEW t \in Rx, AddRef(t)
      PROVE  EntryInv'
  <2>1. entry[t] \in Entry /\ t \in Thread
    BY <1>3 DEF AddRef, Held, Holds, InUse, Thread
  <2> QED  BY <1>3, <2>1, CountStep
<1>4. ASSUME NEW t \in Dropper, RemoveTest(t)
      PROVE  EntryInv'
  <2>1. UNCHANGED <<bucketSize, allocated, toFree, dynamic, unused, rc>>
    BY <1>4 DEF RemoveTest
  <2>2. /\ \A u \in Thread \ {t} : pc'[u] = pc[u] /\ entry'[u] = entry[u]
        /\ Holds(t)' => Holds(t) /\ entry'[t] = entry[t]
        /\ pc'[t] # "unlink"
    BY <1>4 DEF RemoveTest, Finish, Goto, Holds, TypeOK, Thread
  <2> QED  BY <2>1, <2>2, EntriesKept DEF Thread
<1>5. CASE UNCHANGED vars
  <2>1. \A t : Holds(t)' <=> Holds(t)
    BY <1>5 DEF vars, threadVars, Holds
  <2>2. \A e : InUse(e)' <=> InUse(e)
    BY <1>5 DEF vars, InUse, Used, Index, Entry
  <2> QED
    BY <1>5, <2>1, <2>2 DEF vars, threadVars, EntryInv, Live, Held, Freeing, Index
<1> QED
  BY <1>1, <1>2, <1>3, <1>4, <1>5, CountStep, AppendStep, MarkStep, FreeStep
  DEF Next, Thread

-----------------------------------------------------------------------------
\* At the start every entry is unused.
LEMMA InitIInv == Init => IInv
<1> SUFFICES ASSUME Init PROVE IInv
  OBVIOUS
<1>1. bucketSize \in Nat /\ bucketSize >= 1 /\ ChainSize >= 1
  BY TableAssumption DEF Init
<1>2. TypeOK
  BY <1>1, TableAssumption DEF Init, TypeOK, Bucket, Null, First, Max2, Index
<1>3. Walking
  BY DEF Init, Walking, Thread
<1>4. Linked
  BY <1>1, TableAssumption DEF Init, Linked, Bucket, Null, First
<1>5. EntryInv
  BY DEF Init, EntryInv, Live, Held, Holds, Freeing
<1> QED  BY <1>2, <1>3, <1>4, <1>5 DEF IInv

\* The inductive invariant: threads in the chain hold its lock and are in a
\* bucket that exists, links are each other's inverse, and every entry that is
\* referenced or being set up or taken down is in use.
THEOREM Invariance == Spec => []IInv
<1>1. IInv /\ [Next]_vars => IInv'
  BY TypeStep, WalkingStep, LinkedStep, EntryStep DEF IInv
<1> QED  BY InitIInv, <1>1, PTL DEF Spec

\* Every variable has its type: the counts stay in their range, and buckets are
\* freed and found among the allocated ones.
THEOREM TypeCorrect == Spec => []TypeOK
<1>1. IInv => TypeOK
  BY DEF IInv
<1> QED  BY Invariance, <1>1, PTL

\* An entry that ft_add has claimed stays used, in a bucket that nobody frees,
\* and belongs to one thread, for any threads, flows and sizes, although ft_add
\* lets go of the locks before it writes the entry.
THEOREM ClaimsKept == Spec => []ClaimsAreSafe
<1>1. IInv => ClaimsAreSafe
  BY DEF IInv, EntryInv, Held, Holds, InUse, Used, ClaimsAreSafe, Adding, Thread
<1> QED  BY Invariance, <1>1, PTL

-----------------------------------------------------------------------------
(***************************************************************************)
(* What the chain connects: Onward(b) is the least set with b in it that   *)
(* the links do not lead out of.                                           *)
(***************************************************************************)

\* Following a link stays among the buckets onward.
LEMMA OnwardClosed ==
  ASSUME TypeOK, NEW b \in Bucket
  PROVE  /\ b \in Onward(b) /\ Onward(b) \in SUBSET Bucket
         /\ ClosedUnderNext(Onward(b))
<1>1. b \in Onward(b) /\ Onward(b) \in SUBSET Bucket
  BY DEF Onward
<1>2. ASSUME NEW c \in Onward(b), next[c] # Null
      PROVE  next[c] \in Onward(b)
  <2>1. c \in Bucket /\ next[c] \in Bucket
    BY <1>2 DEF Onward, TypeOK
  <2>2. ASSUME NEW S \in SUBSET Bucket, b \in S, ClosedUnderNext(S)
        PROVE  next[c] \in S
    BY <1>2, <2>2 DEF Onward, ClosedUnderNext
  <2> QED  BY <2>1, <2>2 DEF Onward
<1> QED  BY <1>1, <1>2 DEF ClosedUnderNext

\* Nothing else is onward than what every such set has.
LEMMA OnwardLeast ==
  ASSUME NEW b, NEW S \in SUBSET Bucket, b \in S, ClosedUnderNext(S)
  PROVE  Onward(b) \subseteq S
  BY DEF Onward

\* What is onward from a bucket is the bucket, or onward from the next one.
LEMMA OnwardUnfolds ==
  ASSUME TypeOK, NEW b \in Bucket
  PROVE  \A c \in Onward(b) :
           c = b \/ (next[b] # Null /\ c \in Onward(next[b]))
<1> DEFINE S == {b} \cup {c \in Bucket : next[b] # Null /\ c \in Onward(next[b])}
<1>1. S \in SUBSET Bucket /\ b \in S
  OBVIOUS
<1>2. ASSUME NEW c \in S, next[c] # Null
      PROVE  next[c] \in S
  <2>1. CASE c = b
    <3>1. next[b] \in Bucket /\ next[b] \in Onward(next[b])
      BY <1>2, <2>1, OnwardClosed DEF TypeOK
    <3> QED  BY <1>2, <2>1, <3>1
  <2>2. CASE c # b
    <3>1. next[b] \in Bucket /\ c \in Onward(next[b]) /\ c \in Bucket
      BY <1>2, <2>2 DEF TypeOK
    <3>2. next[c] \in Onward(next[b]) /\ next[c] \in Bucket
      BY <1>2, <3>1, OnwardClosed DEF ClosedUnderNext
    <3> QED  BY <2>2, <1>2, <3>2
  <2> QED  BY <2>1, <2>2
<1>3. Onward(b) \subseteq S
  BY <1>1, <1>2, OnwardLeast DEF ClosedUnderNext
<1> QED  BY <1>3

\* As long as no link changes, neither does what is onward.
LEMMA OnwardKept ==
  ASSUME next' = next, NEW b
  PROVE  Onward(b)' = Onward(b)
  BY DEF Onward, ClosedUnderNext, Bucket

-----------------------------------------------------------------------------
(***************************************************************************)
(* Walkers                                                                 *)
(***************************************************************************)

\* While a thread walks, the links stay as they are: only ft_add and ft_remove
\* change them, with the chain's lock for themselves.
LEMMA LinksKept ==
  ASSUME [Next]_vars, readers # {}
  PROVE  next' = next
<1>1. \/ \E t \in Rx : AddAppend(t)
      \/ \E t \in Dropper : RemoveBucket(t)
      \/ next' = next
  BY DEF Next, vars, chainVars, LookupBegin, LookupBucket, Found, AddBegin,
         AddTest, AddClaim, AddUnlock, AddWrite, AddRef, Ref, Deref, RemoveTest,
         RemoveMark
<1>2. \A t \in Rx : ~AddAppend(t)
  BY DEF AddAppend, WriteLock
<1>3. \A t \in Dropper : ~RemoveBucket(t)
  BY DEF RemoveBucket
<1> QED  BY <1>1, <1>2, <1>3

Walks(t) == pc[t] \in {"lookup", "test", "claim"}

\* A thread gets to a bucket from the chain's start, or from the bucket before.
LEMMA WalkerMoves ==
  ASSUME TypeOK, [Next]_vars, NEW t \in Rx, Walks(t)'
  PROVE  \/ cur'[t] = First
         \/ Walks(t) /\ cur'[t] = cur[t]
         \/ Walks(t) /\ next[cur[t]] # Null /\ cur'[t] = next[cur[t]]
<1> USE DEF Walks, TypeOK, Thread, Goto
<1>1. ASSUME NEW u \in Rx, u # t,
             \/ \E k \in Key : LookupBegin(u, k)
             \/ LookupBucket(u) \/ Found(u) \/ AddBegin(u) \/ AddTest(u)
             \/ AddClaim(u) \/ AddAppend(u) \/ AddUnlock(u) \/ AddWrite(u)
             \/ AddRef(u)
      PROVE  pc'[t] = pc[t] /\ cur'[t] = cur[t]
  BY <1>1 DEF LookupBegin, LookupBucket, Found, AddBegin, AddTest, AddClaim,
     AddAppend, AddUnlock, AddWrite, AddRef, Advance, Finish
<1>2. ASSUME NEW u \in Dropper,
             \/ \E e \in Entry : Ref(u, e) \/ Deref(u, e)
             \/ RemoveTest(u) \/ RemoveMark(u) \/ RemoveBucket(u)
      PROVE  pc'[t] = pc[t] /\ cur'[t] = cur[t]
  <2>1. u # t
    BY TableAssumption
  <2> QED
    BY <1>2, <2>1 DEF Ref, Deref, RemoveTest, RemoveMark, RemoveBucket, FreeBucket,
                      Finish, threadVars
<1>3. CASE (\E k \in Key : LookupBegin(t, k)) \/ AddBegin(t)
  BY <1>3 DEF LookupBegin, AddBegin
<1>4. CASE LookupBucket(t)
  BY <1>4 DEF LookupBucket
<1>5. CASE AddTest(t) \/ AddClaim(t)
  BY <1>5 DEF AddTest, AddClaim, Advance
<1>6. CASE Found(t) \/ AddAppend(t) \/ AddUnlock(t) \/ AddWrite(t) \/ AddRef(t)
  BY <1>6 DEF Found, AddAppend, AddUnlock, AddWrite, AddRef, Finish
<1>7. CASE UNCHANGED vars
  BY <1>7 DEF vars, threadVars
<1> QED  BY <1>1, <1>2, <1>3, <1>4, <1>5, <1>6, <1>7 DEF Next

\* A walker is in the chain: it starts there, follows the links, and they do
\* not change under it.
LEMMA WalkersStep == IInv /\ WalkersStayInChain /\ [Next]_vars => WalkersStayInChain'
<1> SUFFICES ASSUME IInv, WalkersStayInChain, [Next]_vars,
                    NEW t \in Rx, Walks(t)'
             PROVE  cur'[t] \in Chain'
  BY DEF WalkersStayInChain, Walks
<1>1. TypeOK /\ TypeOK' /\ Walking'
  BY TypeStep, WalkingStep DEF IInv
<1>2. First \in Bucket
  BY <1>1, TableAssumption DEF First, Bucket, TypeOK
<1>3. CASE cur'[t] = First
  BY <1>2, <1>3 DEF Chain, Onward, First, Bucket
<1>4. CASE Walks(t)
  <2>1. cur[t] \in Chain /\ next' = next
    BY <1>4, LinksKept DEF IInv, Walking, WalkersStayInChain, Walks
  <2>2. Chain' = Chain
    BY <2>1, OnwardKept DEF Chain, First
  <2>3. \/ cur'[t] = First
        \/ cur'[t] = cur[t]
        \/ next[cur[t]] # Null /\ cur'[t] = next[cur[t]]
    BY <1>1, WalkerMoves
  <2> QED  BY <1>1, <1>2, <2>1, <2>2, <2>3, OnwardClosed DEF Chain, ClosedUnderNext
<1> QED  BY <1>1, <1>3, <1>4, WalkerMoves

\* ft_remove never frees a bucket that a thread is in, whatever the threads,
\* the flows and the sizes.
THEOREM WalkersKept == Spec => []TableInv
<1>1. Init => WalkersStayInChain
  BY DEF Init, WalkersStayInChain, Thread
<1>2. (IInv /\ WalkersStayInChain) /\ [Next]_vars => (IInv /\ WalkersStayInChain)'
  BY TypeStep, WalkingStep, LinkedStep, EntryStep, WalkersStep DEF IInv
<1>3. IInv /\ WalkersStayInChain => TableInv
  BY DEF IInv, TableInv
<1> QED  BY <1>1, <1>2, <1>3, InitIInv, PTL DEF Spec

-----------------------------------------------------------------------------
(***************************************************************************)
(* Reachability, for chains that start with one bucket (the default; with  *)
(* more, ft_init leaves chain->last where the first append cuts one off)   *)
(***************************************************************************)

\* chain->last is the end of the chain, following the inverse of a link leads
\* back, and every bucket is met from the first one.
Connected ==
  /\ last \in allocated /\ next[last] = Null
  /\ \A b \in dynamic : prev[b] \in allocated /\ next[prev[b]] = b
  /\ allocated \subseteq Chain

\* ft_add appends behind the end, so what was met before still is.
LEMMA AppendConnects ==
  ASSUME IInv, Connected, NEW t \in Rx, AddAppend(t)
  PROVE  Connected'
<1> DEFINE b == Lowest(Bucket \ allocated)
<1>0. TypeOK /\ Linked /\ Null \notin Bucket /\ First \in Bucket
  BY DEF IInv, TypeOK, Linked, Bucket, Null
<1>1. b \in Bucket /\ b \notin allocated
  BY <1>0, FreshBucket DEF AddAppend
<1>2. /\ next' = [next EXCEPT ![b] = Null, ![last] = b]
      /\ prev' = [prev EXCEPT ![b] = last] /\ last' = b
      /\ allocated' = allocated \cup {b} /\ dynamic' = dynamic \cup {b}
  BY DEF AddAppend
<1> HIDE DEF b
<1>3. last # b /\ next'[last] = b /\ next'[b] = Null
      /\ \A c \in allocated \ {last} : next'[c] = next[c]
  BY <1>0, <1>1, <1>2 DEF Connected, TypeOK
<1>4. \A c \in dynamic' : prev'[c] \in allocated' /\ next'[prev'[c]] = c
  <2> SUFFICES ASSUME NEW c \in dynamic'
               PROVE  prev'[c] \in allocated' /\ next'[prev'[c]] = c
    OBVIOUS
  <2>1. CASE c = b
    BY <1>0, <1>1, <1>2, <1>3, <2>1 DEF Connected, TypeOK
  <2>2. CASE c # b
    <3>1. c \in dynamic /\ prev'[c] = prev[c]
      BY <1>0, <1>2, <2>2 DEF TypeOK
    <3>2. prev[c] \in allocated /\ next[prev[c]] = c /\ c # Null
      BY <1>0, <3>1 DEF Connected, TypeOK
    <3>3. prev[c] # last
      BY <3>2 DEF Connected
    <3>4. next'[prev[c]] = c /\ allocated' = allocated \cup {b}
      BY <1>2, <1>3, <3>2, <3>3
    <3> QED  BY <3>1, <3>2, <3>4
  <2> QED  BY <2>1, <2>2
<1>5. ASSUME NEW S \in SUBSET Bucket, First \in S,
             \A c \in S : next'[c] # Null => next'[c] \in S
      PROVE  allocated' \subseteq S
  <2>1. First \in S \cap allocated /\ S \cap allocated \in SUBSET Bucket
    BY <1>0, <1>5 DEF Linked
  <2>2. ClosedUnderNext(S \cap allocated)
    <3> SUFFICES ASSUME NEW c \in S \cap allocated, next[c] # Null
                 PROVE  next[c] \in S \cap allocated
      BY DEF ClosedUnderNext
    <3>1. c # last
      BY DEF Connected
    <3> QED  BY <1>0, <1>3, <1>5, <3>1 DEF Linked
  <2>3. allocated \subseteq S
    BY <2>1, <2>2, OnwardLeast DEF Connected, Chain
  <2>4. b \in S
    BY <1>0, <1>1, <1>3, <1>5, <2>3 DEF Connected
  <2> QED  BY <1>2, <2>3, <2>4
<1>6. allocated' \subseteq Chain'
  BY <1>0, <1>1, <1>2, <1>5 DEF Chain, Onward, ClosedUnderNext, Bucket, First, TypeOK
<1> QED  BY <1>2, <1>3, <1>4, <1>6 DEF Connected

\* ft_remove links the bucket before the freed one to the one behind it.
LEMMA RemoveConnects ==
  ASSUME IInv, Connected, NEW t \in Dropper, RemoveBucket(t)
  PROVE  Connected'
<1> DEFINE b == entry[t][1]
<1>0. TypeOK /\ Linked /\ Freeing /\ Null \notin Bucket
  BY DEF IInv, EntryInv, Bucket, Null
<1>1. b \in dynamic /\ b \in allocated /\ b \in Bucket
  BY <1>0 DEF RemoveBucket, Freeing, TypeOK, Thread
<1>2. /\ last' = (IF last = b THEN prev[b] ELSE last)
      /\ next' = [next EXCEPT ![prev[b]] = next[b], ![b] = Null]
      /\ prev' = [c \in Bucket |->
                    IF c = b THEN Null
                    ELSE IF c = next[b] THEN prev[b] ELSE prev[c]]
      /\ allocated' = allocated \ {b} /\ dynamic' = dynamic \ {b}
  BY DEF RemoveBucket, FreeBucket, NewLast
<1> HIDE DEF b
<1>3. PICK p : p = prev[b]
  OBVIOUS
<1>4. p \in allocated /\ p \in Bucket /\ next[p] = b
  BY <1>0, <1>1, <1>3 DEF Connected, TypeOK
<1>5. b # p
  <2> SUFFICES ASSUME b = p PROVE FALSE
    OBVIOUS
  <2>1. First \in allocated \ {b} /\ allocated \ {b} \in SUBSET Bucket
    BY <1>0, <1>1 DEF Linked, TypeOK
  <2>2. ClosedUnderNext(allocated \ {b})
    <3> SUFFICES ASSUME NEW c \in allocated \ {b}, next[c] # Null
                 PROVE  next[c] # b /\ next[c] \in allocated
      BY DEF ClosedUnderNext
    <3> QED  BY <1>0, <1>3 DEF Linked
  <2> QED  BY <2>1, <2>2, <1>1, OnwardLeast DEF Connected, Chain
<1>6. next'[p] = next[b] /\ \A c \in allocated \ {p, b} : next'[c] = next[c]
  BY <1>0, <1>2, <1>3, <1>4, <1>5 DEF TypeOK
<1>7. last' \in allocated' /\ next'[last'] = Null
  <2>1. CASE last = b
    BY <1>2, <1>3, <1>4, <1>5, <1>6, <2>1 DEF Connected
  <2>2. CASE last # b
    <3>1. last # p
      BY <1>0, <1>1, <1>4 DEF Connected
    <3> QED  BY <1>2, <1>6, <2>2, <3>1 DEF Connected
  <2> QED  BY <2>1, <2>2
<1>8. \A c \in dynamic' : prev'[c] \in allocated' /\ next'[prev'[c]] = c
  <2> SUFFICES ASSUME NEW c \in dynamic'
               PROVE  prev'[c] \in allocated' /\ next'[prev'[c]] = c
    OBVIOUS
  <2>1. c \in dynamic /\ c # b /\ c \in Bucket
    BY <1>0, <1>2 DEF TypeOK
  <2>2. CASE c = next[b]
    BY <1>2, <1>3, <1>4, <1>5, <1>6, <2>1, <2>2
  <2>3. CASE c # next[b]
    <3>1. prev'[c] = prev[c] /\ prev[c] \in allocated /\ next[prev[c]] = c
      BY <1>2, <2>1, <2>3 DEF Connected
    <3>2. prev[c] # b /\ prev[c] # p
      BY <1>4, <2>1, <2>3, <3>1
    <3>3. prev[c] \in allocated \ {p, b}
      BY <3>1, <3>2
    <3>4. next'[prev[c]] = c /\ allocated' = allocated \ {b}
      BY <1>2, <1>6, <3>1, <3>3
    <3> QED  BY <3>1, <3>3, <3>4
  <2> QED  BY <2>2, <2>3
<1>9. ASSUME NEW S \in SUBSET Bucket, First \in S,
             \A c \in S : next'[c] # Null => next'[c] \in S
      PROVE  allocated' \subseteq S
  <2> DEFINE R == {c \in Bucket : IF c = b THEN p \in S ELSE c \in S}
  <2>1. First \in R /\ R \in SUBSET Bucket
    BY <1>0, <1>1, <1>9 DEF Linked
  <2>2. ASSUME NEW c \in R \cap allocated, next[c] # Null
        PROVE  next[c] \in R \cap allocated
    <3>1. next[c] \in allocated /\ prev[next[c]] = c /\ next[c] \in Bucket
      BY <1>0, <2>2 DEF Linked, TypeOK
    <3>2. CASE c = b
      <4>1. p \in S /\ next[b] # b /\ next'[p] = next[b]
        BY <1>3, <1>5, <1>6, <2>2, <3>1, <3>2
      <4> QED  BY <1>9, <2>2, <3>1, <3>2, <4>1
    <3>3. CASE c = p
      BY <1>1, <1>4, <1>5, <2>2, <3>3
    <3>4. CASE c # b /\ c # p
      <4>1. next'[c] = next[c] /\ next[c] # b /\ c \in S
        BY <1>3, <1>6, <2>2, <3>1, <3>4
      <4> QED  BY <1>9, <2>2, <3>1, <4>1
    <3> QED  BY <3>2, <3>3, <3>4
  <2>3. First \in R \cap allocated /\ R \cap allocated \in SUBSET Bucket
    BY <1>0, <2>1 DEF Linked
  <2>4. allocated \subseteq R
    <3> HIDE DEF R
    <3>1. ClosedUnderNext(R \cap allocated)
      BY <2>2 DEF ClosedUnderNext
    <3> QED  BY <2>3, <3>1, OnwardLeast DEF Connected, Chain
  <2> QED  BY <1>2, <2>4
<1>10. allocated' \subseteq Chain'
  BY <1>0, <1>2, <1>9 DEF Chain, Onward, ClosedUnderNext, Bucket, First, TypeOK
<1> QED  BY <1>7, <1>8, <1>10 DEF Connected

\* All other steps leave the buckets and links alone.
LEMMA ConnectedStep == IInv /\ Connected /\ [Next]_vars => Connected'
<1> SUFFICES ASSUME IInv, Connected, [Next]_vars
             PROVE  Connected'
  OBVIOUS
<1>1. \/ \E t \in Rx : AddAppend(t)
      \/ \E t \in Dropper : RemoveBucket(t)
      \/ UNCHANGED <<next, prev, last, allocated, dynamic>>
  BY DEF Next, vars, chainVars, LookupBegin, LookupBucket, Found, AddBegin,
         AddTest, AddClaim, AddUnlock, AddWrite, AddRef, Ref, Deref, RemoveTest,
         RemoveMark
<1>2. CASE UNCHANGED <<next, prev, last, allocated, dynamic>>
  <2>1. Chain' = Chain
    BY <1>2, OnwardKept DEF Chain, First
  <2> QED  BY <1>2, <2>1 DEF Connected
<1> QED  BY <1>1, <1>2, AppendConnects, RemoveConnects

LEMMA InitConnected ==
  ASSUME ChainSize = 1, Init
  PROVE  Connected
<1>1. TypeOK /\ First \in Bucket
  BY InitIInv DEF IInv, Linked, TypeOK
<1>2. allocated = {First} /\ last = First /\ next[First] = Null /\ dynamic = {}
  BY <1>1 DEF Init, First, Max2, Bucket
<1> QED  BY <1>1, <1>2, OnwardClosed DEF Connected, Chain

\* As long as chains start with one bucket, every bucket is on the chain from
\* its first one, so that lookups meet every entry somebody has a reference to.
THEOREM LiveEntriesFound ==
  ASSUME ChainSize = 1
  PROVE  Spec => []LiveEntriesReachable
<1>1. Init => IInv /\ Connected
  BY InitIInv, InitConnected
<1>2. (IInv /\ Connected) /\ [Next]_vars => (IInv /\ Connected)'
  BY TypeStep, WalkingStep, LinkedStep, EntryStep, ConnectedStep DEF IInv
<1>3. IInv /\ Connected => LiveEntriesReachable
  BY DEF IInv, EntryInv, Live, InUse, Used, Connected, LiveEntriesReachable
<1> QED  BY <1>1, <1>2, <1>3, PTL DEF Spec

\* What is met from the first bucket are the buckets that exist.
LEMMA ChainIsAllocated ==
  ASSUME IInv, Connected
  PROVE  Chain = allocated
<1>1. allocated \in SUBSET Bucket /\ First \in allocated /\ ClosedUnderNext(allocated)
  BY DEF IInv, TypeOK, Linked, ClosedUnderNext
<1> QED  BY <1>1, OnwardLeast DEF Chain, Connected

\* A bucket that ft_add appends leaves the others where they were, as long as
\* chains start with one bucket.
THEOREM AppendsLast ==
  ASSUME ChainSize = 1
  PROVE  Spec => AppendsToEnd
<1>1. Init => IInv /\ Connected
  BY InitIInv, InitConnected
<1>2. (IInv /\ Connected) /\ [Next]_vars => (IInv /\ Connected)'
  BY TypeStep, WalkingStep, LinkedStep, EntryStep, ConnectedStep DEF IInv
<1>3. IInv /\ Connected => Chain = allocated
  BY ChainIsAllocated
<1>4. Chain = allocated /\ (Chain = allocated)'
        => [\A b \in Bucket \ allocated : allocated' = allocated \cup {b}
              => Chain \subseteq Chain']_vars
  OBVIOUS
<1> QED  BY <1>1, <1>2, <1>3, <1>4, PTL DEF Spec, AppendsToEnd

-----------------------------------------------------------------------------
(***************************************************************************)
(* One entry per flow                                                      *)
(***************************************************************************)

\* No entry that counts is of flow k.
Missing(k) == \A e \in Entry : rc[e] > 0 => key[e] # k

AddSteps == {"missing", "test", "claim", "append", "init", "write", "ref"}

\* The rx thread of a stream works on flows of that stream only; what it still
\* seeks is ahead of it, what it adds is nowhere, and what it has written is
\* the flow it adds.
OwnStream ==
  \A t \in Rx : pc[t] \in AddSteps \cup {"lookup"}
                  => arg[t] \in Key /\ StreamOf[arg[t]] = t
SoughtAhead ==
  \A t \in Rx : pc[t] = "lookup" =>
    \A e \in Entry : rc[e] > 0 /\ key[e] = arg[t] => e[1] \in Onward(cur[t])
AddedIsMissing == \A t \in Rx : pc[t] \in AddSteps => Missing(arg[t])
WrittenIsAdded == \A t \in Rx : pc[t] = "ref" => key[entry[t]] = arg[t]

FlowInv ==
  OwnStream /\ SoughtAhead /\ AddedIsMissing /\ WrittenIsAdded /\ OneEntryPerFlow

\* An entry gets its first reference from ft_add alone; all other steps leave
\* the flow of an entry with references what it was.
LEMMA LiveKept ==
  ASSUME IInv, [Next]_vars, \A t \in Rx : ~AddRef(t)
  PROVE  \A e \in Entry : rc'[e] > 0 => rc[e] > 0 /\ key'[e] = key[e]
<1>0. TypeOK /\ Live /\ Held
  BY DEF IInv, EntryInv
<1>1. ASSUME NEW t \in Rx, AddAppend(t)
      PROVE  \A e \in Entry : rc'[e] > 0 => rc[e] > 0 /\ key'[e] = key[e]
  <2>1. PICK b : /\ key' = [e \in Entry |-> IF e[1] = b THEN NoKey ELSE key[e]]
                 /\ rc' = [e \in Entry |-> IF e[1] = b THEN 0 ELSE rc[e]]
    BY <1>1 DEF AddAppend
  <2> QED  BY <2>1
<1>2. ASSUME NEW t \in Rx, AddWrite(t)
      PROVE  \A e \in Entry : rc'[e] > 0 => rc[e] > 0 /\ key'[e] = key[e]
  <2>1. rc[entry[t]] = 0
    BY <1>0, <1>2 DEF AddWrite, Held, Holds, Thread
  <2> QED  BY <1>0, <1>2, <2>1 DEF AddWrite, TypeOK
<1>3. ASSUME NEW t \in Dropper, NEW d \in Entry, Ref(t, d) \/ Deref(t, d)
      PROVE  \A e \in Entry : rc'[e] > 0 => rc[e] > 0 /\ key'[e] = key[e]
  <2>1. rc[d] > 0 /\ key' = key
    BY <1>0, <1>3 DEF Ref, Deref, TypeOK
  <2>2. \A e \in Entry : e # d => rc'[e] = rc[e]
    BY <1>0, <1>3 DEF Ref, Deref, TypeOK
  <2> QED  BY <2>1, <2>2
<1>4. CASE UNCHANGED <<key, rc>>
  BY <1>4
<1>5. \/ \E t \in Rx : AddAppend(t) \/ AddWrite(t)
      \/ \E t \in Dropper, d \in Entry : Ref(t, d) \/ Deref(t, d)
      \/ UNCHANGED <<key, rc>>
  BY DEF Next, vars, entryVars, LookupBegin, LookupBucket, Found, AddBegin,
         AddTest, AddClaim, AddUnlock, RemoveTest, RemoveMark, RemoveBucket,
         FreeBucket
<1> QED  BY <1>1, <1>2, <1>3, <1>4, <1>5

\* How an rx thread comes to work on a flow: it takes one of its stream up, or
\* it goes on with the one it has; it gives up seeking only after the last
\* bucket.
LEMMA RxMoves ==
  ASSUME TypeOK, [Next]_vars, NEW t \in Rx, pc'[t] \in AddSteps \cup {"lookup"}
  PROVE  \/ /\ pc'[t] = "lookup" /\ cur'[t] = First /\ UNCHANGED <<key, rc, next>>
            /\ arg'[t] \in Key /\ StreamOf[arg'[t]] = t
         \/ /\ arg'[t] = arg[t] /\ pc[t] \in AddSteps \cup {"lookup"}
            /\ pc'[t] = "lookup" => pc[t] = "lookup"
            /\ pc'[t] # "lookup" /\ pc[t] = "lookup"
                 => Matches(cur[t], arg[t]) = {} /\ next[cur[t]] = Null
            /\ pc'[t] = "lookup" /\ cur'[t] # cur[t]
                 => /\ Matches(cur[t], arg[t]) = {} /\ next[cur[t]] # Null
                    /\ cur'[t] = next[cur[t]]
            /\ pc'[t] = "ref" => entry'[t] = entry[t]
            /\ pc'[t] = "ref" /\ pc[t] # "ref" => AddWrite(t)
<1> USE DEF TypeOK, Thread, Goto, AddSteps
<1> DEFINE Same == /\ pc'[t] = pc[t] /\ cur'[t] = cur[t] /\ arg'[t] = arg[t]
                   /\ entry'[t] = entry[t]
<1>1. ASSUME NEW u \in Rx, u # t,
             \/ \E k \in Key : LookupBegin(u, k)
             \/ LookupBucket(u) \/ Found(u) \/ AddBegin(u) \/ AddTest(u)
             \/ AddClaim(u) \/ AddAppend(u) \/ AddUnlock(u) \/ AddWrite(u)
             \/ AddRef(u)
      PROVE  Same
  BY <1>1 DEF LookupBegin, LookupBucket, Found, AddBegin, AddTest, AddClaim,
     AddAppend, AddUnlock, AddWrite, AddRef, Advance, Finish
<1>2. ASSUME NEW u \in Dropper,
             \/ \E e \in Entry : Ref(u, e) \/ Deref(u, e)
             \/ RemoveTest(u) \/ RemoveMark(u) \/ RemoveBucket(u)
      PROVE  Same
  <2>1. u # t
    BY TableAssumption
  <2> QED
    BY <1>2, <2>1 DEF Ref, Deref, RemoveTest, RemoveMark, RemoveBucket, FreeBucket,
                      Finish, threadVars
<1>3. ASSUME UNCHANGED vars
      PROVE  Same
  BY <1>3 DEF vars, threadVars
<1>4. CASE \E k \in Key : StreamOf[k] = t /\ LookupBegin(t, k)
  <2>1. PICK k \in Key : StreamOf[k] = t /\ LookupBegin(t, k)
    BY <1>4
  <2>2. pc'[t] = "lookup" /\ cur'[t] = First /\ arg'[t] = k
    BY <2>1 DEF LookupBegin
  <2>3. UNCHANGED <<key, rc, next>>
    BY <2>1 DEF LookupBegin, chainVars, entryVars
  <2> QED  BY <2>1, <2>2, <2>3
<1>5. CASE LookupBucket(t)
  BY <1>5 DEF LookupBucket
<1>6. CASE AddBegin(t) \/ AddTest(t) \/ AddClaim(t)
  BY <1>6 DEF AddBegin, AddTest, AddClaim, Advance
<1>7. CASE AddAppend(t) \/ AddUnlock(t) \/ AddWrite(t)
  BY <1>7 DEF AddAppend, AddUnlock, AddWrite
<1>8. CASE Found(t) \/ AddRef(t)
  BY <1>8 DEF Found, AddRef, Finish
<1>9. \/ \E k \in Key : StreamOf[k] = t /\ LookupBegin(t, k)
      \/ LookupBucket(t)
      \/ AddBegin(t) \/ AddTest(t) \/ AddClaim(t)
      \/ AddAppend(t) \/ AddUnlock(t) \/ AddWrite(t)
      \/ Found(t) \/ AddRef(t)
      \/ Same
  <2> HIDE DEF Same
  <2>1. ASSUME NEW u \in Rx,
               \/ \E k \in Key : StreamOf[k] = u /\ LookupBegin(u, k)
               \/ LookupBucket(u) \/ Found(u) \/ AddBegin(u) \/ AddTest(u)
               \/ AddClaim(u) \/ AddAppend(u) \/ AddUnlock(u) \/ AddWrite(u)
               \/ AddRef(u)
        PROVE  u = t \/ Same
    BY <1>1, <2>1
  <2>2. CASE \E u \in Rx :
               \/ \E k \in Key : StreamOf[k] = u /\ LookupBegin(u, k)
               \/ LookupBucket(u) \/ Found(u) \/ AddBegin(u) \/ AddTest(u)
               \/ AddClaim(u) \/ AddAppend(u) \/ AddUnlock(u) \/ AddWrite(u)
               \/ AddRef(u)
    BY <2>1, <2>2, Zenon
  <2>3. CASE \E u \in Dropper :
               \/ \E e \in Entry : Ref(u, e) \/ Deref(u, e)
               \/ RemoveTest(u) \/ RemoveMark(u) \/ RemoveBucket(u)
    BY <1>2, <2>3, Zenon
  <2> QED  BY <1>3, <2>2, <2>3, Zenon DEF Next
<1>10. CASE Same
  BY <1>10
<1> QED  BY <1>4, <1>5, <1>6, <1>7, <1>8, <1>9, <1>10

\* A flow that is nowhere stays so, unless its own stream's thread adds it.
LEMMA MissingKept ==
  ASSUME IInv, [Next]_vars, NEW k, Missing(k),
         \A t \in Rx : AddRef(t) => key[entry[t]] # k
  PROVE  Missing(k)'
<1>1. CASE \A t \in Rx : ~AddRef(t)
  BY <1>1, LiveKept DEF Missing, Entry
<1>2. ASSUME NEW t \in Rx, AddRef(t)
      PROVE  Missing(k)'
  <2>1. key' = key /\ rc' = [rc EXCEPT ![entry[t]] = @ + 1] /\ key[entry[t]] # k
    BY <1>2 DEF AddRef
  <2>2. \A e \in Entry : e # entry[t] => rc'[e] = rc[e]
    BY <2>1 DEF IInv, TypeOK
  <2> QED  BY <2>1, <2>2 DEF Missing, Entry
<1> QED  BY <1>1, <1>2

\* If the lookup has found nothing in its bucket, no entry of the flow is there.
LEMMA NotInBucket ==
  ASSUME IInv, NEW b, NEW k, Matches(b, k) = {}
  PROVE  \A e \in Entry : rc[e] > 0 /\ key[e] = k => e[1] # b
<1> SUFFICES ASSUME NEW e \in Entry, rc[e] > 0, key[e] = k, e[1] = b
             PROVE  FALSE
  OBVIOUS
<1>1. e[2] \in Used(b)
  BY DEF IInv, EntryInv, Live, InUse
<1>2. e = <<b, e[2]>>
  BY DEF Entry
<1> QED  BY <1>1, <1>2 DEF Matches

\* What an rx thread seeks is found or is nowhere; then it is added once.
LEMMA FlowStep ==
  IInv /\ Connected /\ FlowInv /\ [Next]_vars => FlowInv'
<1> SUFFICES ASSUME IInv, Connected, FlowInv, [Next]_vars
             PROVE  FlowInv'
  OBVIOUS
<1>0. /\ TypeOK /\ Live /\ Held /\ Walking
      /\ OwnStream /\ SoughtAhead /\ AddedIsMissing /\ WrittenIsAdded
  BY DEF IInv, EntryInv, FlowInv
<1>1. OwnStream'
  BY <1>0, RxMoves DEF OwnStream
<1>2. \* the one who adds flow k is the thread of its stream
      \A t, u \in Rx : /\ pc[t] \in AddSteps \cup {"lookup"} /\ t # u
                       => /\ AddRef(u) => key[entry[u]] # arg[t]
  BY <1>0 DEF OwnStream, WrittenIsAdded, AddRef, AddSteps
<1>3. ASSUME NEW t \in Rx, pc'[t] \in AddSteps
      PROVE  Missing(arg[t])' /\ arg'[t] = arg[t]
  <2>1. /\ arg'[t] = arg[t] /\ pc[t] \in AddSteps \cup {"lookup"}
        /\ pc[t] = "lookup" => Matches(cur[t], arg[t]) = {} /\ next[cur[t]] = Null
    BY <1>0, <1>3, RxMoves DEF AddSteps
  <2>2. Missing(arg[t])
    <3>1. CASE pc[t] = "lookup"
      <4>1. \A e \in Entry : rc[e] > 0 /\ key[e] = arg[t]
                               => e[1] # cur[t] /\ e[1] \in Onward(cur[t])
        BY <1>0, <2>1, <3>1, NotInBucket DEF SoughtAhead
      <4>2. cur[t] \in Bucket
        BY <1>0, <3>1 DEF Walking, TypeOK
      <4> QED  BY <1>0, <2>1, <3>1, <4>1, <4>2, OnwardUnfolds DEF Missing
    <3>2. CASE pc[t] # "lookup"
      BY <1>0, <2>1, <3>2 DEF AddedIsMissing
    <3> QED  BY <3>1, <3>2
  <2>3. \A u \in Rx : AddRef(u) => key[entry[u]] # arg[t]
    <3>1. ~AddRef(t)
      BY <1>0, <1>3 DEF AddRef, Finish, Goto, AddSteps, TypeOK, Thread
    <3> QED  BY <1>2, <2>1, <3>1
  <2> QED  BY <2>1, <2>2, <2>3, MissingKept
<1>4. AddedIsMissing'
  BY <1>3 DEF AddedIsMissing, Missing, Entry
<1>5. SoughtAhead'
  <2> SUFFICES ASSUME NEW t \in Rx, pc'[t] = "lookup",
                      NEW e \in Entry, rc'[e] > 0, key'[e] = arg'[t]
               PROVE  e[1] \in Onward(cur[t])'
    BY DEF SoughtAhead, Entry
  <2>1. CASE /\ cur'[t] = First /\ UNCHANGED <<key, rc, next>>
    <3>1. e[1] \in Onward(First)
      BY <1>0, <2>1 DEF Live, InUse, Connected, Chain
    <3> QED  BY <2>1, <3>1, OnwardKept DEF First
  <2>2. CASE /\ arg'[t] = arg[t] /\ pc[t] = "lookup"
             /\ cur'[t] # cur[t]
                  => /\ Matches(cur[t], arg[t]) = {} /\ next[cur[t]] # Null
                     /\ cur'[t] = next[cur[t]]
    <3>1. next' = next
      BY <1>0, <2>2, LinksKept DEF Walking
    <3>2. rc[e] > 0 /\ key[e] = arg[t]
      <4>1. CASE \A u \in Rx : ~AddRef(u)
        BY <2>2, <4>1, LiveKept
      <4>2. ASSUME NEW u \in Rx, AddRef(u)
            PROVE  rc[e] > 0 /\ key[e] = arg[t]
        <5>1. key' = key /\ rc' = [rc EXCEPT ![entry[u]] = @ + 1] /\ t # u
          BY <2>2, <4>2 DEF AddRef
        <5>2. key[entry[u]] # arg[t]
          BY <1>2, <2>2, <4>2, <5>1
        <5> QED  BY <1>0, <2>2, <5>1, <5>2 DEF TypeOK
      <4> QED  BY <4>1, <4>2
    <3>3. e[1] \in Onward(cur[t])
      BY <1>0, <2>2, <3>2 DEF SoughtAhead
    <3>4. e[1] \in Onward(cur'[t])
      <4>1. CASE cur'[t] = cur[t]
        BY <3>3, <4>1
      <4>2. CASE cur'[t] # cur[t]
        <5>1. e[1] # cur[t] /\ cur[t] \in Bucket
          BY <1>0, <2>2, <3>2, <4>2, NotInBucket DEF Walking, TypeOK
        <5> QED  BY <1>0, <2>2, <3>3, <4>2, <5>1, OnwardUnfolds
      <4> QED  BY <4>1, <4>2
    <3> QED  BY <3>1, <3>4 DEF Onward, ClosedUnderNext, Bucket
  <2>3. \/ cur'[t] = First /\ UNCHANGED <<key, rc, next>>
        \/ /\ arg'[t] = arg[t] /\ pc[t] = "lookup"
           /\ cur'[t] # cur[t]
                => /\ Matches(cur[t], arg[t]) = {} /\ next[cur[t]] # Null
                   /\ cur'[t] = next[cur[t]]
    BY <1>0, RxMoves
  <2> QED  BY <2>1, <2>2, <2>3
<1>6. WrittenIsAdded'
  <2> SUFFICES ASSUME NEW t \in Rx, pc'[t] = "ref"
               PROVE  key'[entry'[t]] = arg'[t]
    BY DEF WrittenIsAdded
  <2>1. /\ arg'[t] = arg[t] /\ entry'[t] = entry[t]
        /\ pc[t] # "ref" => AddWrite(t)
    BY <1>0, RxMoves DEF AddSteps
  <2>2. CASE AddWrite(t)
    <3>1. entry[t] \in Entry
      BY <1>0, <2>2 DEF AddWrite, Held, Holds, InUse, Thread
    <3> QED  BY <1>0, <2>1, <2>2, <3>1 DEF AddWrite, TypeOK
  <2>3. CASE ~AddWrite(t)
    <3>1. pc[t] = "ref" /\ key[entry[t]] = arg[t] /\ InUse(entry[t]) /\ t \in Thread
      BY <1>0, <2>1, <2>3 DEF WrittenIsAdded, Held, Holds, Thread
    <3>2. key'[entry[t]] = key[entry[t]]
      <4>1. ASSUME NEW u \in Rx, AddWrite(u)
            PROVE  key'[entry[t]] = key[entry[t]]
        <5>1. entry[u] # entry[t]
          BY <1>0, <2>3, <3>1, <4>1 DEF AddWrite, Held, Holds, Thread
        <5> QED  BY <1>0, <3>1, <4>1, <5>1 DEF AddWrite, TypeOK, InUse
      <4>2. ASSUME NEW u \in Rx, AddAppend(u)
            PROVE  key'[entry[t]] = key[entry[t]]
        <5>1. PICK b : /\ b = Lowest(Bucket \ allocated)
                       /\ key' = [e \in Entry |-> IF e[1] = b THEN NoKey ELSE key[e]]
          BY <4>2 DEF AddAppend
        <5>2. b \notin allocated
          BY <1>0, <4>2, <5>1, FreshBucket DEF AddAppend
        <5> QED  BY <3>1, <5>1, <5>2 DEF InUse
      <4>3. \/ \E u \in Rx : AddWrite(u) \/ AddAppend(u)
            \/ key' = key
        BY DEF Next, vars, entryVars, LookupBegin, LookupBucket, Found, AddBegin,
               AddTest, AddClaim, AddUnlock, AddRef, Ref, Deref, RemoveTest,
               RemoveMark, RemoveBucket, FreeBucket
      <4> QED  BY <4>1, <4>2, <4>3
    <3> QED  BY <2>1, <3>1, <3>2
  <2> QED  BY <2>2, <2>3
<1>7. OneEntryPerFlow'
  <2>1. CASE \A t \in Rx : ~AddRef(t)
    <3>1. OneEntryPerFlow
      BY DEF FlowInv
    <3> QED  BY <2>1, <3>1, LiveKept DEF OneEntryPerFlow, Entry
  <2>2. ASSUME NEW t \in Rx, AddRef(t)
        PROVE  OneEntryPerFlow'
    <3>1. /\ key' = key /\ rc' = [rc EXCEPT ![entry[t]] = @ + 1]
          /\ Missing(key[entry[t]])
      BY <1>0, <2>2 DEF AddRef, AddedIsMissing, WrittenIsAdded, AddSteps
    <3>2. \A e \in Entry : e # entry[t] => rc'[e] = rc[e]
      BY <1>0, <3>1 DEF TypeOK
    <3>3. OneEntryPerFlow
      BY DEF FlowInv
    <3> QED  BY <3>1, <3>2, <3>3 DEF OneEntryPerFlow, Missing, Entry
  <2> QED  BY <2>1, <2>2
<1> QED  BY <1>1, <1>4, <1>5, <1>6, <1>7 DEF FlowInv

\* As long as chains start with one bucket, two entries with references are
\* never of one flow, although an rx thread gives the chain's lock up between
\* the lookup that finds nothing and the add.
THEOREM FlowsHaveOneEntry ==
  ASSUME ChainSize = 1
  PROVE  Spec => []OneEntryPerFlow
<1>1. Init => IInv /\ Connected /\ FlowInv
  <2> SUFFICES ASSUME Init PROVE FlowInv
    BY InitIInv, InitConnected
  <2> QED  BY DEF Init, FlowInv, OwnStream, SoughtAhead, AddedIsMissing,
                  WrittenIsAdded, OneEntryPerFlow, AddSteps, Thread
<1>2. (IInv /\ Connected /\ FlowInv) /\ [Next]_vars => (IInv /\ Connected /\ FlowInv)'
  BY TypeStep, WalkingStep, LinkedStep, EntryStep, ConnectedStep, FlowStep DEF IInv
<1>3. FlowInv => OneEntryPerFlow
  BY DEF FlowInv
<1> QED  BY <1>1, <1>2, <1>3, PTL DEF Spec

=============================================================================
