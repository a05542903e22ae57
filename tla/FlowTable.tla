----------------------------- MODULE FlowTable -----------------------------
(***************************************************************************)
(* The software flow table of ntnetflow (flowtable.c): one chain of the    *)
(* hash table, that is the flows whose hash selects it.                    *)
(*                                                                         *)
(* A chain is a list of buckets, a bucket an array of entries with a mask  *)
(* of the unused ones.  The chain has a reader-writer lock, which a thread *)
(* keeps over several steps; the critical sections of a bucket's lock are  *)
(* one step each, and another thread that has come to the bucket may make  *)
(* the attempt to lock it fail.  The lock of an entry is taken by ft_add   *)
(* only, so it keeps nobody out and does not appear.                       *)
(*                                                                         *)
(* The callers are the ones of the program: rx threads look up the flows   *)
(* of their stream and add the missing ones, and other threads take and    *)
(* drop references to entries that have one.                               *)
(***************************************************************************)
EXTENDS Naturals, FiniteSets

CONSTANTS
  Rx,          \* the rx threads
  Dropper,     \* threads that take and drop references
  Key,         \* flows of this chain
  NoKey,       \* the zeroed key of an entry never used
  StreamOf,    \* the rx thread that the adapter sends a flow's packets to
  BucketSizes, \* entries per bucket (--bucket-size)
  ChainSize,   \* buckets allocated at the start (--chain-size)
  MaxEntries,  \* a chain this large gets no more buckets, to bound the model
  MaxRefs      \* references to one entry, to bound the model

ASSUME TableAssumption ==
  /\ Rx \cap Dropper = {}
  /\ NoKey \notin Key
  /\ StreamOf \in [Key -> Rx]
  /\ BucketSizes \subseteq Nat \ {0} /\ ChainSize \in Nat \ {0}
  /\ MaxEntries \in Nat /\ ChainSize <= MaxEntries
  /\ MaxRefs \in Nat \ {0}

Thread == Rx \cup Dropper
Bucket == 1 .. MaxEntries
Null == 0
First == 1
Entry == UNION {Bucket \X (0 .. n - 1) : n \in BucketSizes}
NoEntry == <<Null, 0>>

VARIABLES
  bucketSize,    \* table_bucket_size, one of the powers of two
  next, prev,    \* links of the buckets
  last,          \* chain->last
  allocated,     \* buckets that exist
  toFree,        \* buckets flagged BUCKET_TO_FREE
  dynamic,       \* buckets flagged BUCKET_DYNAMIC
  unused,        \* the mask of each bucket, as a set of indices
  key,           \* the key stored in each entry
  rc,            \* the reference count of each entry
  readers,       \* threads that hold the chain's lock for reading
  writer,        \* threads that hold it for writing
  pc,            \* the next step of each thread
  cur,           \* the bucket a thread has come to
  arg,           \* the key a thread looks up or adds
  entry          \* the entry a thread works on

chainVars == <<bucketSize, next, prev, last, allocated, toFree, dynamic>>
entryVars == <<unused, key, rc>>
lockVars == <<readers, writer>>
threadVars == <<pc, cur, arg, entry>>
vars == <<chainVars, entryVars, lockVars, threadVars>>

Index == 0 .. bucketSize - 1

Max2(a, b) == IF a < b THEN b ELSE a

\* ft_init: the buckets of the chain, and chain->last = prev, where prev runs
\* one bucket behind the bucket allocated last.
Init ==
  /\ bucketSize \in BucketSizes
  /\ next = [b \in Bucket |-> IF b < ChainSize THEN b + 1 ELSE Null]
  /\ prev = [b \in Bucket |-> IF b <= ChainSize THEN b - 1 ELSE Null]
  /\ last = Max2(ChainSize - 1, First)
  /\ allocated = 1 .. ChainSize
  /\ toFree = {}
  /\ dynamic = {}
  /\ unused = [b \in Bucket |-> Index]
  /\ key = [e \in Entry |-> NoKey]
  /\ rc = [e \in Entry |-> 0]
  /\ readers = {}
  /\ writer = {}
  /\ pc = [t \in Thread |-> "idle"]
  /\ cur = [t \in Thread |-> Null]
  /\ arg = [t \in Thread |-> NoKey]
  /\ entry = [t \in Thread |-> NoEntry]

Goto(t, l) == pc' = [pc EXCEPT ![t] = l]

\* The locals of a finished call are gone.
Finish(t) ==
  /\ Goto(t, "idle")
  /\ cur' = [cur EXCEPT ![t] = Null]
  /\ arg' = [arg EXCEPT ![t] = NoKey]
  /\ entry' = [entry EXCEPT ![t] = NoEntry]

ReadLock(t) == writer = {} /\ readers' = readers \cup {t} /\ UNCHANGED writer
WriteLock(t) ==
  writer = {} /\ readers = {} /\ writer' = {t} /\ UNCHANGED readers
Unlock(t) == readers' = readers \ {t} /\ writer' = writer \ {t}

Used(b) == Index \ unused[b]
HasRoom(b) == b \notin toFree /\ unused[b] # {}
Lowest(S) == CHOOSE i \in S : \A j \in S : i <= j

(***************************************************************************)
(* ft_lookup: ft_visit with ft_compare, under the chain's read lock.       *)
(***************************************************************************)
LookupBegin(t, k) ==
  /\ pc[t] = "idle"
  /\ ReadLock(t)
  /\ arg' = [arg EXCEPT ![t] = k]
  /\ cur' = [cur EXCEPT ![t] = First]
  /\ Goto(t, "lookup")
  /\ UNCHANGED <<chainVars, entryVars, entry>>

Matches(b, k) == {i \in Used(b) : key[<<b, i>>] = k}

\* Mutant of LookupBucket: looks into the first bucket of the chain only.
LookupFirst(t) ==
  LET hits == Matches(cur[t], arg[t]) IN
  /\ pc[t] = "lookup"
  /\ Unlock(t)
  /\ IF hits # {}
     THEN /\ entry' = [entry EXCEPT ![t] = <<cur[t], Lowest(hits)>>]
          /\ Goto(t, "found")
     ELSE Goto(t, "missing") /\ entry' = entry
  /\ UNCHANGED <<chainVars, entryVars, arg, cur>>

LookupBucket(t) ==
  LET b == cur[t]
      hits == Matches(b, arg[t]) IN
  /\ pc[t] = "lookup"
  /\ \/ /\ hits # {}
        /\ entry' = [entry EXCEPT ![t] = <<b, Lowest(hits)>>]
        /\ Goto(t, "found")
        /\ Unlock(t)
        /\ UNCHANGED cur
     \/ /\ hits = {} /\ next[b] # Null
        /\ cur' = [cur EXCEPT ![t] = next[b]]
        /\ UNCHANGED <<pc, entry, lockVars>>
     \/ /\ hits = {} /\ next[b] = Null
        /\ Goto(t, "missing")
        /\ Unlock(t)
        /\ UNCHANGED <<cur, entry>>
  /\ UNCHANGED <<chainVars, entryVars, arg>>

\* rx_process counts the packet on the entry it found.
Found(t) ==
  /\ pc[t] = "found"
  /\ Finish(t)
  /\ UNCHANGED <<chainVars, entryVars, lockVars>>

(***************************************************************************)
(* ft_add, called by rx_process when the lookup found nothing              *)
(***************************************************************************)
AddBegin(t) ==
  /\ pc[t] = "missing"
  /\ ReadLock(t)
  /\ cur' = [cur EXCEPT ![t] = First]
  /\ Goto(t, "test")
  /\ UNCHANGED <<chainVars, entryVars, arg, entry>>

\* On to the next bucket, or to the end of the chain, where the read lock is
\* given up for the write lock.
Advance(t) ==
  \/ /\ next[cur[t]] # Null
     /\ cur' = [cur EXCEPT ![t] = next[cur[t]]]
     /\ Goto(t, "test")
     /\ UNCHANGED lockVars
  \/ /\ next[cur[t]] = Null
     /\ cur' = [cur EXCEPT ![t] = Null]
     /\ Goto(t, "append")
     /\ Unlock(t)

AddTest(t) ==
  /\ pc[t] = "test"
  /\ \/ HasRoom(cur[t]) /\ Goto(t, "claim") /\ UNCHANGED <<cur, lockVars>>
     \/ ~HasRoom(cur[t]) /\ Advance(t)
  /\ UNCHANGED <<chainVars, entryVars, arg, entry>>

\* Another thread may hold the lock of bucket b.
Contended(t, b) ==
  \E u \in Thread \ {t} :
    \/ cur[u] = b /\ pc[u] \in {"lookup", "test", "claim"}
    \/ entry[u][1] = b /\ pc[u] \in {"remove", "mark"}

\* Mutant of AddClaim: no second test of BUCKET_TO_FREE.
AddClaimFreed(t) ==
  LET b == cur[t]
      i == Lowest(unused[b]) IN
  /\ pc[t] = "claim"
  /\ \/ /\ unused[b] # {}
        /\ unused' = [unused EXCEPT ![b] = @ \ {i}]
        /\ entry' = [entry EXCEPT ![t] = <<b, i>>]
        /\ Goto(t, "init")
        /\ UNCHANGED <<cur, lockVars>>
     \/ /\ unused[b] = {} \/ Contended(t, b)
        /\ Advance(t)
        /\ UNCHANGED <<unused, entry>>
  /\ UNCHANGED <<chainVars, key, rc, arg>>

\* trywrlock, the second test, and the lowest unused index.
AddClaim(t) ==
  LET b == cur[t]
      i == Lowest(unused[b]) IN
  /\ pc[t] = "claim"
  /\ \/ /\ HasRoom(b)
        /\ unused' = [unused EXCEPT ![b] = @ \ {i}]
        /\ entry' = [entry EXCEPT ![t] = <<b, i>>]
        /\ Goto(t, "init")
        /\ UNCHANGED <<cur, lockVars>>
     \/ /\ ~HasRoom(b) \/ Contended(t, b)
        /\ Advance(t)
        /\ UNCHANGED <<unused, entry>>
  /\ UNCHANGED <<chainVars, key, rc, arg>>

\* With the write lock: a zeroed bucket behind chain->last, whose first entry
\* is taken.  The lock is kept until the entry is about to be written.
AddAppend(t) ==
  /\ pc[t] = "append"
  /\ WriteLock(t)
  /\ Cardinality(allocated) * bucketSize < MaxEntries
  /\ LET b == Lowest(Bucket \ allocated) IN
       /\ next' = [next EXCEPT ![b] = Null, ![last] = b]
       /\ prev' = [prev EXCEPT ![b] = last]
       /\ last' = b
       /\ allocated' = allocated \cup {b}
       /\ dynamic' = dynamic \cup {b}
       /\ unused' = [unused EXCEPT ![b] = Index \ {0}]
       /\ key' = [e \in Entry |-> IF e[1] = b THEN NoKey ELSE key[e]]
       /\ rc' = [e \in Entry |-> IF e[1] = b THEN 0 ELSE rc[e]]
       /\ entry' = [entry EXCEPT ![t] = <<b, 0>>]
  /\ Goto(t, "init")
  /\ UNCHANGED <<bucketSize, toFree, cur, arg>>

AddUnlock(t) ==
  /\ pc[t] = "init"
  /\ Unlock(t)
  /\ cur' = [cur EXCEPT ![t] = Null]
  /\ Goto(t, "write")
  /\ UNCHANGED <<chainVars, entryVars, arg, entry>>

AddWrite(t) ==
  /\ pc[t] = "write"
  /\ key' = [key EXCEPT ![entry[t]] = arg[t]]
  /\ Goto(t, "ref")
  /\ UNCHANGED <<chainVars, unused, rc, lockVars, cur, arg, entry>>

\* ft_ref(entry, 1)
AddRef(t) ==
  /\ pc[t] = "ref"
  /\ rc' = [rc EXCEPT ![entry[t]] = @ + 1]
  /\ Finish(t)
  /\ UNCHANGED <<chainVars, unused, key, lockVars>>

(***************************************************************************)
(* ft_ref and ft_deref by one, and ft_remove when the last reference goes  *)
(***************************************************************************)
Ref(t, e) ==
  /\ pc[t] = "idle"
  /\ rc[e] \in 1 .. MaxRefs - 1
  /\ rc' = [rc EXCEPT ![e] = @ + 1]
  /\ UNCHANGED <<chainVars, unused, key, lockVars, threadVars>>

Deref(t, e) ==
  /\ pc[t] = "idle"
  /\ rc[e] > 0
  /\ rc' = [rc EXCEPT ![e] = @ - 1]
  /\ \/ /\ rc[e] <= 1
        /\ entry' = [entry EXCEPT ![t] = e]
        /\ Goto(t, "remove")
     \/ /\ rc[e] > 1
        /\ UNCHANGED <<entry, pc>>
  /\ UNCHANGED <<chainVars, unused, key, lockVars, cur, arg>>

RemoveTest(t) ==
  LET b == entry[t][1]  i == entry[t][2] IN
  /\ pc[t] = "remove"
  /\ \/ i \in unused[b] /\ Finish(t)
     \/ i \notin unused[b] /\ Goto(t, "mark") /\ UNCHANGED <<cur, arg, entry>>
  /\ UNCHANGED <<chainVars, entryVars, lockVars>>

RemoveMark(t) ==
  LET b == entry[t][1]  i == entry[t][2] IN
  /\ pc[t] = "mark"
  /\ unused' = [unused EXCEPT ![b] = @ \cup {i}]
  /\ \/ /\ b \in dynamic /\ unused'[b] = Index
        /\ toFree' = toFree \cup {b}
        /\ Goto(t, "unlink")
        /\ UNCHANGED <<cur, arg, entry>>
     \/ /\ ~(b \in dynamic /\ unused'[b] = Index)
        /\ toFree' = toFree
        /\ Finish(t)
  /\ UNCHANGED <<bucketSize, next, prev, last, allocated, dynamic, key, rc,
                 lockVars>>

\* ft_remove: the bucket leaves the chain and is freed; chain->last becomes l.
FreeBucket(t, l) ==
  LET b == entry[t][1] IN
  /\ last' = l
  /\ next' = [next EXCEPT ![prev[b]] = next[b], ![b] = Null]
  /\ prev' = [c \in Bucket |->
                IF c = b THEN Null
                ELSE IF c = next[b] THEN prev[b] ELSE prev[c]]
  /\ allocated' = allocated \ {b}
  /\ dynamic' = dynamic \ {b}
  /\ unused' = [unused EXCEPT ![b] = Index]
  /\ Finish(t)
  /\ UNCHANGED <<bucketSize, key, rc, lockVars>>

NewLast(b) == IF last = b THEN prev[b] ELSE last

\* Mutants of RemoveBucket: does not wait for the threads in the chain; leaves
\* chain->last alone.
RemoveBucketUnlocked(t) ==
  /\ pc[t] = "unlink"
  /\ FreeBucket(t, NewLast(entry[t][1]))
  /\ toFree' = toFree \ {entry[t][1]}

RemoveBucketLast(t) ==
  /\ pc[t] = "unlink"
  /\ readers = {} /\ writer = {}
  /\ FreeBucket(t, last)
  /\ toFree' = toFree \ {entry[t][1]}

\* The write lock is taken and given back within the step.
RemoveBucket(t) ==
  /\ pc[t] = "unlink"
  /\ readers = {} /\ writer = {}
  /\ FreeBucket(t, NewLast(entry[t][1]))
  /\ toFree' = toFree \ {entry[t][1]}

Next ==
  \/ \E t \in Rx :
       \/ \E k \in Key : StreamOf[k] = t /\ LookupBegin(t, k)
       \/ LookupBucket(t) \/ Found(t)
       \/ AddBegin(t) \/ AddTest(t) \/ AddClaim(t) \/ AddAppend(t)
       \/ AddUnlock(t) \/ AddWrite(t) \/ AddRef(t)
  \/ \E t \in Dropper :
       \/ \E e \in Entry : Ref(t, e) \/ Deref(t, e)
       \/ RemoveTest(t) \/ RemoveMark(t) \/ RemoveBucket(t)

Spec == Init /\ [][Next]_vars

-----------------------------------------------------------------------------
\* Every variable has its type.
TypeOK ==
  /\ bucketSize \in BucketSizes
  /\ next \in [Bucket -> Bucket \cup {Null}]
  /\ prev \in [Bucket -> Bucket \cup {Null}]
  /\ last \in Bucket
  /\ allocated \subseteq Bucket
  /\ toFree \subseteq allocated /\ dynamic \subseteq allocated
  /\ unused \in [Bucket -> SUBSET Index]
  /\ key \in [Entry -> Key \cup {NoKey}]
  /\ rc \in [Entry -> 0 .. MaxRefs]
  /\ readers \subseteq Rx /\ writer \subseteq Rx
  /\ pc \in [Thread -> {"idle", "lookup", "found", "missing", "test", "claim",
                        "append", "init", "write", "ref", "remove", "mark",
                        "unlink"}]
  /\ cur \in [Thread -> Bucket \cup {Null}]
  /\ arg \in [Thread -> Key \cup {NoKey}]
  /\ entry \in [Thread -> Entry \cup {NoEntry}]

\* The buckets met by following `next' from b, b included: what belongs to every
\* set with b in it that `next' does not lead out of.
ClosedUnderNext(S) == \A c \in S : next[c] # Null => next[c] \in S
Onward(b) ==
  {c \in Bucket : \A S \in SUBSET Bucket : b \in S /\ ClosedUnderNext(S) => c \in S}

Chain == Onward(First)

Adding(t) == pc[t] \in {"init", "write", "ref"}

\* A thread that walks the chain under the read lock is always in a bucket of
\* the chain: ft_remove never frees a bucket under it.
WalkersStayInChain ==
  \A t \in Rx : pc[t] \in {"lookup", "test", "claim"} => cur[t] \in Chain

\* The types, and every walker in the chain.
TableInv == TypeOK /\ WalkersStayInChain

\* An entry that ft_add has claimed but not finished is used, belongs to one
\* thread, and its bucket is not about to be freed, although ft_add let go of
\* the bucket's lock, and of the chain's, before it wrote the entry.
ClaimsAreSafe ==
  \A t \in Rx : Adding(t) =>
    /\ entry[t][1] \in allocated \ toFree
    /\ entry[t][2] \notin unused[entry[t][1]]
    /\ \A u \in Rx \ {t} : Adding(u) => entry[u] # entry[t]

\* An entry somebody has a reference to is in use, and lookups can reach it.
LiveEntriesReachable ==
  \A e \in Entry : rc[e] > 0 => e[1] \in Chain /\ e[2] \notin unused[e[1]]

\* A flow has one entry at most, although the lookup and the add of
\* rx_process are two calls, as long as its packets come to one stream.
OneEntryPerFlow ==
  \A e, f \in Entry : rc[e] > 0 /\ rc[f] > 0 /\ key[e] = key[f] => e = f

\* "just append a new bucket to the end of the chain" (ft_add): a new bucket
\* leaves all the others where they were in the chain.
AppendsToEnd ==
  [][\A b \in Bucket \ allocated : allocated' = allocated \cup {b}
       => Chain \subseteq Chain']_vars

=============================================================================
