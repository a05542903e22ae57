----------------------------- MODULE MpmcQueue -----------------------------
(***************************************************************************)
(* The bounded lock-free queue of ntnetflow (mpmc_queue.h) that carries    *)
(* flow operations from the rx, record and poll threads to the thread that *)
(* programs the adapter.                                                   *)
(*                                                                         *)
(* A position (the code's head and tail) is a ticket: ticket i is served   *)
(* by the cell Slot(i), whose sequence number says what may be done with   *)
(* the cell: seq = i, it is free for the push with ticket i; seq = i + 1,  *)
(* it holds the element of ticket i; seq = i + Capacity, it is free for    *)
(* the next round.  Each atomic access of the code, and each access of the *)
(* plain field `data', is one action, so all interleavings of the threads  *)
(* at that grain are behaviours.  Positions are natural numbers here;      *)
(* MpmcQueue32 shows what their finite width changes.                      *)
(***************************************************************************)
EXTENDS Integers, Sequences

CONSTANTS
  Pusher,     \* threads that call mpmc_queue_push
  Puller,     \* threads that call mpmc_queue_pull
  Value,      \* what an element may be
  NoValue,    \* content of a cell nobody has written yet
  Capacity    \* number of cells

\* The queue asserts a capacity of at least two.
ASSUME CapacityAssumption == Capacity \in Nat /\ Capacity >= 2
ASSUME NoValueAssumption == NoValue \notin Value

VARIABLES
  head, tail, \* next ticket to pull, next ticket to push
  seq,        \* sequence number of each cell
  data,       \* content of each cell
  pc,         \* the next access of each thread
  pos,        \* the local copy of head (in pull) or tail (in push)
  val,        \* the element a thread pushes, or has pulled
  ret         \* what the thread's last call returned

queueVars == <<head, tail, seq, data>>
threadVars == <<pc, pos, val, ret>>
vars == <<queueVars, threadVars>>

Thread == Pusher \cup Puller
Slots == 0 .. Capacity - 1
Slot(i) == i % Capacity

PushPC == {"push_reload", "push_seq", "push_cas", "push_write", "push_publish"}
PullPC == {"pull_reload", "pull_seq", "pull_cas", "pull_read", "pull_publish"}

Init ==
  /\ head = 0
  /\ tail = 0
  /\ seq = [c \in Slots |-> c]
  /\ data = [c \in Slots |-> NoValue]
  /\ pc = [t \in Thread |-> "idle"]
  /\ pos = [t \in Thread |-> 0]
  /\ val = [t \in Thread |-> NoValue]
  /\ ret = [t \in Thread |-> FALSE]

Goto(t, l) == pc' = [pc EXCEPT ![t] = l]

Return(t, r) ==
  /\ Goto(t, "done")
  /\ ret' = [ret EXCEPT ![t] = r]

(***************************************************************************)
(* mpmc_queue_push                                                         *)
(***************************************************************************)
PushBegin(t, v) ==
  /\ pc[t] = "idle"
  /\ val' = [val EXCEPT ![t] = v]
  /\ pos' = [pos EXCEPT ![t] = tail]
  /\ Goto(t, "push_seq")
  /\ UNCHANGED <<queueVars, ret>>

PushReload(t) ==
  /\ pc[t] = "push_reload"
  /\ pos' = [pos EXCEPT ![t] = tail]
  /\ Goto(t, "push_seq")
  /\ UNCHANGED <<queueVars, val, ret>>

\* Mutant of PushSeq: a stale ticket is taken for a full queue.
PushSeqGivesUp(t) ==
  /\ pc[t] = "push_seq"
  /\ IF seq[Slot(pos[t])] = pos[t] THEN Goto(t, "push_cas") /\ ret' = ret
     ELSE Return(t, FALSE)
  /\ UNCHANGED <<queueVars, pos, val>>

\* diff compares the cell's sequence with the ticket: zero, the cell is free;
\* negative, the queue is taken to be full; positive, the ticket is stale.
PushSeq(t) ==
  LET diff == seq[Slot(pos[t])] - pos[t] IN
  /\ pc[t] = "push_seq"
  /\ \/ diff = 0 /\ Goto(t, "push_cas") /\ ret' = ret
     \/ diff < 0 /\ Return(t, FALSE)
     \/ diff > 0 /\ Goto(t, "push_reload") /\ ret' = ret
  /\ UNCHANGED <<queueVars, pos, val>>

\* Mutant of PushCas: a plain store of the next ticket.
PushCasStores(t) ==
  /\ pc[t] = "push_cas"
  /\ tail' = pos[t] + 1
  /\ Goto(t, "push_write")
  /\ UNCHANGED <<head, seq, data, pos, val, ret>>

\* A weak compare-and-exchange: a failure (lost race or spurious) leaves the
\* current tail in the local copy and tries again.
PushCas(t) ==
  /\ pc[t] = "push_cas"
  /\ \/ /\ tail = pos[t]
        /\ tail' = tail + 1
        /\ Goto(t, "push_write")
        /\ pos' = pos
     \/ /\ tail' = tail
        /\ pos' = [pos EXCEPT ![t] = tail]
        /\ Goto(t, "push_seq")
  /\ UNCHANGED <<head, seq, data, val, ret>>

PushWrite(t) ==
  /\ pc[t] = "push_write"
  /\ data' = [data EXCEPT ![Slot(pos[t])] = val[t]]
  /\ Goto(t, "push_publish")
  /\ UNCHANGED <<head, tail, seq, pos, val, ret>>

PushPublish(t) ==
  /\ pc[t] = "push_publish"
  /\ seq' = [seq EXCEPT ![Slot(pos[t])] = pos[t] + 1]
  /\ Return(t, TRUE)
  /\ UNCHANGED <<head, tail, data, pos, val>>

(***************************************************************************)
(* mpmc_queue_pull                                                         *)
(***************************************************************************)
PullBegin(t) ==
  /\ pc[t] = "idle"
  /\ pos' = [pos EXCEPT ![t] = head]
  /\ Goto(t, "pull_seq")
  /\ UNCHANGED <<queueVars, val, ret>>

PullReload(t) ==
  /\ pc[t] = "pull_reload"
  /\ pos' = [pos EXCEPT ![t] = head]
  /\ Goto(t, "pull_seq")
  /\ UNCHANGED <<queueVars, val, ret>>

\* Mutant of PullSeq: a stale ticket is taken for an empty queue.
PullSeqGivesUp(t) ==
  /\ pc[t] = "pull_seq"
  /\ IF seq[Slot(pos[t])] = pos[t] + 1 THEN Goto(t, "pull_cas") /\ ret' = ret
     ELSE Return(t, FALSE)
  /\ UNCHANGED <<queueVars, pos, val>>

PullSeq(t) ==
  LET diff == seq[Slot(pos[t])] - (pos[t] + 1) IN
  /\ pc[t] = "pull_seq"
  /\ \/ diff = 0 /\ Goto(t, "pull_cas") /\ ret' = ret
     \/ diff < 0 /\ Return(t, FALSE)
     \/ diff > 0 /\ Goto(t, "pull_reload") /\ ret' = ret
  /\ UNCHANGED <<queueVars, pos, val>>

PullCas(t) ==
  /\ pc[t] = "pull_cas"
  /\ \/ /\ head = pos[t]
        /\ head' = head + 1
        /\ Goto(t, "pull_read")
        /\ pos' = pos
     \/ /\ head' = head
        /\ pos' = [pos EXCEPT ![t] = head]
        /\ Goto(t, "pull_seq")
  /\ UNCHANGED <<tail, seq, data, val, ret>>

\* Mutant of PullRead: reads the cell that `head' selects by now.
PullReadReloads(t) ==
  /\ pc[t] = "pull_read"
  /\ val' = [val EXCEPT ![t] = data[Slot(head)]]
  /\ Goto(t, "pull_publish")
  /\ UNCHANGED <<queueVars, pos, ret>>

PullRead(t) ==
  /\ pc[t] = "pull_read"
  /\ val' = [val EXCEPT ![t] = data[Slot(pos[t])]]
  /\ Goto(t, "pull_publish")
  /\ UNCHANGED <<queueVars, pos, ret>>

\* Mutant of PullPublish: the one after buffer_mask is forgotten.
PullPublishShort(t) ==
  /\ pc[t] = "pull_publish"
  /\ seq' = [seq EXCEPT ![Slot(pos[t])] = pos[t] + Capacity - 1]
  /\ Return(t, TRUE)
  /\ UNCHANGED <<head, tail, data, pos, val>>

\* buffer_mask + 1 is the capacity: the cell is free for the next round.
PullPublish(t) ==
  /\ pc[t] = "pull_publish"
  /\ seq' = [seq EXCEPT ![Slot(pos[t])] = pos[t] + Capacity]
  /\ Return(t, TRUE)
  /\ UNCHANGED <<head, tail, data, pos, val>>

(***************************************************************************)
(* The caller takes the result, the locals of the call are gone, and the   *)
(* thread may call again.                                                  *)
(***************************************************************************)
Resume(t) ==
  /\ pc[t] = "done"
  /\ Goto(t, "idle")
  /\ pos' = [pos EXCEPT ![t] = 0]
  /\ val' = [val EXCEPT ![t] = NoValue]
  /\ ret' = [ret EXCEPT ![t] = FALSE]
  /\ UNCHANGED queueVars

PushStep(t) ==
  \/ PushReload(t) \/ PushSeq(t) \/ PushCas(t)
  \/ PushWrite(t) \/ PushPublish(t)

PullStep(t) ==
  \/ PullReload(t) \/ PullSeq(t) \/ PullCas(t)
  \/ PullRead(t) \/ PullPublish(t)

Next ==
  \/ \E t \in Pusher : PushStep(t) \/ \E v \in Value : PushBegin(t, v)
  \/ \E t \in Puller : PullStep(t) \/ PullBegin(t)
  \/ \E t \in Thread : Resume(t)

Spec == Init /\ [][Next]_vars

-----------------------------------------------------------------------------
(***************************************************************************)
(* What makes the queue correct                                            *)
(***************************************************************************)

\* Every variable has its type.
TypeOK ==
  /\ head \in Nat
  /\ tail \in Nat
  /\ seq \in [Slots -> Nat]
  /\ data \in [Slots -> Value \cup {NoValue}]
  /\ pc \in [Thread -> {"idle", "done"} \cup PushPC \cup PullPC]
  /\ pos \in [Thread -> Nat]
  /\ val \in [Thread -> Value \cup {NoValue}]
  /\ ret \in [Thread -> BOOLEAN]

\* A thread between its successful compare-and-exchange and its store of the
\* sequence number owns the cell of its ticket.
Pushing(t) == pc[t] \in {"push_write", "push_publish"}
Pulling(t) == pc[t] \in {"pull_read", "pull_publish"}
Owner(t) == Pushing(t) \/ Pulling(t)

\* The plain field `data' is only touched by the thread that owns the cell:
\* no two threads own one cell at a time (mpmc_queue_push and _pull access
\* cell->data without any lock).
ExclusiveCells ==
  \A t, u \in Thread :
    t # u /\ Owner(t) /\ Owner(u) => Slot(pos[t]) # Slot(pos[u])

\* The tickets pushed and not pulled never exceed the cells, and no ticket is
\* pulled before it was pushed.
Bounded == head <= tail /\ tail <= head + Capacity

\* mpmc_queue_pull returns false only when there is nothing to pull, or when
\* the push that owns the oldest ticket has not published its element yet:
\* published elements are only hidden by an older unfinished push.
PullFailsHonestly ==
  [][\A t \in Puller :
       pc[t] = "pull_seq" /\ pc'[t] = "done"
         => \/ head = tail
            \/ \E u \in Thread : Pushing(u) /\ pos[u] = head]_vars

\* mpmc_queue_push returns false only when all cells are taken, or when the
\* pull that frees the cell of the next ticket has not published it yet
\* (the case the comment on mpmc_queue_size describes).
PushFailsHonestly ==
  [][\A t \in Pusher :
       pc[t] = "push_seq" /\ pc'[t] = "done"
         => \/ tail = head + Capacity
            \/ \E u \in Thread : Pulling(u) /\ pos[u] = tail - Capacity]_vars

-----------------------------------------------------------------------------
(***************************************************************************)
(* Why: the inductive invariant.  Every cell serves one ticket among       *)
(* head .. head + Capacity - 1, and its sequence number tells, with the    *)
(* thread that owns it, how far that ticket has come.                      *)
(***************************************************************************)

\* A pushed ticket is published, or some thread is about to publish it.
QueuedTickets ==
  \A i \in head .. tail - 1 :
    \/ seq[Slot(i)] = i + 1
    \/ seq[Slot(i)] = i /\ \E t \in Thread : Pushing(t) /\ pos[t] = i

\* The cell of a ticket to come is free, or some thread is about to free it.
FreeTickets ==
  \A i \in tail .. head + Capacity - 1 :
    \/ seq[Slot(i)] = i
    \/ /\ seq[Slot(i)] = i - Capacity + 1
       /\ \E t \in Thread : Pulling(t) /\ pos[t] = i - Capacity

\* Owners hold pushed (pulled) tickets whose cell waits for them.
PushOwners ==
  \A t \in Thread : Pushing(t) =>
    head <= pos[t] /\ pos[t] < tail /\ seq[Slot(pos[t])] = pos[t]

PullOwners ==
  \A t \in Thread : Pulling(t) =>
    /\ tail - Capacity <= pos[t] /\ pos[t] < head
    /\ seq[Slot(pos[t])] = pos[t] + 1

\* A ticket is owned by one pushing and one pulling thread at most.
OneOwner ==
  \A t, u \in Thread :
    t # u /\ pos[t] = pos[u]
      => ~(Pushing(t) /\ Pushing(u)) /\ ~(Pulling(t) /\ Pulling(u))

\* A local ticket may be stale but never from the future, and the cell of a
\* stale one has moved on; one that passed the test of diff stays free (or
\* filled) until the ticket is taken.
PushCandidates ==
  \A t \in Thread :
    /\ pc[t] \in {"push_seq", "push_cas"} =>
         pos[t] <= tail /\ (pos[t] < tail => seq[Slot(pos[t])] >= pos[t])
    /\ pc[t] = "push_cas" /\ pos[t] = tail => seq[Slot(pos[t])] = pos[t]

PullCandidates ==
  \A t \in Thread :
    /\ pc[t] \in {"pull_seq", "pull_cas"} =>
         pos[t] <= head /\ (pos[t] < head => seq[Slot(pos[t])] > pos[t])
    /\ pc[t] = "pull_cas" /\ pos[t] = head => seq[Slot(pos[t])] = pos[t] + 1

IInv ==
  /\ TypeOK
  /\ Bounded
  /\ QueuedTickets
  /\ FreeTickets
  /\ PushOwners
  /\ PullOwners
  /\ OneOwner
  /\ PushCandidates
  /\ PullCandidates

-----------------------------------------------------------------------------
(***************************************************************************)
(* The queue implements FifoQueue: an element enters at the push's         *)
(* successful compare-and-exchange and leaves at the pull's.               *)
(***************************************************************************)

\* The element of ticket i: still in the hands of the thread that pushes it,
\* or in its cell.
Element(i) ==
  IF \E t \in Thread : pc[t] = "push_write" /\ pos[t] = i
  THEN val[CHOOSE t \in Thread : pc[t] = "push_write" /\ pos[t] = i]
  ELSE data[Slot(i)]

CallState(l) ==
  CASE l \in {"push_reload", "push_seq", "push_cas"} -> "put"
    [] l \in {"push_write", "push_publish"}        -> "putting"
    [] l \in {"pull_reload", "pull_seq", "pull_cas"} -> "take"
    [] l \in {"pull_read", "pull_publish"}         -> "taking"
    [] OTHER                                       -> l

Elements == [i \in 1 .. tail - head |-> Element(head + i - 1)]
CallStates == [t \in Thread |-> CallState(pc[t])]
Arguments ==
  [t \in Thread |-> IF pc[t] = "pull_read" THEN data[Slot(pos[t])] ELSE val[t]]

Fifo == INSTANCE FifoQueue WITH
  queue <- Elements, op <- CallStates, arg <- Arguments, ret <- ret

\* No element is lost, duplicated or reordered by any interleaving of
\* mpmc_queue_push and mpmc_queue_pull: they implement a bounded FIFO queue.
ImplementsFifo == Fifo!Spec

=============================================================================
