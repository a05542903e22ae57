---------------------------- MODULE MpmcQueue32 ----------------------------
(***************************************************************************)
(* MpmcQueue with positions of finite width.  The code keeps head, tail    *)
(* and the sequence numbers in uint32_t, compares positions by the sign of *)
(* their difference and tests the compare-and-exchange on the stored bits. *)
(* The variables still hold the unbounded tickets; every comparison here   *)
(* sees no more than their value modulo Width.                             *)
(***************************************************************************)
EXTENDS MpmcQueue

CONSTANTS
  Width,   \* 2^32 in the code: the number of values of a position
  Start,   \* the number of elements that have already gone through the queue
  MaxLag   \* by how many tickets a thread is overtaken, at most, between its
           \* load of a position and its compare-and-exchange

\* Both are powers of two, so that a ticket and its low bits have one slot,
\* and the queue is shorter than half the range of a position.
ASSUME WidthAssumption ==
  /\ Width \in Nat /\ \E k \in 0 .. Width : Width = 2 ^ k
  /\ \E k \in 0 .. Capacity : Capacity = 2 ^ k
  /\ 2 * Capacity < Width

\* A stale position and a sequence number are less than half the range apart.
ASSUME LagAssumption == MaxLag \in Nat /\ MaxLag + Capacity <= Width \div 2

ASSUME StartAssumption == Start \in Nat

\* Mutant of SignedDiff: the difference stays unsigned.
UnsignedDiff(a, b) == (a - b) % Width

\* (int32_t)(a - b)
SignedDiff(a, b) == ((a - b + Width \div 2) % Width) - Width \div 2

SameBits(a, b) == a % Width = b % Width

\* An empty queue that Start elements have passed through: the cell of
\* ticket i, for the next Capacity tickets, is free for i.
Init32 ==
  /\ head = Start
  /\ tail = Start
  /\ seq = [c \in Slots |->
              CHOOSE i \in Start .. Start + Capacity - 1 : Slot(i) = c]
  /\ data = [c \in Slots |-> NoValue]
  /\ pc = [t \in Thread |-> "idle"]
  /\ pos = [t \in Thread |-> 0]
  /\ val = [t \in Thread |-> NoValue]
  /\ ret = [t \in Thread |-> FALSE]

PushSeq32(t) ==
  LET diff == SignedDiff(seq[Slot(pos[t])], pos[t]) IN
  /\ pc[t] = "push_seq"
  /\ \/ diff = 0 /\ Goto(t, "push_cas") /\ ret' = ret
     \/ diff < 0 /\ Return(t, FALSE)
     \/ diff > 0 /\ Goto(t, "push_reload") /\ ret' = ret
  /\ UNCHANGED <<queueVars, pos, val>>

PullSeq32(t) ==
  LET diff == SignedDiff(seq[Slot(pos[t])], pos[t] + 1) IN
  /\ pc[t] = "pull_seq"
  /\ \/ diff = 0 /\ Goto(t, "pull_cas") /\ ret' = ret
     \/ diff < 0 /\ Return(t, FALSE)
     \/ diff > 0 /\ Goto(t, "pull_reload") /\ ret' = ret
  /\ UNCHANGED <<queueVars, pos, val>>

\* No thread waiting to take ticket `next' - 1 or older is left behind by
\* more than MaxLag tickets.
PushersKeepUp(t, next) ==
  \A u \in Pusher \ {t} :
    pc[u] \in {"push_seq", "push_cas"} => next - pos[u] <= MaxLag

PullersKeepUp(t, next) ==
  \A u \in Puller \ {t} :
    pc[u] \in {"pull_seq", "pull_cas"} => next - pos[u] <= MaxLag

\* Equal bits are all the compare-and-exchange sees: the thread then owns the
\* ticket that tail really stands for.
PushCas32(t) ==
  /\ pc[t] = "push_cas"
  /\ \/ /\ SameBits(tail, pos[t])
        /\ PushersKeepUp(t, tail + 1)
        /\ tail' = tail + 1
        /\ Goto(t, "push_write")
     \/ /\ tail' = tail
        /\ Goto(t, "push_seq")
  /\ pos' = [pos EXCEPT ![t] = tail]
  /\ UNCHANGED <<head, seq, data, val, ret>>

PullCas32(t) ==
  /\ pc[t] = "pull_cas"
  /\ \/ /\ SameBits(head, pos[t])
        /\ PullersKeepUp(t, head + 1)
        /\ head' = head + 1
        /\ Goto(t, "pull_read")
     \/ /\ head' = head
        /\ Goto(t, "pull_seq")
  /\ pos' = [pos EXCEPT ![t] = head]
  /\ UNCHANGED <<tail, seq, data, val, ret>>

Next32 ==
  \/ \E t \in Pusher :
       \/ PushReload(t) \/ PushSeq32(t) \/ PushCas32(t)
       \/ PushWrite(t) \/ PushPublish(t)
       \/ \E v \in Value : PushBegin(t, v)
  \/ \E t \in Puller :
       \/ PullReload(t) \/ PullSeq32(t) \/ PullCas32(t)
       \/ PullRead(t) \/ PullPublish(t)
       \/ PullBegin(t)
  \/ \E t \in Thread : Resume(t)

Spec32 == Init32 /\ [][Next32]_vars

-----------------------------------------------------------------------------
\* As long as no thread is overtaken by more than MaxLag tickets, comparing
\* the low bits decides as comparing the tickets would: the signed difference
\* and the compare-and-exchange of mpmc_queue_push and mpmc_queue_pull stay
\* right when the 32-bit positions wrap around.
StepsAsUnbounded == [][Next]_vars

=============================================================================
