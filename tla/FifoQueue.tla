----------------------------- MODULE FifoQueue -----------------------------
(***************************************************************************)
(* What the flow operation queue promises its callers: a bounded first-in, *)
(* first-out queue.  A put or a take happens at one instant inside its     *)
(* call; elements leave in the order in which they entered, each of them   *)
(* once.  A call may fail although there is room (or an element) only      *)
(* while an opposite call is under way.                                    *)
(***************************************************************************)
EXTENDS Naturals, Sequences

CONSTANTS Pusher, Puller, Value, NoValue, Capacity

VARIABLES
  queue,  \* the elements, oldest first
  op,     \* where each thread is in its call
  arg,    \* the element a thread puts, or has taken
  ret     \* what its last call returned

vars == <<queue, op, arg, ret>>

Thread == Pusher \cup Puller

Init ==
  /\ queue = <<>>
  /\ op = [t \in Thread |-> "idle"]
  /\ arg = [t \in Thread |-> NoValue]
  /\ ret = [t \in Thread |-> FALSE]

Move(t, from, to) ==
  /\ op[t] = from
  /\ op' = [op EXCEPT ![t] = to]

Finish(t, from, r) ==
  /\ Move(t, from, "done")
  /\ ret' = [ret EXCEPT ![t] = r]
  /\ UNCHANGED <<queue, arg>>

PutCall(t, v) ==
  /\ Move(t, "idle", "put")
  /\ arg' = [arg EXCEPT ![t] = v]
  /\ UNCHANGED <<queue, ret>>

Put(t) ==
  /\ Len(queue) < Capacity
  /\ Move(t, "put", "putting")
  /\ queue' = Append(queue, arg[t])
  /\ UNCHANGED <<arg, ret>>

PutReturn(t) == Finish(t, "putting", TRUE)

PutFull(t) ==
  /\ Len(queue) = Capacity \/ \E u \in Thread : op[u] = "taking"
  /\ Finish(t, "put", FALSE)

TakeCall(t) ==
  /\ Move(t, "idle", "take")
  /\ UNCHANGED <<queue, arg, ret>>

Take(t) ==
  /\ queue # <<>>
  /\ Move(t, "take", "taking")
  /\ arg' = [arg EXCEPT ![t] = Head(queue)]
  /\ queue' = Tail(queue)
  /\ UNCHANGED ret

TakeReturn(t) == Finish(t, "taking", TRUE)

TakeEmpty(t) ==
  /\ queue = <<>> \/ \E u \in Thread : op[u] = "putting"
  /\ Finish(t, "take", FALSE)

Resume(t) ==
  /\ Move(t, "done", "idle")
  /\ arg' = [arg EXCEPT ![t] = NoValue]
  /\ ret' = [ret EXCEPT ![t] = FALSE]
  /\ UNCHANGED queue

Next ==
  \/ \E t \in Pusher :
       Put(t) \/ PutReturn(t) \/ PutFull(t) \/ \E v \in Value : PutCall(t, v)
  \/ \E t \in Puller :
       Take(t) \/ TakeReturn(t) \/ TakeEmpty(t) \/ TakeCall(t)
  \/ \E t \in Thread : Resume(t)

Spec == Init /\ [][Next]_vars

=============================================================================
