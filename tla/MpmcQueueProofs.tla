-------------------------- MODULE MpmcQueueProofs --------------------------
(***************************************************************************)
(* Proofs about the operation queue, for any threads, values and capacity: *)
(* first MpmcQueue, the inductive invariant of its tickets and when calls  *)
(* fail; then that it implements FifoQueue; then MpmcQueue32, whose        *)
(* positions wrap around.  Only the last part uses what is assumed of      *)
(* Width, Start and MaxLag.                                                *)
(***************************************************************************)
EXTENDS MpmcQueue32, SequenceTheorems, TLAPS


(***************************************************************************)
(* Slots: tickets less than Capacity apart have different cells, and a     *)
(* cell comes round after Capacity tickets.                                *)
(***************************************************************************)

\* Division with remainder, for the capacity of the queue.
LEMMA DivMod ==
  ASSUME NEW a \in Int
  PROVE  /\ a % Capacity \in 0 .. Capacity - 1
         /\ a \div Capacity \in Int
         /\ a = Capacity * (a \div Capacity) + (a % Capacity)
  BY CapacityAssumption, SMTT(30)

\* The index into `buffer' that masking a ticket yields is a cell's index.
LEMMA SlotType == \A i \in Int : Slot(i) \in Slots
  BY DivMod DEF Slot, Slots

\* A multiple of the capacity that is smaller than the capacity is zero.
LEMMA SmallMultiple ==
  ASSUME NEW k \in Int, Capacity * k < Capacity, -Capacity < Capacity * k
  PROVE  k = 0
<1>1. CASE k >= 1
  BY <1>1, CapacityAssumption, SMTT(30)
<1>2. CASE k <= -1
  BY <1>2, CapacityAssumption, SMTT(30)
<1> QED  BY <1>1, <1>2

\* Two tickets that share a cell are at least Capacity apart.
LEMMA SlotInjective ==
  \A a, b \in Int :
    Slot(a) = Slot(b) /\ a - b < Capacity /\ b - a < Capacity => a = b
<1> SUFFICES ASSUME NEW a \in Int, NEW b \in Int, Slot(a) = Slot(b),
                    a - b < Capacity, b - a < Capacity
             PROVE  a = b
  OBVIOUS
<1> DEFINE k == a \div Capacity - b \div Capacity
<1>1. k \in Int
  BY DivMod
<1>2. a - b = Capacity * k
  <2> DEFINE p == a \div Capacity
             q == b \div Capacity
             r == a % Capacity
  <2>1. p \in Int /\ q \in Int /\ r \in Int
    BY DivMod
  <2>2. a = Capacity * p + r /\ b = Capacity * q + r
    BY DivMod DEF Slot
  <2>3. k = p - q
    OBVIOUS
  <2> HIDE DEF p, q, r, k
  <2> QED  BY <2>1, <2>2, <2>3, CapacityAssumption, SMTT(30)
<1>3. k = 0
  <2> HIDE DEF k
  <2> QED  BY <1>1, <1>2, SmallMultiple, CapacityAssumption
<1> QED  BY <1>2, <1>3, CapacityAssumption

\* The next ticket of a cell.
LEMMA SlotShift == \A a \in Int : Slot(a + Capacity) = Slot(a)
<1> SUFFICES ASSUME NEW a \in Int PROVE Slot(a + Capacity) = Slot(a)
  OBVIOUS
<1> DEFINE r == a % Capacity
           s == (a + Capacity) % Capacity
           k == (a + Capacity) \div Capacity - a \div Capacity - 1
<1>1. a + Capacity \in Int /\ k \in Int
  BY DivMod, CapacityAssumption
<1>2. r - s = Capacity * k
  <2> DEFINE p == a \div Capacity
             q == (a + Capacity) \div Capacity
  <2>1. p \in Int /\ q \in Int /\ r \in Int /\ s \in Int
    BY <1>1, DivMod
  <2>2. a = Capacity * p + r /\ a + Capacity = Capacity * q + s
    BY <1>1, DivMod
  <2>3. k = q - p - 1
    OBVIOUS
  <2> HIDE DEF p, q, r, s, k
  <2> QED  BY <2>1, <2>2, <2>3, CapacityAssumption, SMTT(30)
<1>3. r \in 0 .. Capacity - 1 /\ s \in 0 .. Capacity - 1
  BY <1>1, DivMod
<1>4. k = 0
  <2> HIDE DEF r, s, k
  <2> QED  BY <1>1, <1>2, <1>3, SmallMultiple, CapacityAssumption
<1> QED  BY <1>2, <1>3, <1>4, CapacityAssumption DEF Slot

-----------------------------------------------------------------------------
(***************************************************************************)
(* Type correctness                                                        *)
(***************************************************************************)

\* Every step keeps the types.
LEMMA TypeStep == TypeOK /\ [Next]_vars => TypeOK'
<1> SUFFICES ASSUME TypeOK, [Next]_vars
             PROVE  TypeOK'
  OBVIOUS
<1> USE SlotType, CapacityAssumption DEF TypeOK, PushPC, PullPC, Goto, Return
<1>1. ASSUME NEW t \in Pusher, NEW v \in Value, PushBegin(t, v)
      PROVE  TypeOK'
  BY <1>1 DEF PushBegin, queueVars, Thread
<1>2. ASSUME NEW t \in Pusher, PushStep(t)
      PROVE  TypeOK'
  <2>1. CASE PushReload(t)   BY <2>1 DEF PushReload, queueVars, Thread
  <2>2. CASE PushSeq(t)      BY <2>2 DEF PushSeq, queueVars, Thread
  <2>3. CASE PushCas(t)      BY <2>3 DEF PushCas, Thread
  <2>4. CASE PushWrite(t)    BY <2>4 DEF PushWrite, Thread
  <2>5. CASE PushPublish(t)  BY <2>5 DEF PushPublish, Thread
  <2> QED  BY <1>2, <2>1, <2>2, <2>3, <2>4, <2>5 DEF PushStep
<1>3. ASSUME NEW t \in Puller, PullBegin(t)
      PROVE  TypeOK'
  BY <1>3 DEF PullBegin, queueVars, Thread
<1>4. ASSUME NEW t \in Puller, PullStep(t)
      PROVE  TypeOK'
  <2>1. CASE PullReload(t)   BY <2>1 DEF PullReload, queueVars, Thread
  <2>2. CASE PullSeq(t)      BY <2>2 DEF PullSeq, queueVars, Thread
  <2>3. CASE PullCas(t)      BY <2>3 DEF PullCas, Thread
  <2>4. CASE PullRead(t)     BY <2>4 DEF PullRead, queueVars, Thread
  <2>5. CASE PullPublish(t)  BY <2>5 DEF PullPublish, Thread
  <2> QED  BY <1>4, <2>1, <2>2, <2>3, <2>4, <2>5 DEF PullStep
<1>5. ASSUME NEW t \in Thread, Resume(t)
      PROVE  TypeOK'
  BY <1>5 DEF Resume, queueVars
<1>6. CASE UNCHANGED vars
  BY <1>6 DEF vars, queueVars, threadVars
<1> QED  BY <1>1, <1>2, <1>3, <1>4, <1>5, <1>6 DEF Next

\* Every variable of the queue always has its type.
THEOREM TypeCorrect == Spec => []TypeOK
<1>1. Init => TypeOK
  BY CapacityAssumption DEF Init, TypeOK, Slots
<1> QED  BY <1>1, TypeStep, PTL DEF Spec

-----------------------------------------------------------------------------
(***************************************************************************)
(* The inductive invariant                                                 *)
(***************************************************************************)

\* The conjuncts of IInv that speak of cells and their owners.
CellInv ==
  /\ Bounded
  /\ QueuedTickets
  /\ FreeTickets
  /\ PushOwners
  /\ PullOwners
  /\ OneOwner

\* A step that moves no position, publishes nothing and changes no owner
\* keeps what is known of the cells: the loads, the test of diff, a failed
\* compare-and-exchange, and the access to the data.
LEMMA CellsKept ==
  ASSUME TypeOK, CellInv,
         head' = head, tail' = tail, seq' = seq,
         \A t \in Thread : /\ Pushing(t)' <=> Pushing(t)
                           /\ Pulling(t)' <=> Pulling(t)
                           /\ Owner(t) => pos'[t] = pos[t]
  PROVE  CellInv'
<1> USE DEF TypeOK, CellInv
<1>1. Bounded'
  BY DEF Bounded
<1>2. QueuedTickets'
  BY DEF QueuedTickets, Owner
<1>3. FreeTickets'
  BY DEF FreeTickets, Owner
<1>4. PushOwners'
  BY DEF PushOwners, Owner
<1>5. PullOwners'
  BY DEF PullOwners, Owner
<1>6. OneOwner'
  BY DEF OneOwner, Owner
<1> QED  BY <1>1, <1>2, <1>3, <1>4, <1>5, <1>6

\* What IInv says of the thread whose compare-and-exchange on tail succeeds:
\* there is room, and the cell is free and nobody owns it.
LEMMA TailIsFree ==
  ASSUME IInv, NEW t \in Thread, pc[t] = "push_cas", tail = pos[t]
  PROVE  /\ tail < head + Capacity
         /\ seq[Slot(tail)] = tail
         /\ \A u \in Thread : Pulling(u) => pos[u] # tail - Capacity
<1> USE CapacityAssumption DEF IInv, TypeOK
<1>1. seq[Slot(tail)] = tail
  BY DEF PushCandidates
<1>2. ASSUME tail = head + Capacity
      PROVE  FALSE
  <2>1. Slot(tail) = Slot(head)
    BY <1>2, SlotShift
  <2>2. seq[Slot(head)] \in {head, head + 1}
    BY <1>2 DEF QueuedTickets
  <2> QED  BY <1>1, <1>2, <2>1, <2>2
<1>3. ASSUME NEW u \in Thread, Pulling(u), pos[u] = tail - Capacity
      PROVE  FALSE
  <2>1. Slot(tail) = Slot(pos[u])
    BY <1>3, SlotShift
  <2>2. seq[Slot(pos[u])] = pos[u] + 1
    BY <1>3 DEF PullOwners
  <2> QED  BY <1>1, <1>3, <2>1, <2>2
<1> QED  BY <1>1, <1>2, <1>3 DEF Bounded

\* What it says of the one whose compare-and-exchange on head succeeds.
LEMMA HeadIsFull ==
  ASSUME IInv, NEW t \in Thread, pc[t] = "pull_cas", head = pos[t]
  PROVE  /\ head < tail
         /\ seq[Slot(head)] = head + 1
         /\ \A u \in Thread : Pushing(u) => pos[u] # head
<1> USE CapacityAssumption DEF IInv, TypeOK
<1>1. seq[Slot(head)] = head + 1
  BY DEF PullCandidates
<1>2. ASSUME head = tail
      PROVE  FALSE
  <2>1. tail \in tail .. head + Capacity - 1
    BY <1>2
  <2>2. seq[Slot(tail)] \in {tail, tail - Capacity + 1}
    BY <2>1 DEF FreeTickets
  <2> QED  BY <1>1, <1>2, <2>2
<1>3. ASSUME NEW u \in Thread, Pushing(u), pos[u] = head
      PROVE  FALSE
  BY <1>1, <1>3 DEF PushOwners
<1> QED  BY <1>1, <1>2, <1>3 DEF Bounded

\* Taking a ticket to push: it turns from free to queued, in the hands of t.
LEMMA PushTakesTicket ==
  ASSUME IInv, TypeOK', NEW t \in Thread, PushCas(t),
         tail = pos[t], tail' = tail + 1, Goto(t, "push_write"), pos' = pos
  PROVE  IInv'
<1> USE CapacityAssumption DEF TypeOK, PushCas, Goto
<1> DEFINE Taken == /\ tail < head + Capacity
                    /\ seq[Slot(tail)] = tail
                    /\ \A u \in Thread : Pulling(u) => pos[u] # tail - Capacity
<1>0. /\ TypeOK /\ IInv /\ Taken
      /\ pc[t] = "push_cas" /\ head' = head /\ seq' = seq
  BY TailIsFree DEF IInv
<1> HIDE DEF Taken
<1>1. /\ Pushing(t)' /\ ~Pulling(t)' /\ ~Pushing(t) /\ ~Pulling(t)
      /\ \A u \in Thread \ {t} : /\ Pushing(u)' <=> Pushing(u)
                                 /\ Pulling(u)' <=> Pulling(u)
  BY <1>0 DEF Pushing, Pulling
<1>2. Bounded'
  BY <1>0 DEF IInv, Bounded, Taken
<1>3. QueuedTickets'
  <2> SUFFICES ASSUME NEW i \in (head .. tail - 1)'
               PROVE  (\/ seq[Slot(i)] = i + 1
                       \/ seq[Slot(i)] = i
                          /\ \E u \in Thread : Pushing(u) /\ pos[u] = i)'
    BY DEF QueuedTickets
  <2>1. CASE i = tail
    BY <2>1, <1>0, <1>1 DEF Taken
  <2>2. CASE i # tail
    BY <2>2, <1>0, <1>1 DEF IInv, QueuedTickets
  <2> QED  BY <2>1, <2>2
<1>4. FreeTickets'
  BY <1>0, <1>1 DEF IInv, FreeTickets
<1>5. PushOwners'
  BY <1>0, <1>1 DEF IInv, PushOwners, Taken, Bounded
<1>6. PullOwners'
  BY <1>0, <1>1 DEF IInv, PullOwners, Taken
<1>7. OneOwner'
  BY <1>0, <1>1 DEF IInv, OneOwner, PushOwners
<1>8. PushCandidates'
  BY <1>0 DEF IInv, PushCandidates, Taken
<1>9. PullCandidates'
  BY <1>0 DEF IInv, PullCandidates
<1> QED  BY <1>2, <1>3, <1>4, <1>5, <1>6, <1>7, <1>8, <1>9 DEF IInv

\* Taking a ticket to pull: its cell serves the ticket of the next round from
\* now on, and is in the hands of t.
LEMMA PullTakesTicket ==
  ASSUME IInv, TypeOK', NEW t \in Thread, PullCas(t),
         head = pos[t], head' = head + 1, Goto(t, "pull_read"), pos' = pos
  PROVE  IInv'
<1> USE CapacityAssumption DEF TypeOK, PullCas, Goto
<1> DEFINE Taken == /\ head < tail
                    /\ seq[Slot(head)] = head + 1
                    /\ \A u \in Thread : Pushing(u) => pos[u] # head
<1>0. /\ TypeOK /\ IInv /\ Taken
      /\ pc[t] = "pull_cas" /\ tail' = tail /\ seq' = seq
  BY HeadIsFull DEF IInv
<1> HIDE DEF Taken
<1>1. /\ Pulling(t)' /\ ~Pushing(t)' /\ ~Pushing(t) /\ ~Pulling(t)
      /\ \A u \in Thread \ {t} : /\ Pushing(u)' <=> Pushing(u)
                                 /\ Pulling(u)' <=> Pulling(u)
  BY <1>0 DEF Pushing, Pulling
<1>2. Bounded'
  BY <1>0 DEF IInv, Bounded, Taken
<1>3. QueuedTickets'
  BY <1>0, <1>1 DEF IInv, QueuedTickets
<1>4. FreeTickets'
  <2> SUFFICES ASSUME NEW i \in (tail .. head + Capacity - 1)'
               PROVE  (\/ seq[Slot(i)] = i
                       \/ /\ seq[Slot(i)] = i - Capacity + 1
                          /\ \E u \in Thread :
                               Pulling(u) /\ pos[u] = i - Capacity)'
    BY DEF FreeTickets
  <2>1. CASE i = head + Capacity
    <3>1. Slot(i) = Slot(head)
      BY <2>1, <1>0, SlotShift
    <3> QED  BY <3>1, <2>1, <1>0, <1>1 DEF Taken
  <2>2. CASE i # head + Capacity
    BY <2>2, <1>0, <1>1 DEF IInv, FreeTickets
  <2> QED  BY <2>1, <2>2
<1>5. PushOwners'
  BY <1>0, <1>1 DEF IInv, PushOwners, Taken
<1>6. PullOwners'
  BY <1>0, <1>1 DEF IInv, PullOwners, Taken, Bounded
<1>7. OneOwner'
  BY <1>0, <1>1 DEF IInv, OneOwner, PullOwners
<1>8. PushCandidates'
  BY <1>0 DEF IInv, PushCandidates
<1>9. PullCandidates'
  BY <1>0 DEF IInv, PullCandidates, Taken
<1> QED  BY <1>2, <1>3, <1>4, <1>5, <1>6, <1>7, <1>8, <1>9 DEF IInv

\* A cell has one owner: no other thread owns a ticket of the cell of t.
LEMMA CellHasOneOwner ==
  ASSUME IInv, NEW t \in Thread, NEW u \in Thread, t # u, Owner(t), Owner(u)
  PROVE  Slot(pos[t]) # Slot(pos[u])
<1> USE CapacityAssumption DEF IInv, TypeOK
<1> SUFFICES ASSUME Slot(pos[t]) = Slot(pos[u])
             PROVE  FALSE
  OBVIOUS
<1>1. CASE Pushing(t) /\ Pushing(u)
  <2>1. pos[t] = pos[u]
    BY <1>1 DEF PushOwners
  <2> QED  BY <1>1, <2>1 DEF OneOwner
<1>2. CASE Pulling(t) /\ Pulling(u)
  <2>1. pos[t] + 1 = pos[u] + 1
    BY <1>2 DEF PullOwners
  <2> QED  BY <1>2, <2>1 DEF OneOwner
<1>3. ASSUME NEW x \in Thread, NEW y \in Thread, Pushing(x), Pulling(y),
             Slot(pos[x]) = Slot(pos[y])
      PROVE  FALSE
  <2>1. pos[x] = pos[y] + 1
    BY <1>3 DEF PushOwners, PullOwners
  <2>2. pos[x] = pos[y]
    BY <1>3, <2>1, SlotInjective
  <2> QED  BY <2>1, <2>2
<1> QED  BY <1>1, <1>2, <1>3 DEF Owner

\* Publishing the pushed element: ticket pos[t] no longer needs its owner.
LEMMA PushPublishes ==
  ASSUME IInv, TypeOK', NEW t \in Thread, PushPublish(t)
  PROVE  IInv'
<1> USE CapacityAssumption, SlotType DEF TypeOK, PushPublish, Goto, Return
<1>0. /\ TypeOK /\ IInv /\ pc[t] = "push_publish"
      /\ head' = head /\ tail' = tail /\ pos' = pos
      /\ seq' = [seq EXCEPT ![Slot(pos[t])] = pos[t] + 1]
      /\ Pushing(t) /\ Owner(t)
  BY DEF IInv, Pushing, Owner
<1>1. /\ ~Pulling(t)' /\ ~Pushing(t)' /\ ~Pulling(t)
      /\ \A u \in Thread \ {t} : /\ Pushing(u)' <=> Pushing(u)
                                 /\ Pulling(u)' <=> Pulling(u)
  BY <1>0 DEF Pushing, Pulling
<1>2. head <= pos[t] /\ pos[t] < tail /\ seq[Slot(pos[t])] = pos[t]
  BY <1>0 DEF IInv, PushOwners
<1>3. \A i \in Int : \/ Slot(i) = Slot(pos[t]) /\ seq'[Slot(i)] = pos[t] + 1
                     \/ Slot(i) # Slot(pos[t]) /\ seq'[Slot(i)] = seq[Slot(i)]
  BY <1>0
<1>4. \A u \in Thread \ {t} : Owner(u) => seq'[Slot(pos[u])] = seq[Slot(pos[u])]
  BY <1>0, <1>3, CellHasOneOwner
<1>5. Bounded'
  BY <1>0 DEF IInv, Bounded
<1>6. QueuedTickets'
  <2> SUFFICES ASSUME NEW i \in head .. tail - 1
               PROVE  (\/ seq[Slot(i)] = i + 1
                       \/ seq[Slot(i)] = i
                          /\ \E u \in Thread : Pushing(u) /\ pos[u] = i)'
    BY <1>0 DEF QueuedTickets
  <2>1. CASE i = pos[t]
    BY <2>1, <1>0, <1>3
  <2>2. CASE i # pos[t]
    <3>1. Slot(i) # Slot(pos[t])
      BY <2>2, <1>0, <1>2, SlotInjective DEF IInv, Bounded
    <3> QED  BY <3>1, <2>2, <1>0, <1>1, <1>3 DEF IInv, QueuedTickets
  <2> QED  BY <2>1, <2>2
<1>7. FreeTickets'
  <2> SUFFICES ASSUME NEW i \in tail .. head + Capacity - 1
               PROVE  (\/ seq[Slot(i)] = i
                       \/ /\ seq[Slot(i)] = i - Capacity + 1
                          /\ \E u \in Thread :
                               Pulling(u) /\ pos[u] = i - Capacity)'
    BY <1>0 DEF FreeTickets
  <2>1. Slot(i) # Slot(pos[t])
    BY <1>0, <1>2, SlotInjective DEF IInv, Bounded
  <2> QED  BY <2>1, <1>0, <1>1, <1>3 DEF IInv, FreeTickets
<1>8. PushOwners'
  BY <1>0, <1>1, <1>4 DEF IInv, PushOwners, Owner
<1>9. PullOwners'
  BY <1>0, <1>1, <1>4 DEF IInv, PullOwners, Owner
<1>10. OneOwner'
  BY <1>0, <1>1 DEF IInv, OneOwner
<1>11. PushCandidates'
  <2> SUFFICES ASSUME NEW u \in Thread, pc[u]' \in {"push_seq", "push_cas"}
               PROVE  /\ pos[u] <= tail
                      /\ pos[u] < tail => seq'[Slot(pos[u])] >= pos[u]
                      /\ pc[u] = "push_cas" /\ pos[u] = tail
                           => seq'[Slot(pos[u])] = pos[u]
    BY <1>0 DEF PushCandidates
  <2>1. u # t /\ pc[u] \in {"push_seq", "push_cas"}
    BY <1>0
  <2>2. CASE Slot(pos[u]) = Slot(pos[t])
    BY <2>1, <2>2, <1>0, <1>2, <1>3 DEF IInv, PushCandidates
  <2>3. CASE Slot(pos[u]) # Slot(pos[t])
    BY <2>1, <2>3, <1>0, <1>3 DEF IInv, PushCandidates
  <2> QED  BY <2>2, <2>3
<1>12. PullCandidates'
  <2> SUFFICES ASSUME NEW u \in Thread, pc[u]' \in {"pull_seq", "pull_cas"}
               PROVE  /\ pos[u] <= head
                      /\ pos[u] < head => seq'[Slot(pos[u])] > pos[u]
                      /\ pc[u] = "pull_cas" /\ pos[u] = head
                           => seq'[Slot(pos[u])] = pos[u] + 1
    BY <1>0 DEF PullCandidates
  <2>1. u # t /\ pc[u] \in {"pull_seq", "pull_cas"}
    BY <1>0
  <2>2. CASE Slot(pos[u]) = Slot(pos[t])
    <3>1. pos[t] # pos[u] + 1
      BY <2>2, SlotInjective
    <3>2. pc[u] = "pull_cas" => pos[u] # head
      BY <2>1, <2>2, <3>1, <1>0, <1>2 DEF IInv, PullCandidates
    <3> QED  BY <2>1, <2>2, <3>2, <1>0, <1>2, <1>3 DEF IInv, PullCandidates
  <2>3. CASE Slot(pos[u]) # Slot(pos[t])
    BY <2>1, <2>3, <1>0, <1>3 DEF IInv, PullCandidates
  <2> QED  BY <2>2, <2>3
<1> QED
  BY <1>5, <1>6, <1>7, <1>8, <1>9, <1>10, <1>11, <1>12 DEF IInv

\* Publishing the free cell: it serves ticket pos[t] + Capacity without an
\* owner.
LEMMA PullPublishes ==
  ASSUME IInv, TypeOK', NEW t \in Thread, PullPublish(t)
  PROVE  IInv'
<1> USE CapacityAssumption, SlotType DEF TypeOK, PullPublish, Goto, Return
<1>0. /\ TypeOK /\ IInv /\ pc[t] = "pull_publish"
      /\ head' = head /\ tail' = tail /\ pos' = pos
      /\ seq' = [seq EXCEPT ![Slot(pos[t])] = pos[t] + Capacity]
      /\ Pulling(t) /\ Owner(t)
  BY DEF IInv, Pulling, Owner
<1>1. /\ ~Pulling(t)' /\ ~Pushing(t)' /\ ~Pushing(t)
      /\ \A u \in Thread \ {t} : /\ Pushing(u)' <=> Pushing(u)
                                 /\ Pulling(u)' <=> Pulling(u)
  BY <1>0 DEF Pushing, Pulling
<1>2. /\ tail - Capacity <= pos[t] /\ pos[t] < head
      /\ seq[Slot(pos[t])] = pos[t] + 1
  BY <1>0 DEF IInv, PullOwners
<1>3. \A i \in Int :
        \/ Slot(i) = Slot(pos[t]) /\ seq'[Slot(i)] = pos[t] + Capacity
        \/ Slot(i) # Slot(pos[t]) /\ seq'[Slot(i)] = seq[Slot(i)]
  BY <1>0
<1>4. \A u \in Thread \ {t} : Owner(u) => seq'[Slot(pos[u])] = seq[Slot(pos[u])]
  BY <1>0, <1>3, CellHasOneOwner
<1>5. Bounded'
  BY <1>0 DEF IInv, Bounded
<1>6. Slot(pos[t] + Capacity) = Slot(pos[t])
  BY SlotShift
<1>7. QueuedTickets'
  <2> SUFFICES ASSUME NEW i \in head .. tail - 1
               PROVE  (\/ seq[Slot(i)] = i + 1
                       \/ seq[Slot(i)] = i
                          /\ \E u \in Thread : Pushing(u) /\ pos[u] = i)'
    BY <1>0 DEF QueuedTickets
  <2>1. Slot(i) # Slot(pos[t])
    BY <1>0, <1>2, SlotInjective DEF IInv, Bounded
  <2> QED  BY <2>1, <1>0, <1>1, <1>3 DEF IInv, QueuedTickets
<1>8. FreeTickets'
  <2> SUFFICES ASSUME NEW i \in tail .. head + Capacity - 1
               PROVE  (\/ seq[Slot(i)] = i
                       \/ /\ seq[Slot(i)] = i - Capacity + 1
                          /\ \E u \in Thread :
                               Pulling(u) /\ pos[u] = i - Capacity)'
    BY <1>0 DEF FreeTickets
  <2>1. CASE i = pos[t] + Capacity
    BY <2>1, <1>0, <1>3, <1>6
  <2>2. CASE i # pos[t] + Capacity
    <3>1. Slot(i) # Slot(pos[t] + Capacity)
      BY <2>2, <1>0, <1>2, SlotInjective DEF IInv, Bounded
    <3> QED  BY <3>1, <2>2, <1>0, <1>1, <1>3, <1>6 DEF IInv, FreeTickets
  <2> QED  BY <2>1, <2>2
<1>9. PushOwners'
  BY <1>0, <1>1, <1>4 DEF IInv, PushOwners, Owner
<1>10. PullOwners'
  BY <1>0, <1>1, <1>4 DEF IInv, PullOwners, Owner
<1>11. OneOwner'
  BY <1>0, <1>1 DEF IInv, OneOwner
<1>12. PushCandidates'
  <2> SUFFICES ASSUME NEW u \in Thread, pc[u]' \in {"push_seq", "push_cas"}
               PROVE  /\ pos[u] <= tail
                      /\ pos[u] < tail => seq'[Slot(pos[u])] >= pos[u]
                      /\ pc[u] = "push_cas" /\ pos[u] = tail
                           => seq'[Slot(pos[u])] = pos[u]
    BY <1>0 DEF PushCandidates
  <2>1. u # t /\ pc[u] \in {"push_seq", "push_cas"}
    BY <1>0
  <2>2. CASE Slot(pos[u]) = Slot(pos[t])
    <3>1. pos[t] + 1 # pos[u]
      BY <2>2, SlotInjective
    <3>2. pc[u] = "push_cas" => pos[u] # tail
      BY <2>1, <2>2, <3>1, <1>0, <1>2 DEF IInv, PushCandidates
    <3> QED  BY <2>1, <2>2, <3>2, <1>0, <1>2, <1>3 DEF IInv, PushCandidates
  <2>3. CASE Slot(pos[u]) # Slot(pos[t])
    BY <2>1, <2>3, <1>0, <1>3 DEF IInv, PushCandidates
  <2> QED  BY <2>2, <2>3
<1>13. PullCandidates'
  <2> SUFFICES ASSUME NEW u \in Thread, pc[u]' \in {"pull_seq", "pull_cas"}
               PROVE  /\ pos[u] <= head
                      /\ pos[u] < head => seq'[Slot(pos[u])] > pos[u]
                      /\ pc[u] = "pull_cas" /\ pos[u] = head
                           => seq'[Slot(pos[u])] = pos[u] + 1
    BY <1>0 DEF PullCandidates
  <2>1. u # t /\ pc[u] \in {"pull_seq", "pull_cas"}
    BY <1>0
  <2>2. CASE Slot(pos[u]) = Slot(pos[t])
    BY <2>1, <2>2, <1>0, <1>2, <1>3 DEF IInv, PullCandidates
  <2>3. CASE Slot(pos[u]) # Slot(pos[t])
    BY <2>1, <2>3, <1>0, <1>3 DEF IInv, PullCandidates
  <2> QED  BY <2>2, <2>3
<1> QED
  BY <1>5, <1>7, <1>8, <1>9, <1>10, <1>11, <1>12, <1>13 DEF IInv

\* At the start every cell is free for its first ticket.
LEMMA InitIInv == Init => IInv
<1> SUFFICES ASSUME Init PROVE IInv
  OBVIOUS
<1> USE CapacityAssumption DEF Init
<1>1. TypeOK
  BY DEF TypeOK, Slots
<1>2. \A i \in 0 .. Capacity - 1 : Slot(i) = i
  <2> SUFFICES ASSUME NEW i \in 0 .. Capacity - 1 PROVE Slot(i) = i
    OBVIOUS
  <2> QED  BY SMTT(30) DEF Slot
<1>3. FreeTickets
  BY <1>2 DEF FreeTickets, Slots
<1>4. Bounded /\ QueuedTickets /\ PushOwners /\ PullOwners /\ OneOwner
  BY DEF Bounded, QueuedTickets, PushOwners, PullOwners, OneOwner, Pushing,
         Pulling
<1>5. PushCandidates /\ PullCandidates
  BY DEF PushCandidates, PullCandidates
<1> QED  BY <1>1, <1>3, <1>4, <1>5 DEF IInv

\* Every step keeps the invariant.
LEMMA NextIInv == IInv /\ [Next]_vars => IInv'
<1> SUFFICES ASSUME IInv, [Next]_vars
             PROVE  IInv'
  OBVIOUS
<1> USE CapacityAssumption, SlotType DEF Goto, Return
<1>0. TypeOK /\ CellInv /\ PushCandidates /\ PullCandidates
  BY DEF IInv, CellInv
<1>t. TypeOK'
  BY <1>0, TypeStep
<1>k. ASSUME CellInv', PushCandidates', PullCandidates'
      PROVE  IInv'
  BY <1>t, <1>k DEF IInv, CellInv
<1>1. ASSUME NEW t \in Pusher, NEW v \in Value, PushBegin(t, v)
      PROVE  IInv'
  <2> USE <1>0, <1>1 DEF PushBegin, queueVars, TypeOK, Thread
  <2>1. CellInv'
    BY CellsKept DEF Pushing, Pulling, Owner
  <2>2. PushCandidates' /\ PullCandidates'
    BY DEF PushCandidates, PullCandidates
  <2> QED  BY <2>1, <2>2, <1>k
<1>2. ASSUME NEW t \in Pusher, PushStep(t)
      PROVE  IInv'
  <2>1. CASE PushReload(t)
    <3> USE <1>0, <1>2, <2>1 DEF PushReload, queueVars, TypeOK, Thread
    <3>1. CellInv'
      BY CellsKept DEF Pushing, Pulling, Owner
    <3>2. PushCandidates' /\ PullCandidates'
      BY DEF PushCandidates, PullCandidates
    <3> QED  BY <3>1, <3>2, <1>k
  <2>2. CASE PushSeq(t)
    <3> USE <1>0, <1>2, <2>2 DEF PushSeq, queueVars, TypeOK, Thread
    <3>1. CellInv'
      BY CellsKept DEF Pushing, Pulling, Owner
    <3>2. PushCandidates'
      BY DEF PushCandidates
    <3>3. PullCandidates'
      BY DEF PullCandidates
    <3> QED  BY <3>1, <3>2, <3>3, <1>k
  <2>3. CASE PushCas(t)
    <3>1. CASE pc'[t] = "push_write"
      <4>1. /\ tail = pos[t] /\ tail' = tail + 1
            /\ pc' = [pc EXCEPT ![t] = "push_write"] /\ pos' = pos
        BY <1>0, <1>2, <2>3, <3>1 DEF PushCas, TypeOK, Thread
      <4> QED  BY <4>1, <1>2, <1>t, <2>3, PushTakesTicket DEF Thread
    <3>2. CASE pc'[t] # "push_write"
      <4>1. /\ pc[t] = "push_cas" /\ tail' = tail /\ head' = head /\ seq' = seq
            /\ pc' = [pc EXCEPT ![t] = "push_seq"]
            /\ pos' = [pos EXCEPT ![t] = tail]
        BY <1>0, <1>2, <2>3, <3>2 DEF PushCas, TypeOK, Thread
      <4> USE <1>0, <1>2, <4>1 DEF TypeOK, Thread
      <4>2. CellInv'
        BY CellsKept DEF Pushing, Pulling, Owner
      <4>3. PushCandidates' /\ PullCandidates'
        BY DEF PushCandidates, PullCandidates
      <4> QED  BY <4>2, <4>3, <1>k
    <3> QED  BY <3>1, <3>2
  <2>4. CASE PushWrite(t)
    <3> USE <1>0, <1>2, <2>4 DEF PushWrite, TypeOK, Thread
    <3>1. CellInv'
      BY CellsKept DEF Pushing, Pulling, Owner
    <3>2. PushCandidates' /\ PullCandidates'
      BY DEF PushCandidates, PullCandidates
    <3> QED  BY <3>1, <3>2, <1>k
  <2>5. CASE PushPublish(t)
    BY <1>2, <1>t, <2>5, PushPublishes DEF Thread
  <2> QED  BY <1>2, <2>1, <2>2, <2>3, <2>4, <2>5 DEF PushStep
<1>3. ASSUME NEW t \in Puller, PullBegin(t)
      PROVE  IInv'
  <2> USE <1>0, <1>3 DEF PullBegin, queueVars, TypeOK, Thread
  <2>1. CellInv'
    BY CellsKept DEF Pushing, Pulling, Owner
  <2>2. PushCandidates' /\ PullCandidates'
    BY DEF PushCandidates, PullCandidates
  <2> QED  BY <2>1, <2>2, <1>k
<1>4. ASSUME NEW t \in Puller, PullStep(t)
      PROVE  IInv'
  <2>1. CASE PullReload(t)
    <3> USE <1>0, <1>4, <2>1 DEF PullReload, queueVars, TypeOK, Thread
    <3>1. CellInv'
      BY CellsKept DEF Pushing, Pulling, Owner
    <3>2. PushCandidates' /\ PullCandidates'
      BY DEF PushCandidates, PullCandidates
    <3> QED  BY <3>1, <3>2, <1>k
  <2>2. CASE PullSeq(t)
    <3> USE <1>0, <1>4, <2>2 DEF PullSeq, queueVars, TypeOK, Thread
    <3>1. CellInv'
      BY CellsKept DEF Pushing, Pulling, Owner
    <3>2. PushCandidates'
      BY DEF PushCandidates
    <3>3. PullCandidates'
      BY DEF PullCandidates
    <3> QED  BY <3>1, <3>2, <3>3, <1>k
  <2>3. CASE PullCas(t)
    <3>1. CASE pc'[t] = "pull_read"
      <4>1. /\ head = pos[t] /\ head' = head + 1
            /\ pc' = [pc EXCEPT ![t] = "pull_read"] /\ pos' = pos
        BY <1>0, <1>4, <2>3, <3>1 DEF PullCas, TypeOK, Thread
      <4> QED  BY <4>1, <1>4, <1>t, <2>3, PullTakesTicket DEF Thread
    <3>2. CASE pc'[t] # "pull_read"
      <4>1. /\ pc[t] = "pull_cas" /\ tail' = tail /\ head' = head /\ seq' = seq
            /\ pc' = [pc EXCEPT ![t] = "pull_seq"]
            /\ pos' = [pos EXCEPT ![t] = head]
        BY <1>0, <1>4, <2>3, <3>2 DEF PullCas, TypeOK, Thread
      <4> USE <1>0, <1>4, <4>1 DEF TypeOK, Thread
      <4>2. CellInv'
        BY CellsKept DEF Pushing, Pulling, Owner
      <4>3. PushCandidates' /\ PullCandidates'
        BY DEF PushCandidates, PullCandidates
      <4> QED  BY <4>2, <4>3, <1>k
    <3> QED  BY <3>1, <3>2
  <2>4. CASE PullRead(t)
    <3> USE <1>0, <1>4, <2>4 DEF PullRead, queueVars, TypeOK, Thread
    <3>1. CellInv'
      BY CellsKept DEF Pushing, Pulling, Owner
    <3>2. PushCandidates' /\ PullCandidates'
      BY DEF PushCandidates, PullCandidates
    <3> QED  BY <3>1, <3>2, <1>k
  <2>5. CASE PullPublish(t)
    BY <1>4, <1>t, <2>5, PullPublishes DEF Thread
  <2> QED  BY <1>4, <2>1, <2>2, <2>3, <2>4, <2>5 DEF PullStep
<1>5. ASSUME NEW t \in Thread, Resume(t)
      PROVE  IInv'
  <2> USE <1>0, <1>5 DEF Resume, queueVars, TypeOK
  <2>1. CellInv'
    BY CellsKept DEF Pushing, Pulling, Owner
  <2>2. PushCandidates' /\ PullCandidates'
    BY DEF PushCandidates, PullCandidates
  <2> QED  BY <2>1, <2>2, <1>k
<1>6. CASE UNCHANGED vars
  <2> USE <1>0, <1>6 DEF vars, queueVars, threadVars
  <2>1. CellInv'
    BY CellsKept DEF Pushing, Pulling, Owner
  <2>2. PushCandidates' /\ PullCandidates'
    BY DEF PushCandidates, PullCandidates
  <2> QED  BY <2>1, <2>2, <1>k
<1> QED  BY <1>1, <1>2, <1>3, <1>4, <1>5, <1>6 DEF Next

\* The cells, their owners and the stale tickets of all threads always fit
\* together: the reason for everything below.
THEOREM Invariance == Spec => []IInv
  BY InitIInv, NextIInv, PTL DEF Spec

\* cell->data needs no lock: two threads never own one cell.
THEOREM CellsAreExclusive == Spec => []ExclusiveCells
<1>1. IInv => ExclusiveCells
  BY CellHasOneOwner DEF ExclusiveCells
<1> QED  BY <1>1, Invariance, PTL

\* The queue never holds more elements than cells, nor a negative number.
THEOREM QueueIsBounded == Spec => []Bounded
<1>1. IInv => Bounded
  BY DEF IInv
<1> QED  BY <1>1, Invariance, PTL

\* A thread only fails to pull in the branch that finds diff negative, and
\* then its ticket is the current head.
LEMMA PullGivesUp ==
  ASSUME IInv, [Next]_vars, NEW t \in Puller,
         pc[t] = "pull_seq", pc'[t] = "done"
  PROVE  \/ head = tail
         \/ \E u \in Thread : Pushing(u) /\ pos[u] = head
<1> USE DEF IInv, TypeOK, Goto, Return, Thread
<1>1. PullSeq(t)
  BY DEF Next, PushStep, PullStep, PushBegin, PushReload, PushSeq,
     PushCas, PushWrite, PushPublish, PullBegin, PullReload, PullSeq,
     PullCas, PullRead, PullPublish, Resume, vars, threadVars
<1>2. seq[Slot(pos[t])] < pos[t] + 1
  BY <1>1, SlotType DEF PullSeq
<1>3. pos[t] = head
  BY <1>2, SlotType DEF PullCandidates
<1>4. CASE head < tail
  BY <1>2, <1>3, <1>4, SlotType DEF QueuedTickets
<1> QED  BY <1>4 DEF Bounded

\* mpmc_queue_pull fails only when there is nothing to pull, or while the
\* push of the oldest ticket is under way.
THEOREM PullFailureIsHonest == Spec => PullFailsHonestly
<1>1. IInv /\ [Next]_vars =>
        [\A t \in Puller :
           pc[t] = "pull_seq" /\ pc'[t] = "done"
             => \/ head = tail
                \/ \E u \in Thread : Pushing(u) /\ pos[u] = head]_vars
  BY PullGivesUp
<1> QED  BY <1>1, Invariance, PTL DEF Spec, PullFailsHonestly

\* A thread only fails to push in the branch that finds diff negative, and
\* then its ticket is the current tail.
LEMMA PushGivesUp ==
  ASSUME IInv, [Next]_vars, NEW t \in Pusher,
         pc[t] = "push_seq", pc'[t] = "done"
  PROVE  \/ tail = head + Capacity
         \/ \E u \in Thread : Pulling(u) /\ pos[u] = tail - Capacity
<1> USE CapacityAssumption DEF IInv, TypeOK, Goto, Return, Thread
<1>1. PushSeq(t)
  BY DEF Next, PushStep, PullStep, PushBegin, PushReload, PushSeq,
     PushCas, PushWrite, PushPublish, PullBegin, PullReload, PullSeq,
     PullCas, PullRead, PullPublish, Resume, vars, threadVars
<1>2. seq[Slot(pos[t])] < pos[t]
  BY <1>1, SlotType DEF PushSeq
<1>3. pos[t] = tail
  BY <1>2, SlotType DEF PushCandidates
<1>4. CASE tail < head + Capacity
  BY <1>2, <1>3, <1>4, SlotType DEF FreeTickets
<1> QED  BY <1>4 DEF Bounded

\* mpmc_queue_push fails only when all cells are taken, or while the pull that
\* frees the next cell is under way.
THEOREM PushFailureIsHonest == Spec => PushFailsHonestly
<1>1. IInv /\ [Next]_vars =>
        [\A t \in Pusher :
           pc[t] = "push_seq" /\ pc'[t] = "done"
             => \/ tail = head + Capacity
                \/ \E u \in Thread :
                     Pulling(u) /\ pos[u] = tail - Capacity]_vars
  BY PushGivesUp
<1> QED  BY <1>1, Invariance, PTL DEF Spec, PushFailsHonestly

-----------------------------------------------------------------------------
(***************************************************************************)
(* MpmcQueue implements FifoQueue.  The inductive invariant says who owns  *)
(* the cell of each ticket; here it is used to follow the elements.        *)
(***************************************************************************)


Content == Value \cup {NoValue}

\* What Element(i) is: what its writer holds, or what is stored in its cell.
Traced(i) ==
  /\ Element(i) \in Content
  /\ \A u \in Thread : pc[u] = "push_write" /\ pos[u] = i => Element(i) = val[u]
  /\ (\A u \in Thread : ~(pc[u] = "push_write" /\ pos[u] = i))
       => Element(i) = data[Slot(i)]

AllTraced == \A i \in Int : Traced(i)

\* The abstract queue is a sequence of the queued tickets' elements.
IsQueue ==
  /\ Elements \in Seq(Content)
  /\ Len(Elements) = tail - head
  /\ \A i \in 1 .. tail - head : Elements[i] = Element(head + i - 1)

\* A ticket is written by one thread, so it has one element.
LEMMA Tracing == IInv => AllTraced
<1> SUFFICES ASSUME IInv, NEW i \in Int
             PROVE  Traced(i)
  BY DEF AllTraced
<1> DEFINE W(u) == pc[u] = "push_write" /\ pos[u] = i
<1>1. ASSUME NEW u \in Thread, W(u)
      PROVE  Element(i) = val[u]
  <2> DEFINE w == CHOOSE x \in Thread : W(x)
  <2>1. w \in Thread /\ W(w)
    BY <1>1
  <2>2. w = u
    BY <1>1, <2>1 DEF IInv, OneOwner, Pushing
  <2>3. Element(i) = val[w]
    BY <1>1 DEF Element
  <2> QED  BY <2>2, <2>3
<1>2. (\A u \in Thread : ~W(u)) => Element(i) = data[Slot(i)]
  BY DEF Element
<1>3. Element(i) \in Content
  BY <1>1, <1>2, SlotType DEF IInv, TypeOK, Content
<1> QED  BY <1>1, <1>2, <1>3 DEF Traced

\* The elements between head and tail are a sequence.
LEMMA Queueing == IInv => IsQueue
<1> SUFFICES ASSUME IInv
             PROVE  IsQueue
  OBVIOUS
<1> DEFINE n == tail - head
<1>1. n \in Nat /\ head \in Nat
  BY DEF IInv, TypeOK, Bounded
<1>2. \A i \in 1 .. n : Element(head + i - 1) \in Content
  BY <1>1, Tracing DEF AllTraced, Traced
<1>3. Elements \in [1 .. n -> Content]
  BY <1>2 DEF Elements
<1>4. Elements \in Seq(Content)
  BY <1>1, <1>3, SeqDef
<1>5. DOMAIN Elements = 1 .. n /\ DOMAIN Elements = 1 .. Len(Elements)
  BY <1>3, <1>4, LenProperties
<1>6. Len(Elements) = n
  <2> HIDE DEF n
  <2>1. Len(Elements) \in Nat
    BY <1>4, LenProperties
  <2> QED  BY <1>1, <1>5, <2>1
<1>7. \A i \in 1 .. n : Elements[i] = Element(head + i - 1)
  BY DEF Elements
<1> QED  BY <1>4, <1>6, <1>7 DEF IsQueue

\* The same of the next state.
LEMMA StillTraced == IInv' => AllTraced' /\ IsQueue'
  BY Tracing, Queueing, PTL

-----------------------------------------------------------------------------
(***************************************************************************)
(* What a step that moves thread t leaves as it is                         *)
(***************************************************************************)

\* The abstract call of a thread moves with its pc.
LEMMA CallMoves ==
  ASSUME TypeOK, NEW t \in Thread, NEW l, Goto(t, l)
  PROVE  /\ CallStates[t] = CallState(pc[t])
         /\ CallStates' = [CallStates EXCEPT ![t] = CallState(l)]
<1>1. \A u \in Thread : pc'[u] = IF u = t THEN l ELSE pc[u]
  BY DEF TypeOK, Goto
<1> QED  BY <1>1 DEF CallStates

\* Elements whose writers and cells do not change stay.
LEMMA ElementsStay ==
  ASSUME IInv, IInv', head' = head, tail' = tail, data' = data,
         \A u \in Thread :
           /\ pc'[u] = "push_write" <=> pc[u] = "push_write"
           /\ pc[u] = "push_write" => pos'[u] = pos[u] /\ val'[u] = val[u]
  PROVE  Elements' = Elements
<1>1. \A i \in Int : Element(i)' = Element(i)
  <2> SUFFICES ASSUME NEW i \in Int
               PROVE  Element(i)' = Element(i)
    OBVIOUS
  <2>1. Traced(i) /\ Traced(i)'
    BY Tracing, StillTraced DEF AllTraced
  <2>2. CASE \E u \in Thread : pc[u] = "push_write" /\ pos[u] = i
    BY <2>1, <2>2 DEF Traced
  <2>3. CASE ~ \E u \in Thread : pc[u] = "push_write" /\ pos[u] = i
    BY <2>1, <2>3 DEF Traced
  <2> QED  BY <2>2, <2>3
<1>2. head \in Nat /\ tail \in Nat
  BY DEF IInv, TypeOK
<1> QED  BY <1>1, <1>2 DEF Elements

\* A step of t that neither writes nor reads an element, and neither takes
\* nor gives up its value: the abstract queue and arguments stay.
LEMMA QuietStep ==
  ASSUME IInv, IInv', NEW t \in Thread, NEW l, Goto(t, l),
         pc[t] \notin {"push_write", "pull_read"},
         l \notin {"push_write", "pull_read"},
         head' = head, tail' = tail, data' = data, val' = val,
         \A u \in Thread \ {t} : pos'[u] = pos[u]
  PROVE  /\ Elements' = Elements
         /\ Arguments' = Arguments
         /\ CallStates[t] = CallState(pc[t])
         /\ CallStates' = [CallStates EXCEPT ![t] = CallState(l)]
<1> USE DEF IInv, TypeOK
<1>1. \A u \in Thread : pc'[u] = IF u = t THEN l ELSE pc[u]
  BY DEF Goto
<1>2. Elements' = Elements
  BY <1>1, ElementsStay
<1>3. Arguments' = Arguments
  BY <1>1 DEF Arguments
<1> QED  BY <1>2, <1>3, CallMoves

-----------------------------------------------------------------------------
(***************************************************************************)
(* The steps that move an element                                          *)
(***************************************************************************)

\* The successful compare-and-exchange on tail appends the element to the
\* queue, which has room for it.
LEMMA TakesTail ==
  ASSUME IInv, IInv', NEW t \in Thread, PushCas(t),
         tail = pos[t], tail' = tail + 1, Goto(t, "push_write"), pos' = pos
  PROVE  /\ Len(Elements) < Capacity
         /\ Elements' = Append(Elements, Arguments[t])
         /\ Arguments' = Arguments
<1> USE CapacityAssumption DEF IInv, TypeOK
<1>0. /\ pc[t] = "push_cas" /\ head' = head /\ data' = data /\ val' = val
      /\ \A u \in Thread : pc'[u] = IF u = t THEN "push_write" ELSE pc[u]
      /\ Arguments[t] = val[t] /\ val[t] \in Content
  BY DEF PushCas, Goto, Arguments, Content
<1>1. IsQueue /\ IsQueue' /\ AllTraced /\ AllTraced'
  BY Tracing, Queueing, StillTraced
<1>2. Len(Elements) < Capacity
  BY <1>0, <1>1, TailIsFree DEF IsQueue
<1>3. Arguments' = Arguments
  BY <1>0 DEF Arguments
<1>4. ASSUME NEW i \in Int, i = tail
      PROVE  Element(i)' = val[t]
  <2>1. Traced(i)'
    BY <1>1 DEF AllTraced
  <2> QED  BY <1>0, <1>4, <2>1 DEF Traced
<1>5. \A i \in head .. tail - 1 : Element(i)' = Element(i)
  <2> SUFFICES ASSUME NEW i \in head .. tail - 1
               PROVE  Element(i)' = Element(i)
    OBVIOUS
  <2>1. Traced(i) /\ Traced(i)'
    BY <1>1 DEF AllTraced
  <2>2. CASE \E u \in Thread : pc[u] = "push_write" /\ pos[u] = i
    BY <1>0, <2>1, <2>2 DEF Traced
  <2>3. CASE ~ \E u \in Thread : pc[u] = "push_write" /\ pos[u] = i
    BY <1>0, <2>1, <2>3 DEF Traced
  <2> QED  BY <2>2, <2>3
<1>6. Elements' = Append(Elements, Arguments[t])
  <2> DEFINE n == Len(Elements)
             q == Append(Elements, Arguments[t])
  <2>1. /\ n \in Nat /\ head \in Nat /\ tail = head + n
        /\ Elements \in Seq(Content)
        /\ \A i \in 1 .. n : Elements[i] = Element(head + i - 1)
    BY <1>1 DEF IsQueue, Bounded
  <2>2. /\ Elements' \in Seq(Content) /\ Len(Elements') = n + 1
        /\ \A i \in 1 .. n + 1 : \A j \in Int :
             j = head + i - 1 => Elements'[i] = Element(j)'
    BY <1>0, <1>1 DEF IsQueue
  <2>3. /\ q \in Seq(Content) /\ Len(q) = n + 1
        /\ \A i \in 1 .. n : q[i] = Elements[i]
        /\ q[n + 1] = Arguments[t]
    BY <1>0, <2>1, AppendProperties
  <2> HIDE DEF n, q
  <2>4. ASSUME NEW i \in 1 .. n + 1
        PROVE  Elements'[i] = q[i]
    <3> DEFINE j == head + i - 1
    <3>1. j \in Int /\ j' = j /\ i \in Int
      BY <1>0, <2>1
    <3>2. CASE i = n + 1
      <4>1. j = tail
        BY <2>1, <3>2
      <4> QED  BY <1>0, <1>4, <2>2, <2>3, <3>1, <3>2, <4>1
    <3>3. CASE i # n + 1
      <4>1. i \in 1 .. n /\ j \in head .. tail - 1
        BY <2>1, <3>3
      <4> QED  BY <1>5, <2>1, <2>2, <2>3, <3>1, <4>1
    <3> QED  BY <3>2, <3>3
  <2>5. Len(Elements') = Len(q) /\ \A i \in 1 .. Len(Elements') : Elements'[i] = q[i]
    BY <2>2, <2>3, <2>4
  <2>6. Elements' = q
    BY <2>2, <2>3, <2>5, SeqEqual
  <2> QED  BY <2>6 DEF q
<1> QED  BY <1>2, <1>3, <1>6

\* The successful compare-and-exchange on head removes the oldest element,
\* which is in its cell.
LEMMA TakesHead ==
  ASSUME IInv, IInv', NEW t \in Thread, PullCas(t),
         head = pos[t], head' = head + 1, Goto(t, "pull_read"), pos' = pos
  PROVE  /\ Elements # <<>>
         /\ Elements' = Tail(Elements)
         /\ Arguments' = [Arguments EXCEPT ![t] = Head(Elements)]
<1> USE CapacityAssumption DEF IInv, TypeOK
<1>0. /\ pc[t] = "pull_cas" /\ tail' = tail /\ data' = data /\ val' = val
      /\ \A u \in Thread : pc'[u] = IF u = t THEN "pull_read" ELSE pc[u]
  BY DEF PullCas, Goto
<1>1. IsQueue /\ IsQueue' /\ AllTraced /\ AllTraced'
  BY Tracing, Queueing, StillTraced
<1> DEFINE n == Len(Elements)
<1>2. /\ n \in Nat /\ n > 0 /\ head \in Nat /\ tail = head + n
      /\ Elements \in Seq(Content)
      /\ \A i \in 1 .. n : Elements[i] = Element(head + i - 1)
  BY <1>1, <1>0, HeadIsFull DEF IsQueue
<1>3. Elements # <<>>
  BY <1>2, EmptySeq
<1>4. \A i \in Int : Element(i)' = Element(i)
  <2> SUFFICES ASSUME NEW i \in Int
               PROVE  Element(i)' = Element(i)
    OBVIOUS
  <2>1. Traced(i) /\ Traced(i)'
    BY <1>1 DEF AllTraced
  <2>2. CASE \E u \in Thread : pc[u] = "push_write" /\ pos[u] = i
    BY <1>0, <2>1, <2>2 DEF Traced
  <2>3. CASE ~ \E u \in Thread : pc[u] = "push_write" /\ pos[u] = i
    BY <1>0, <2>1, <2>3 DEF Traced
  <2> QED  BY <2>2, <2>3
<1>5. Element(head) = data[Slot(head)]
  BY <1>0, <1>1, HeadIsFull DEF AllTraced, Traced, Pushing
<1>6. Arguments' = [Arguments EXCEPT ![t] = Head(Elements)]
  <2>1. head + 1 - 1 = head /\ Elements[1] = Element(head + 1 - 1)
    BY <1>2
  <2>2. Head(Elements) = Element(head)
    BY <2>1
  <2> QED  BY <1>0, <1>5, <2>2 DEF Arguments
<1>7. Elements' = Tail(Elements)
  <2> DEFINE q == Tail(Elements)
  <2>0. /\ tail' - head' = n - 1
        /\ \A i \in Nat : head + i = head' + i - 1
    <3>1. /\ tail' = tail /\ head' = head + 1 /\ n \in Nat /\ head \in Nat
          /\ tail = head + n
      BY <1>0, <1>2
    <3> HIDE DEF n, IInv, TypeOK
    <3>2. tail' - head' = n - 1
      BY <3>1
    <3>3. \A i \in Nat : head + i = head' + i - 1
      BY <3>1
    <3> QED  BY <3>2, <3>3
  <2>1. /\ Elements' \in Seq(Content) /\ Len(Elements') = n - 1
        /\ \A i \in 1 .. n - 1 : \A j \in Int :
             j = head' + i - 1 => Elements'[i] = Element(j)'
    BY <1>1, <2>0 DEF IsQueue
  <2>2. /\ q \in Seq(Content) /\ Len(q) = n - 1
        /\ \A i \in 1 .. n - 1 : q[i] = Elements[i + 1]
    BY <1>2, <1>3, HeadTailProperties
  <2> HIDE DEF n, q
  <2>3. ASSUME NEW i \in 1 .. n - 1
        PROVE  Elements'[i] = q[i]
    <3> SUFFICES ASSUME NEW j \in Int, j = head + i
                 PROVE  Elements'[i] = q[i]
      BY <1>2
    <3>1. Elements'[i] = Element(j)'
      BY <2>0, <2>1
    <3>2. i + 1 \in 1 .. n /\ head + (i + 1) - 1 = j
      BY <1>2
    <3>3. Elements[i + 1] = Element(j)
      BY <1>2, <3>2
    <3> QED  BY <1>4, <2>2, <3>1, <3>3
  <2>4. Len(Elements') = Len(q) /\ \A i \in 1 .. Len(Elements') : Elements'[i] = q[i]
    BY <2>1, <2>2, <2>3
  <2>5. Elements' = q
    BY <2>1, <2>2, <2>4, SeqEqual
  <2> QED  BY <2>5 DEF q
<1> QED  BY <1>3, <1>6, <1>7

\* Writing the cell moves the element of the ticket from the hands of the
\* thread to the cell: no other ticket and no reader sees a change.
LEMMA WritesUnseen ==
  ASSUME IInv, IInv', NEW t \in Thread, PushWrite(t)
  PROVE  Elements' = Elements /\ Arguments' = Arguments
<1> USE CapacityAssumption, SlotType DEF IInv, TypeOK
<1>0. /\ pc[t] = "push_write" /\ head' = head /\ tail' = tail
      /\ val' = val /\ pos' = pos
      /\ \A u \in Thread : pc'[u] = IF u = t THEN "push_publish" ELSE pc[u]
      /\ \A c \in Slots :
           data'[c] = IF c = Slot(pos[t]) THEN val[t] ELSE data[c]
  BY DEF PushWrite, Goto
<1>1. AllTraced /\ AllTraced'
  BY Tracing, StillTraced
<1>2. head <= pos[t] /\ pos[t] < tail /\ tail <= head + Capacity
  BY <1>0 DEF PushOwners, Pushing, Bounded
<1>3. ASSUME NEW i \in head .. tail - 1
      PROVE  Element(i)' = Element(i)
  <2>1. Traced(i) /\ Traced(i)'
    BY <1>1 DEF AllTraced
  <2>2. CASE i = pos[t]
    <3>1. \A u \in Thread : ~(pc'[u] = "push_write" /\ pos'[u] = i)
      BY <1>0, <2>2 DEF OneOwner, Pushing
    <3>2. Element(i)' = data'[Slot(i)] /\ Element(i) = val[t]
      BY <1>0, <2>1, <2>2, <3>1 DEF Traced
    <3> QED  BY <1>0, <2>2, <3>2
  <2>3. CASE i # pos[t]
    <3>1. data'[Slot(i)] = data[Slot(i)]
      BY <1>0, <1>2, <2>3, SlotInjective
    <3>2. CASE \E u \in Thread : pc[u] = "push_write" /\ pos[u] = i
      BY <1>0, <2>1, <2>3, <3>2 DEF Traced
    <3>3. CASE ~ \E u \in Thread : pc[u] = "push_write" /\ pos[u] = i
      BY <1>0, <2>1, <3>1, <3>3 DEF Traced
    <3> QED  BY <3>2, <3>3
  <2> QED  BY <2>2, <2>3
<1>4. Elements' = Elements
  BY <1>0, <1>3 DEF Elements
<1>5. ASSUME NEW u \in Thread, pc[u] = "pull_read"
      PROVE  data'[Slot(pos[u])] = data[Slot(pos[u])]
  <2>1. Slot(pos[u]) # Slot(pos[t])
    BY <1>0, <1>5, CellHasOneOwner DEF Owner, Pushing, Pulling
  <2> QED  BY <1>0, <2>1
<1>6. Arguments' = Arguments
  BY <1>0, <1>5 DEF Arguments
<1> QED  BY <1>4, <1>6

\* Reading the cell gives t the element it took.
LEMMA ReadsWhatItTook ==
  ASSUME IInv, IInv', NEW t \in Thread, PullRead(t)
  PROVE  Elements' = Elements /\ Arguments' = Arguments
<1> USE SlotType DEF IInv, TypeOK
<1>0. /\ pc[t] = "pull_read" /\ head' = head /\ tail' = tail /\ data' = data
      /\ pos' = pos
      /\ \A u \in Thread : pc'[u] = IF u = t THEN "pull_publish" ELSE pc[u]
      /\ \A u \in Thread :
           val'[u] = IF u = t THEN data[Slot(pos[t])] ELSE val[u]
  BY DEF PullRead, queueVars, Goto
<1>1. Elements' = Elements
  BY <1>0, ElementsStay
<1>2. Arguments' = Arguments
  BY <1>0 DEF Arguments
<1> QED  BY <1>1, <1>2

-----------------------------------------------------------------------------
(***************************************************************************)
(* The refinement                                                          *)
(***************************************************************************)

\* An empty MpmcQueue is an empty FifoQueue.
LEMMA InitRefines == Init => Fifo!Init
<1> SUFFICES ASSUME Init PROVE Fifo!Init
  OBVIOUS
<1>1. Elements = <<>>
  BY SMT DEF Init, Elements
<1>2. CallStates = [t \in Thread |-> "idle"]
  BY DEF Init, CallStates, CallState
<1>3. Arguments = [t \in Thread |-> NoValue]
  BY DEF Init, Arguments
<1> QED  BY <1>1, <1>2, <1>3 DEF Init, Fifo!Init, Fifo!Thread, Thread

\* Each step of a pushing thread is a step of the FIFO queue or unseen.
LEMMA PushRefines ==
  ASSUME IInv, IInv', [Next]_vars, NEW t \in Pusher, PushStep(t)
  PROVE  \/ Fifo!Put(t) \/ Fifo!PutReturn(t) \/ Fifo!PutFull(t)
         \/ UNCHANGED Fifo!vars
<1> USE DEF Fifo!vars
<1>0. t \in Thread /\ TypeOK
  BY DEF Thread, IInv
<1>1. CASE PushReload(t)
  <2>1. /\ Elements' = Elements /\ Arguments' = Arguments
        /\ CallStates[t] = CallState(pc[t])
        /\ CallStates' = [CallStates EXCEPT ![t] = CallState("push_seq")]
    BY <1>0, <1>1, QuietStep DEF PushReload, queueVars, TypeOK
  <2> QED  BY <1>0, <1>1, <2>1 DEF PushReload, CallState, CallStates
<1>2. CASE PushSeq(t)
  <2>1. ASSUME NEW l \in {"push_cas", "push_reload", "done"}, Goto(t, l)
        PROVE  /\ Elements' = Elements /\ Arguments' = Arguments
               /\ CallStates[t] = "put"
               /\ CallStates' = [CallStates EXCEPT ![t] = CallState(l)]
    BY <1>0, <1>2, <2>1, QuietStep DEF PushSeq, queueVars, CallState
  <2>2. CASE Goto(t, "push_cas") /\ ret' = ret
    BY ZenonT(40), <1>0, <2>1, <2>2 DEF CallState, CallStates
  <2>3. CASE Goto(t, "push_reload") /\ ret' = ret
    BY ZenonT(40), <1>0, <2>1, <2>3 DEF CallState, CallStates
  <2>4. CASE Return(t, FALSE)
    <3>1. pc[t] = "push_seq" /\ pc'[t] = "done"
      BY <1>0, <1>2, <2>4 DEF PushSeq, Return, Goto, TypeOK
    <3>2. Len(Elements) = Capacity \/ \E u \in Thread : CallStates[u] = "taking"
      <4>1. CASE tail = head + Capacity
        BY <4>1, <1>0, Queueing, CapacityAssumption DEF IsQueue, TypeOK
      <4>2. CASE \E u \in Thread : Pulling(u) /\ pos[u] = tail - Capacity
        BY <4>2 DEF Pulling, CallStates, CallState
      <4> QED  BY <3>1, <4>1, <4>2, PushGivesUp
    <3>3. Fifo!PutFull(t)
      BY <2>1, <2>4, <3>2
         DEF Fifo!PutFull, Fifo!Finish, Fifo!Move, Fifo!Thread, Thread, Return,
             CallState
    <3> QED  BY <3>3
  <2> QED  BY <1>2, <2>2, <2>3, <2>4 DEF PushSeq
<1>3. CASE PushCas(t)
  <2>1. CASE tail = pos[t] /\ tail' = tail + 1 /\ Goto(t, "push_write") /\ pos' = pos
    <3>1. /\ Len(Elements) < Capacity
          /\ Elements' = Append(Elements, Arguments[t])
          /\ Arguments' = Arguments
      BY <1>0, <1>3, <2>1, TakesTail
    <3>2. /\ CallStates[t] = "put"
          /\ CallStates' = [CallStates EXCEPT ![t] = "putting"]
      BY <1>0, <1>3, <2>1, CallMoves DEF PushCas, CallState
    <3>3. Fifo!Put(t)
      BY <1>3, <3>1, <3>2 DEF PushCas, Fifo!Put, Fifo!Move
    <3> QED  BY <3>3
  <2>2. CASE tail' = tail /\ pos' = [pos EXCEPT ![t] = tail] /\ Goto(t, "push_seq")
    <3>1. /\ Elements' = Elements /\ Arguments' = Arguments
          /\ CallStates[t] = CallState(pc[t])
          /\ CallStates' = [CallStates EXCEPT ![t] = CallState("push_seq")]
      BY <1>0, <1>3, <2>2, QuietStep DEF PushCas, TypeOK
    <3> QED  BY <1>0, <1>3, <3>1 DEF PushCas, CallState, CallStates
  <2> QED  BY <1>3, <2>1, <2>2 DEF PushCas
<1>4. CASE PushWrite(t)
  <2>1. Elements' = Elements /\ Arguments' = Arguments
    BY <1>0, <1>4, WritesUnseen
  <2>2. CallStates' = CallStates
    <3>1. /\ CallStates[t] = "putting"
          /\ CallStates' = [CallStates EXCEPT ![t] = "putting"]
      BY <1>0, <1>4, CallMoves DEF PushWrite, CallState
    <3> QED  BY <3>1 DEF CallStates
  <2> QED  BY <1>4, <2>1, <2>2 DEF PushWrite
<1>5. CASE PushPublish(t)
  <2>1. /\ Elements' = Elements /\ Arguments' = Arguments
        /\ CallStates[t] = CallState("push_publish")
        /\ CallStates' = [CallStates EXCEPT ![t] = CallState("done")]
    BY <1>0, <1>5, QuietStep DEF PushPublish, Return
  <2>2. Fifo!PutReturn(t)
    BY <1>5, <2>1
       DEF PushPublish, Return, Fifo!PutReturn, Fifo!Finish, Fifo!Move, CallState
  <2> QED  BY <2>2
<1> QED  BY <1>1, <1>2, <1>3, <1>4, <1>5 DEF PushStep

\* Each step of a pulling thread, likewise.
LEMMA PullRefines ==
  ASSUME IInv, IInv', [Next]_vars, NEW t \in Puller, PullStep(t)
  PROVE  \/ Fifo!Take(t) \/ Fifo!TakeReturn(t) \/ Fifo!TakeEmpty(t)
         \/ UNCHANGED Fifo!vars
<1> USE DEF Fifo!vars
<1>0. t \in Thread /\ TypeOK
  BY DEF Thread, IInv
<1>1. CASE PullReload(t)
  <2>1. /\ Elements' = Elements /\ Arguments' = Arguments
        /\ CallStates[t] = CallState(pc[t])
        /\ CallStates' = [CallStates EXCEPT ![t] = CallState("pull_seq")]
    BY <1>0, <1>1, QuietStep DEF PullReload, queueVars, TypeOK
  <2> QED  BY <1>0, <1>1, <2>1 DEF PullReload, CallState, CallStates
<1>2. CASE PullSeq(t)
  <2>1. ASSUME NEW l \in {"pull_cas", "pull_reload", "done"}, Goto(t, l)
        PROVE  /\ Elements' = Elements /\ Arguments' = Arguments
               /\ CallStates[t] = "take"
               /\ CallStates' = [CallStates EXCEPT ![t] = CallState(l)]
    BY <1>0, <1>2, <2>1, QuietStep DEF PullSeq, queueVars, CallState
  <2>2. CASE Goto(t, "pull_cas") /\ ret' = ret
    BY ZenonT(40), <1>0, <2>1, <2>2 DEF CallState, CallStates
  <2>3. CASE Goto(t, "pull_reload") /\ ret' = ret
    BY ZenonT(40), <1>0, <2>1, <2>3 DEF CallState, CallStates
  <2>4. CASE Return(t, FALSE)
    <3>1. pc[t] = "pull_seq" /\ pc'[t] = "done"
      BY <1>0, <1>2, <2>4 DEF PullSeq, Return, Goto, TypeOK
    <3>2. Elements = <<>> \/ \E u \in Thread : CallStates[u] = "putting"
      <4>1. CASE head = tail
        BY <4>1, <1>0, SMT DEF Elements, TypeOK
      <4>2. CASE \E u \in Thread : Pushing(u) /\ pos[u] = head
        BY <4>2 DEF Pushing, CallStates, CallState
      <4> QED  BY <3>1, <4>1, <4>2, PullGivesUp
    <3>3. Fifo!TakeEmpty(t)
      BY <2>1, <2>4, <3>2
         DEF Fifo!TakeEmpty, Fifo!Finish, Fifo!Move, Fifo!Thread, Thread, Return,
             CallState
    <3> QED  BY <3>3
  <2> QED  BY <1>2, <2>2, <2>3, <2>4 DEF PullSeq
<1>3. CASE PullCas(t)
  <2>1. CASE head = pos[t] /\ head' = head + 1 /\ Goto(t, "pull_read") /\ pos' = pos
    <3>1. /\ Elements # <<>>
          /\ Elements' = Tail(Elements)
          /\ Arguments' = [Arguments EXCEPT ![t] = Head(Elements)]
      BY <1>0, <1>3, <2>1, TakesHead
    <3>2. /\ CallStates[t] = "take"
          /\ CallStates' = [CallStates EXCEPT ![t] = "taking"]
      BY <1>0, <1>3, <2>1, CallMoves DEF PullCas, CallState
    <3>3. Fifo!Take(t)
      BY <1>3, <3>1, <3>2 DEF PullCas, Fifo!Take, Fifo!Move
    <3> QED  BY <3>3
  <2>2. CASE head' = head /\ pos' = [pos EXCEPT ![t] = head] /\ Goto(t, "pull_seq")
    <3>1. /\ Elements' = Elements /\ Arguments' = Arguments
          /\ CallStates[t] = CallState(pc[t])
          /\ CallStates' = [CallStates EXCEPT ![t] = CallState("pull_seq")]
      BY <1>0, <1>3, <2>2, QuietStep DEF PullCas, TypeOK
    <3> QED  BY <1>0, <1>3, <3>1 DEF PullCas, CallState, CallStates
  <2> QED  BY <1>3, <2>1, <2>2 DEF PullCas
<1>4. CASE PullRead(t)
  <2>1. Elements' = Elements /\ Arguments' = Arguments
    BY <1>0, <1>4, ReadsWhatItTook
  <2>2. CallStates' = CallStates
    <3>1. /\ CallStates[t] = "taking"
          /\ CallStates' = [CallStates EXCEPT ![t] = "taking"]
      BY <1>0, <1>4, CallMoves DEF PullRead, CallState
    <3> QED  BY <3>1 DEF CallStates
  <2> QED  BY <1>4, <2>1, <2>2 DEF PullRead
<1>5. CASE PullPublish(t)
  <2>1. /\ Elements' = Elements /\ Arguments' = Arguments
        /\ CallStates[t] = CallState("pull_publish")
        /\ CallStates' = [CallStates EXCEPT ![t] = CallState("done")]
    BY <1>0, <1>5, QuietStep DEF PullPublish, Return
  <2>2. Fifo!TakeReturn(t)
    BY <1>5, <2>1
       DEF PullPublish, Return, Fifo!TakeReturn, Fifo!Finish, Fifo!Move, CallState
  <2> QED  BY <2>2
<1> QED  BY <1>1, <1>2, <1>3, <1>4, <1>5 DEF PullStep

\* Each step of the queue is a step of the FIFO queue, or leaves it as it is.
LEMMA NextRefines ==
  ASSUME IInv, IInv', [Next]_vars
  PROVE  [Fifo!Next]_Fifo!vars
<1>0. TypeOK
  BY DEF IInv
<1>1. ASSUME NEW t \in Pusher, NEW v \in Value, PushBegin(t, v)
      PROVE  Fifo!PutCall(t, v)
  <2>1. t \in Thread
    BY DEF Thread
  <2>2. /\ CallStates[t] = "idle"
        /\ CallStates' = [CallStates EXCEPT ![t] = "put"]
    BY <1>0, <1>1, <2>1, CallMoves DEF PushBegin, CallState
  <2>3. \A u \in Thread : /\ pc'[u] = IF u = t THEN "push_seq" ELSE pc[u]
                          /\ val'[u] = IF u = t THEN v ELSE val[u]
                          /\ u # t => pos'[u] = pos[u]
    BY <1>0, <1>1, <2>1 DEF PushBegin, Goto, TypeOK
  <2>4. Elements' = Elements
    BY <1>1, <2>3, ElementsStay DEF PushBegin, queueVars
  <2>5. Arguments' = [Arguments EXCEPT ![t] = v]
    <3>1. data' = data
      BY <1>1 DEF PushBegin, queueVars
    <3>2. \A u \in Thread :
            (IF pc[u] = "pull_read" THEN data[Slot(pos[u])] ELSE val[u])'
              = IF u = t THEN v ELSE Arguments[u]
      BY <2>3, <3>1 DEF Arguments
    <3> QED  BY <3>2 DEF Arguments
  <2> QED  BY <1>1, <2>2, <2>4, <2>5 DEF PushBegin, Fifo!PutCall, Fifo!Move
<1>2. ASSUME NEW t \in Puller, PullBegin(t)
      PROVE  Fifo!TakeCall(t)
  <2>1. t \in Thread
    BY DEF Thread
  <2>2. /\ Elements' = Elements /\ Arguments' = Arguments
        /\ CallStates[t] = CallState("idle")
        /\ CallStates' = [CallStates EXCEPT ![t] = CallState("pull_seq")]
    BY <1>0, <1>2, <2>1, QuietStep DEF PullBegin, queueVars, TypeOK
  <2> QED  BY <1>2, <2>2 DEF PullBegin, Fifo!TakeCall, Fifo!Move, CallState
<1>3. ASSUME NEW t \in Thread, Resume(t)
      PROVE  Fifo!Resume(t)
  <2>1. /\ CallStates[t] = "done"
        /\ CallStates' = [CallStates EXCEPT ![t] = "idle"]
    BY <1>0, <1>3, CallMoves DEF Resume, CallState
  <2>2. \A u \in Thread : /\ pc'[u] = IF u = t THEN "idle" ELSE pc[u]
                          /\ val'[u] = IF u = t THEN NoValue ELSE val[u]
                          /\ u # t => pos'[u] = pos[u]
    BY <1>0, <1>3 DEF Resume, Goto, TypeOK
  <2>3. Elements' = Elements
    BY <1>3, <2>2, ElementsStay DEF Resume, queueVars
  <2>4. Arguments' = [Arguments EXCEPT ![t] = NoValue]
    <3>1. data' = data
      BY <1>3 DEF Resume, queueVars
    <3>2. \A u \in Thread :
            (IF pc[u] = "pull_read" THEN data[Slot(pos[u])] ELSE val[u])'
              = IF u = t THEN NoValue ELSE Arguments[u]
      BY <2>2, <3>1 DEF Arguments
    <3> QED  BY <3>2 DEF Arguments
  <2> QED  BY <1>3, <2>1, <2>3, <2>4 DEF Resume, Fifo!Resume, Fifo!Move
<1>4. CASE UNCHANGED vars
  <2>1. Elements' = Elements
    BY <1>4, ElementsStay DEF vars, queueVars, threadVars
  <2>2. CallStates' = CallStates /\ Arguments' = Arguments
    BY <1>4 DEF vars, queueVars, threadVars, CallStates, Arguments
  <2> QED  BY <1>4, <2>1, <2>2 DEF vars, threadVars, Fifo!vars
<1>5. ASSUME NEW t \in Pusher, PushStep(t)
      PROVE  Fifo!Next \/ UNCHANGED Fifo!vars
  BY <1>5, PushRefines DEF Fifo!Next
<1>6. ASSUME NEW t \in Puller, PullStep(t)
      PROVE  Fifo!Next \/ UNCHANGED Fifo!vars
  BY <1>6, PullRefines DEF Fifo!Next
<1>7. CASE Next
  BY <1>1, <1>2, <1>3, <1>5, <1>6, <1>7 DEF Next, Fifo!Next, Fifo!Thread, Thread
<1> QED  BY <1>4, <1>7

\* No element is lost, duplicated or reordered by any interleaving of any
\* number of threads in mpmc_queue_push and mpmc_queue_pull: the queue
\* implements a bounded FIFO queue.
THEOREM Refinement == Spec => ImplementsFifo
<1>1. IInv /\ IInv' /\ [Next]_vars => [Fifo!Next]_Fifo!vars
  BY NextRefines
<1> QED  BY <1>1, InitRefines, Invariance, PTL DEF Spec, ImplementsFifo, Fifo!Spec

-----------------------------------------------------------------------------
(***************************************************************************)
(* MpmcQueue32, for any width of the positions: as long as no thread is    *)
(* overtaken too far, every comparison of positions that wrap around       *)
(* decides as one of unbounded tickets, so that the queue keeps IInv.      *)
(***************************************************************************)


\* How far a thread is behind between its load and its compare-and-exchange.
Lagging ==
  /\ \A u \in Pusher : pc[u] \in {"push_seq", "push_cas"} => tail - pos[u] <= MaxLag
  /\ \A u \in Puller : pc[u] \in {"pull_seq", "pull_cas"} => head - pos[u] <= MaxLag

IInv32 == IInv /\ Lagging

-----------------------------------------------------------------------------
(***************************************************************************)
(* Arithmetic modulo Width                                                 *)
(***************************************************************************)

LEMMA WidthDivMod ==
  /\ Width \in Nat /\ Width \div 2 \in Nat
  /\ 2 * (Width \div 2) <= Width
  /\ \A a \in Int : /\ a % Width \in 0 .. Width - 1 /\ a \div Width \in Int
                    /\ a = Width * (a \div Width) + (a % Width)
<1> USE WidthAssumption, CapacityAssumption
<1>1. Width \in Nat /\ Width > 0 /\ Width \div 2 \in Nat /\ 2 * (Width \div 2) <= Width
  BY SMTT(30)
<1>2. ASSUME NEW a \in Int
      PROVE  /\ a % Width \in 0 .. Width - 1 /\ a \div Width \in Int
             /\ a = Width * (a \div Width) + (a % Width)
  BY <1>1, SMTT(30)
<1> QED  BY <1>1, <1>2

\* A number that is less than one width away from zero and a multiple of it.
LEMMA NoWholeWidth ==
  ASSUME NEW k \in Int, Width * k < Width, -Width < Width * k
  PROVE  k = 0
<1> USE WidthDivMod, WidthAssumption, CapacityAssumption
<1>1. CASE k >= 1
  BY <1>1, SMTT(30)
<1>2. CASE k <= -1
  BY <1>2, SMTT(30)
<1> QED  BY <1>1, <1>2

LEMMA SmallMod ==
  ASSUME NEW a \in 0 .. Width - 1
  PROVE  a % Width = a
<1> DEFINE k == a \div Width
<1>1. k \in Int /\ a % Width \in 0 .. Width - 1 /\ a = Width * k + (a % Width)
  BY WidthDivMod
<1>2. Width \in Int /\ Width * k \in Int
  BY <1>1, WidthDivMod
<1> HIDE DEF k
<1>3. Width * k < Width /\ -Width < Width * k
  BY <1>1, <1>2
<1>4. k = 0
  BY <1>1, <1>3, NoWholeWidth
<1> QED  BY <1>1, <1>4, WidthDivMod

\* (int32_t)(a - b) is a - b when the two are close.
LEMMA CloseDiff ==
  ASSUME NEW a \in Int, NEW b \in Int,
         a - b < Width \div 2, -(Width \div 2) <= a - b
  PROVE  SignedDiff(a, b) = a - b
<1>1. a - b + Width \div 2 \in 0 .. Width - 1
  BY WidthDivMod
<1>2. (a - b + Width \div 2) % Width = a - b + Width \div 2
  BY <1>1, SmallMod
<1> QED  BY <1>2, WidthDivMod DEF SignedDiff

\* What the compare-and-exchange finds equal is equal when it is close.
LEMMA CloseBits ==
  ASSUME NEW a \in Int, NEW b \in Int, a - b < Width, b - a < Width, SameBits(a, b)
  PROVE  a = b
<1> DEFINE k == a \div Width
           l == b \div Width
<1>1. /\ k \in Int /\ l \in Int /\ a % Width = b % Width /\ a % Width \in Int
      /\ a = Width * k + (a % Width) /\ b = Width * l + (b % Width)
  BY WidthDivMod DEF SameBits
<1> HIDE DEF k, l
<1>2. a - b = Width * (k - l)
  BY <1>1, WidthDivMod, SMTT(30)
<1>3. k - l = 0
  <2>1. k - l \in Int /\ Width * (k - l) < Width /\ -Width < Width * (k - l)
    BY <1>1, <1>2, WidthDivMod
  <2> QED  BY <2>1, NoWholeWidth
<1> QED  BY <1>2, <1>3, WidthDivMod, SMTT(30)

-----------------------------------------------------------------------------
(***************************************************************************)
(* Sequence numbers are close to head and tail                             *)
(***************************************************************************)

\* Every cell has a ticket in every round.
LEMMA TicketOfCell ==
  ASSUME NEW h \in Int, NEW c \in Slots
  PROVE  \E i \in h .. h + Capacity - 1 : Slot(i) = c
<1> DEFINE q == h \div Capacity
           r == h % Capacity
<1>1. q \in Int /\ r \in 0 .. Capacity - 1 /\ h = Capacity * q + r
  BY DivMod
<1> HIDE DEF q, r
<1>2. PICK m \in Int : m = Capacity * q
  BY <1>1, CapacityAssumption
<1>3. Slot(m + c) = c
  <2> DEFINE i == m + c
             p == i \div Capacity
  <2>1. i \in Int /\ c \in Int /\ 0 <= c /\ c < Capacity
    BY <1>2, CapacityAssumption DEF Slots
  <2>2. p \in Int /\ i % Capacity \in 0 .. Capacity - 1 /\ i = Capacity * p + (i % Capacity)
    BY <2>1, DivMod
  <2> HIDE DEF p
  <2>3. Capacity * (q - p) = (i % Capacity) - c
    <3>1. Capacity * (q - p) = Capacity * q - Capacity * p
      BY <1>1, <2>2, CapacityAssumption, SMTT(30)
    <3>2. Capacity * q = m /\ Capacity * p = (m + c) - (i % Capacity) /\ m \in Int
      <4>1. PICK x \in Int : x = Capacity * p
        BY <2>2, CapacityAssumption
      <4> QED  BY <1>2, <2>1, <2>2, <4>1
    <3> QED  BY <2>1, <2>2, <3>1, <3>2
  <2>4. q - p = 0
    <3>1. q - p \in Int /\ Capacity * (q - p) < Capacity /\ -Capacity < Capacity * (q - p)
      BY <1>1, <2>1, <2>2, <2>3, CapacityAssumption
    <3> QED  BY <3>1, SmallMultiple
  <2>5. Capacity * (q - p) = 0
    BY <2>4, CapacityAssumption
  <2>6. i % Capacity = c
    BY <2>1, <2>2, <2>3, <2>5
  <2> QED  BY <2>6 DEF Slot
<1>4. m + c \in Int /\ c \in Int /\ 0 <= c /\ c < Capacity /\ h = m + r
  BY <1>1, <1>2, CapacityAssumption DEF Slots
<1>5. CASE c >= r
  <2>1. m + c \in h .. h + Capacity - 1
    BY <1>1, <1>4, <1>5, CapacityAssumption
  <2> QED  BY <1>3, <2>1
<1>6. CASE c < r
  <2>1. m + c + Capacity \in h .. h + Capacity - 1
    BY <1>1, <1>4, <1>6, CapacityAssumption
  <2>2. Slot(m + c + Capacity) = c
    BY <1>3, <1>4, SlotShift
  <2> QED  BY <2>1, <2>2
<1> QED  BY <1>1, <1>4, <1>5, <1>6

LEMMA SeqIsClose ==
  ASSUME IInv, NEW c \in Slots
  PROVE  /\ seq[c] \in Nat
         /\ tail - Capacity <= seq[c] /\ seq[c] < tail + Capacity
         /\ head - Capacity < seq[c] /\ seq[c] <= head + Capacity
<1>1. head \in Nat /\ tail \in Nat /\ seq[c] \in Nat
      /\ head <= tail /\ tail <= head + Capacity
  BY DEF IInv, TypeOK, Bounded
<1>2. PICK i \in head .. head + Capacity - 1 : Slot(i) = c
  BY <1>1, TicketOfCell
<1>3. CASE i < tail
  <2>1. seq[c] = i + 1 \/ seq[c] = i
    BY <1>1, <1>2, <1>3 DEF IInv, QueuedTickets
  <2> QED  BY <1>1, <1>2, <1>3, <2>1, CapacityAssumption
<1>4. CASE i >= tail
  <2>1. seq[c] = i \/ seq[c] = i - Capacity + 1
    BY <1>1, <1>2, <1>4, CapacityAssumption DEF IInv, FreeTickets
  <2> QED  BY <1>1, <1>2, <1>4, <2>1, CapacityAssumption
<1> QED  BY <1>1, <1>2, <1>3, <1>4, CapacityAssumption

-----------------------------------------------------------------------------
(***************************************************************************)
(* Every step is one of the unbounded queue                                *)
(***************************************************************************)

LEMMA PushSeqAgrees == ASSUME IInv32, NEW t \in Pusher, PushSeq32(t) PROVE PushSeq(t)
<1>1. /\ pc[t] = "push_seq" /\ t \in Thread /\ pos[t] \in Nat /\ tail \in Nat
      /\ pos[t] <= tail /\ tail - pos[t] <= MaxLag
  BY DEF IInv32, IInv, TypeOK, PushCandidates, Lagging, PushSeq32, Thread
<1>2. PICK s \in Nat : /\ s = seq[Slot(pos[t])]
                       /\ tail - Capacity <= s /\ s < tail + Capacity
  BY <1>1, SeqIsClose, SlotType DEF IInv32
<1>3. s - pos[t] < Width \div 2 /\ -(Width \div 2) <= s - pos[t]
  BY <1>1, <1>2, LagAssumption, WidthDivMod, CapacityAssumption
<1>4. SignedDiff(s, pos[t]) = s - pos[t]
  BY <1>1, <1>3, CloseDiff
<1> QED  BY <1>2, <1>4 DEF PushSeq32, PushSeq

LEMMA PullSeqAgrees == ASSUME IInv32, NEW t \in Puller, PullSeq32(t) PROVE PullSeq(t)
<1>1. /\ pc[t] = "pull_seq" /\ t \in Thread /\ pos[t] \in Nat /\ head \in Nat
      /\ pos[t] <= head /\ head - pos[t] <= MaxLag
  BY DEF IInv32, IInv, TypeOK, PullCandidates, Lagging, PullSeq32, Thread
<1>2. PICK s \in Nat : /\ s = seq[Slot(pos[t])]
                       /\ head - Capacity < s /\ s <= head + Capacity
  BY <1>1, SeqIsClose, SlotType DEF IInv32
<1>3. /\ s - (pos[t] + 1) < Width \div 2
      /\ -(Width \div 2) <= s - (pos[t] + 1)
  BY <1>1, <1>2, LagAssumption, WidthDivMod, CapacityAssumption
<1>4. SignedDiff(s, pos[t] + 1) = s - (pos[t] + 1)
  BY <1>1, <1>3, CloseDiff
<1> QED  BY <1>2, <1>4 DEF PullSeq32, PullSeq

LEMMA PushCasAgrees == ASSUME IInv32, NEW t \in Pusher, PushCas32(t) PROVE PushCas(t)
<1>1. /\ pc[t] = "push_cas" /\ t \in Thread /\ pos[t] \in Nat /\ tail \in Nat
      /\ pos \in [Thread -> Nat] /\ pos[t] <= tail /\ tail - pos[t] <= MaxLag
  BY DEF IInv32, IInv, TypeOK, PushCandidates, Lagging, PushCas32, Thread
<1>2. SameBits(tail, pos[t]) => tail = pos[t]
  <2>1. tail - pos[t] < Width /\ pos[t] - tail < Width
    BY <1>1, LagAssumption, WidthDivMod, CapacityAssumption
  <2> QED  BY <1>1, <2>1, CloseBits
<1>3. tail = pos[t] => [pos EXCEPT ![t] = tail] = pos
  BY <1>1
<1> QED  BY <1>2, <1>3 DEF PushCas32, PushCas

LEMMA PullCasAgrees == ASSUME IInv32, NEW t \in Puller, PullCas32(t) PROVE PullCas(t)
<1>1. /\ pc[t] = "pull_cas" /\ t \in Thread /\ pos[t] \in Nat /\ head \in Nat
      /\ pos \in [Thread -> Nat] /\ pos[t] <= head /\ head - pos[t] <= MaxLag
  BY DEF IInv32, IInv, TypeOK, PullCandidates, Lagging, PullCas32, Thread
<1>2. SameBits(head, pos[t]) => head = pos[t]
  <2>1. head - pos[t] < Width /\ pos[t] - head < Width
    BY <1>1, LagAssumption, WidthDivMod, CapacityAssumption
  <2> QED  BY <1>1, <2>1, CloseBits
<1>3. head = pos[t] => [pos EXCEPT ![t] = head] = pos
  BY <1>1
<1> QED  BY <1>2, <1>3 DEF PullCas32, PullCas

LEMMA StepAgrees == IInv32 /\ [Next32]_vars => [Next]_vars
<1> SUFFICES ASSUME IInv32, Next32
             PROVE  Next
  OBVIOUS
<1>1. ASSUME NEW t \in Pusher,
             \/ PushReload(t) \/ PushSeq32(t) \/ PushCas32(t)
             \/ PushWrite(t) \/ PushPublish(t)
      PROVE  PushStep(t)
  BY <1>1, PushSeqAgrees, PushCasAgrees DEF PushStep
<1>2. ASSUME NEW t \in Puller,
             \/ PullReload(t) \/ PullSeq32(t) \/ PullCas32(t)
             \/ PullRead(t) \/ PullPublish(t)
      PROVE  PullStep(t)
  BY <1>2, PullSeqAgrees, PullCasAgrees DEF PullStep
<1> QED  BY <1>1, <1>2 DEF Next32, Next

-----------------------------------------------------------------------------
(***************************************************************************)
(* The invariant                                                           *)
(***************************************************************************)

LEMMA InitIInv32 == Init32 => IInv32
<1> SUFFICES ASSUME Init32
             PROVE  IInv32
  OBVIOUS
<1> USE CapacityAssumption, StartAssumption
<1>1. /\ head = Start /\ tail = Start /\ Start \in Nat
      /\ \A t \in Thread : pc[t] = "idle"
  BY DEF Init32
<1>2. \A c \in Slots : /\ seq[c] \in Start .. Start + Capacity - 1
                       /\ Slot(seq[c]) = c
  <2> SUFFICES ASSUME NEW c \in Slots
               PROVE  seq[c] \in Start .. Start + Capacity - 1 /\ Slot(seq[c]) = c
    OBVIOUS
  <2>1. \E i \in Start .. Start + Capacity - 1 : Slot(i) = c
    <3>1. Start \in Int
      BY <1>1
    <3> QED  BY <3>1, TicketOfCell, Zenon
  <2>2. seq[c] = CHOOSE i \in Start .. Start + Capacity - 1 : Slot(i) = c
    BY DEF Init32
  <2> QED  BY <2>1, <2>2
<1>3. TypeOK
  <2>1. seq \in [Slots -> Nat]
    BY <1>1, <1>2 DEF Init32
  <2> QED  BY <2>1 DEF Init32, TypeOK
<1>4. FreeTickets
  <2> SUFFICES ASSUME NEW i \in Start .. Start + Capacity - 1
               PROVE  seq[Slot(i)] = i
    BY <1>1 DEF FreeTickets
  <2>1. Slot(i) \in Slots
    BY <1>1, SlotType
  <2>2. seq[Slot(i)] \in Start .. Start + Capacity - 1 /\ Slot(seq[Slot(i)]) = Slot(i)
    BY <1>2, <2>1
  <2> QED  BY <1>1, <2>2, SlotInjective
<1>5. Bounded /\ QueuedTickets /\ PushOwners /\ PullOwners /\ OneOwner
  BY <1>1 DEF Bounded, QueuedTickets, PushOwners, PullOwners, OneOwner, Pushing,
     Pulling
<1>6. PushCandidates /\ PullCandidates
  BY <1>1 DEF PushCandidates, PullCandidates
<1>7. Lagging
  BY <1>1 DEF Lagging, Thread
<1> QED  BY <1>3, <1>4, <1>5, <1>6, <1>7 DEF IInv32, IInv

\* Who loads a position has not been overtaken; who takes a ticket waits for
\* those that would be left behind too far.
LEMMA LaggingStep == IInv32 /\ [Next32]_vars => Lagging'
<1> SUFFICES ASSUME IInv32, [Next32]_vars
             PROVE  Lagging'
  OBVIOUS
<1>0. TypeOK /\ Lagging /\ MaxLag \in Nat
  BY LagAssumption DEF IInv32, IInv
<1> USE <1>0 DEF TypeOK, Thread, Lagging
<1>1. ASSUME NEW t \in Pusher, PushCas32(t)
      PROVE  Lagging'
  <2>1. CASE tail' = tail
    <3>1. \A u \in Thread : u # t => pc'[u] = pc[u] /\ pos'[u] = pos[u]
      BY <1>1 DEF PushCas32, Goto
    <3>2. pos'[t] = tail /\ pc'[t] \in {"push_seq", "push_write"} /\ head' = head
      BY <1>1 DEF PushCas32, Goto
    <3> QED  BY <2>1, <3>1, <3>2
  <2>2. CASE tail' # tail
    <3>1. /\ tail' = tail + 1 /\ head' = head /\ PushersKeepUp(t, tail + 1)
          /\ pc' = [pc EXCEPT ![t] = "push_write"] /\ pos' = [pos EXCEPT ![t] = tail]
      BY <1>1, <2>2 DEF PushCas32, Goto
    <3>2. \A u \in Thread : u # t => pc'[u] = pc[u] /\ pos'[u] = pos[u]
      BY <3>1
    <3>3. pc'[t] = "push_write"
      BY <3>1
    <3> QED  BY <3>1, <3>2, <3>3 DEF PushersKeepUp
  <2> QED  BY <2>1, <2>2
<1>2. ASSUME NEW t \in Puller, PullCas32(t)
      PROVE  Lagging'
  <2>1. CASE head' = head
    <3>1. \A u \in Thread : u # t => pc'[u] = pc[u] /\ pos'[u] = pos[u]
      BY <1>2 DEF PullCas32, Goto
    <3>2. pos'[t] = head /\ pc'[t] \in {"pull_seq", "pull_read"} /\ tail' = tail
      BY <1>2 DEF PullCas32, Goto
    <3> QED  BY <2>1, <3>1, <3>2
  <2>2. CASE head' # head
    <3>1. /\ head' = head + 1 /\ tail' = tail /\ PullersKeepUp(t, head + 1)
          /\ pc' = [pc EXCEPT ![t] = "pull_read"] /\ pos' = [pos EXCEPT ![t] = head]
      BY <1>2, <2>2 DEF PullCas32, Goto
    <3>2. \A u \in Thread : u # t => pc'[u] = pc[u] /\ pos'[u] = pos[u]
      BY <3>1
    <3>3. pc'[t] = "pull_read"
      BY <3>1
    <3> QED  BY <3>1, <3>2, <3>3 DEF PullersKeepUp
  <2> QED  BY <2>1, <2>2
<1>3. ASSUME NEW t \in Thread,
             \/ PushReload(t) \/ PushSeq32(t) \/ PushWrite(t) \/ PushPublish(t)
             \/ PullReload(t) \/ PullSeq32(t) \/ PullRead(t) \/ PullPublish(t)
             \/ PullBegin(t) \/ Resume(t) \/ \E v \in Value : PushBegin(t, v)
      PROVE  Lagging'
  <2>1. head' = head /\ tail' = tail
    BY <1>3 DEF PushReload, PushSeq32, PushWrite, PushPublish, PullReload, PullSeq32,
       PullRead, PullPublish, PullBegin, Resume, PushBegin, queueVars
  <2>2. \A u \in Thread : u # t => pc'[u] = pc[u] /\ pos'[u] = pos[u]
    BY <1>3 DEF PushReload, PushSeq32, PushWrite, PushPublish, PullReload, PullSeq32,
       PullRead, PullPublish, PullBegin, Resume, PushBegin, Goto, Return
  <2>3. \/ pc'[t] = "push_seq" /\ pos'[t] = tail
        \/ pc'[t] = "pull_seq" /\ pos'[t] = head
        \/ pc[t] = "push_seq" /\ pc'[t] = "push_cas" /\ pos'[t] = pos[t]
        \/ pc[t] = "pull_seq" /\ pc'[t] = "pull_cas" /\ pos'[t] = pos[t]
        \/ pc'[t] \notin {"push_seq", "push_cas", "pull_seq", "pull_cas"}
    BY <1>3 DEF PushReload, PushSeq32, PushWrite, PushPublish, PullReload, PullSeq32,
       PullRead, PullPublish, PullBegin, Resume, PushBegin, Goto, Return
  <2> QED  BY <2>1, <2>2, <2>3
<1>4. CASE UNCHANGED vars
  BY <1>4 DEF vars, queueVars, threadVars
<1> QED  BY <1>1, <1>2, <1>3, <1>4 DEF Next32

\* The invariant of the unbounded queue, and that nobody is left behind.
THEOREM Invariance32 == Spec32 => []IInv32
<1>1. IInv32 /\ [Next32]_vars => IInv32'
  BY StepAgrees, NextIInv, LaggingStep DEF IInv32
<1> QED  BY InitIInv32, <1>1, PTL DEF Spec32

\* Every comparison of mpmc_queue_push and mpmc_queue_pull on positions that
\* wrap around decides as on unbounded tickets.
THEOREM StepsAgree == Spec32 => StepsAsUnbounded
BY Invariance32, StepAgrees, PTL DEF Spec32, StepsAsUnbounded

\* So the plain field of a cell has one owner although positions wrap.
THEOREM CellsAreExclusive32 == Spec32 => []ExclusiveCells
<1>1. IInv32 => ExclusiveCells
  BY CellHasOneOwner DEF IInv32, ExclusiveCells
<1> QED  BY Invariance32, <1>1, PTL

=============================================================================
