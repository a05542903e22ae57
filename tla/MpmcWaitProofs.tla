--------------------------- MODULE MpmcWaitProofs ---------------------------
(***************************************************************************)
(* Proof that no wake-up for new work is lost in MpmcWait, for any finite  *)
(* set of threads that queue operations, any capacity and any number of    *)
(* attempts, with interrupts and a shutdown at any time.                   *)
(***************************************************************************)
EXTENDS MpmcWait, FiniteSetTheorems, TLAPS

\* Who counts as a waiter of a side.
Waiters(s) == {t \in Thread : Side(t) = s /\ listed[t]}

\* The counts are those of the threads between their two updates of it.
InWait == {"check", "attempt", "recheck", "compare", "syscall", "asleep", "unlist"}
Counted ==
  /\ \A s \in {"empty", "full"} : waiters[s] = Cardinality(Waiters(s))
  /\ \A t \in Thread : /\ stage[t] \in InWait => listed[t]
                       /\ listed[t] => stage[t] \in InWait \cup {"claimed"}

\* A spinning thread has attempts left.
Spinning == \A t \in Thread : stage[t] = "spin" => tries[t] < MaxSpin

IInv == TypeOK /\ Spinning /\ Counted /\ NewWorkWakes

-----------------------------------------------------------------------------
\* The sets of waiters are finite.
LEMMA WaitersFinite == \A s : IsFiniteSet(Waiters(s)) /\ Cardinality(Waiters(s)) \in Nat
<1> SUFFICES ASSUME NEW s
             PROVE  IsFiniteSet(Waiters(s)) /\ Cardinality(Waiters(s)) \in Nat
  OBVIOUS
<1>1. Waiters(s) \subseteq Thread
  BY DEF Waiters
<1>2. IsFiniteSet(Waiters(s))
  BY <1>1, WaitAssumption, FS_Subset DEF Thread
<1> QED  BY <1>2, FS_CardinalityType

\* The side of a thread is one of the two, and the other side is the other.
LEMMA Sides ==
  \A t \in Thread : /\ Side(t) \in {"empty", "full"}
                    /\ OtherSide(t) \in {"empty", "full"}
  BY DEF Side, OtherSide

\* Every step keeps the types: a count is not zero when it is lowered.
LEMMA TypeStep == TypeOK /\ Spinning /\ Counted /\ [Next]_vars => TypeOK' /\ Spinning'
<1> SUFFICES ASSUME TypeOK, Spinning, Counted, [Next]_vars
             PROVE  TypeOK' /\ Spinning'
  OBVIOUS
<1> USE WaitAssumption DEF TypeOK, Spinning, Goto
<1>1. ASSUME NEW t \in Thread, Spin(t)
      PROVE  TypeOK' /\ Spinning'
  <2>1. CASE PushClaim(t) /\ Goto(t, "claimed") /\ tries' = tries
    BY <1>1, <2>1 DEF Spin, PushClaim
  <2>2. CASE PullClaim(t) /\ Goto(t, "claimed") /\ tries' = tries
    BY <1>1, <2>2 DEF Spin, PullClaim
  <2>3. CASE /\ tries' = [tries EXCEPT ![t] = @ + 1]
             /\ Goto(t, IF tries'[t] < MaxSpin THEN "spin" ELSE "list")
             /\ UNCHANGED <<queueVars, ticket>>
    BY <1>1, <2>3 DEF Spin, queueVars
  <2> QED  BY <1>1, <2>1, <2>2, <2>3 DEF Spin, Claim
<1>2. ASSUME NEW t \in Thread, Store(t)
      PROVE  TypeOK' /\ Spinning'
  BY <1>2 DEF Store
<1>3. ASSUME NEW t \in Thread, List(t)
      PROVE  TypeOK' /\ Spinning'
  BY <1>3, Sides DEF List, queueVars
<1>4. ASSUME NEW t \in Thread, Check(t)
      PROVE  TypeOK' /\ Spinning'
  BY <1>4 DEF Check, queueVars, Word
<1>5. ASSUME NEW t \in Thread, Attempt(t)
      PROVE  TypeOK' /\ Spinning'
  <2>1. CASE PushClaim(t) /\ Goto(t, "claimed")
    BY <1>5, <2>1 DEF Attempt, PushClaim
  <2>2. CASE PullClaim(t) /\ Goto(t, "claimed")
    BY <1>5, <2>2 DEF Attempt, PullClaim
  <2>3. CASE Goto(t, "recheck") /\ UNCHANGED <<queueVars, ticket>>
    BY <1>5, <2>3 DEF Attempt, queueVars
  <2> QED  BY <1>5, <2>1, <2>2, <2>3 DEF Attempt, Claim
<1>6. ASSUME NEW t \in Thread, Recheck(t) \/ Compare(t) \/ Syscall(t) \/ Interrupt(t)
      PROVE  TypeOK' /\ Spinning'
  BY <1>6 DEF Recheck, Compare, Syscall, Interrupt, queueVars
<1>7. ASSUME NEW t \in Thread, Unlist(t)
      PROVE  TypeOK' /\ Spinning'
  <2>1. waiters[Side(t)] \in Nat \ {0}
    <3>1. t \in Waiters(Side(t))
      BY <1>7 DEF Unlist, Counted, InWait, Waiters
    <3>2. Cardinality(Waiters(Side(t))) # 0
      BY <3>1, WaitersFinite, FS_EmptySet
    <3> QED  BY <3>2, Sides, WaitersFinite DEF Counted
  <2>2. waiters' \in [{"empty", "full"} -> Nat]
    BY <1>7, <2>1, Sides DEF Unlist
  <2> QED  BY <1>7, <2>2 DEF Unlist, queueVars
<1>8. ASSUME NEW t \in Thread, Wake(t)
      PROVE  TypeOK' /\ Spinning'
  BY <1>8 DEF Wake, queueVars, Sleeping
<1>9. ASSUME NEW t \in Thread, Begin(t)
      PROVE  TypeOK' /\ Spinning'
  BY <1>9 DEF Begin, queueVars
<1>10. CASE Stop \/ Broadcast \/ Join \/ UNCHANGED vars
  BY <1>10 DEF Stop, Broadcast, Join, queueVars, vars
<1> QED
  BY <1>1, <1>2, <1>3, <1>4, <1>5, <1>6, <1>7, <1>8, <1>9, <1>10 DEF Next, Step

\* A step that changes neither counts nor waiters keeps Counted if it moves
\* threads only between stages of one kind.
LEMMA CountKept ==
  ASSUME TypeOK, Counted, waiters' = waiters, listed' = listed,
         \A t \in Thread :
           \/ stage'[t] = stage[t]
           \/ listed[t] /\ stage'[t] \in InWait \cup {"claimed"}
           \/ ~listed[t] /\ stage'[t] \notin InWait
  PROVE  Counted'
<1>1. \A s : Waiters(s)' = Waiters(s)
  BY DEF Waiters, Side
<1> QED  BY <1>1 DEF Counted

\* A wake-up ends its caller's call, and at most one sleep.
LEMMA WakeMoves ==
  ASSUME TypeOK, NEW t \in Thread, Wake(t)
  PROVE  /\ stage[t] = "wake" /\ waiters' = waiters /\ listed' = listed
         /\ tail' = tail /\ expected' = expected
         /\ \A u \in Thread : u # t => ok'[u] = ok[u]
         /\ \A u \in Thread : \/ stage'[u] = stage[u]
                              \/ u = t /\ stage'[u] = "out"
                              \/ stage[u] = "asleep" /\ stage'[u] = "recheck"
<1> USE DEF TypeOK
<1>1. /\ stage[t] = "wake" /\ waiters' = waiters /\ listed' = listed
      /\ tail' = tail /\ expected' = expected
      /\ \A u \in Thread : u # t => ok'[u] = ok[u]
  BY DEF Wake, queueVars
<1>2. ASSUME NEW u \in Thread
      PROVE  \/ stage'[u] = stage[u]
             \/ u = t /\ stage'[u] = "out"
             \/ stage[u] = "asleep" /\ stage'[u] = "recheck"
  <2>1. CASE Goto(t, "out")
    BY <2>1 DEF Goto
  <2>2. CASE \E v \in Sleeping(t) :
                stage' = [stage EXCEPT ![t] = "out", ![v] = "recheck"]
    <3>1. PICK v \in Sleeping(t) :
                 stage' = [stage EXCEPT ![t] = "out", ![v] = "recheck"]
      BY <2>2
    <3>2. v \in Thread /\ stage[v] = "asleep"
      BY DEF Sleeping
    <3> QED  BY <3>1, <3>2
  <2> QED  BY <2>1, <2>2 DEF Wake
<1> QED  BY <1>1, <1>2

\* The counts are those of the waiting threads.
LEMMA CountStep == TypeOK /\ Counted /\ [Next]_vars => Counted'
<1> SUFFICES ASSUME TypeOK, Counted, [Next]_vars
             PROVE  Counted'
  OBVIOUS
<1> USE DEF TypeOK, Goto
<1>0. \A t \in Thread : /\ stage[t] \in InWait => listed[t]
                        /\ listed[t] => stage[t] \in InWait \cup {"claimed"}
  BY DEF Counted
<1>1. ASSUME NEW t \in Thread, Spin(t)
      PROVE  Counted'
  <2>1. /\ waiters' = waiters /\ listed' = listed /\ ~listed[t]
        /\ \A u \in Thread : u # t => stage'[u] = stage[u]
        /\ stage'[t] \in {"claimed", "spin", "list"}
    BY <1>0, <1>1 DEF Spin, Claim, InWait
  <2> QED  BY <2>1, CountKept DEF InWait
<1>2. ASSUME NEW t \in Thread, Store(t)
      PROVE  Counted'
  <2>1. /\ waiters' = waiters /\ listed' = listed
        /\ \A u \in Thread : u # t => stage'[u] = stage[u]
        /\ stage'[t] = IF listed[t] THEN "unlist" ELSE "wake"
    BY <1>2 DEF Store
  <2> QED  BY <2>1, CountKept DEF InWait
<1>3. ASSUME NEW t \in Thread, List(t)
      PROVE  Counted'
  <2>1. ~listed[t]
    BY <1>0, <1>3 DEF List, InWait
  <2>2. /\ waiters' = [waiters EXCEPT ![Side(t)] = @ + 1]
        /\ listed' = [listed EXCEPT ![t] = TRUE]
        /\ stage' = [stage EXCEPT ![t] = "check"]
    BY <1>3 DEF List
  <2>3. \A s : Waiters(s)' = IF s = Side(t) THEN Waiters(s) \cup {t} ELSE Waiters(s)
    BY <2>2 DEF Waiters, Side
  <2>4. t \notin Waiters(Side(t))
    BY <2>1 DEF Waiters
  <2>5. Cardinality(Waiters(Side(t)) \cup {t}) = Cardinality(Waiters(Side(t))) + 1
    BY <2>4, WaitersFinite, FS_AddElement
  <2>6. \A s \in {"empty", "full"} : waiters'[s] = Cardinality(Waiters(s)')
    BY <2>2, <2>3, <2>5, Sides DEF Counted
  <2>7. \A u \in Thread : /\ stage'[u] \in InWait => listed'[u]
                          /\ listed'[u] => stage'[u] \in InWait \cup {"claimed"}
    BY <1>0, <2>2 DEF InWait
  <2> QED  BY <2>6, <2>7 DEF Counted
<1>4. ASSUME NEW t \in Thread,
             Check(t) \/ Attempt(t) \/ Recheck(t) \/ Compare(t) \/ Syscall(t)
               \/ Interrupt(t)
      PROVE  Counted'
  <2>1. /\ waiters' = waiters /\ listed' = listed
        /\ \A u \in Thread : u # t => stage'[u] = stage[u]
        /\ stage[t] \in InWait /\ stage'[t] \in InWait \cup {"claimed"}
    BY <1>4 DEF Check, Attempt, Claim, Recheck, Compare, Syscall, Interrupt, InWait
  <2> QED  BY <1>0, <2>1, CountKept
<1>5. ASSUME NEW t \in Thread, Unlist(t)
      PROVE  Counted'
  <2>1. listed[t]
    BY <1>0, <1>5 DEF Unlist, InWait
  <2>2. /\ waiters' = [waiters EXCEPT ![Side(t)] = @ - 1]
        /\ listed' = [listed EXCEPT ![t] = FALSE]
        /\ \A u \in Thread : u # t => stage'[u] = stage[u]
        /\ stage'[t] \in {"wake", "out", "gone"}
    BY <1>5 DEF Unlist
  <2>3. \A s : Waiters(s)' = IF s = Side(t) THEN Waiters(s) \ {t} ELSE Waiters(s)
    BY <2>2 DEF Waiters, Side
  <2>4. t \in Waiters(Side(t))
    BY <2>1 DEF Waiters
  <2>5. Cardinality(Waiters(Side(t)) \ {t}) = Cardinality(Waiters(Side(t))) - 1
    BY <2>4, WaitersFinite, FS_RemoveElement
  <2>6. \A s \in {"empty", "full"} : waiters'[s] = Cardinality(Waiters(s)')
    BY <2>2, <2>3, <2>5, Sides DEF Counted
  <2>7. \A u \in Thread : /\ stage'[u] \in InWait => listed'[u]
                          /\ listed'[u] => stage'[u] \in InWait \cup {"claimed"}
    BY <1>0, <2>2 DEF InWait
  <2> QED  BY <2>6, <2>7 DEF Counted
<1>6. ASSUME NEW t \in Thread, Wake(t)
      PROVE  Counted'
  <2>1. /\ waiters' = waiters /\ listed' = listed /\ stage[t] = "wake"
        /\ \A u \in Thread : \/ stage'[u] = stage[u]
                             \/ u = t /\ stage'[u] = "out"
                             \/ stage[u] = "asleep" /\ stage'[u] = "recheck"
    BY <1>6, WakeMoves
  <2> QED  BY <1>0, <2>1, CountKept DEF InWait
<1>7. ASSUME NEW t \in Thread, Begin(t)
      PROVE  Counted'
  <2>1. /\ waiters' = waiters /\ listed' = listed /\ stage[t] = "out"
        /\ stage' = [stage EXCEPT ![t] = "spin"]
    BY <1>7 DEF Begin
  <2> QED  BY <1>0, <2>1, CountKept DEF InWait
<1>8. CASE Broadcast
  <2>1. /\ waiters' = waiters /\ listed' = listed
        /\ \A u \in Thread :
             stage'[u] = IF stage[u] = "asleep" THEN "recheck" ELSE stage[u]
    BY <1>8 DEF Broadcast
  <2> QED  BY <1>0, <2>1, CountKept DEF InWait
<1>9. CASE Stop \/ Join \/ UNCHANGED vars
  BY <1>9, CountKept DEF Stop, Join, vars
<1> QED  BY <1>1, <1>2, <1>3, <1>4, <1>5, <1>6, <1>7, <1>8, <1>9 DEF Next, Step

-----------------------------------------------------------------------------
(***************************************************************************)
(* The wake-up                                                             *)
(***************************************************************************)

\* A step keeps NewWorkWakes if no waker leaves off, and the program thread neither
\* falls asleep nor sleeps on another value, and tail stays.
LEMMA WokenKept ==
  ASSUME NewWorkWakes, tail' = tail,
         \A u \in Pusher : WillWake(u) => WillWake(u)',
         \A t \in Puller : stage'[t] = "asleep"
                            => stage[t] = "asleep" /\ expected'[t] = expected[t]
  PROVE  NewWorkWakes'
  BY DEF NewWorkWakes

\* Whoever takes a ticket to push wakes the program thread later.
LEMMA ClaimWakes ==
  ASSUME TypeOK, NewWorkWakes, NEW t \in Thread, Claim(t), stage[t] \in {"spin", "attempt"},
         UNCHANGED <<expected, ok>>
  PROVE  NewWorkWakes'
<1> USE WaitAssumption DEF TypeOK, Goto, Claim
<1>1. /\ \A u \in Thread : stage'[u] = IF u = t THEN "claimed" ELSE stage[u]
      /\ expected' = expected /\ ok' = ok
  OBVIOUS
<1>2. \A u \in Pusher : WillWake(u) => WillWake(u)'
  BY <1>1 DEF WillWake, Thread
<1>3. CASE PushClaim(t)
  <2>1. t \in Pusher /\ WillWake(t)'
    BY <1>1, <1>3 DEF PushClaim, WillWake
  <2> QED  BY <2>1 DEF NewWorkWakes
<1>4. CASE PullClaim(t)
  <2>1. tail' = tail
    BY <1>4 DEF PullClaim
  <2> QED  BY <1>1, <1>2, <2>1, WokenKept DEF Thread
<1> QED  BY <1>3, <1>4

\* The waker of a sleeping program thread finds it: it is counted, it is
\* asleep, and it is the only one.
LEMMA WakeWakes ==
  ASSUME TypeOK, Counted, NewWorkWakes, NEW t \in Thread, Wake(t)
  PROVE  NewWorkWakes'
<1> USE WaitAssumption DEF TypeOK
<1>0. /\ stage[t] = "wake" /\ tail' = tail /\ expected' = expected
      /\ \A u \in Thread : u # t => ok'[u] = ok[u]
      /\ \A u \in Thread : \/ stage'[u] = stage[u]
                           \/ u = t /\ stage'[u] = "out"
                           \/ stage[u] = "asleep" /\ stage'[u] = "recheck"
  BY WakeMoves
<1>1. CASE t \in Puller
  <2>1. \A u \in Pusher : WillWake(u) => WillWake(u)'
    BY <1>0, <1>1 DEF WillWake, Thread
  <2> QED  BY <1>0, <2>1, WokenKept DEF Thread
<1>2. CASE t \in Pusher
  <2> SUFFICES ASSUME NEW p \in Puller, stage'[p] = "asleep"
               PROVE  FALSE
    BY DEF NewWorkWakes
  <2>1. stage[p] = "asleep" /\ p \in Thread /\ Side(p) = "empty" /\ p # t
    BY <1>0 DEF Thread, Side
  <2>2. OtherSide(t) = "empty"
    BY <1>2 DEF OtherSide
  <2>3. waiters["empty"] > 0
    <3>1. p \in Waiters("empty")
      BY <2>1 DEF Counted, InWait, Waiters
    <3>2. Cardinality(Waiters("empty")) # 0
      BY <3>1, WaitersFinite, FS_EmptySet
    <3> QED  BY <3>2, WaitersFinite DEF Counted
  <2>4. PICK u \in Sleeping(t) : stage' = [stage EXCEPT ![t] = "out", ![u] = "recheck"]
    BY <2>2, <2>3 DEF Wake
  <2>5. u = p
    BY <2>2 DEF Sleeping, Side, Thread
  <2> QED  BY <2>1, <2>4, <2>5
<1> QED  BY <1>1, <1>2 DEF Thread

\* No step loses a wake-up.
LEMMA WokenStep == TypeOK /\ Counted /\ NewWorkWakes /\ [Next]_vars => NewWorkWakes'
<1> SUFFICES ASSUME TypeOK, Counted, NewWorkWakes, [Next]_vars
             PROVE  NewWorkWakes'
  OBVIOUS
<1> USE WaitAssumption DEF TypeOK, Goto
<1>1. ASSUME NEW t \in Thread, Spin(t)
      PROVE  NewWorkWakes'
  <2>1. CASE Claim(t)
    BY <1>1, <2>1, ClaimWakes DEF Spin
  <2>2. CASE ~Claim(t)
    <3>1. /\ stage[t] = "spin" /\ stage'[t] \in {"spin", "list"}
          /\ \A u \in Thread : u # t => stage'[u] = stage[u]
          /\ tail' = tail /\ expected' = expected /\ ok' = ok
      BY <1>1, <2>2 DEF Spin, queueVars
    <3> QED  BY <3>1, WokenKept DEF WillWake, Thread
  <2> QED  BY <2>1, <2>2
<1>2. ASSUME NEW t \in Thread, Store(t)
      PROVE  NewWorkWakes'
  <2>1. /\ stage[t] = "claimed" /\ stage'[t] \in {"unlist", "wake"} /\ ok'[t]
        /\ \A u \in Thread : u # t => stage'[u] = stage[u] /\ ok'[u] = ok[u]
        /\ tail' = tail /\ expected' = expected
    BY <1>2 DEF Store
  <2> QED  BY <2>1, WokenKept DEF WillWake, Thread
<1>3. ASSUME NEW t \in Thread,
             List(t) \/ Recheck(t) \/ Compare(t) \/ Interrupt(t) \/ Begin(t)
      PROVE  NewWorkWakes'
  <2>1. /\ stage[t] \in {"list", "recheck", "compare", "asleep", "out"}
        /\ stage'[t] # "asleep"
        /\ \A u \in Thread : u # t => stage'[u] = stage[u]
        /\ tail' = tail /\ expected' = expected /\ ok' = ok
    BY <1>3 DEF List, Recheck, Compare, Interrupt, Begin, queueVars
  <2> QED  BY <2>1, WokenKept DEF WillWake, Thread
<1>4. ASSUME NEW t \in Thread, Check(t)
      PROVE  NewWorkWakes'
  <2>1. /\ stage[t] = "check" /\ stage'[t] \in {"attempt", "unlist"}
        /\ \A u \in Thread : u # t => stage'[u] = stage[u] /\ expected'[u] = expected[u]
        /\ tail' = tail /\ ok' = ok
    BY <1>4 DEF Check, queueVars
  <2> QED  BY <2>1, WokenKept DEF WillWake, Thread
<1>5. ASSUME NEW t \in Thread, Attempt(t)
      PROVE  NewWorkWakes'
  <2>1. CASE Claim(t)
    BY <1>5, <2>1, ClaimWakes DEF Attempt
  <2>2. CASE ~Claim(t)
    <3>1. /\ stage[t] = "attempt" /\ stage'[t] = "recheck"
          /\ \A u \in Thread : u # t => stage'[u] = stage[u]
          /\ tail' = tail /\ expected' = expected /\ ok' = ok
      BY <1>5, <2>2 DEF Attempt, queueVars
    <3> QED  BY <3>1, WokenKept DEF WillWake, Thread
  <2> QED  BY <2>1, <2>2
<1>6. ASSUME NEW t \in Thread, Syscall(t)
      PROVE  NewWorkWakes'
  <2>1. /\ stage[t] = "syscall"
        /\ stage'[t] = IF Word(t) # expected[t] THEN "recheck" ELSE "asleep"
        /\ \A u \in Thread : u # t => stage'[u] = stage[u]
        /\ tail' = tail /\ expected' = expected /\ ok' = ok
    BY <1>6 DEF Syscall, queueVars
  <2>2. \A u \in Pusher : WillWake(u) => WillWake(u)'
    BY <2>1 DEF WillWake, Thread
  <2>3. ASSUME NEW p \in Puller, stage'[p] = "asleep", expected'[p] # tail'
        PROVE  stage[p] = "asleep"
    BY <2>1, <2>3 DEF Word, Thread
  <2> QED  BY <2>1, <2>2, <2>3 DEF NewWorkWakes
<1>7. ASSUME NEW t \in Thread, Unlist(t)
      PROVE  NewWorkWakes'
  <2>1. /\ stage[t] = "unlist"
        /\ stage'[t] # "asleep" /\ ok[t] => stage'[t] = "wake"
        /\ \A u \in Thread : u # t => stage'[u] = stage[u]
        /\ tail' = tail /\ expected' = expected /\ ok' = ok
    BY <1>7 DEF Unlist, queueVars
  <2>2. stage'[t] # "asleep"
    BY <1>7 DEF Unlist
  <2> QED  BY <2>1, <2>2, WokenKept DEF WillWake, Thread
<1>8. ASSUME NEW t \in Thread, Wake(t)
      PROVE  NewWorkWakes'
  BY <1>8, WakeWakes
<1>9. CASE Broadcast
  <2>1. /\ \A u \in Thread :
             stage'[u] = IF stage[u] = "asleep" THEN "recheck" ELSE stage[u]
        /\ tail' = tail /\ expected' = expected /\ ok' = ok
    BY <1>9 DEF Broadcast, queueVars
  <2> QED  BY <2>1, WokenKept DEF WillWake, Thread
<1>10. CASE Stop \/ Join \/ UNCHANGED vars
  <2>1. tail' = tail /\ expected' = expected /\ ok' = ok /\ stage' = stage
    BY <1>10 DEF Stop, Join, vars, queueVars
  <2> QED  BY <2>1, WokenKept DEF WillWake
<1> QED
  BY <1>1, <1>2, <1>3, <1>4, <1>5, <1>6, <1>7, <1>8, <1>9, <1>10 DEF Next, Step

-----------------------------------------------------------------------------
(***************************************************************************)
(* The theorems                                                            *)
(***************************************************************************)

\* At the start nobody waits.
LEMMA InitIInv == Init => IInv
<1> SUFFICES ASSUME Init PROVE IInv
  OBVIOUS
<1> USE WaitAssumption DEF Init
<1>1. TypeOK
  BY DEF TypeOK
<1>2. Spinning /\ NewWorkWakes
  BY DEF Spinning, NewWorkWakes, Thread
<1>3. Counted
  <2>1. \A s : Waiters(s) = {}
    BY DEF Waiters
  <2> QED  BY <2>1, FS_EmptySet DEF Counted, InWait
<1> QED  BY <1>1, <1>2, <1>3 DEF IInv

\* The counts of waiters are those of the waiting threads, and for every
\* program thread that sleeps on an old tail there is one that will wake it.
THEOREM Invariance == Spec => []IInv
<1>1. IInv /\ [Next]_vars => IInv'
  BY TypeStep, CountStep, WokenStep DEF IInv
<1> QED  BY <1>1, InitIInv, PTL DEF Spec

\* A program thread asleep that read `tail' before some ticket was claimed has
\* a pusher that is going to wake its side (NewWorkWakes says no more).
THEOREM WakeUpsAreKept == Spec => []WaitInv
<1>1. IInv => WaitInv
  BY DEF IInv, WaitInv
<1> QED  BY <1>1, Invariance, PTL

=============================================================================
