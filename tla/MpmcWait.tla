------------------------------ MODULE MpmcWait ------------------------------
(***************************************************************************)
(* The blocking calls of the flow operation queue: mpmc_queue_push_wait    *)
(* and mpmc_queue_pull_wait, the wake-ups that follow a successful call,   *)
(* the futex under them (futex.h), and the shutdown of the program thread  *)
(* (stop_app, fl_join).                                                    *)
(*                                                                         *)
(* The queue is seen as MpmcQueue proves it to be: a push claims the next  *)
(* ticket and later publishes it, and fails only if the queue is full or   *)
(* the cell it needs is not freed yet; a pull claims the oldest ticket and *)
(* later frees its cell, and fails only if there is none or it is not      *)
(* published yet.  What happens between claim and store is what the waits  *)
(* depend on, so these stay two steps.                                     *)
(*                                                                         *)
(* A push waits for `head' to change, counted in wait_full; a pull waits   *)
(* for `tail', counted in wait_empty.  The two are the same protocol on    *)
(* the two sides, and so are their actions here.                           *)
(***************************************************************************)
EXTENDS Naturals, FiniteSets

CONSTANTS
  Pusher,      \* threads that call fl_program
  Puller,      \* the thread that runs fl_program_main
  Capacity,    \* cells of the queue
  MaxSpin,     \* attempts before a call waits (MAX_SPIN)
  Budget,      \* calls of fl_program per thread, to bound the model
  StatsTimer   \* whether SIGALRM can interrupt a sleeping thread

ASSUME WaitAssumption ==
  /\ Pusher \cap Puller = {} /\ IsFiniteSet(Pusher \cup Puller)
  /\ \A t, u \in Puller : t = u
  /\ Capacity \in Nat /\ Capacity >= 2
  /\ MaxSpin \in Nat /\ MaxSpin >= 1
  /\ Budget \in Nat
  /\ StatsTimer \in BOOLEAN

VARIABLES
  head, tail,   \* next ticket to pull and to push
  unpublished,  \* tickets claimed by a push that has not published them
  unfreed,      \* tickets claimed by a pull that has not freed their cell
  waiters,      \* wait_empty and wait_full
  running,      \* app_running
  main,         \* the main thread: looping, or joining after the broadcast
  stage,        \* where each thread is
  ticket,       \* the ticket a thread has claimed
  tries,        \* attempts made before waiting
  expected,     \* the value of the futex word a thread goes to sleep on
  listed,       \* whether the thread counts as a waiter
  ok,           \* the result of its call
  calls         \* calls a thread may still make

queueVars == <<head, tail, unpublished, unfreed>>
vars == <<queueVars, waiters, running, main, stage, ticket, tries, expected,
          listed, ok, calls>>

Thread == Pusher \cup Puller

\* A pushing thread waits on one side of the queue and wakes the other.
Side(t) == IF t \in Pusher THEN "full" ELSE "empty"
OtherSide(t) == IF t \in Pusher THEN "empty" ELSE "full"

\* The futex word of a thread's side.
Word(t) == IF t \in Pusher THEN head ELSE tail

Init ==
  /\ head = 0 /\ tail = 0 /\ unpublished = {} /\ unfreed = {}
  /\ waiters = [s \in {"empty", "full"} |-> 0]
  /\ running = TRUE
  /\ main = "looping"
  /\ stage = [t \in Thread |-> "out"]
  /\ ticket = [t \in Thread |-> 0]
  /\ tries = [t \in Thread |-> 0]
  /\ expected = [t \in Thread |-> 0]
  /\ listed = [t \in Thread |-> FALSE]
  /\ ok = [t \in Thread |-> FALSE]
  /\ calls = [t \in Thread |-> Budget]

Goto(t, l) == stage' = [stage EXCEPT ![t] = l]

(***************************************************************************)
(* One attempt: mpmc_queue_push or mpmc_queue_pull up to the successful    *)
(* compare-and-exchange.                                                   *)
(***************************************************************************)
CanPush == tail < head + Capacity /\ tail \notin {i + Capacity : i \in unfreed}
CanPull == head < tail /\ head \notin unpublished

Can(t) == IF t \in Pusher THEN CanPush ELSE CanPull

PushClaim(t) ==
  /\ t \in Pusher /\ CanPush
  /\ ticket' = [ticket EXCEPT ![t] = tail]
  /\ tail' = tail + 1
  /\ unpublished' = unpublished \cup {tail}
  /\ UNCHANGED <<head, unfreed>>

PullClaim(t) ==
  /\ t \in Puller /\ CanPull
  /\ ticket' = [ticket EXCEPT ![t] = head]
  /\ head' = head + 1
  /\ unfreed' = unfreed \cup {head}
  /\ UNCHANGED <<tail, unpublished>>

Claim(t) == (PushClaim(t) \/ PullClaim(t)) /\ Goto(t, "claimed")

\* The store of the sequence number, after which the call can return true.
Store(t) ==
  /\ stage[t] = "claimed"
  /\ unpublished' = IF t \in Pusher THEN unpublished \ {ticket[t]} ELSE unpublished
  /\ unfreed' = IF t \in Puller THEN unfreed \ {ticket[t]} ELSE unfreed
  /\ ticket' = [ticket EXCEPT ![t] = 0]
  /\ ok' = [ok EXCEPT ![t] = TRUE]
  /\ Goto(t, IF listed[t] THEN "unlist" ELSE "wake")
  /\ UNCHANGED <<head, tail, waiters, running, main, tries, expected, listed,
                 calls>>

(***************************************************************************)
(* mpmc_queue_push_wait and mpmc_queue_pull_wait                           *)
(***************************************************************************)

\* fl_program is called by threads that just found app_running set; the
\* program thread calls mpmc_queue_pull_wait whatever app_running says.
Begin(t) ==
  /\ stage[t] = "out"
  /\ t \in Pusher => running /\ calls[t] > 0
  /\ calls' = [calls EXCEPT ![t] = IF t \in Pusher THEN @ - 1 ELSE @]
  /\ tries' = [tries EXCEPT ![t] = 0]
  /\ Goto(t, "spin")
  /\ UNCHANGED <<queueVars, waiters, running, main, ticket, expected, listed,
                 ok>>

Spin(t) ==
  /\ stage[t] = "spin"
  /\ \/ Claim(t) /\ tries' = tries
     \/ /\ ~Can(t)
        /\ tries' = [tries EXCEPT ![t] = @ + 1]
        /\ Goto(t, IF tries'[t] < MaxSpin THEN "spin" ELSE "list")
        /\ UNCHANGED <<queueVars, ticket>>
  /\ UNCHANGED <<waiters, running, main, expected, listed, ok, calls>>

List(t) ==
  /\ stage[t] = "list"
  /\ waiters' = [waiters EXCEPT ![Side(t)] = @ + 1]
  /\ listed' = [listed EXCEPT ![t] = TRUE]
  /\ Goto(t, "check")
  /\ UNCHANGED <<queueVars, running, main, ticket, tries, expected, ok, calls>>

\* The loop's test of app_running, and the load of the futex word.
Check(t) ==
  /\ stage[t] = "check"
  /\ \/ /\ running
        /\ expected' = [expected EXCEPT ![t] = Word(t)]
        /\ Goto(t, "attempt")
     \/ /\ ~running
        /\ expected' = expected
        /\ Goto(t, "unlist")
  /\ UNCHANGED <<queueVars, waiters, running, main, ticket, tries, listed, ok,
                 calls>>

Attempt(t) ==
  /\ stage[t] = "attempt"
  /\ \/ Claim(t)
     \/ ~Can(t) /\ Goto(t, "recheck") /\ UNCHANGED <<queueVars, ticket>>
  /\ UNCHANGED <<waiters, running, main, tries, expected, listed, ok, calls>>

(***************************************************************************)
(* futex_wait: it returns to the loop above when the word has changed, and *)
(* fails when app_running is cleared or the system call is interrupted.    *)
(***************************************************************************)
Recheck(t) ==
  /\ stage[t] = "recheck"
  /\ Goto(t, IF running THEN "compare" ELSE "unlist")
  /\ UNCHANGED <<queueVars, waiters, running, main, ticket, tries, expected,
                 listed, ok, calls>>

Compare(t) ==
  /\ stage[t] = "compare"
  /\ Goto(t, IF Word(t) # expected[t] THEN "check" ELSE "syscall")
  /\ UNCHANGED <<queueVars, waiters, running, main, ticket, tries, expected,
                 listed, ok, calls>>

\* The kernel compares the word again and puts the thread to sleep in one
\* step; EAGAIN starts over.
Syscall(t) ==
  /\ stage[t] = "syscall"
  /\ Goto(t, IF Word(t) # expected[t] THEN "recheck" ELSE "asleep")
  /\ UNCHANGED <<queueVars, waiters, running, main, ticket, tries, expected,
                 listed, ok, calls>>

\* EINTR: the statistics timer's handler ran on this thread.
Interrupt(t) ==
  /\ StatsTimer
  /\ stage[t] = "asleep"
  /\ Goto(t, "unlist")
  /\ UNCHANGED <<queueVars, waiters, running, main, ticket, tries, expected,
                 listed, ok, calls>>

\* Mutant of Unlist: a call that succeeds stays among the waiters.
UnlistKeeps(t) ==
  /\ stage[t] = "unlist"
  /\ waiters' = IF ok[t] THEN waiters ELSE [waiters EXCEPT ![Side(t)] = @ - 1]
  /\ listed' = [listed EXCEPT ![t] = FALSE]
  /\ Goto(t, IF ok[t] THEN "wake" ELSE IF t \in Pusher THEN "out" ELSE "gone")
  /\ UNCHANGED <<queueVars, running, main, ticket, tries, expected, ok, calls>>

\* The call returns: with an element done, on to the wake-up; without one,
\* fl_program gives up the operation, and fl_program_main returns.
Unlist(t) ==
  /\ stage[t] = "unlist"
  /\ waiters' = [waiters EXCEPT ![Side(t)] = @ - 1]
  /\ listed' = [listed EXCEPT ![t] = FALSE]
  /\ Goto(t, IF ok[t] THEN "wake" ELSE IF t \in Pusher THEN "out" ELSE "gone")
  /\ UNCHANGED <<queueVars, running, main, ticket, tries, expected, ok, calls>>

(***************************************************************************)
(* mpmc_queue_wake_empty and mpmc_queue_wake_full: as long as somebody     *)
(* counts as waiting, try to wake one sleeper, and stop once one woke.  A  *)
(* try that finds nobody asleep yet changes nothing.                       *)
(***************************************************************************)
Sleeping(t) == {u \in Thread : stage[u] = "asleep" /\ Side(u) = OtherSide(t)}

\* Mutant of Wake: asks whether anybody waits on the caller's own side.
WakeOwnSide(t) ==
  /\ stage[t] = "wake"
  /\ \/ /\ waiters[Side(t)] = 0
        /\ Goto(t, "out")
     \/ /\ waiters[Side(t)] > 0
        /\ \E u \in Sleeping(t) :
             stage' = [stage EXCEPT ![t] = "out", ![u] = "recheck"]
  /\ ok' = [ok EXCEPT ![t] = FALSE]
  /\ UNCHANGED <<queueVars, waiters, running, main, ticket, tries, expected,
                 listed, calls>>

Wake(t) ==
  /\ stage[t] = "wake"
  /\ \/ /\ waiters[OtherSide(t)] = 0
        /\ Goto(t, "out")
     \/ /\ waiters[OtherSide(t)] > 0
        /\ \E u \in Sleeping(t) :
             stage' = [stage EXCEPT ![t] = "out", ![u] = "recheck"]
  /\ ok' = [ok EXCEPT ![t] = FALSE]
  /\ UNCHANGED <<queueVars, waiters, running, main, ticket, tries, expected,
                 listed, calls>>

(***************************************************************************)
(* Shutdown: a signal clears app_running; the main thread sees it and      *)
(* fl_join wakes the sleepers of both words once, then joins.              *)
(***************************************************************************)
Stop ==
  /\ running
  /\ running' = FALSE
  /\ UNCHANGED <<queueVars, waiters, main, stage, ticket, tries, expected,
                 listed, ok, calls>>

\* Mutant of Broadcast: the sleepers of one word only are woken.
BroadcastFull ==
  /\ main = "looping" /\ ~running
  /\ main' = "joining"
  /\ stage' = [t \in Thread |->
                 IF stage[t] = "asleep" /\ Side(t) = "full" THEN "recheck"
                 ELSE stage[t]]
  /\ UNCHANGED <<queueVars, waiters, running, ticket, tries, expected, listed,
                 ok, calls>>

Broadcast ==
  /\ main = "looping" /\ ~running
  /\ main' = "joining"
  /\ stage' = [t \in Thread |->
                 IF stage[t] = "asleep" THEN "recheck" ELSE stage[t]]
  /\ UNCHANGED <<queueVars, waiters, running, ticket, tries, expected, listed,
                 ok, calls>>

Join ==
  /\ main = "joining"
  /\ \A t \in Puller : stage[t] = "gone"
  /\ main' = "joined"
  /\ UNCHANGED <<queueVars, waiters, running, stage, ticket, tries, expected,
                 listed, ok, calls>>

Step(t) ==
  \/ Spin(t) \/ Store(t) \/ List(t) \/ Check(t) \/ Attempt(t) \/ Recheck(t)
  \/ Compare(t) \/ Syscall(t) \/ Unlist(t) \/ Wake(t)

Next ==
  \/ \E t \in Thread : Step(t) \/ Begin(t) \/ Interrupt(t)
  \/ Stop \/ Broadcast \/ Join

\* A thread that can run is not kept from running for ever, nor is main; the
\* program thread calls again, other threads and signals need not come.
Fairness ==
  /\ \A t \in Thread : WF_vars(Step(t))
  /\ \A t \in Puller : WF_vars(Begin(t))
  /\ WF_vars(Broadcast) /\ WF_vars(Join)

Spec == Init /\ [][Next]_vars /\ Fairness

-----------------------------------------------------------------------------
\* Every variable has its type.
TypeOK ==
  /\ head \in Nat /\ tail \in Nat
  /\ unpublished \subseteq 0 .. tail /\ unfreed \subseteq 0 .. head
  /\ waiters \in [{"empty", "full"} -> Nat]
  /\ running \in BOOLEAN /\ main \in {"looping", "joining", "joined"}
  /\ stage \in [Thread ->
       {"out", "spin", "claimed", "list", "check", "attempt", "recheck",
        "compare", "syscall", "asleep", "unlist", "wake", "gone"}]
  /\ ticket \in [Thread -> Nat]
  /\ tries \in [Thread -> 0 .. MaxSpin]
  /\ expected \in [Thread -> Nat]
  /\ listed \in [Thread -> BOOLEAN] /\ ok \in [Thread -> BOOLEAN]
  /\ calls \in [Thread -> 0 .. Budget]

\* A thread that is going to wake the sleepers of the other side: a pusher that
\* is to publish what it claimed, or has, and is not one that gives up (it is
\* interrupted, or the program stopped), which unlists itself, too.
WillWake(u) == stage[u] \in {"claimed", "wake"} \/ (stage[u] = "unlist" /\ ok[u])

\* Of a program thread that sleeps in futex_wait, having compared with a `tail'
\* that it read before an operation's ticket was claimed: some thread is going
\* to wake the program thread's side.  That is, between the count of waiters,
\* the comparison and the system call no such ticket's wake-up is lost.  Nothing
\* is said of a ticket claimed before that read and published after it (there
\* the wake-up may be lost: SomebodyAwake), nor of a sleeping pusher.
NewWorkWakes ==
  \A t \in Puller :
    stage[t] = "asleep" /\ expected[t] # tail => \E u \in Pusher : WillWake(u)

\* The types, and the wake-ups for new tickets.
WaitInv == TypeOK /\ NewWorkWakes

\* Hence a program thread does wake up.
SleeperHearsNewWork ==
  \A t \in Puller :
    stage[t] = "asleep" /\ expected[t] # tail ~> stage[t] # "asleep"

\* The wake-up loops end: whoever counts as a waiter goes to sleep, where it
\* can be woken, or leaves.
WakersReturn == \A t \in Thread : stage[t] = "wake" ~> stage[t] # "wake"

\* fl_join's broadcast ends the program thread if it is asleep by then.
SleeperHearsShutdown ==
  \A t \in Puller :
    stage[t] = "asleep" /\ main = "looping" /\ ~running ~> stage[t] = "gone"

\* "poll the ongoing flows every 10s": while the program runs, the poll thread
\* and the others that queue operations never all sleep for room in the queue
\* with the program thread asleep, too, when nobody is left to wake any of them.
SomebodyAwake == running => \E t \in Thread : stage[t] # "asleep"

=============================================================================
