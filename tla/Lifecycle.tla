------------------------------ MODULE Lifecycle ------------------------------
(***************************************************************************)
(* A run of ntnetflow from main() to its end: the steps that set it up,    *)
(* any of which may fail and then undoes the ones before it; the four flow *)
(* threads and the receive threads, which block on the operation queue;    *)
(* the signals that stop it; and the joins and releases at the end.  What  *)
(* outlives the process is in the adapter: its filters and its flows.      *)
(*                                                                         *)
(* The queue is taken at the grain of whole operations (MpmcQueue and      *)
(* MpmcWait have the atomic accesses).  The flags of a flow are left out   *)
(* (FlowLearn has them): what depends on them, the skips of the program    *)
(* thread and the choices of the record and poll threads, goes either way, *)
(* and the status thread, which only clears flags, only runs and ends.     *)
(* So does each probe: it is the adapter's, or an unlearn that emulates it. *)
(* A flow that is listed while it is listed breaks the list: from then on  *)
(* any of the flows ever listed may be met from its head, or missed.       *)
(***************************************************************************)
EXTENDS Integers, Sequences, FiniteSets

CONSTANTS MaxStreams,  \* stream ids of the adapter, 256
          Rx,          \* receive threads, opt_stream_count of them
          Commands,    \* NTPL commands that define macros and filters
          Flows,
          QueueSize,   \* QUEUE_SIZE
          Stats,       \* opt_stat or opt_csv
          MaxRecords,  \* records the adapter keeps unread; it drops others
          Actives      \* streams that other programs may have

ASSUME LifeAssumption ==
    /\ MaxStreams \in Nat /\ Commands \in Nat /\ QueueSize \in Nat \ {0}
    /\ Stats \in BOOLEAN /\ MaxRecords \in Nat /\ Actives \subseteq SUBSET (0 .. MaxStreams - 1)
    /\ IsFiniteSet(Rx) /\ Rx # {} /\ Rx \cap {"program", "poll", "record", "status"} = {}

VARIABLES pc,        \* main(): the next call, or the label of its goto
          open,      \* library handles, the queue and the timer
          rxOpen,    \* rx_stream[].handle
          active,    \* streams of other programs
          taken,     \* streams[] chosen by main()
          filters,   \* NTPL ids that exist in the adapter, 1 .. ntpl_ids_count
          deleting,  \* i of ntpl_deinit()
          running,   \* app_running
          thread,    \* where each thread is
          arg,       \* the flow operation it is about to push or to program
          queue, known,                 \* program_queue; flows in the table
          listed, dropped, torn,        \* flows of the poll list; those ever
                                        \* dropped; the list is broken
          learned, records,             \* flows in the adapter; its records
          rest,      \* flows of the list that fl_deinit() has not unlearned
          faults     \* calls of the teardown that failed

vars == <<pc, open, rxOpen, active, taken, filters, deleting, running, thread,
          arg, queue, known, listed, dropped, torn, learned, records,
          rest, faults>>
adapter == <<active, taken, filters, deleting>>
list == <<listed, dropped, torn>>
flows == <<known, list, learned, records>>
work == <<thread, arg, queue, flows>>
down == <<deleting, rest, faults>>

FlowThreads == {"poll", "program", "record", "status"}
Count == Cardinality(Rx)
Threads == FlowThreads \cup Rx
Alive(t) == thread[t] \notin {"none", "ended"}
NoOp == <<>>
Ops == {"LEARN", "REFRESH", "PROBE", "UNLEARN"} \X Flows
Records == {"probed", "ended"} \X Flows

Init ==
    /\ pc = "vmembits" /\ open = {} /\ rxOpen = {} /\ active \in Actives
    /\ taken = {} /\ filters = {} /\ deleting = 0 /\ running = TRUE
    /\ thread = [t \in Threads |-> "none"] /\ arg = [t \in Threads |-> NoOp]
    /\ queue = <<>> /\ known = {}
    /\ listed = {} /\ dropped = {} /\ torn = FALSE
    /\ learned = {} /\ records = {} /\ rest = {} /\ faults = {}

-----------------------------------------------------------------------------
(* main(): setting up.  Each call succeeds, or main() goes to a label.     *)

Goto(here, there) ==
    /\ pc = here /\ pc' = there
    /\ UNCHANGED <<open, rxOpen, adapter, running, work, rest, faults>>

Opens(here, handles, there) ==
    /\ pc = here /\ pc' = there /\ open' = open \cup handles
    /\ UNCHANGED <<rxOpen, adapter, running, work, rest, faults>>

\* Pointers of another width than the ids of flows are made for: return 1.
VMemBits == Goto("vmembits", "NT_Init") \/ Goto("vmembits", "exit")

NtInit == Opens("NT_Init", {"lib"}, "info_init") \/ Goto("NT_Init", "out")
InfoInit == Opens("info_init", {"info"}, "ports") \/ Goto("info_init", "done")

\* The number of ports, the range of the port options, one adapter for both.
Ports == Goto("ports", "fs_init") \/ Goto("ports", "deinit_info")

\* A statistics stream that opens and cannot be read stays open.
FsInit ==
    \/ Opens("fs_init", {"stat"}, "statuses") \/ Goto("fs_init", "deinit_info")
    \/ Opens("fs_init", {"stat"}, "deinit_info")

\* info_streams_unused(): the gaps between the sorted ids in use, one after
\* the other, until there are max.
Sorted(S) == CHOOSE s \in [1 .. Cardinality(S) -> S] :
                 \A i, j \in DOMAIN s : i < j => s[i] < s[j]
Lowest(n, S) == {i \in S : Cardinality({j \in S : j < i}) < n}

Unused(used, max) ==
    LET s == Sorted(used)
        Last(k) == IF k = 1 THEN 0 ELSE s[k - 1] + 1
        End(k) == IF k > Len(s) THEN MaxStreams - 1 ELSE s[k] - 1
        out[k \in 0 .. Len(s) + 1] ==
            IF k = 0 THEN {}
            ELSE out[k - 1] \cup Lowest(max - Cardinality(out[k - 1]), Last(k) .. End(k))
    IN out[Len(s) + 1]

\* The flow matcher and, in the driver's settings, all statuses of flows.
Statuses == Goto("statuses", "checks") \/ Goto("statuses", "deinit_fs")

\* The time stamps and the options in range, and enough streams.
Checks ==
    \/ Goto("checks", "deinit_fs")
    \/ /\ pc = "checks"
       /\ taken' = Unused(active, Count)
       /\ pc' = IF Cardinality(taken') < Count THEN "deinit_fs" ELSE "signal_init"
       /\ UNCHANGED <<open, rxOpen, active, filters, deleting, running, work, rest, faults>>

SignalInit ==
    \/ Opens("signal_init", {"efd", "handlers"}, "stats_init")
    \/ Goto("signal_init", "deinit_fs")

\* stats_init() and stats_start(), only with --stat or --csv.
StatsInit ==
    \/ Opens("stats_init", IF Stats THEN {"timer"} ELSE {}, "ntpl_init")
    \/ Stats /\ Goto("stats_init", "deinit_signal")
    \/ Stats /\ Opens("stats_init", {"timer"}, "deinit_signal")

NtplInit == Opens("ntpl_init", {"config"}, "ntpl_apply") \/ Goto("ntpl_init", "deinit_stats")

\* ntpl_common_apply() and ntpl_apply(): one command after the other.
NtplApply ==
    /\ pc = "ntpl_apply"
    /\ \/ /\ Cardinality(filters) < Commands
          /\ filters' = filters \cup {Cardinality(filters) + 1} /\ UNCHANGED <<pc, deleting>>
       \/ /\ Cardinality(filters) < Commands
          /\ pc' = "deinit_ntpl" /\ deleting' = Cardinality(filters) /\ UNCHANGED filters
       \/ /\ Cardinality(filters) = Commands
          /\ pc' = "ft_init" /\ UNCHANGED <<filters, deleting>>
    /\ UNCHANGED <<open, rxOpen, active, taken, running, work, rest, faults>>

\* ntpl_deinit() starts at ntpl_ids_count - 1, here counted from 1.
ToNtplDeinit(here, stop) ==
    /\ pc = here /\ pc' = "deinit_ntpl" /\ deleting' = Cardinality(filters)
    /\ running' = (running /\ ~stop)
    /\ UNCHANGED <<active, taken, filters, rxOpen, work, rest, faults>>

FtInit ==
    \/ Goto("ft_init", "fl_init")
    \/ ToNtplDeinit("ft_init", FALSE) /\ UNCHANGED open

\* fl_init(): the queue, then the flow stream, then the threads.  When one of
\* the first two fails it calls signal_shutdown().
FlInit ==
    \/ /\ pc = "fl_init" /\ pc' = "fl_create" /\ open' = open \cup {"queue", "flow"}
       /\ UNCHANGED <<rxOpen, adapter, running, work, rest, faults>>
    \/ ToNtplDeinit("fl_init", TRUE) /\ open' \in {open, open \cup {"queue"}}

\* pthread_create() returns a positive number when it fails, so that the code
\* sees it never fail; neither does it here.
Create(t) ==
    /\ thread[t] = "none" /\ thread' = [thread EXCEPT ![t] = "run"]
    /\ UNCHANGED <<open, rxOpen, adapter, running, arg, queue, flows, rest, faults>>

FlCreate ==
    \/ pc = "fl_create" /\ UNCHANGED pc /\ \E t \in FlowThreads : Create(t)
    \/ /\ \A t \in FlowThreads : thread[t] # "none"
       /\ Goto("fl_create", "rx_open")

\* rx_init(): all streams are opened before the first thread is created.
RxOpen ==
    /\ pc = "rx_open"
    /\ \/ \E t \in Rx \ rxOpen : rxOpen' = rxOpen \cup {t} /\ UNCHANGED <<pc, running>>
       \/ /\ rxOpen # Rx /\ rxOpen' = {} /\ running' = FALSE /\ pc' = "fl_join_only"
       \/ /\ rxOpen = Rx /\ pc' = "rx_create" /\ UNCHANGED <<rxOpen, running>>
    /\ UNCHANGED <<open, adapter, work, rest, faults>>

RxCreate ==
    /\ pc = "rx_create"
    /\ \E t \in Rx : /\ Create(t)
                     /\ pc' = IF \A r \in Rx : thread'[r] # "none" THEN "loop" ELSE pc

-----------------------------------------------------------------------------
(* The operation queue and its sleepers.                                   *)

Full == Len(queue) = QueueSize
Pushers == {"poll", "record"} \cup Rx

Same == <<pc, open, rxOpen, adapter, running, rest, faults>>
Move(t, l) == thread' = [thread EXCEPT ![t] = l]

\* mpmc_queue_push_wait() and mpmc_queue_wake_empty().
Push(t) ==
    /\ t \in Pushers /\ thread[t] = "push"
    /\ \/ /\ ~Full /\ queue' = Append(queue, arg[t])
          /\ thread' = [thread EXCEPT ![t] = "run",
                        !["program"] = IF @ = "asleep" THEN "run" ELSE @]
          /\ arg' = [arg EXCEPT ![t] = NoOp]
       \/ /\ Full /\ running /\ Move(t, "wait") /\ UNCHANGED <<arg, queue>>
       \/ /\ Full /\ ~running /\ Move(t, "run")
          /\ arg' = [arg EXCEPT ![t] = NoOp] /\ UNCHANGED queue
    /\ UNCHANGED <<Same, flows>>

\* futex_wait() has seen app_running set: the kernel compares the word and the
\* thread sleeps, whatever has become of app_running.
Sleep(t) ==
    /\ thread[t] = "wait"
    /\ IF t = "program" THEN Move(t, IF queue = <<>> THEN "asleep" ELSE "run")
       ELSE Move(t, IF Full THEN "asleep" ELSE "push")
    /\ UNCHANGED <<Same, arg, queue, flows>>

\* The statistics timer's SIGALRM: the futex call fails, the operation is
\* dropped, and the program thread ends.
Interrupt(t) ==
    /\ thread[t] = "asleep" /\ "timer" \in open
    /\ Move(t, IF t = "program" THEN "ended" ELSE "run")
    /\ arg' = [arg EXCEPT ![t] = NoOp]
    /\ UNCHANGED <<Same, queue, flows>>

\* fl_program_main(): mpmc_queue_pull_wait() and mpmc_queue_wake_full().
Pull ==
    /\ thread["program"] = "run"
    /\ \/ /\ queue # <<>> /\ queue' = Tail(queue)
          /\ arg' = [arg EXCEPT !["program"] = Head(queue)]
          /\ LET sleepers == {t \in Pushers : thread[t] = "asleep"}
                 moved == [thread EXCEPT !["program"] = "list"] IN
             IF sleepers = {} THEN thread' = moved
             ELSE \E t \in sleepers : thread' = [moved EXCEPT ![t] = "push"]
       \/ queue = <<>> /\ running /\ Move("program", "wait") /\ UNCHANGED <<arg, queue>>
       \/ queue = <<>> /\ ~running /\ Move("program", "ended") /\ UNCHANGED <<arg, queue>>
    /\ UNCHANGED <<Same, flows>>

\* fl_add_poll(): the flow is put in front of the head, wherever it was.  Once
\* the list is broken, it makes no difference what was dropped.
AddPoll(f) ==
    /\ torn' = (torn \/ f \in listed) /\ listed' = listed \cup {f}
    /\ dropped' = IF torn' THEN {} ELSE dropped

\* fl_remove_poll(): a flow of a broken list may be met again.
RemovePoll(f) ==
    /\ IF torn THEN UNCHANGED <<listed, dropped>>
       ELSE listed' = listed \ {f} /\ dropped' = dropped \cup {f}
    /\ UNCHANGED torn

\* What the flags make of an operation: it is skipped, or its command written,
\* for a learn after the flow is listed.  The first learn of a flow lists it.
List ==
    /\ thread["program"] = "list"
    /\ LET op == arg["program"][1]  f == arg["program"][2]
           new == op = "LEARN" /\ f \notin listed \cup dropped /\ ~torn IN
       \/ /\ op # "PROBE" /\ ~new
          /\ Move("program", "run") /\ arg' = [arg EXCEPT !["program"] = NoOp]
          /\ UNCHANGED list
       \/ ~new /\ Move("program", "write") /\ UNCHANGED <<arg, list>>
       \/ op = "LEARN" /\ Move("program", "write") /\ AddPoll(f) /\ UNCHANGED arg
    /\ UNCHANGED <<Same, queue, known, learned, records>>

Report(k, f) ==
    IF Cardinality(records) < MaxRecords THEN records \cup {<<k, f>>} ELSE records

\* What the adapter does of an operation: a learn may fail.
Execute(op, f) ==
    \/ op \in {"LEARN", "REFRESH"} /\ learned' \in {learned, learned \cup {f}} /\ UNCHANGED records
    \/ /\ op \in {"UNLEARN", "PROBE"} /\ learned' = learned \ {f}
       /\ records' = IF f \in learned THEN Report("ended", f) ELSE records
    \/ /\ op = "PROBE" /\ UNCHANGED learned
       /\ records' = IF f \in learned THEN Report("probed", f) ELSE records

\* NT_FlowWrite(); an error ends the thread and nothing else.
Write ==
    /\ thread["program"] = "write"
    /\ arg' = [arg EXCEPT !["program"] = NoOp]
    /\ \/ Move("program", "run") /\ Execute(arg["program"][1], arg["program"][2])
       \/ Move("program", "ended") /\ UNCHANGED <<learned, records>>
    /\ UNCHANGED <<Same, queue, known, list>>

-----------------------------------------------------------------------------
(* The other threads.                                                      *)

Programs(t, op) ==   \* fl_program()
    /\ Move(t, "push") /\ arg' = [arg EXCEPT ![t] = op] /\ UNCHANGED queue

\* rx_process(): a flow that is not in the table is added and learned.  Which
\* of the flows comes first makes no difference.
Packet(t, f) ==
    /\ t \in Rx /\ thread[t] = "run" /\ running
    /\ Flows # known /\ f = CHOOSE g \in Flows \ known : TRUE
    /\ known' = known \cup {f} /\ Programs(t, <<"LEARN", f>>)
    /\ UNCHANGED <<Same, list, learned, records>>

\* fl_record_main(): after a probe an idle flow is unlearned, or, if unlearning
\* it was the probe, the flow is learned again.
Record(k, f) ==
    /\ thread["record"] = "run" /\ running /\ <<k, f>> \in records
    /\ records' = records \ {<<k, f>>}
    /\ \/ k = "probed" /\ Programs("record", <<"UNLEARN", f>>)
       \/ k = "ended" /\ Programs("record", <<"REFRESH", f>>)
       \/ UNCHANGED <<thread, arg, queue>>
    /\ UNCHANGED <<Same, known, list, learned>>

\* fl_poll_main(): a flow of the list is learned, refreshed, unlearned or probed
\* (again), or dropped.  Stopped, it drops flows up to the end of its pass; that
\* it queues operations up to there is left out.
Poll(f) ==
    /\ thread["poll"] = "run" /\ f \in listed
    /\ \/ running /\ UNCHANGED list /\ \E op \in {"LEARN", "REFRESH", "UNLEARN", "PROBE"} :
                                        Programs("poll", <<op, f>>)
       \/ RemovePoll(f) /\ UNCHANGED <<thread, arg, queue>>
    /\ UNCHANGED <<Same, known, learned, records>>

\* The loops end when app_running is clear.  An error of the library ends a
\* receive thread, and the program runs on.
Finish(t) ==
    /\ t # "program" /\ thread[t] = "run" /\ Move(t, "ended")
    /\ ~running \/ t \in Rx
    /\ UNCHANGED <<Same, arg, queue, flows>>

\* The flow scrubber of the adapter.
Timeout(f) ==
    /\ f \in learned /\ learned' = learned \ {f}
    /\ records' = Report("ended", f)
    /\ UNCHANGED <<Same, thread, arg, queue, known, list>>

\* stop_app(), once signal_init() has installed it; before that a signal ends
\* the process.
Signal ==
    /\ pc # "exit"
    /\ IF "handlers" \in open THEN running' = FALSE /\ UNCHANGED pc
       ELSE pc' = "exit" /\ UNCHANGED running
    /\ UNCHANGED <<open, rxOpen, adapter, work, rest, faults>>

-----------------------------------------------------------------------------
(* main(): the loop, the joins and the labels.                             *)

\* Mutant: only the program thread is woken.
BroadcastEmpty ==
    /\ ~running /\ pc \in {"loop", "fl_join_only"}
    /\ pc' = IF pc = "loop" THEN "fl_joining" ELSE "fl_joining_only"
    /\ thread' = [thread EXCEPT !["program"] = IF @ = "asleep" THEN "run" ELSE @]
    /\ UNCHANGED <<open, rxOpen, adapter, running, arg, queue, flows, rest, faults>>

\* main() is in its loop until app_running is clear, then come the broadcasts
\* of fl_join(), and its joins; "fl_join_only" is the one after a failed
\* rx_init(), which has cleared app_running.
Broadcast ==
    /\ ~running /\ pc \in {"loop", "fl_join_only"}
    /\ pc' = IF pc = "loop" THEN "fl_joining" ELSE "fl_joining_only"
    /\ thread' = [t \in Threads |->
         IF thread[t] # "asleep" THEN thread[t] ELSE IF t = "program" THEN "run" ELSE "push"]
    /\ UNCHANGED <<open, rxOpen, adapter, running, arg, queue, flows, rest, faults>>

FlJoin ==
    /\ \A t \in FlowThreads : ~Alive(t)
    /\ Goto("fl_joining", "rx_join") \/ Goto("fl_joining_only", "fl_deinit")

\* Mutant: the receive threads are not waited for.
RxJoinNone == Goto("rx_join", "rx_deinit")

RxJoin == (\A t \in Rx : ~Alive(t)) /\ Goto("rx_join", "rx_deinit")

RxDeinit ==
    /\ pc = "rx_deinit" /\ pc' = "fl_deinit" /\ rxOpen' = {}
    /\ UNCHANGED <<open, adapter, running, work, rest, faults>>

\* Mutant: begins behind the head of the list.
FlDeinitSecond ==
    /\ pc = "fl_deinit" /\ pc' = "unlearn"
    /\ rest' = listed \ (IF listed = {} THEN {} ELSE {CHOOSE f \in listed : TRUE})
    /\ open' = open \ {"queue"} /\ queue' = <<>>
    /\ UNCHANGED <<rxOpen, adapter, running, thread, arg, flows, faults>>

\* fl_deinit() frees the queue, unlearns what is listed up to the first error,
\* drains statuses and records, and closes the stream.
FlDeinit ==
    /\ pc = "fl_deinit" /\ pc' = "unlearn"
    /\ rest' \in IF torn THEN SUBSET listed ELSE {listed}
    /\ open' = open \ {"queue"} /\ queue' = <<>>
    /\ UNCHANGED <<rxOpen, adapter, running, thread, arg, flows, faults>>

\* The walk ends when it is back at the head: that of a broken list may not.
Unlearn ==
    /\ pc = "unlearn"
    /\ \E f \in rest : rest' \in {rest \ {f}} \cup (IF torn THEN {rest} ELSE {}) /\ Execute("UNLEARN", f)
    /\ UNCHANGED <<pc, open, rxOpen, adapter, running, thread, arg, queue, known, list, faults>>

UnlearnFails ==
    /\ pc = "unlearn" /\ rest # {} /\ rest' = {} /\ faults' = faults \cup {"unlearn"}
    /\ UNCHANGED <<pc, open, rxOpen, adapter, running, work>>

FlClose ==
    /\ pc = "unlearn" /\ rest = {}
    /\ pc' = "deinit_ntpl" /\ deleting' = Cardinality(filters)
    /\ open' = open \ {"flow"} /\ records' = {}
    /\ UNCHANGED <<rxOpen, active, taken, filters, running, thread, arg, queue, known, list, learned, rest, faults>>

\* ntpl_deinit(): the commands are deleted, the last first.
NtplDelete ==
    /\ pc = "deinit_ntpl" /\ deleting > 0 /\ deleting' = deleting - 1
    /\ \/ filters' = filters \ {deleting} /\ UNCHANGED faults
       \/ faults' = faults \cup {"delete"} /\ UNCHANGED filters
    /\ UNCHANGED <<pc, open, rxOpen, active, taken, running, work, rest>>

Closes(here, handle, there) ==
    /\ pc = here /\ pc' = there /\ open' = open \ {handle}
    /\ UNCHANGED <<rxOpen, adapter, running, work, rest, faults>>

NtplClose == deleting = 0 /\ Closes("deinit_ntpl", "config", "deinit_stats")
StatsDeinit == Closes("deinit_stats", "timer", "deinit_signal")
SignalDeinit == Closes("deinit_signal", "efd", "deinit_fs")
FsDeinit == Closes("deinit_fs", "stat", "deinit_info")
InfoDeinit == Closes("deinit_info", "info", "done")
NtDone == Closes("done", "lib", "out")
Return == Goto("out", "exit")

-----------------------------------------------------------------------------
Boot == \/ VMemBits \/ NtInit \/ InfoInit \/ Ports \/ FsInit \/ Statuses \/ Checks \/ SignalInit \/ StatsInit
        \/ NtplInit \/ NtplApply \/ FtInit \/ FlInit \/ FlCreate \/ RxOpen \/ RxCreate

Teardown == \/ Broadcast \/ FlJoin \/ RxJoin \/ RxDeinit \/ FlDeinit \/ Unlearn
            \/ UnlearnFails \/ FlClose \/ NtplDelete \/ NtplClose \/ StatsDeinit
            \/ SignalDeinit \/ FsDeinit \/ InfoDeinit \/ NtDone \/ Return

Main == Boot \/ Teardown

Blocking(t) == Push(t) \/ Sleep(t) \/ (t = "program" /\ (Pull \/ List \/ Write))

\* The threads end with the process.
Running == pc # "exit"

Next ==
    \/ Main \/ Signal
    \/ Running /\ \E t \in Threads :
         Blocking(t) \/ Finish(t) \/ Interrupt(t) \/ \E f \in Flows : Packet(t, f)
    \/ Running /\ \E f \in Flows : Poll(f) \/ Timeout(f)
    \/ Running /\ \E k \in {"probed", "ended"}, f \in Flows : Record(k, f)

\* Once stopped, main() goes on while it can, and so does some thread as long as
\* one can; usleep, the waits for packets and records and the sleep between polls
\* end.  Nothing must happen to the futex's sleepers, nor before the stop.
Fairness ==
    /\ WF_vars(~running /\ Main)
    /\ WF_vars(~running /\ Running /\ \E t \in Threads : Blocking(t) \/ Finish(t))

Spec == Init /\ [][Next]_vars /\ Fairness

-----------------------------------------------------------------------------
\* Types; UnusedIsLowest of MCLifecycle says what taken is.
TypeOK ==
    /\ open \subseteq {"lib", "info", "stat", "handlers", "efd", "timer", "config", "queue", "flow"}
    /\ rxOpen \subseteq Rx /\ rest \subseteq Flows /\ faults \subseteq {"delete", "unlearn"}
    /\ active \subseteq 0 .. MaxStreams - 1
    /\ filters \subseteq 1 .. Commands /\ deleting \in 0 .. Commands
    /\ running \in BOOLEAN
    /\ thread \in [Threads -> {"none", "run", "push", "wait", "asleep", "list", "write", "ended"}]
    /\ arg \in [Threads -> Ops \cup {NoOp}]
    /\ queue \in Seq(Ops) /\ known \subseteq Flows /\ listed \subseteq Flows
    /\ dropped \subseteq Flows /\ torn \in BOOLEAN /\ learned \subseteq Flows /\ records \subseteq Records

\* A flow thread has the queue and the flow stream, a receive thread the queue
\* and its own stream, as long as it runs: rx_init, fl_join, rx_join and the
\* deinit functions never release what a thread still uses.
NothingUsedAfterRelease ==
    /\ \A t \in Threads : Alive(t) => {"queue", "flow"} \subseteq open
    /\ \A t \in Rx : Alive(t) => t \in rxOpen

LifeInv == TypeOK /\ NothingUsedAfterRelease

\* The filters (which stay when the process ends) are deleted at every end, and
\* the flows unlearned but for those that the poll thread had dropped, whatever
\* failed before and whenever the signal came, unless the very call that does
\* it failed or the poll list is broken.
LeavesNothing ==
    pc = "exit" => /\ "delete" \notin faults => filters = {}
                   /\ "unlearn" \notin faults /\ ~torn => learned \subseteq dropped

\* Stopped, the program ends, unless a thread that had seen app_running set
\* was still about to sleep when fl_join() broadcast, or fl_deinit() walks a
\* broken list.
StillWaits ==
    /\ \E t \in Threads : thread[t] = "wait"
    /\ pc \in {"fl_joining", "fl_joining_only"}
WalksBroken == pc = "unlearn" /\ torn
EndsUnlessLate == []~(StillWaits \/ WalksBroken) => ((~running) ~> (pc = "exit"))

=============================================================================
