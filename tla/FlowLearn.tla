----------------------------- MODULE FlowLearn -----------------------------
(***************************************************************************)
(* The life of a flow in ntnetflow (flowlearn.c, rx.c): from its first     *)
(* packet, through learning it into the adapter, the periodic probes and   *)
(* re-learns, to the moment the poll thread lets go of it.                 *)
(*                                                                         *)
(* Five threads share the flow entries: rx adds them, `program' turns      *)
(* queued operations into commands for the adapter, `status' reads the     *)
(* adapter's answers, `record' its flow info records, and `poll' walks the *)
(* circular list of tracked flows once per interval.  They synchronise by  *)
(* atomic operations on an entry's flags and skip counter; each of these   *)
(* is a step of its own.  The operation queue is the FIFO that MpmcQueue   *)
(* implements.  The adapter is external: it executes commands in order and *)
(* reports on two independent channels.                                    *)
(***************************************************************************)
EXTENDS Integers, Sequences, FiniteSets

CONSTANTS
  Flow,          \* flow entries
  Null,          \* no flow
  Interval,      \* poll_interval, in ticks of the poll thread
  QueueSize,     \* operations the queue holds
  CommandSize,   \* commands the adapter buffers
  ReportSize,    \* reports of each channel the adapter buffers
  LearnMayFail,  \* whether the adapter may fail to learn a flow
  WriteMayFail,  \* whether NT_FlowWrite may return an error
  EarlyTimeout,  \* whether a flow may time out while it is being learned
  Prompt,        \* whether every operation is answered before the next tick
  Pid,           \* this process
  EarlierPid,    \* an earlier instance, whose records may still come
  TagSize        \* 2^TAG_BITS: how many values an id's tag has

ASSUME LearnAssumption ==
  /\ Null \notin Flow
  /\ {LearnMayFail, WriteMayFail, EarlyTimeout, Prompt} \subseteq BOOLEAN
  /\ {Interval, QueueSize, CommandSize, ReportSize, TagSize}
       \subseteq Nat \ {0}
  /\ {Pid, EarlierPid} \subseteq Nat

VARIABLES
  hwProbe,     \* FL_FLAGS_HW_PROBE: the adapter probes without unlearning
  flags,       \* the state flags of each entry
  skip,        \* poll.skip: polls of the entry to pass over
  rc,          \* reference count; 0: not in the flow table
  pollNext, pollPrev, pollHead,  \* the circular list of tracked flows
  due,         \* ticks until poll.next_update, not below zero
  queue,       \* the operation queue: pairs of an operation and a flow
  program, status, record, poll, \* what each thread is about to do
  learned,     \* flows in the adapter's table
  commands,    \* written by NT_FlowWrite, not executed yet
  statuses,    \* status records not read yet
  infos        \* flow info records not read yet

entryVars == <<flags, skip, rc>>
threadVars == <<program, status, record, poll>>
listVars == <<pollNext, pollPrev, pollHead, due>>
adapterVars == <<learned, commands, statuses, infos>>
vars == <<hwProbe, entryVars, listVars, queue, threadVars, adapterVars>>

Base == {"LEARN", "REFRESH", "PROBE", "UNLEARN"}
Pending(f) ==
  CASE f = "LEARN"   -> "LEARN_PENDING"
    [] f = "REFRESH" -> "REFRESH_PENDING"
    [] f = "PROBE"   -> "PROBE_PENDING"
    [] f = "UNLEARN" -> "UNLEARN_PENDING"
PendingFlags == {Pending(f) : f \in Base}
Flags == Base \cup PendingFlags \cup {"TRACK", "SOFTWARE"}

\* A thread's state: its next step and what that step works with.
Idle == [at |-> "idle"]
Do(step, e) == [at |-> step, flow |-> e]

Init ==
  /\ hwProbe \in BOOLEAN
  /\ flags = [e \in Flow |-> {}]
  /\ skip = [e \in Flow |-> 0]
  /\ rc = [e \in Flow |-> 0]
  /\ pollNext = [e \in Flow |-> Null]
  /\ pollPrev = [e \in Flow |-> Null]
  /\ pollHead = Null
  /\ due = [e \in Flow |-> 0]
  /\ queue = <<>>
  /\ program = Idle /\ status = Idle /\ record = Idle /\ poll = Idle
  /\ learned = {}
  /\ commands = <<>> /\ statuses = <<>>
  /\ infos \in {<<>>} \cup {<< <<"timeout", e, EarlierPid % TagSize>> >> : e \in Flow}

SetFlags(e, S) == flags' = [flags EXCEPT ![e] = @ \cup S]
ClearFlags(e, S) == flags' = [flags EXCEPT ![e] = @ \ S]

\* fl_program: a full queue makes the caller wait.
Enqueue(op, e) ==
  /\ Len(queue) < QueueSize
  /\ queue' = Append(queue, <<op, e>>)

(***************************************************************************)
(* rx_process: only a flow that is not in the table yet is added, with one *)
(* reference, and learned unless the adapter marked it unhandled.          *)
(***************************************************************************)
RxPacket(e) ==
  /\ rc[e] = 0
  /\ rc' = [rc EXCEPT ![e] = 1]
  /\ flags' = [flags EXCEPT ![e] = {}]
  /\ Enqueue("LEARN", e) \/ UNCHANGED queue
  /\ UNCHANGED <<hwProbe, skip, listVars, threadVars, adapterVars>>

(***************************************************************************)
(* fl_program_main                                                         *)
(***************************************************************************)
Issue(step, e, cmd, old) ==
  program' = [at |-> step, flow |-> e, cmd |-> cmd, old |-> old]

\* Pull an operation and mark the entry; one that is pending already, or that
\* an emulated probe will bring about, is not issued again.
ProgramProbe(e) ==
  /\ SetFlags(e, {"PROBE", "PROBE_PENDING", "TRACK"})
  /\ Issue("write", e, IF hwProbe THEN "probe" ELSE "unlearn", flags[e])

ProgramUnlearn(e) ==
  /\ SetFlags(e, {"UNLEARN", "UNLEARN_PENDING"})
  /\ IF "UNLEARN" \in flags[e] \/ (~hwProbe /\ "PROBE" \in flags[e])
     THEN program' = Idle
     ELSE Issue("write", e, "unlearn", flags[e])

ProgramRefresh(e) ==
  /\ SetFlags(e, {"REFRESH", "REFRESH_PENDING", "TRACK"})
  /\ IF "REFRESH" \in flags[e]
     THEN program' = Idle
     ELSE Issue("write", e, "learn", flags[e])

ProgramLearn(e) ==
  /\ SetFlags(e, {"LEARN", "LEARN_PENDING", "TRACK"})
  /\ IF "LEARN" \in flags[e]
     THEN program' = Idle
     ELSE Issue(IF "TRACK" \in flags[e] THEN "skip" ELSE "ref", e, "learn",
                flags[e])

ProgramPull ==
  /\ program = Idle
  /\ queue # <<>>
  /\ queue' = Tail(queue)
  /\ LET op == queue[1][1]  e == queue[1][2] IN
     \/ op = "PROBE"   /\ ProgramProbe(e)
     \/ op = "UNLEARN" /\ ProgramUnlearn(e)
     \/ op = "REFRESH" /\ ProgramRefresh(e)
     \/ op = "LEARN"   /\ ProgramLearn(e)
  /\ UNCHANGED <<skip, rc, listVars, status, record, poll, adapterVars>>

\* Mutant of AddPoll: the only entry has no link backwards.
AddPollOne(e) ==
  /\ due' = [due EXCEPT ![e] = Interval]
  /\ IF pollHead = Null
     THEN /\ pollHead' = e
          /\ pollNext' = [pollNext EXCEPT ![e] = e]
          /\ UNCHANGED pollPrev
     ELSE LET tail == pollPrev[pollHead] IN
          /\ pollHead' = pollHead
          /\ pollNext' = [pollNext EXCEPT ![e] = pollHead, ![tail] = e]
          /\ pollPrev' = [pollPrev EXCEPT ![e] = tail, ![pollHead] = e]

\* fl_add_poll, under poll_mutex: in front of the head, which is behind all
\* others.
AddPoll(e) ==
  /\ due' = [due EXCEPT ![e] = Interval]
  /\ IF pollHead = Null
     THEN /\ pollHead' = e
          /\ pollNext' = [pollNext EXCEPT ![e] = e]
          /\ pollPrev' = [pollPrev EXCEPT ![e] = e]
     ELSE LET tail == pollPrev[pollHead] IN
          /\ pollHead' = pollHead
          /\ pollNext' = [pollNext EXCEPT ![e] = pollHead, ![tail] = e]
          /\ pollPrev' = [pollPrev EXCEPT ![e] = tail, ![pollHead] = e]

\* A flow that was not tracked gets a reference for the list, then a place in
\* the list.
ProgramRef ==
  /\ program.at = "ref"
  /\ rc' = [rc EXCEPT ![program.flow] = @ + 1]
  /\ program' = [program EXCEPT !.at = "list"]
  /\ UNCHANGED <<flags, skip, listVars, queue, status, record, poll, adapterVars>>

ProgramList ==
  /\ program.at = "list"
  /\ AddPoll(program.flow)
  /\ program' = [program EXCEPT !.at = "skip"]
  /\ UNCHANGED <<entryVars, queue, status, record, poll, adapterVars>>

\* "add a little time to the probing so that there's no race condition"
ProgramSkip ==
  /\ program.at = "skip"
  /\ skip' = [skip EXCEPT ![program.flow] =
                IF program.old # {"LEARN_PENDING"} THEN @ + 1 ELSE @]
  /\ program' = [program EXCEPT !.at = "write"]
  /\ UNCHANGED <<flags, rc, listVars, queue, status, record, poll, adapterVars>>

ProgramWrite ==
  /\ program.at = "write"
  /\ Len(commands) < CommandSize
  /\ commands' = Append(commands, <<program.cmd, program.flow>>)
  /\ program' = Idle
  /\ UNCHANGED <<entryVars, listVars, queue, status, record, poll, learned,
                 statuses, infos>>

\* An error of NT_FlowWrite ends the thread.
ProgramFail ==
  /\ WriteMayFail
  /\ program.at = "write"
  /\ program' = [at |-> "gone"]
  /\ UNCHANGED <<entryVars, listVars, queue, status, record, poll, adapterVars>>

(***************************************************************************)
(* The id of a report carries the tag that the process learned its flows   *)
(* with; a report is for this process if its tag is the process id.        *)
(***************************************************************************)
Tag == Pid % TagSize

\* Mutant of Ours: every record is taken to be for this process.
OursAny(report) == TRUE

Ours(report) == report[3] = Pid

(***************************************************************************)
(* fl_status_main: the answers to commands.  Those it only prints (learn,  *)
(* unlearn and probe ignored, probe done) do not appear.                   *)
(***************************************************************************)
Status(e, S, n) ==
  /\ ClearFlags(e, S)
  /\ status' = [at |-> "skip", flow |-> e, polls |-> n]

LearnDone(e) ==
  Status(e, {"SOFTWARE", "REFRESH", "REFRESH_PENDING", "LEARN_PENDING"},
         Cardinality(flags[e] \cap {"REFRESH_PENDING", "LEARN_PENDING"}))

LearnFailed(e) == Status(e, {"TRACK", "REFRESH_PENDING", "LEARN_PENDING"}, 1)

UnlearnDone(e) ==
  Status(e, {"UNLEARN_PENDING"} \cup IF hwProbe THEN {} ELSE {"PROBE_PENDING"},
         1)

StatusRead ==
  /\ status = Idle
  /\ statuses # <<>>
  /\ statuses' = Tail(statuses)
  /\ LET kind == statuses[1][1]  e == statuses[1][2] IN
     \/ ~Ours(statuses[1]) /\ UNCHANGED <<flags, status>>
     \/ /\ Ours(statuses[1])
        /\ \/ kind = "learn_done"   /\ LearnDone(e)
           \/ kind = "learn_fail"   /\ LearnFailed(e)
           \/ kind = "unlearn_done" /\ UnlearnDone(e)
  /\ UNCHANGED <<skip, rc, listVars, queue, program, record, poll, learned,
                 commands, infos>>

\* "if it has already been handled here, we don't need to skip the next poll"
StatusSkip ==
  /\ status.at = "skip"
  /\ skip' = [skip EXCEPT ![status.flow] = @ - status.polls]
  /\ status' = Idle
  /\ UNCHANGED <<flags, rc, listVars, queue, program, record, poll,
                 adapterVars>>

(***************************************************************************)
(* fl_record_main: flow info records.  Whether the counters changed since  *)
(* the last record of the flow is any of the two.                          *)
(***************************************************************************)
RecordRead ==
  /\ record = Idle
  /\ infos # <<>>
  /\ infos' = Tail(infos)
  /\ LET cause == infos[1][1]  e == infos[1][2] IN
     \/ ~Ours(infos[1]) /\ UNCHANGED <<flags, record>>
     \/ /\ Ours(infos[1])
        /\ SetFlags(e, {"SOFTWARE"})
        /\ record' \in
             CASE cause = "probe"    -> {Idle, Do("UNLEARN", e)}
               [] cause = "timeout"  -> {Do("untrack", e)}
               [] cause = "software" ->
                    {Do(IF /\ ~hwProbe
                           /\ "PROBE" \in flags[e]
                           /\ "UNLEARN" \notin flags[e]
                        THEN "probed" ELSE "untrack", e)}
  /\ UNCHANGED <<skip, rc, listVars, queue, program, status, poll, learned,
                 commands, statuses>>

\* An emulated probe is over: learn the flow again.
RecordProbed ==
  /\ record.at = "probed"
  /\ ClearFlags(record.flow, {"PROBE_PENDING"})
  /\ record' = Do("REFRESH", record.flow)
  /\ UNCHANGED <<skip, rc, listVars, queue, program, status, poll, adapterVars>>

RecordEnqueue ==
  /\ record.at \in {"REFRESH", "UNLEARN"}
  /\ Enqueue(record.at, record.flow)
  /\ record' = Idle
  /\ UNCHANGED <<entryVars, listVars, program, status, poll, adapterVars>>

\* "no more probing needed"
RecordUntrack ==
  /\ record.at = "untrack"
  /\ ClearFlags(record.flow, {"TRACK"})
  /\ record' = Idle
  /\ UNCHANGED <<skip, rc, listVars, queue, program, status, poll, adapterVars>>

(***************************************************************************)
(* fl_poll_main                                                            *)
(***************************************************************************)
\* Nothing is under way between fl_program and the last record about it.
Answered ==
  /\ <<queue, commands, statuses, infos>> = <<<<>>, <<>>, <<>>, <<>>>>
  /\ program = Idle /\ status = Idle /\ record = Idle

PollTick ==
  /\ poll = Idle
  /\ Prompt => Answered \/ program.at = "gone"
  /\ poll' = [at |-> "walk"]
  /\ due' = [e \in Flow |-> IF due[e] > 0 THEN due[e] - 1 ELSE 0]
  /\ UNCHANGED <<entryVars, pollNext, pollPrev, pollHead, queue, program,
                 status, record, adapterVars>>

\* Mutant of PollWalk: the head stays where it is.
PollWalkStays ==
  /\ poll.at = "walk"
  /\ IF pollHead # Null => due[pollHead] > 0
     THEN poll' = Idle /\ due' = due
     ELSE /\ due' = [due EXCEPT ![pollHead] = Interval]
          /\ poll' = Do("skip", pollNext[pollHead])
  /\ UNCHANGED <<entryVars, pollNext, pollPrev, pollHead, queue, program,
                 status, record, adapterVars>>

\* While the head is due: put it off, and attend to the flow behind it.
PollWalk ==
  /\ poll.at = "walk"
  /\ IF pollHead # Null => due[pollHead] > 0
     THEN poll' = Idle /\ UNCHANGED <<pollHead, due>>
     ELSE /\ due' = [due EXCEPT ![pollHead] = Interval]
          /\ pollHead' = pollNext[pollHead]
          /\ poll' = Do("skip", pollHead')
  /\ UNCHANGED <<entryVars, pollNext, pollPrev, queue, program, status, record,
                 adapterVars>>

PollSkip ==
  /\ poll.at = "skip"
  /\ skip' = [skip EXCEPT ![poll.flow] = 0]
  /\ poll' = IF skip[poll.flow] > 0 THEN [at |-> "walk"] ELSE Do("flags", poll.flow)
  /\ UNCHANGED <<flags, rc, listVars, queue, program, status, record,
                 adapterVars>>

\* What a poll does about a flow with the flags S.
Decision(S) ==
  IF "LEARN_PENDING" \in S THEN "LEARN"
  ELSE IF "REFRESH_PENDING" \in S \/ (~hwProbe /\ "PROBE_PENDING" \in S)
  THEN "REFRESH"
  ELSE IF "UNLEARN_PENDING" \in S THEN "UNLEARN"
  ELSE IF "UNLEARN" \in S \/ "TRACK" \notin S THEN "drop"
  ELSE IF S \cap {"LEARN", "PROBE", "REFRESH", "PROBE_PENDING"} # {}
  THEN "PROBE" ELSE "walk"

PollFlags ==
  /\ poll.at = "flags"
  /\ ClearFlags(poll.flow, Base \cup PendingFlags)
  /\ poll' = Do(Decision(flags[poll.flow]), poll.flow)
  /\ UNCHANGED <<skip, rc, listVars, queue, program, status, record,
                 adapterVars>>

PollEnqueue ==
  /\ poll.at \in Base
  /\ Enqueue(poll.at, poll.flow)
  /\ poll' = [at |-> "walk"]
  /\ UNCHANGED <<entryVars, listVars, program, status, record, adapterVars>>

\* Mutant of RemovePoll: links in one direction only.
RemovePollForward(e) ==
  /\ pollHead' = IF pollHead # e THEN pollHead
                 ELSE IF pollNext[e] = e THEN Null ELSE pollNext[e]
  /\ pollNext' = [pollNext EXCEPT ![pollPrev[e]] = pollNext[e]]
  /\ UNCHANGED <<pollPrev, due>>

\* fl_remove_poll; the links of the removed entry keep their values.
RemovePoll(e) ==
  /\ pollHead' = IF pollHead # e THEN pollHead
                 ELSE IF pollNext[e] = e THEN Null ELSE pollNext[e]
  /\ pollNext' = [pollNext EXCEPT ![pollPrev[e]] = pollNext[e]]
  /\ pollPrev' = [pollPrev EXCEPT ![pollNext[e]] = pollPrev[e]]
  /\ due' = due

\* Drop the flow from the list, then the reference of the list.
PollDrop ==
  /\ poll.at = "drop"
  /\ RemovePoll(poll.flow)
  /\ poll' = Do("deref", poll.flow)
  /\ UNCHANGED <<entryVars, queue, program, status, record, adapterVars>>

\* Mutant of PollDeref: leaves the reference.
PollDerefNot ==
  /\ poll.at = "deref"
  /\ poll' = [at |-> "walk"]
  /\ UNCHANGED <<entryVars, listVars, queue, program, status, record, adapterVars>>

PollDeref ==
  /\ poll.at = "deref"
  /\ rc' = [rc EXCEPT ![poll.flow] = @ - 1]
  /\ poll' = [at |-> "walk"]
  /\ UNCHANGED <<flags, skip, listVars, queue, program, status, record, adapterVars>>

(***************************************************************************)
(* The adapter.  It tags its records with the id of the learn command; one *)
(* that finds no room is lost.                                             *)
(***************************************************************************)
Report(channel, kind, e) ==
  IF Len(channel) < ReportSize THEN Append(channel, <<kind, e, Tag>>)
  ELSE channel

AdapterLearn(e) ==
  \/ e \in learned /\ UNCHANGED <<learned, statuses>>
  \/ /\ e \notin learned
     /\ learned' = learned \cup {e}
     /\ statuses' = Report(statuses, "learn_done", e)
  \/ /\ LearnMayFail /\ e \notin learned
     /\ statuses' = Report(statuses, "learn_fail", e)
     /\ UNCHANGED learned

AdapterUnlearn(e) ==
  \/ e \notin learned /\ UNCHANGED <<learned, statuses, infos>>
  \/ /\ e \in learned
     /\ learned' = learned \ {e}
     /\ statuses' = Report(statuses, "unlearn_done", e)
     /\ infos' = Report(infos, "software", e)

AdapterProbe(e) ==
  infos' = IF e \in learned THEN Report(infos, "probe", e) ELSE infos

AdapterExecute ==
  /\ commands # <<>>
  /\ commands' = Tail(commands)
  /\ LET cmd == commands[1][1]  e == commands[1][2] IN
     \/ cmd = "learn" /\ AdapterLearn(e) /\ UNCHANGED infos
     \/ cmd = "unlearn" /\ AdapterUnlearn(e)
     \/ cmd = "probe" /\ AdapterProbe(e) /\ UNCHANGED <<learned, statuses>>
  /\ UNCHANGED <<hwProbe, entryVars, listVars, queue, threadVars>>

\* The adapter's scrubber unlearns an idle or finished flow.
BeingLearned(e) ==
  \/ "LEARN_PENDING" \in flags[e]
  \/ poll = Do("LEARN", e)
  \/ \E i \in DOMAIN queue : queue[i] = <<"LEARN", e>>

AdapterTimeout(e) ==
  /\ e \in learned
  /\ EarlyTimeout \/ ~BeingLearned(e)
  /\ learned' = learned \ {e}
  /\ infos' = Report(infos, "timeout", e)
  /\ UNCHANGED <<hwProbe, entryVars, listVars, queue, threadVars, commands,
                 statuses>>

ProgramStep ==
  /\ \/ ProgramPull \/ ProgramRef \/ ProgramList \/ ProgramSkip \/ ProgramWrite
     \/ ProgramFail
  /\ UNCHANGED hwProbe
StatusStep == (StatusRead \/ StatusSkip) /\ UNCHANGED hwProbe
RecordStep ==
  /\ RecordRead \/ RecordProbed \/ RecordEnqueue \/ RecordUntrack
  /\ UNCHANGED hwProbe
PollStep ==
  /\ \/ PollTick \/ PollWalk \/ PollSkip \/ PollFlags \/ PollEnqueue
     \/ PollDrop \/ PollDeref
  /\ UNCHANGED hwProbe

Next ==
  \/ \E e \in Flow : RxPacket(e) \/ AdapterTimeout(e)
  \/ ProgramStep \/ StatusStep \/ RecordStep \/ PollStep \/ AdapterExecute

\* The threads and the adapter keep running; packets and timeouts need not
\* come.
Fairness ==
  /\ WF_vars(ProgramStep) /\ WF_vars(StatusStep) /\ WF_vars(RecordStep)
  /\ WF_vars(PollStep) /\ WF_vars(AdapterExecute)

Spec == Init /\ [][Next]_vars /\ Fairness

-----------------------------------------------------------------------------
\* Every variable has its type.
TypeOK ==
  /\ hwProbe \in BOOLEAN
  /\ flags \in [Flow -> SUBSET Flags]
  /\ skip \in [Flow -> Int]
  /\ rc \in [Flow -> Nat]
  /\ pollNext \in [Flow -> Flow \cup {Null}]
  /\ pollPrev \in [Flow -> Flow \cup {Null}]
  /\ pollHead \in Flow \cup {Null}
  /\ due \in [Flow -> 0 .. Interval]
  /\ queue \in Seq(Base \X Flow)
  /\ program.at \in {"idle", "ref", "list", "skip", "write", "gone"}
  /\ status.at \in {"idle", "skip"}
  /\ record.at \in {"idle", "probed", "REFRESH", "UNLEARN", "untrack"}
  /\ poll.at \in {"idle", "walk", "skip", "flags", "drop", "deref"} \cup Base
  /\ learned \subseteq Flow
  /\ commands \in Seq({"learn", "unlearn", "probe"} \X Flow)
  /\ statuses \in Seq({"learn_done", "learn_fail", "unlearn_done"} \X Flow
                       \X (0 .. TagSize - 1))
  /\ infos \in Seq({"software", "probe", "timeout"} \X Flow
                    \X (0 .. TagSize - 1))

\* The flows met by walking the list from its head: those in every set that
\* has the head and, with a flow, the one its link names.
ClosedUnderNext(S) == \A e \in S : pollNext[e] \in S \cup {Null}
Listed ==
  {e \in Flow : /\ pollHead # Null
                /\ \A S \in SUBSET Flow :
                     pollHead \in S /\ ClosedUnderNext(S) => e \in S}

\* fl_add_poll asserts that the entry it adds is in no list.
AddsUnlisted == program.at = "list" => program.flow \notin Listed

\* The list that poll and program change is circular, and its links agree.
ListWellFormed ==
  \A e \in Listed : pollNext[pollPrev[e]] = e /\ pollPrev[pollNext[e]] = e

\* Every flow in the list has a reference besides the table's, so an entry can
\* never vanish while the poll thread may still visit it; so has the flow that
\* fl_program_main is about to list, or fl_poll_main has just removed.
Moving(e) == \/ program.at = "list" /\ program.flow = e
             \/ poll.at = "deref" /\ poll.flow = e
References ==
  \A e \in Flow : rc[e] > 0 => rc[e] = IF e \in Listed \/ Moving(e) THEN 2 ELSE 1

\* The list is in the order its flows are due: the poll thread, which looks at
\* the head alone, never passes over a flow that is due behind it.
HeadIsDueFirst == \A e \in Listed : due[pollHead] <= due[e]

\* The types and the poll list, as long as learning does not fail: every flow
\* is added once, the list is circular, and its head is due first.
ListInv == TypeOK /\ AddsUnlisted /\ ListWellFormed /\ HeadIsDueFirst

\* As long as operations are programmed, the poll thread comes back to every
\* flow of its list.
EveryFlowPolled ==
  [](program.at # "gone") =>
    \A e \in Flow : e \in Listed ~> (poll = Do("skip", e) \/ e \notin Listed)

\* No thread, queue or list refers to an entry without a reference, which would
\* have left the flow table, whichever reports are lost and whether or not the
\* program thread has ended, as long as no flow times out while it is being
\* learned; the entries of an earlier process, whose records still come, are not
\* referred to.
InUse(e) ==
  \/ e \in Listed \/ \E i \in DOMAIN queue : queue[i][2] = e
  \/ \E t \in {program, status, record, poll} :
       t.at \notin {"idle", "gone", "walk"} /\ t.flow = e
InUseReferenced == \A e \in Flow : rc[e] <= 0 => ~InUse(e)

\* Even when learning fails, flows are listed twice and the list is no ring any
\* more: the links that fl_poll_main, fl_add_poll and fl_remove_poll follow
\* without a test (116-122, 142-144, 408 and 411) lead to flows.
LinksLead ==
  /\ pollHead # Null => {pollNext[pollHead], pollPrev[pollHead]} \subseteq Flow
  /\ poll.at = "drop" =>
       {pollNext[poll.flow], pollPrev[poll.flow]} \subseteq Flow

\* A flow that the adapter has learned is in the poll list, where fl_deinit
\* finds it.
LearnedAreListed == learned \subseteq Listed

\* A flow that is probed by unlearning it, or that the adapter has dropped,
\* is learned again or leaves the list: none is polled for ever in vain.
ProbingEnds ==
  \A e \in Flow : (e \in Listed /\ e \notin learned)
                    ~> (e \in learned \/ e \notin Listed)

\* "we remove the flow entirely from the sw flow table": the reference that
\* the poll thread drops was the last one.
DropRemoves ==
  [][\A e \in Flow : rc'[e] < rc[e] => rc'[e] = 0]_vars

=============================================================================
