-------------------------- MODULE LifecycleProofs --------------------------
(***************************************************************************)
(* Proofs about Lifecycle for any threads, flows, commands, sizes and      *)
(* streams: what runs has what it uses, and what stays in the adapter is   *)
(* what the poll thread dropped, a broken poll list or a failed call left. *)
(***************************************************************************)
EXTENDS Lifecycle, FiniteSetTheorems, TLAPS

-----------------------------------------------------------------------------
(* The inductive invariant, in four parts.                                 *)

\* A thread in fl_program() has the operation it is about to push.
Busy ==
    /\ \A t \in Pushers : thread[t] \in {"push", "wait", "asleep"} => arg[t] \in Ops
    /\ thread["program"] \in {"list", "write"} => arg["program"] \in Ops
Typed == TypeOK /\ Busy

\* Where main() is while flow threads, and while receive threads, may run, and
\* while the queue and the flow stream are there.
Flowing == {"fl_create", "rx_open", "rx_create", "loop",
            "fl_join_only", "fl_joining", "fl_joining_only"}
Receiving == {"rx_create", "loop", "fl_joining", "rx_join"}
Holding == Flowing \cup Receiving \cup {"rx_deinit", "fl_deinit"}
SetUp == {"stats_init", "ntpl_init", "ntpl_apply", "ft_init", "fl_init"}

Controlled ==
    /\ pc \in Holding => {"queue", "flow"} \subseteq open
    /\ pc \in Holding \cup SetUp => "handlers" \in open
    /\ pc \in Receiving => rxOpen = Rx
    /\ pc \notin Flowing => \A t \in FlowThreads : ~Alive(t)
    /\ pc \notin Receiving => \A t \in Rx : ~Alive(t)

\* The list has never had f: neither the adapter nor an operation that would
\* have it learned without listing it knows f.
Unmet(f) ==
    /\ f \notin learned
    /\ \A k \in {"probed", "ended"} : <<k, f>> \notin records
    /\ \A t \in Threads : arg[t] # <<"REFRESH", f>>
    /\ \A i \in 1 .. Len(queue) : queue[i] # <<"REFRESH", f>>
    /\ thread["program"] = "write" => arg["program"] # <<"LEARN", f>>

Followed(f) == torn \/ f \in listed \cup dropped \/ Unmet(f)
Tracked == \A f \in Flows : Followed(f)

\* What is left in the adapter, by the steps of the teardown.
Early == {"vmembits", "NT_Init", "info_init", "ports", "fs_init", "statuses",
          "checks", "signal_init", "stats_init", "ntpl_init"}
Undone == {"deinit_stats", "deinit_signal", "deinit_fs", "deinit_info", "done", "out", "exit"}

Cleared ==
    /\ pc \in Early => filters = {}
    /\ "handlers" \notin open => filters = {} /\ learned = {}
    /\ pc \in Early \cup SetUp => learned = {}
    /\ \E n \in 0 .. Commands : filters \subseteq 1 .. n /\ (pc \notin Undone \cup {"deinit_ntpl"} => filters = 1 .. n)
    /\ pc = "deinit_ntpl" => filters \subseteq 1 .. deleting \/ "delete" \in faults
    /\ pc \in Undone => filters = {} \/ "delete" \in faults
    /\ pc = "unlearn" => learned \subseteq rest \cup dropped \/ "unlearn" \in faults \/ torn
    /\ pc \in Undone \cup {"deinit_ntpl"} => learned \subseteq dropped \/ "unlearn" \in faults \/ torn

IInv == Typed /\ Controlled /\ Tracked /\ Cleared

-----------------------------------------------------------------------------
(* Which step changes what.                                                *)

\* The threads' steps leave main() and its handles alone.
Work(t) == Blocking(t) \/ Finish(t) \/ Interrupt(t) \/ \E f \in Flows : Packet(t, f)
Threading ==
    \/ \E t \in Threads : Work(t)
    \/ \E f \in Flows : Poll(f) \/ Timeout(f)
    \/ \E k \in {"probed", "ended"}, f \in Flows : Record(k, f)

LEMMA StepKinds == Next => Main \/ Signal \/ (Running /\ Threading)
  BY DEF Next, Threading, Work

LEMMA ThreadingKeepsMain == Threading => UNCHANGED Same
  BY DEF Threading, Work, Blocking, Push, Sleep, Interrupt, Pull, List, Write,
         Finish, Packet, Poll, Timeout, Record, Same, adapter

\* Few of the steps of main() touch the threads, the queue or the flows.
LEMMA MainKeepsWork ==
  Main => UNCHANGED work \/ FlCreate \/ RxCreate \/ Broadcast \/ FlDeinit \/ Unlearn \/ FlClose
<1>1. Boot => UNCHANGED work \/ FlCreate \/ RxCreate
  BY DEF Boot, VMemBits, NtInit, InfoInit, Ports, FsInit, Statuses, Checks, SignalInit,
         StatsInit, NtplInit, NtplApply, FtInit, FlInit, RxOpen, Goto, Opens, ToNtplDeinit
<1>2. Teardown => UNCHANGED work \/ Broadcast \/ FlDeinit \/ Unlearn \/ FlClose
  BY DEF Teardown, FlJoin, RxJoin, RxDeinit, UnlearnFails, NtplDelete,
         NtplClose, StatsDeinit, SignalDeinit, FsDeinit, InfoDeinit, NtDone, Return, Goto, Closes
<1> QED  BY <1>1, <1>2 DEF Main

LEMMA SignalKeepsWork == Signal => UNCHANGED work
  BY DEF Signal

-----------------------------------------------------------------------------
(* Types.                                                                  *)

LEMMA InitTyped == Init => Typed
<1> SUFFICES ASSUME Init PROVE Typed
  OBVIOUS
<1>a. active \subseteq 0 .. MaxStreams - 1 /\ 0 \in 0 .. Commands
  BY LifeAssumption DEF Init
<1>b. queue \in Seq(Ops)
  BY DEF Init
<1>1. TypeOK
  BY <1>a, <1>b DEF Init, TypeOK
<1>2. Busy
  BY DEF Init, Busy, Pushers, Threads, FlowThreads
<1> QED  BY <1>1, <1>2 DEF Typed

\* The number of the filters is one of a command.
LEMMA FilterCount ==
  ASSUME TypeOK
  PROVE  IsFiniteSet(filters) /\ Cardinality(filters) \in 0 .. Commands
<1>1. IsFiniteSet(1 .. Commands) /\ Cardinality(1 .. Commands) = Commands
  BY FS_Interval, LifeAssumption
<1>2. filters \in SUBSET (1 .. Commands)
  BY DEF TypeOK
<1>3. IsFiniteSet(filters) /\ Cardinality(filters) <= Commands
  BY <1>1, <1>2, FS_Subset
<1> QED  BY <1>3, FS_CardinalityType, LifeAssumption

\* While the threads and what they share stay, only main()'s part is to show.
LEMMA MainTyped ==
  ASSUME Typed, Main \/ Signal, UNCHANGED work
  PROVE  Typed'
<1> USE DEF work, flows, list, adapter
<1>1. Busy'
  BY DEF Typed, Busy
<1>0. TypeOK
  BY DEF Typed
<1> SUFFICES TypeOK'
  BY <1>1 DEF Typed
<1>2. IsFiniteSet(filters) /\ Cardinality(filters) \in 0 .. Commands
  BY FilterCount DEF Typed
<1> DEFINE Handles == {"lib", "info", "stat", "handlers", "efd", "timer", "config", "queue", "flow"}
<1>a. ASSUME NEW here, NEW there, Goto(here, there)  PROVE TypeOK'
  BY <1>0, <1>a DEF TypeOK, Goto
<1>b. ASSUME NEW here, NEW there, NEW H \in SUBSET Handles, Opens(here, H, there)  PROVE TypeOK'
  BY <1>0, <1>b DEF TypeOK, Opens
<1>c. ASSUME NEW here, NEW there, NEW h, Closes(here, h, there)  PROVE TypeOK'
  BY <1>0, <1>c DEF TypeOK, Closes
<1>d. ASSUME NEW here, NEW stop \in BOOLEAN, ToNtplDeinit(here, stop), open' \subseteq Handles
      PROVE  TypeOK'
  BY <1>0, <1>d, <1>2 DEF TypeOK, ToNtplDeinit
<1>e. open \subseteq Handles
  BY <1>0 DEF TypeOK
<1>f. CASE VMemBits \/ NtInit \/ InfoInit \/ Ports \/ FsInit \/ Statuses \/ SignalInit \/ StatsInit \/ NtplInit
  BY <1>0, <1>f, <1>a, <1>b DEF VMemBits, NtInit, InfoInit, Ports, FsInit, Statuses,
         SignalInit, StatsInit, NtplInit
<1>g. CASE Checks
  BY <1>0, <1>g, <1>a DEF Checks, TypeOK
<1>h. CASE NtplApply
  <2>1. filters' \subseteq 1 .. Commands /\ deleting' \in 0 .. Commands
    <3>1. CASE filters' = filters
      BY <1>0, <1>h, <1>2, <3>1 DEF TypeOK, NtplApply
    <3>2. CASE filters' # filters
      <4>1. /\ Cardinality(filters) < Commands /\ deleting' = deleting
            /\ filters' = filters \cup {Cardinality(filters) + 1}
        BY <1>h, <3>2 DEF NtplApply
      <4>2. Cardinality(filters) + 1 \in 1 .. Commands
        BY <1>2, <4>1, LifeAssumption
      <4> QED  BY <1>0, <4>1, <4>2 DEF TypeOK
    <3> QED  BY <3>1, <3>2
  <2> QED  BY <1>0, <1>h, <2>1 DEF NtplApply, TypeOK
<1>i. CASE FtInit
  BY <1>0, <1>i, <1>a, <1>d, <1>e DEF FtInit
<1>j. CASE FlInit
  <2>1. CASE ToNtplDeinit("fl_init", TRUE) /\ open' \in {open, open \cup {"queue"}}
    BY <1>0, <2>1, <1>d, <1>e
  <2> QED  BY <1>0, <1>j, <2>1 DEF FlInit, TypeOK
<1>k. CASE RxOpen
  BY <1>0, <1>k DEF RxOpen, TypeOK
<1>l. CASE FlCreate \/ RxCreate
  BY <1>0, <1>l, <1>a DEF FlCreate, RxCreate, Create, TypeOK
<1>3. CASE Boot
  BY <1>0, <1>3, <1>f, <1>g, <1>h, <1>i, <1>j, <1>k, <1>l DEF Boot
<1>m. CASE NtplDelete
  <2>1. deleting' \in 0 .. Commands
    BY <1>0, <1>m, LifeAssumption DEF TypeOK, NtplDelete
  <2>2. filters' \subseteq filters /\ faults' \subseteq faults \cup {"delete"}
    BY <1>m DEF NtplDelete
  <2> QED  BY <1>0, <1>m, <2>1, <2>2 DEF TypeOK, NtplDelete
<1>n. CASE FlClose
  BY <1>0, <1>n, <1>2 DEF TypeOK, FlClose
<1>o. CASE Broadcast \/ Unlearn \/ RxDeinit \/ FlDeinit \/ UnlearnFails
  BY <1>0, <1>o DEF TypeOK, Broadcast, RxDeinit, FlDeinit, Unlearn, UnlearnFails
<1>4. CASE Teardown
  BY <1>4, <1>a, <1>c, <1>m, <1>n, <1>o
     DEF Teardown, FlJoin, RxJoin, NtplClose, StatsDeinit, SignalDeinit,
         FsDeinit, InfoDeinit, NtDone, Return
<1>5. CASE Signal
  BY <1>0, <1>5 DEF TypeOK, Signal
<1> QED  BY <1>3, <1>4, <1>5 DEF Main

\* The steps of main() that create threads, wake them or touch the flows.
LEMMA SharedTyped ==
  ASSUME Typed, FlCreate \/ RxCreate \/ Broadcast \/ FlDeinit \/ Unlearn \/ FlClose
  PROVE  Typed'
<1> USE DEF work, flows, list, adapter
<1>1. ASSUME NEW t \in Threads, Create(t)  PROVE Typed'
  BY <1>1 DEF Typed, TypeOK, Busy, Create, Pushers, Threads, FlowThreads
<1>2. CASE UNCHANGED work /\ (FlCreate \/ RxCreate)
  BY <1>2, MainTyped DEF Main, Boot
<1>3. CASE FlCreate \/ RxCreate
  BY <1>1, <1>2, <1>3 DEF FlCreate, RxCreate, Goto, Threads
<1>4. CASE Broadcast
  BY <1>4 DEF Typed, TypeOK, Busy, Broadcast, Pushers, Threads, FlowThreads
<1>5. CASE Unlearn
  <2>1. PICK f \in rest : rest' \in {rest \ {f}, rest} /\ Execute("UNLEARN", f)
    BY <1>5 DEF Unlearn
  <2>2. f \in Flows
    BY <2>1 DEF Typed, TypeOK
  <2>3. learned' \subseteq Flows /\ records' \subseteq Records
    BY <2>1, <2>2 DEF Typed, TypeOK, Execute, Report, Records
  <2> QED  BY <1>5, <2>1, <2>3 DEF Typed, TypeOK, Busy, Unlearn
<1>6. CASE FlClose
  BY <1>6, FilterCount DEF Typed, TypeOK, Busy, FlClose
<1>7. CASE FlDeinit
  BY <1>7 DEF Typed, TypeOK, Busy, FlDeinit
<1> QED  BY <1>3, <1>4, <1>5, <1>6, <1>7

LEMMA ThreadingTyped ==
  ASSUME Typed, Threading
  PROVE  Typed'
<1> USE DEF flows, list, Same, adapter
<1>a. "program" \notin Pushers /\ "program" \in Threads /\ Pushers \subseteq Threads
  BY LifeAssumption DEF Pushers, Threads, FlowThreads
<1>b. NoOp \in Ops \cup {NoOp}
  OBVIOUS
<1>1. ASSUME NEW t \in Threads, Push(t)  PROVE Typed'
  <2>1. arg[t] \in Ops
    BY <1>1 DEF Typed, Busy, Push
  <2>2. queue' \in Seq(Ops)
    BY <1>1, <2>1 DEF Typed, TypeOK, Push
  <2>3. TypeOK'
    BY <1>1, <2>2 DEF Typed, TypeOK, Push, Move
  <2>4. Busy'
    BY <1>1, <1>a DEF Typed, TypeOK, Busy, Push, Move
  <2> QED  BY <2>3, <2>4 DEF Typed
<1>2. ASSUME NEW t \in Threads, Sleep(t)  PROVE Typed'
  BY <1>2, <1>a DEF Typed, TypeOK, Busy, Sleep, Move
<1>3. ASSUME NEW t \in Threads, Interrupt(t)  PROVE Typed'
  BY <1>3, <1>a DEF Typed, TypeOK, Busy, Interrupt, Move
<1>4. ASSUME Pull  PROVE Typed'
  <2>1. queue # <<>> => Head(queue) \in Ops /\ Tail(queue) \in Seq(Ops)
    BY DEF Typed, TypeOK
  <2>2. CASE queue # <<>>
    <3>1. arg' = [arg EXCEPT !["program"] = Head(queue)] /\ queue' = Tail(queue)
      BY <1>4, <2>2 DEF Pull
    <3>2. PICK moved : moved = [thread EXCEPT !["program"] = "list"]
      OBVIOUS
    <3>3. \/ thread' = moved
          \/ \E t \in Pushers : thread[t] = "asleep" /\ thread' = [moved EXCEPT ![t] = "push"]
      BY <1>4, <2>2, <3>2 DEF Pull
    <3>4. TypeOK'
      BY <1>4, <2>1, <2>2, <3>1, <3>2, <3>3, <1>a DEF Typed, TypeOK, Pull
    <3>5. Busy'
      BY <2>1, <2>2, <3>1, <3>2, <3>3, <1>a DEF Typed, TypeOK, Busy
    <3> QED  BY <3>4, <3>5 DEF Typed
  <2>3. CASE queue = <<>>
    BY <1>4, <1>a, <2>3 DEF Typed, TypeOK, Busy, Pull, Move
  <2> QED  BY <2>2, <2>3
<1>5. ASSUME List  PROVE Typed'
  <2>1. arg["program"][2] \in Flows
    BY <1>5 DEF Typed, Busy, List, Ops
  <2>2. listed' \subseteq Flows /\ dropped' \subseteq Flows /\ torn' \in BOOLEAN
    BY <1>5, <2>1 DEF Typed, TypeOK, List, AddPoll
  <2> QED  BY <1>5, <1>a, <2>2 DEF Typed, TypeOK, Busy, List, Move
<1>6. ASSUME Write  PROVE Typed'
  <2>1. arg["program"][2] \in Flows
    BY <1>6 DEF Typed, Busy, Write, Ops
  <2>2. learned' \subseteq Flows /\ records' \subseteq Records
    <3>1. CASE UNCHANGED <<learned, records>>
      BY <3>1 DEF Typed, TypeOK
    <3> DEFINE f == arg["program"][2]
    <3>2. CASE Execute(arg["program"][1], f)
      <4>1. arg["program"][1] \in {"LEARN", "REFRESH", "PROBE", "UNLEARN"}
        BY <1>6 DEF Typed, Busy, Write, Ops
      <4>2. learned' \in {learned, learned \cup {f}, learned \ {f}}
        BY <3>2, <4>1 DEF Execute
      <4>3. records' \in {records, Report("ended", f), Report("probed", f)}
        BY <3>2, <4>1 DEF Execute
      <4> QED  BY <2>1, <4>2, <4>3 DEF Typed, TypeOK, Report, Records
    <3> QED  BY <1>6, <3>1, <3>2 DEF Write
  <2> QED  BY <1>6, <1>a, <2>2 DEF Typed, TypeOK, Busy, Write, Move
<1>7. ASSUME NEW t \in Threads, Finish(t)  PROVE Typed'
  BY <1>7, <1>a DEF Typed, TypeOK, Busy, Finish, Move
<1>8. ASSUME NEW t \in Threads, NEW f \in Flows, Packet(t, f)  PROVE Typed'
  BY <1>8, <1>a DEF Typed, TypeOK, Busy, Packet, Programs, Move, Ops
<1>9. ASSUME NEW f \in Flows, Poll(f)  PROVE Typed'
  BY SMTT(30), <1>9, <1>a DEF Typed, TypeOK, Busy, Poll, RemovePoll, Programs, Move, Ops, Pushers
<1>10. ASSUME NEW f \in Flows, Timeout(f)  PROVE Typed'
  BY <1>10 DEF Typed, TypeOK, Busy, Timeout, Report, Records
<1>11. ASSUME NEW k \in {"probed", "ended"}, NEW f \in Flows, Record(k, f)  PROVE Typed'
  BY <1>11, <1>a DEF Typed, TypeOK, Busy, Record, Programs, Move, Ops, Pushers
<1> QED  BY <1>1, <1>2, <1>3, <1>4, <1>5, <1>6, <1>7, <1>8, <1>9, <1>10, <1>11
         DEF Threading, Work, Blocking

LEMMA NextTyped == Typed /\ [Next]_vars => Typed'
<1> SUFFICES ASSUME Typed, [Next]_vars  PROVE Typed'
  OBVIOUS
<1>1. CASE UNCHANGED vars
  BY <1>1 DEF vars, work, flows, list, adapter, Typed, TypeOK, Busy
<1>2. CASE Main \/ Signal
  BY <1>2, MainTyped, SharedTyped, MainKeepsWork, SignalKeepsWork
<1>3. CASE Threading
  BY <1>3, ThreadingTyped
<1> QED  BY <1>1, <1>2, <1>3, StepKinds

-----------------------------------------------------------------------------
(* What runs has what it uses.                                             *)

LEMMA InitControlled == Init => Controlled
  BY DEF Init, Controlled, Holding, Flowing, Receiving, SetUp, Alive, Threads

\* The threads cannot come to life again: a step of one begins with it alive.
LEMMA ThreadingWakesNone ==
  ASSUME Typed, Threading
  PROVE  \A t \in Threads : Alive(t)' => Alive(t)
<1> SUFFICES ASSUME NEW t \in Threads, ~Alive(t)  PROVE ~Alive(t)'
  OBVIOUS
<1> USE DEF Alive
<1>1. thread \in [Threads -> {"none", "run", "push", "wait", "asleep", "list", "write", "ended"}]
  BY DEF Typed, TypeOK
<1>2. ASSUME NEW u \in Threads, Blocking(u)  PROVE ~Alive(t)'
  <2>1. CASE Push(u) \/ Sleep(u)
    BY <1>1, <2>1 DEF Push, Sleep, Move
  <2>2. CASE Pull
    BY <1>1, <2>2 DEF Pull, Move, Pushers, Threads, FlowThreads
  <2>3. CASE List \/ Write
    BY <1>1, <2>3 DEF List, Write, Move
  <2> QED  BY <1>2, <2>1, <2>2, <2>3 DEF Blocking
<1>3. ASSUME NEW u \in Threads, Finish(u) \/ Interrupt(u)  PROVE ~Alive(t)'
  BY <1>1, <1>3 DEF Finish, Interrupt, Move
<1>4. ASSUME NEW u \in Threads, NEW f \in Flows, Packet(u, f) \/ Poll(f) \/ Timeout(f)  PROVE ~Alive(t)'
  BY <1>1, <1>4 DEF Packet, Poll, Timeout, Programs, Move
<1>5. ASSUME NEW k \in {"probed", "ended"}, NEW f \in Flows, Record(k, f)  PROVE ~Alive(t)'
  BY <1>1, <1>5 DEF Record, Programs, Move
<1>6. Threads # {}
  BY DEF Threads, FlowThreads
<1> QED  BY <1>2, <1>3, <1>4, <1>5, <1>6 DEF Threading, Work

LEMMA BootControlled ==
  ASSUME Typed, Controlled, Boot
  PROVE  Controlled'
<1> USE DEF work, adapter, Controlled, Holding, Flowing, Receiving, SetUp
<1>1. thread \in [Threads -> {"none", "run", "push", "wait", "asleep", "list", "write", "ended"}]
  BY DEF Typed, TypeOK
<1>2. CASE VMemBits \/ NtInit \/ InfoInit \/ Ports \/ FsInit \/ Statuses
  BY <1>2 DEF VMemBits, NtInit, InfoInit, Ports, FsInit, Statuses, Goto, Opens, Alive
<1>3. CASE Checks \/ SignalInit
  BY <1>3 DEF Checks, SignalInit, Goto, Opens, Alive
<1>4. CASE StatsInit \/ NtplInit \/ NtplApply
  BY <1>4 DEF StatsInit, NtplInit, NtplApply, Goto, Opens, Alive
<1>5. CASE FtInit \/ FlInit
  BY <1>5 DEF FtInit, FlInit, Goto, ToNtplDeinit, Alive
<1>6. CASE FlCreate
  <2>1. CASE Goto("fl_create", "rx_open")
    BY <2>1 DEF Goto, Alive
  <2>2. ASSUME pc = "fl_create", UNCHANGED pc, NEW t \in FlowThreads, Create(t)
        PROVE  Controlled'
    BY <1>1, <2>2, LifeAssumption DEF Create, Alive, FlowThreads, Threads
  <2> QED  BY <1>6, <2>1, <2>2 DEF FlCreate
<1>7. CASE RxOpen
  BY <1>7 DEF RxOpen, Alive
<1>8. CASE RxCreate
  BY <1>1, <1>8 DEF RxCreate, Create, Alive, Threads
<1> QED  BY <1>2, <1>3, <1>4, <1>5, <1>6, <1>7, <1>8 DEF Boot

LEMMA TeardownControlled ==
  ASSUME Typed, Controlled, Teardown
  PROVE  Controlled'
<1> USE DEF work, adapter, Controlled, Holding, Flowing, Receiving, SetUp
<1>1. thread \in [Threads -> {"none", "run", "push", "wait", "asleep", "list", "write", "ended"}]
  BY DEF Typed, TypeOK
<1>2. CASE RxDeinit \/ FlDeinit
  BY <1>2 DEF RxDeinit, FlDeinit, Goto, Alive
<1>3. CASE Broadcast
  BY <1>1, <1>3 DEF Broadcast, Alive, Threads
<1>4. CASE FlJoin
  BY <1>4 DEF FlJoin, Goto, Alive, Threads
<1>5. CASE RxJoin
  BY <1>5 DEF RxJoin, Goto, Alive
<1>6. CASE Unlearn \/ UnlearnFails \/ FlClose \/ NtplDelete
  BY <1>6 DEF Unlearn, UnlearnFails, FlClose, NtplDelete, Alive
<1>7. CASE NtplClose \/ StatsDeinit \/ SignalDeinit \/ FsDeinit \/ InfoDeinit \/ NtDone \/ Return
  BY <1>7 DEF NtplClose, StatsDeinit, SignalDeinit, FsDeinit, InfoDeinit, NtDone,
              Return, Goto, Closes, Alive
<1> QED  BY <1>2, <1>3, <1>4, <1>5, <1>6, <1>7 DEF Teardown

LEMMA NextControlled == Typed /\ Controlled /\ [Next]_vars => Controlled'
<1> SUFFICES ASSUME Typed, Controlled, [Next]_vars  PROVE Controlled'
  OBVIOUS
<1>1. CASE UNCHANGED vars
  BY <1>1 DEF vars, work, Controlled, Alive
<1>2. CASE Main
  BY <1>2, BootControlled, TeardownControlled DEF Main
<1>3. CASE Signal
  BY <1>3 DEF Signal, Controlled, Holding, Flowing, Receiving, SetUp, Alive, work
<1>4. CASE Threading
  <2>1. UNCHANGED <<pc, open, rxOpen>>
    BY <1>4, ThreadingKeepsMain DEF Same
  <2>2. \A t \in Threads : Alive(t)' => Alive(t)
    BY <1>4, ThreadingWakesNone
  <2> QED  BY <2>1, <2>2 DEF Controlled, Threads
<1> QED  BY <1>1, <1>2, <1>3, <1>4, StepKinds

-----------------------------------------------------------------------------
(* What the adapter knows the list has had.                                *)

LEMMA NoOpIsNoOp == \A a, b : NoOp # <<a, b>>
  BY DEF NoOp

LEMMA InitTracked == Init => Tracked
<1> SUFFICES ASSUME Init, NEW f \in Flows  PROVE Unmet(f)
  BY DEF Tracked, Followed
<1>1. \A t \in Threads : arg[t] = NoOp /\ thread[t] = "none"
  BY DEF Init
<1>2. learned = {} /\ records = {} /\ Len(queue) = 0
  BY DEF Init
<1>3. 1 .. Len(queue) = {}
  BY <1>2
<1> QED  BY <1>1, <1>2, <1>3, NoOpIsNoOp DEF Unmet, Threads, FlowThreads

\* The list never forgets a flow before it breaks, and stays broken.
LEMMA ListKeeps ==
  ASSUME NEW g, AddPoll(g) \/ RemovePoll(g) \/ UNCHANGED list, torn \in BOOLEAN
  PROVE  torn' \/ (~torn /\ listed \cup dropped \subseteq listed' \cup dropped')
  BY DEF AddPoll, RemovePoll, list

\* main() creates threads, wakes sleepers, frees the queue, unlearns and drains.
LEMMA MainTracked ==
  ASSUME Typed, Tracked, Main \/ Signal
  PROVE  Tracked'
<1> SUFFICES ASSUME NEW f \in Flows  PROVE Followed(f)'
  BY DEF Tracked
<1> USE DEF Followed, Unmet, work, flows, list
<1>0. Followed(f)
  BY DEF Tracked
<1>1. CASE UNCHANGED work
  BY <1>0, <1>1
<1>2. ASSUME NEW t \in Threads, Create(t)  PROVE Followed(f)'
  BY <1>0, <1>2 DEF Create, Typed, TypeOK
<1>3. CASE Broadcast
  BY <1>0, <1>3 DEF Broadcast, Threads, FlowThreads
<1>4. CASE Unlearn
  <2>1. PICK g \in rest : Execute("UNLEARN", g)
    BY <1>4 DEF Unlearn
  <2>2. learned' = learned \ {g} /\ records' \subseteq records \cup {<<"ended", g>>}
    BY <2>1 DEF Execute, Report
  <2>3. g \notin learned => records' = records
    BY <2>1 DEF Execute
  <2> QED  BY <1>0, <1>4, <2>2, <2>3 DEF Unlearn
<1>5. CASE FlClose
  BY <1>0, <1>5 DEF FlClose
<1>6. CASE FlDeinit
  <2>1. Len(queue') = 0
    BY <1>6 DEF FlDeinit
  <2>2. 1 .. Len(queue') = {}
    BY <2>1
  <2> QED  BY <1>0, <1>6, <2>2 DEF FlDeinit
<1>7. FlCreate \/ RxCreate => UNCHANGED work \/ \E t \in Threads : Create(t)
  BY DEF FlCreate, RxCreate, Goto, Threads
<1> QED  BY <1>1, <1>2, <1>3, <1>4, <1>5, <1>6, <1>7, MainKeepsWork, SignalKeepsWork

\* The operation moves from the thread to the end of the queue.
LEMMA PushTracked ==
  ASSUME Typed, Tracked, NEW t \in Threads, Push(t)
  PROVE  Tracked'
<1> SUFFICES ASSUME NEW f \in Flows  PROVE Followed(f)'
  BY DEF Tracked
<1> USE DEF flows, list, Same
<1>0. Followed(f) /\ UNCHANGED <<listed, dropped, torn, learned, records>>
  BY DEF Tracked, Push
<1>1. /\ t \in Pushers /\ "program" \notin Pushers /\ "program" \in Threads
  BY LifeAssumption DEF Push, Pushers, Threads, FlowThreads
<1>2. arg \in [Threads -> Ops \cup {NoOp}] /\ queue \in Seq(Ops) /\ arg[t] \in Ops
  BY DEF Typed, TypeOK, Busy, Push
<1>3. thread'["program"] = "write" => thread["program"] = "write"
  BY <1>1 DEF Typed, TypeOK, Push, Move
<1>4. \A u \in Threads : arg'[u] \in {arg[u], NoOp}
  BY <1>2 DEF Push
<1>5. arg'["program"] = arg["program"]
  BY <1>1, <1>2 DEF Push
<1>6. \A i \in 1 .. Len(queue') : (i \in 1 .. Len(queue) /\ queue'[i] = queue[i]) \/ queue'[i] = arg[t]
  BY <1>2 DEF Push
<1>7. Unmet(f) => Unmet(f)'
  BY <1>0, <1>3, <1>4, <1>5, <1>6, NoOpIsNoOp DEF Unmet
<1> QED  BY <1>0, <1>7 DEF Followed

\* The oldest operation moves from the queue to the program thread.
LEMMA PullTracked ==
  ASSUME Typed, Tracked, Pull
  PROVE  Tracked'
<1> SUFFICES ASSUME NEW f \in Flows  PROVE Followed(f)'
  BY DEF Tracked
<1> USE DEF flows, list, Same
<1>0. Followed(f) /\ UNCHANGED <<listed, dropped, torn, learned, records>>
  BY DEF Tracked, Pull
<1>1. /\ arg \in [Threads -> Ops \cup {NoOp}] /\ queue \in Seq(Ops)
      /\ thread \in [Threads -> {"none", "run", "push", "wait", "asleep", "list", "write", "ended"}]
      /\ "program" \notin Pushers /\ "program" \in Threads
  BY LifeAssumption DEF Typed, TypeOK, Pushers, Threads, FlowThreads
<1>2. thread'["program"] # "write"
  BY <1>1 DEF Pull, Move
<1>3. CASE queue # <<>>
  <2>1. queue' = Tail(queue) /\ arg' = [arg EXCEPT !["program"] = Head(queue)]
    BY <1>3 DEF Pull
  <2>2. /\ \A i \in 1 .. Len(queue') : i + 1 \in 1 .. Len(queue) /\ queue'[i] = queue[i + 1]
        /\ Head(queue) = queue[1] /\ 1 \in 1 .. Len(queue)
    BY <1>1, <1>3, <2>1
  <2>3. \A u \in Threads : arg'[u] \in {arg[u], queue[1]}
    BY <1>1, <2>1, <2>2
  <2>4. Unmet(f) => Unmet(f)'
    BY <1>0, <1>2, <2>2, <2>3 DEF Unmet
  <2> QED  BY <1>0, <2>4 DEF Followed
<1>4. CASE queue = <<>>
  <2>1. UNCHANGED <<arg, queue>>
    BY <1>4 DEF Pull
  <2> QED  BY <1>0, <1>2, <2>1 DEF Followed, Unmet
<1> QED  BY <1>3, <1>4

\* A flow's learn is written after the list has it, a refresh only if it has.
LEMMA ListTracked ==
  ASSUME Typed, Tracked, List
  PROVE  Tracked'
<1> SUFFICES ASSUME NEW f \in Flows  PROVE Followed(f)'
  BY DEF Tracked
<1> USE DEF flows, list, Same
<1> DEFINE op == arg["program"][1]
           g == arg["program"][2]
<1>0. Followed(f) /\ UNCHANGED <<learned, records, queue>> /\ torn \in BOOLEAN
  BY DEF Tracked, List, Typed, TypeOK
<1>1. /\ arg["program"] = <<op, g>> /\ "program" \in Threads
      /\ \A u \in Threads : arg'[u] \in {arg[u], NoOp}
  BY DEF List, Typed, TypeOK, Busy, Ops, Threads, FlowThreads
<1>2. /\ AddPoll(g) \/ UNCHANGED list
      /\ \/ thread'["program"] # "write"
         \/ arg' = arg /\ op # "LEARN"
         \/ arg' = arg /\ g \in listed \cup dropped
         \/ arg' = arg /\ torn /\ torn'
         \/ arg' = arg /\ AddPoll(g)
  BY DEF List, Move, Typed, TypeOK, Threads, FlowThreads
<1> HIDE DEF op, g
<1>3. torn' \/ (~torn /\ listed \cup dropped \subseteq listed' \cup dropped')
  BY <1>0, <1>2, ListKeeps
<1>4. AddPoll(g) => torn' \/ g \in listed'
  BY DEF AddPoll
<1>5. torn' \/ f \in listed' \cup dropped' \/ (Unmet(f) => Unmet(f)')
  BY <1>0, <1>1, <1>2, <1>3, <1>4, NoOpIsNoOp DEF Unmet
<1> QED  BY <1>0, <1>3, <1>5 DEF Followed

\* What is written is learned, the list having had it; or the thread ends.
LEMMA WriteTracked ==
  ASSUME Typed, Tracked, Write
  PROVE  Tracked'
<1> SUFFICES ASSUME NEW f \in Flows  PROVE Followed(f)'
  BY DEF Tracked
<1> USE DEF flows, list, Same
<1> DEFINE op == arg["program"][1]
           g == arg["program"][2]
<1>0. Followed(f) /\ UNCHANGED <<listed, dropped, torn, queue>>
  BY DEF Tracked, Write
<1>1. /\ arg["program"] = <<op, g>> /\ op \in {"LEARN", "REFRESH", "PROBE", "UNLEARN"}
      /\ "program" \in Threads /\ thread["program"] = "write"
      /\ \A u \in Threads : arg'[u] \in {arg[u], NoOp}
  BY DEF Write, Typed, TypeOK, Busy, Ops, Threads, FlowThreads
<1>2. thread'["program"] # "write"
  BY DEF Write, Move, Typed, TypeOK, Threads, FlowThreads
<1>3. UNCHANGED <<learned, records>> \/ Execute(op, g)
  BY DEF Write
<1> HIDE DEF op, g
<1>4. /\ learned' \subseteq learned \cup {g} /\ (g \in learned' => g \in learned \/ op \in {"LEARN", "REFRESH"})
      /\ records' \subseteq records \cup {<<"ended", g>>, <<"probed", g>>}
      /\ g \notin learned => records' = records
  BY <1>1, <1>3 DEF Execute, Report
<1>5. ASSUME Unmet(f)  PROVE Unmet(f)'
  <2>1. g = f => op \notin {"LEARN", "REFRESH"} /\ f \notin learned
    BY <1>1, <1>5 DEF Unmet
  <2>2. f \notin learned' /\ \A k \in {"probed", "ended"} : <<k, f>> \notin records'
    BY <1>4, <1>5, <2>1 DEF Unmet
  <2> QED  BY <1>0, <1>1, <1>2, <1>5, <2>2, NoOpIsNoOp DEF Unmet
<1> QED  BY <1>0, <1>5 DEF Followed

\* Sleeping and ending move no operation; an interrupted thread drops its own.
LEMMA QuietTracked ==
  ASSUME Typed, Tracked, NEW t \in Threads, Sleep(t) \/ Interrupt(t) \/ Finish(t)
  PROVE  Tracked'
<1> SUFFICES ASSUME NEW f \in Flows  PROVE Followed(f)'
  BY DEF Tracked
<1> USE DEF flows, list, Same
<1>0. Followed(f)
  BY DEF Tracked
<1>1. "program" \in Threads
  BY DEF Threads, FlowThreads
<1>2. /\ UNCHANGED <<queue, listed, dropped, torn, learned, records>>
      /\ \A u \in Threads : arg'[u] \in {arg[u], NoOp}
      /\ thread'["program"] # "write" \/ thread["program"] = "write"
  BY <1>1 DEF Sleep, Interrupt, Finish, Move, Typed, TypeOK
<1> QED  BY <1>0, <1>1, <1>2, NoOpIsNoOp DEF Followed, Unmet

\* What another thread programs is a learn, or of a flow the list has had.
LEMMA OthersTracked ==
  ASSUME Typed, Tracked, NEW g \in Flows,
         \/ \E t \in Threads : Packet(t, g)
         \/ Poll(g) \/ Timeout(g) \/ \E k \in {"probed", "ended"} : Record(k, g)
  PROVE  Tracked'
<1> SUFFICES ASSUME NEW f \in Flows  PROVE Followed(f)'
  BY DEF Tracked
<1> USE DEF flows, list, Same
<1>0. Followed(f)
  BY DEF Tracked
<1>1. /\ "program" \notin Pushers /\ "program" \in Threads
      /\ Rx \subseteq Pushers /\ {"poll", "record"} \subseteq Pushers
  BY LifeAssumption DEF Pushers, Threads, FlowThreads
<1>2. ASSUME NEW t \in Pushers, NEW o, Programs(t, <<o, g>>)
      PROVE  /\ queue' = queue /\ arg'["program"] = arg["program"]
             /\ thread'["program"] = thread["program"]
             /\ \A u \in Threads : arg'[u] \in {arg[u], <<o, g>>}
  BY <1>1, <1>2 DEF Programs, Move, Typed, TypeOK
<1>3. ASSUME NEW t \in Threads, Packet(t, g)  PROVE Followed(f)'
  <2>1. Programs(t, <<"LEARN", g>>) /\ t \in Pushers
    BY <1>1, <1>3 DEF Packet
  <2> QED  BY <1>0, <1>2, <1>3, <2>1 DEF Packet, Followed, Unmet
<1>4. CASE Poll(g)
  <2>1. CASE UNCHANGED list /\ \E o \in {"LEARN", "REFRESH", "UNLEARN", "PROBE"} : Programs("poll", <<o, g>>)
    BY <1>0, <1>1, <1>2, <1>4, <2>1 DEF Poll, Followed, Unmet
  <2>2. CASE RemovePoll(g) /\ UNCHANGED <<thread, arg, queue>>
    BY <1>0, <1>4, <2>2 DEF Poll, RemovePoll, Followed, Unmet
  <2> QED  BY <1>4, <2>1, <2>2 DEF Poll
<1>5. CASE Timeout(g)
  BY <1>0, <1>5 DEF Timeout, Report, Followed, Unmet
<1>6. ASSUME NEW k \in {"probed", "ended"}, Record(k, g)  PROVE Followed(f)'
  <2>1. ASSUME NEW o, Programs("record", <<o, g>>)  PROVE Followed(f)'
    BY <1>0, <1>1, <1>2, <1>6, <2>1 DEF Record, Followed, Unmet
  <2>2. CASE UNCHANGED <<thread, arg, queue>>
    BY <1>0, <1>6, <2>2 DEF Record, Followed, Unmet
  <2> QED  BY <1>6, <2>1, <2>2 DEF Record
<1> QED  BY <1>3, <1>4, <1>5, <1>6

LEMMA NextTracked == Typed /\ Tracked /\ [Next]_vars => Tracked'
<1> SUFFICES ASSUME Typed, Tracked, [Next]_vars  PROVE Tracked'
  OBVIOUS
<1>1. CASE UNCHANGED vars
  BY <1>1 DEF vars, work, flows, list, Tracked, Followed, Unmet
<1>2. CASE Threading
  BY <1>2, PushTracked, PullTracked, ListTracked, WriteTracked, QuietTracked, OthersTracked
     DEF Threading, Work, Blocking
<1> QED  BY <1>1, <1>2, MainTracked, StepKinds

-----------------------------------------------------------------------------
(* What is left in the adapter.                                            *)

LEMMA InitCleared == Init => Cleared
<1> SUFFICES ASSUME Init  PROVE Cleared
  OBVIOUS
<1>1. 0 \in 0 .. Commands /\ 1 .. 0 = {}
  BY LifeAssumption
<1> QED  BY <1>1 DEF Init, Cleared, Early, SetUp, Undone

\* While the filters number n, they are 1 .. n.
LEMMA CountOf ==
  ASSUME NEW n \in 0 .. Commands
  PROVE  Cardinality(1 .. n) = n
  BY FS_Interval, LifeAssumption

LEMMA BootCleared ==
  ASSUME Typed, Controlled, Cleared, Boot
  PROVE  Cleared'
<1> USE DEF Cleared, Early, SetUp, Undone, adapter, work, flows, list
<1>1. CASE VMemBits \/ NtInit \/ InfoInit \/ Ports \/ FsInit \/ Statuses
  BY <1>1 DEF VMemBits, NtInit, InfoInit, Ports, FsInit, Statuses, Goto, Opens
<1>2. CASE Checks \/ SignalInit \/ StatsInit \/ NtplInit
  BY <1>2 DEF Checks, SignalInit, StatsInit, NtplInit, Goto, Opens
<1>3. PICK n \in 0 .. Commands : filters \subseteq 1 .. n /\ (pc \notin Undone \cup {"deinit_ntpl"} => filters = 1 .. n)
  OBVIOUS
<1>4. ASSUME pc \in SetUp \ {"stats_init", "ntpl_init"}, pc' = "deinit_ntpl",
             deleting' = Cardinality(filters), UNCHANGED <<filters, learned, dropped, torn, faults>>,
             open \subseteq open'
      PROVE  Cleared'
  BY <1>3, <1>4, CountOf, Zenon
<1>5. CASE NtplApply
  <2>1. "handlers" \in open /\ pc = "ntpl_apply"
    BY <1>5 DEF Controlled, NtplApply
  <2>2. Cardinality(filters) = n /\ filters = 1 .. n
    BY <1>3, <2>1, CountOf
  <2>3. CASE filters' = filters \cup {n + 1} /\ n < Commands /\ pc' = pc
    <3>1. n + 1 \in 0 .. Commands /\ filters' = 1 .. (n + 1)
      BY <2>2, <2>3, LifeAssumption
    <3> QED  BY <1>5, <2>1, <2>3, <3>1 DEF NtplApply
  <2>4. CASE pc' = "deinit_ntpl" /\ deleting' = Cardinality(filters) /\ filters' = filters
    BY <1>5, <2>1, <2>2, <2>4 DEF NtplApply
  <2>5. CASE pc' = "ft_init" /\ UNCHANGED filters
    BY <1>5, <2>1, <2>2, <2>5 DEF NtplApply
  <2> QED  BY <1>5, <2>2, <2>3, <2>4, <2>5 DEF NtplApply
<1>6. ASSUME NEW here \in {"ft_init", "fl_init"}, NEW stop, ToNtplDeinit(here, stop), open \subseteq open'
      PROVE  Cleared'
  <2>1. Cardinality(filters) = n /\ filters = 1 .. n
    BY <1>3, <1>6, CountOf DEF ToNtplDeinit
  <2>2. "handlers" \in open /\ learned = {}
    BY <1>6 DEF Controlled, ToNtplDeinit
  <2> QED  BY <1>6, <2>1, <2>2 DEF ToNtplDeinit
<1>7. CASE FtInit \/ FlInit
  BY <1>6, <1>7 DEF FtInit, FlInit, Goto
<1>8. CASE FlCreate \/ RxCreate
  BY <1>8 DEF FlCreate, RxCreate, Goto, Create
<1>9. CASE RxOpen
  BY <1>9 DEF RxOpen
<1> QED  BY <1>1, <1>2, <1>5, <1>7, <1>8, <1>9 DEF Boot

LEMMA TeardownCleared ==
  ASSUME Typed, Controlled, Tracked, Cleared, Teardown
  PROVE  Cleared'
<1> USE DEF Cleared, Early, SetUp, Undone, adapter, work, flows, list
<1>1. PICK n \in 0 .. Commands : filters \subseteq 1 .. n /\ (pc \notin Undone \cup {"deinit_ntpl"} => filters = 1 .. n)
  OBVIOUS
<1>2. CASE Broadcast \/ FlJoin \/ RxJoin \/ RxDeinit
  BY <1>2 DEF Broadcast, FlJoin, RxJoin, RxDeinit, Goto
<1>3. CASE FlDeinit
  <2>1. torn \/ learned \subseteq listed \cup dropped
    BY DEF Tracked, Followed, Unmet, Typed, TypeOK
  <2> QED  BY <1>3, <2>1 DEF FlDeinit
<1>4. CASE Unlearn
  <2>1. PICK f \in rest : /\ rest' \in {rest \ {f}} \cup (IF torn THEN {rest} ELSE {})
                          /\ Execute("UNLEARN", f)
    BY <1>4 DEF Unlearn
  <2>2. learned' = learned \ {f}
    BY <2>1 DEF Execute
  <2> QED  BY <1>4, <2>1, <2>2 DEF Unlearn
<1>5. CASE UnlearnFails
  BY <1>5 DEF UnlearnFails
<1>6. CASE FlClose
  <2>1. Cardinality(filters) = n /\ filters = 1 .. n
    BY <1>1, <1>6, CountOf DEF FlClose
  <2> QED  BY <1>6, <2>1 DEF FlClose
<1>7. CASE NtplDelete
  <2>1. deleting \in 1 .. Commands /\ deleting' = deleting - 1 /\ pc = "deinit_ntpl" /\ pc' = pc
    BY <1>7, LifeAssumption DEF NtplDelete, Typed, TypeOK
  <2>2. filters \subseteq 1 .. deleting => filters \ {deleting} \subseteq 1 .. deleting'
    BY <2>1, LifeAssumption
  <2>3. UNCHANGED <<open, learned, dropped, torn>> /\ filters' \subseteq filters /\ faults \subseteq faults'
    BY <1>7 DEF NtplDelete
  <2>4. filters' \subseteq 1 .. deleting' \/ "delete" \in faults'
    BY <1>7, <2>1, <2>2 DEF NtplDelete
  <2>5. filters' \subseteq 1 .. n
    BY <1>1, <2>3
  <2> QED  BY <2>1, <2>3, <2>4, <2>5
<1>8. CASE NtplClose
  <2>1. 1 .. 0 = {}
    OBVIOUS
  <2> QED  BY <1>8, <2>1 DEF NtplClose, Closes
<1>9. CASE StatsDeinit \/ SignalDeinit \/ FsDeinit \/ InfoDeinit \/ NtDone \/ Return
  BY <1>9 DEF StatsDeinit, SignalDeinit, FsDeinit, InfoDeinit, NtDone, Return, Goto, Closes
<1> QED  BY <1>2, <1>3, <1>4, <1>5, <1>6, <1>7, <1>8, <1>9 DEF Teardown

LEMMA NextCleared ==
  Typed /\ Controlled /\ Tracked /\ Cleared /\ [Next]_vars => Cleared'
<1> SUFFICES ASSUME Typed, Controlled, Tracked, Cleared, [Next]_vars  PROVE Cleared'
  OBVIOUS
<1> USE DEF Cleared, Early, SetUp, Undone, adapter, work, flows, list
<1>1. CASE UNCHANGED vars
  BY <1>1 DEF vars
<1>2. CASE Main
  BY <1>2, BootCleared, TeardownCleared DEF Main
<1>3. CASE Signal
  BY <1>3 DEF Signal
<1>4. CASE Threading
  <2>1. UNCHANGED <<pc, open, filters, deleting, faults, rest>>
    BY <1>4, ThreadingKeepsMain DEF Same
  <2>5. torn' \/ (~torn /\ dropped \subseteq dropped')
    BY <1>4 DEF Threading, Work, Blocking, Push, Sleep, Interrupt, Pull, List, Write,
                Finish, Packet, Poll, Timeout, Record, AddPoll, RemovePoll
  <2>2. CASE learned' \subseteq learned
    BY <2>1, <2>2, <2>5
  <2>3. CASE Write
    <3>1. pc \in Flowing
      BY <2>3 DEF Write, Controlled, Alive, FlowThreads
    <3> QED  BY <2>1, <3>1 DEF Flowing, Controlled, Holding
  <2>4. Write \/ learned' \subseteq learned
    BY <1>4 DEF Threading, Work, Blocking, Push, Sleep, Interrupt, Pull, List,
                Finish, Packet, Poll, Timeout, Record
  <2> QED  BY <2>2, <2>3, <2>4
<1> QED  BY <1>1, <1>2, <1>3, <1>4, StepKinds

-----------------------------------------------------------------------------
(* The theorems.                                                           *)

\* The variables of Lifecycle have their types.
THEOREM TypeCorrect == Spec => []TypeOK
<1>1. Typed => TypeOK
  BY DEF Typed
<1> QED  BY <1>1, InitTyped, NextTyped, PTL DEF Spec

\* The inductive invariant: where main() is bounds which threads run, the
\* adapter knows only flows that the list has had, and every label of the
\* teardown has its part of the adapter cleared.
THEOREM Invariance == Spec => []IInv
<1>1. Init => IInv
  BY InitTyped, InitControlled, InitTracked, InitCleared DEF IInv
<1>2. IInv /\ [Next]_vars => IInv'
  BY NextTyped, NextControlled, NextTracked, NextCleared DEF IInv
<1> QED  BY <1>1, <1>2, PTL DEF Spec

\* No thread uses the queue, the flow stream or its own stream after main()
\* has released it, whatever failed and whenever the signal came.
THEOREM NoUseAfterRelease == Spec => []LifeInv
<1>1. IInv => LifeInv
  BY DEF IInv, Typed, LifeInv, Controlled, NothingUsedAfterRelease, Holding, Flowing,
         Receiving, Threads
<1> QED  BY <1>1, Invariance, PTL

\* At every end the filters are deleted, unless the call that does it failed,
\* and the flows unlearned, unless that call failed, the poll thread had
\* dropped the flow, or the list is broken.
THEOREM AdapterIsLeftClean == Spec => []LeavesNothing
<1>1. IInv => LeavesNothing
  BY DEF IInv, Cleared, Undone, LeavesNothing
<1> QED  BY <1>1, Invariance, PTL
=============================================================================
