# A TLA+ verification of ntapi_examples

This directory holds TLA+ models of the programs in `src/`, the TLC
configurations that check them on small instances, and theorems about them that
TLAPS checks for every size of the instance. It covers `ntnetflow`, the one
program of the repository whose correctness rests on the interplay of many
threads, from the accesses to its lock-free queue up to the life of the whole
process, and the state machines of `filter_daemon`, `addrswap_replay`,
`boundary_replay`, `bufferProfile` and `hbMonitor`. `PROJECT.json` is the
index: components, runs, the lines every definition stands for, mutants,
findings, hazards and theorems.

    tlc -config MCMpmcQueue.cfg MCMpmcQueue.tla     check a run
    tlapm MpmcQueueProofs.tla                       check the proofs

## 1. The system

The repository is a set of example programs for Napatech network adapters. It has
no automated tests; its documentation is the comments, the README files and the
help texts.

| Part | State | Operations | What is hard |
|---|---|---|---|
| `ntnetflow` operation queue (`mpmc_queue.h`) | ring of cells, head, tail, sequence numbers | push, pull, each lock-free | races on cells, order, full and empty, positions of 32 bits |
| blocking and wake-up (`mpmc_queue.h`, `futex.h`) | counts of waiters, futex words | push_wait, pull_wait, wake, broadcast | lost wake-ups, EINTR, shutdown |
| flow table (`flowtable.c`) | hash chains of buckets of entries, three kinds of locks, reference counts | lookup, add, ref, deref, remove | buckets freed under walkers, entries used before they are initialised |
| flow learning (`flowlearn.c`) | flags and skip counter of each entry, circular poll list, operation queue | program, status, record and poll threads | late, lost and reordered answers, retries, references |
| start, signals, teardown (`ntnetflow.c`, `rx.c`, `signal.c`, `flowlearn.c`, `ntpl.c`, `info.c`, `stats.c`, `flowstats.c`) | library handles, threads, filters on the adapter, `app_running` | main() call by call, the threads' ends, joins, releases | failures half-way, signals at any time, threads that sleep when they should end |
| `filter_daemon` | sets of addresses read and applied, ids of filters, pid file | watch the file, apply the difference, stop | time stamps of one second, failing filters, files that vanish |
| `addrswap_replay` | search tree of substitutes, position in the capture, the port's mode | load, replay, wait, restore | order of the file, signed addresses, stop on failure |
| `boundary_replay` | offset and iteration, the port's mode | validate, scan, replay over and over, wait, restore | the time line across iterations, width of the product |
| `bufferProfile`, `hbMonitor` | slots per stream, ring of samples, alerts | count, read, show, write out | streams that come and go between two calls |
| `NT2JSON`, `napa_stat` | none to speak of | read statistics, format them | — |

How they interact: the programs are independent of each other; what they share
is the adapter, whose filters and port modes outlive them. Inside `ntnetflow`,
every rx thread looks flows up in the table, adds the missing ones and queues a
LEARN operation. The *program* thread pulls operations, marks the entry's flags,
lists a new flow for polling and writes a command to the adapter. The adapter
answers on two channels: the *status* thread reads the outcome of commands, the
*record* thread the records of flows that were unlearned, probed or timed out;
it may queue REFRESH and UNLEARN. The *poll* thread walks the list once per
interval: it retries what got no answer, probes the tracked flows and drops the
others. A signal clears `app_running`; the main thread then wakes the sleepers,
joins the threads and releases what they used.

The list of hazards in `PROJECT.json` names, line by line, what can go wrong
there that a test would hardly reach, and the properties that cover it.

## 2. The modules

```
FifoQueue <--implements-- MpmcQueue <-- MCMpmcQueue
                              ^
                              |--extends-- MpmcQueue32 <-- MCMpmcQueue32
                                               ^--extends-- MpmcQueueProofs
MpmcWait   <-- MpmcWaitProofs     (what MpmcQueue establishes of push and pull)
FlowTable  <-- MCFlowTable, FlowTableProofs
FlowLearn  <-- MCFlowLearn, FlowLearnProofs
                                  (the queue as FifoQueue, the table through
                                   its reference counts)
Lifecycle  <-- MCLifecycle, LifecycleProofs
                                  (all of ntnetflow: queue, waits, learning and
                                   table, each reduced to what its own module
                                   has shown of it)

FilterDaemon    <-- MCFilterDaemon, FilterDaemonProofs
AddrSwap        <-- MCAddrSwap, ToolProofs
BoundaryReplay  <-- MCBoundaryReplay, BoundaryReplayProofs
StreamMonitors  <-- MCStreamMonitors, ToolProofs
```

### MpmcQueue, FifoQueue

One action per access of shared memory: `PushBegin` loads `tail`, `PushSeq`
loads the cell's sequence number and branches on the difference, `PushCas` is
the compare-and-exchange (weak, so it may fail for no reason), `PushWrite`
writes the plain field, `PushPublish` stores the sequence number; the pull side
is the same on `head`. `pos`, `val`, `ret` and `pc` are the locals of a call.
A position is an unbounded *ticket* here; the cell of ticket `i` is
`i % Capacity`.

`FifoQueue` is the promise: elements enter and leave a bounded sequence at one
instant within each call, and a call fails only if the queue is full (or
empty) or an opposite call is under way. `ImplementsFifo` is the refinement:
the sequence (`Elements`) consists of the elements of the tickets
`head .. tail - 1`; the element of a ticket that is claimed and not published
yet is the one in the hands of its pusher. The linearisation point of both calls
is the successful compare-and-exchange.

### MpmcQueue32

The same queue when every comparison sees its operands modulo `Width` (2^32 in
the code): the signed difference, and the compare-and-exchange on the stored
bits. Its only property is that each of its steps is a step of `MpmcQueue`. This
is not true without a bound on how far a thread may be overtaken: a thread that
sleeps between its load and its compare-and-exchange while exactly `Width`
tickets go by takes a cell it should not (the ABA problem). `MaxLag` bounds
that, by half the range less the capacity (`LagAssumption`); in the code it stands
for "less than 2^31 operations pass while a thread is between two instructions".

### MpmcWait

The waiting calls built on the queue. An attempt is two steps, the claim of a
ticket and the store that publishes (or frees) its cell, because what matters to
a waiter is what happens between them. `expected` is the value of the futex
word that the waiter loaded before its attempt; `Compare` and `Syscall` are the
two comparisons of `futex_wait`; `Interrupt` is EINTR, which the SIGALRM of
`stats.c` causes and which ends the waiting call without an element. `Wake` is
the loop of `mpmc_queue_wake_*`; an iteration that finds nobody asleep changes
nothing, so only the last one is a step. `Stop`, `Broadcast` and `Join` are the
signal handler and `fl_join`. The spin count, 4 in the code, is `MaxSpin`.

### FlowTable

One hash chain. `next`, `prev`, `last`, `toFree`, `dynamic` and `unused` are the
fields of buckets and chain; `readers` and `writer` are the chain's lock, which
threads hold over several steps. The critical sections of a bucket's lock are a
step each; that it may be held at the instant of a `trywrlock` is `Contended`.
The lock of an entry is taken by `ft_add` alone: lookups compare the key without
it, although the comment at `flowtable.c:231-236` has readers wait for it, so it
excludes nobody and is not modelled. `AddUnlock`, `AddWrite` and `AddRef` are
therefore steps of their own, and lookups do see entries between them. The
callers are those of the program: rx threads that look up and then add flows of
their own stream (`StreamOf`: the adapter hashes a flow to one stream), and
threads that take and drop references to entries that have one.

### FlowLearn

The four threads of `flowlearn.c`, `rx_process` and an external adapter. Each
atomic operation on an entry is a step; the sections under `poll_mutex` are one
step each. `flags`, `skip`, `rc` are the entry's; `pollNext`, `pollPrev`,
`pollHead` the circular list; `due` is what is left of `poll.next_update` minus
`poll_current`, never below 0, so that time needs no bound. `poll_offset` never
changes in the code (`POLL_THROTTLE_MASK` is all ones) and is left out. `Tag`
and `Ours` are the truncation of the process id to the bits of the tag, and the
comparison with the whole id. `hwProbe` is chosen in `Init`, so that runs cover
adapters with and without hardware probes.

The adapter executes commands in the order they were written, answers on two
channels which lose what does not fit, and may unlearn a flow by itself. Which
answers it gives is read off the code that handles them; those that are only
printed do not appear.

`fl_add_poll` and `fl_remove_poll` have the lock, the change of the reference
count next to them does not: `ProgramRef` and `ProgramList` are two steps, and
so are `PollDrop` and `PollDeref`. `Moving` is the flow between the two.

Two assumptions about the adapter are constants. `Prompt`: everything queued is
answered before the poll thread's next tick, a second later. `EarlyTimeout`: a
flow may time out while a learn of it is queued or unanswered (its idle time is
shorter than the way of an operation). The runs set the first and not the second;
what each of them is needed for is said with the proofs and the findings.

### Lifecycle

A run of `ntnetflow` from the first call of `main()` to its return. `pc` is the
next call, or the label of its `goto`; every call of the start succeeds or
fails, and a failure goes where the code goes: `fl_init` and `rx_init` stop the
program themselves, the others fall into the chain of `deinit_*`. `open` and
`rxOpen` are the handles; `filters` and `learned` are what stays on the adapter
when the process ends. `Unused` is the search of `info_streams_unused` for free
stream ids, gap by gap between the sorted ids in use.

The threads go through whole operations of the queue: `Push` and `Pull` with
their wake-ups, `Sleep` between the test of `app_running` and the sleep in the
kernel, where `Broadcast` does not reach, `Interrupt` by the statistics timer.
`List` and `Write` are the two halves of `fl_program_main`. The flags of an entry
are left to `FlowLearn`; here their effect is a choice. A pulled operation of any
of the four kinds is skipped or written, a LEARN lists its flow or does not (the
first one does: the flow's flags are empty then). The poll thread may retry any
flow of the list as LEARN, REFRESH or UNLEARN, probe it or drop it, the record
thread answers a record with UNLEARN, REFRESH (the end of a probe made by
unlearning) or nothing, the adapter's learns may fail. So retries, drops,
second listings and failures come in any order that the flags allow, and in
others. A command is executed as it is written.

In particular a flow that is in the list may be listed again. `AddPoll` then sets
`torn`: the links are no ring any more, and nothing is assumed of the walks over
them but that they meet flows that were listed (`Unlearn` may meet one twice, miss
others, or go on for ever). `dropped` are the flows that the poll thread has
taken out of an intact list. `FlDeinit`, `Unlearn`, `UnlearnFails` and `FlClose`
are `fl_deinit`; a call that fails in the teardown is remembered in `faults`.

### FilterDaemon

The daemon and its surroundings: a user who rewrites, deletes and re-creates the
file, an adapter that may refuse a command, SIGINT and `-k`. `Watch` is one round
of `watchFile`, with the buffer that `stat` leaves unfilled when the file is
missing; `ReadFile`, `Remove`, `Removed`, `Add` and `Applied` are `readFile` and
`process`, with one command to the adapter per step, so that the file and the
signal may come in between. The order of the address set (`Key`) leaves out the
end of a range and the IP version, as `IPAddress::operator<` does. When
`addNTPL` fails the code erases the set's node under its iterator: the loop goes
on anywhere, ends, or the process crashes. `lost`, `late` and `erased` are
history: filters the daemon gave up on, a write in a second already seen, and
that erase.

### AddrSwap

`main` and the thread `_Replay`. The search tree is a function from paths to
nodes, so that `insert` and `search` are walks from the root: `Reaches` says that
the walk for a value comes to a path, `Stops` that it ends there, and `Place` is
where it ends. Keys and data are words (`2 * Half` of them) read as signed
integers, as in the code. `sent` are the
packets handed to the port with the adapter time at which each leaves. The early
returns of the thread differ in what they tell `main`: `Abort` clears
`appRunning`, `Leave` does not.

### BoundaryReplay

`main` with its options and its scan of the file, and the thread `_ReplayData`.
Times are ticks; `CalcStartTS` rounds the adapter's time up to the next second,
adds one and rounds up to the modulus; `Stamp` adds the product of iteration and
boundary, computed modulo `CounterMod`. A capture is a sequence of segments of
time stamps; captures in nanoseconds get their first stamp divided by ten, as in
the code, and the others not.

### StreamMonitors

`bufferProfile` and `hbMonitor` find the streams in the same way: they read how
many there are, then go through the ids and skip those without host buffers. In
the model streams change in between. The id is a byte towards the adapter and
an int as an index (`NextId`); a slot keeps the counters of the last host
buffer. The backlog is the ring of `backlog.cpp`, `Unwritten` the entries that
`output` writes, oldest first. `InOrder` is what a loop with a counter meets in a
set of numbers: it serves the entries of the ring and the active slots that
`hbMonitor` shows. `gone` is a history variable, the streams deleted since they
were counted. The names of initial states, steps and types have a prefix,
because `ToolProofs` extends this module together with `AddrSwap`.

## 3. The runs

| Run | Question | Bounds | Result |
|---|---|---|---|
| `MCMpmcQueue` | is it a bounded FIFO; are cells exclusive; are failures honest; is the proof's invariant one | 2 pushers, 2 pullers, 2 values, 2 cells, 4 tickets (two rounds of each cell) | holds, 387 thousand states |
| `MCMpmcQueue32` | do positions of finite width decide alike | 3 bits, from ticket 6 to 11, so every position wraps; MaxLag 2 | holds, 84 thousand states |
| `MCMpmcWait` | do waiters wake | 2 pushers with 2 calls each, 1 puller, 2 cells, EINTR any time | holds, 323 thousand states |
| `MCFlowTable` | are buckets and entries safe, is every entry found | 3 flows on 2 streams, bucket sizes 1 and 2, 1 initial bucket, 3 entries, 2 droppers, 2 references | holds, 2.9 million states |
| `MCFlowLearn` | is the poll list right, is every flow polled | 2 flows, both kinds of probe, interval 2, queue 2, adapter buffers 1 and 2, write errors, `Prompt` | holds, 517 thousand states |
| `MCFlowLearnRough` | when learns fail and flows are listed twice: does an entry in use keep a reference, do links lead to flows, do an earlier process's records count | 3 flows, interval 1, a queue and adapter buffers of 1, reports that find no room, a leftover record, `Prompt`; references up to 3, skip counters 0 or 1 | holds, 7.9 million states |
| `MCLifecycle` | is anything used after its release, does anything stay on the adapter, does a stopped program end | 4 stream ids (two free, or none), 1 rx thread, 1 command, 1 flow, a queue of 1, 1 unread record, the timer on | holds, 1.1 million states |
| `MCFilterDaemon` | does the daemon know its filters, do they become those of the file, does it stop | 2 seconds, 2 writes, 3 texts of up to 3 out of 5 lines, 7 ids, 1 refused command, 1 start | holds, 247 thousand states |
| `MCAddrSwap` | is the tree the table, is every packet swapped by it, is the port given back, does the program end | addresses of 3 bits, tables of up to 3 entries in every order and with duplicates, captures of none, 1 and 3 packets, clock up to 4 | holds, 591 thousand states |
| `MCBoundaryReplay` | do iterations keep to their boundaries, is the start right, is the port given back, does the replay end | a second of 4 ticks, boundaries of 2, products modulo 8, 6 command lines, 8 captures, up to 6 iterations, clock up to 15 | holds, 131 thousand states |
| `MCStreamMonitors` | is every sample written once and in order, are the rows the streams, does the index stay in its array | 2 stream ids with up to 2 host buffers, a ring of 2, 2 changes, 1 drop, 3 samples, 1 start | holds, 10.5 million states |
| `MCMpmcWaitStall` | is anybody awake while the program runs | as `MCMpmcWait`, without the timer | violated |

Some properties are conjunctions that answer one question together; the parts
are defined next to them. `WaitInv`: types, and `NewWorkWakes`, which is about a
program thread that sleeps although a ticket was claimed since it loaded `tail`.
`TableInv`: types, and walkers stay in the chain. `ListInv`: types, a flow is
added only when it is in no list, the list is circular, its head is due first.
`DaemonInv`: types, `HoldsAllFilters` (the filters on the adapter are those the
daemon has the id of), `Synchronised` (between two changes it has one per
address it read) and `StaleOnlyWithinSecond`. `SwapInv`: types, `TreeIsTable`,
`PortRestored`. `ReplayInv`: types, `PortRestored`. `LifeInv`: types, and
`NothingUsedAfterRelease`, the queue and the streams of every running thread are
open.

Why the bounds suffice for what they are meant to show. In the queue, two
threads per side are the fewest that race for a cell, two cells the fewest that
the code allows, and four tickets let each cell be reused and each thread fall
behind by a whole round. In the table, three entries with buckets of one and two
give chains in which a bucket in the middle, and one at the end, becomes free,
and two droppers can empty two buckets at once. In `FlowLearn`, two flows give
lists of none, one and two elements, in which the removed flow may be the head
or not, and an interval of two ticks lets the flows be due at different ticks;
`MCFlowLearnRough` has the third flow, which is needed before a list broken by a
second listing can cut one flow off and keep another. In `Lifecycle` one flow
can be listed, dropped, and listed twice, so that the list is broken in the run,
too; a second one makes the run too long, and the theorems hold for any number.
A queue of one operation is full with one pusher and makes the next one sleep,
and every call fails in some behaviour. In `FilterDaemon` two writes are a
change that is seen and one within its second; the lines have a plain address,
one that differs from it in its range only, one of the other IP version, a word
that is no address and a line without one. In `AddrSwap` three keys in all
orders give chains to either side, balanced trees and duplicates; 5 and 6 are
negative as ints of three bits. In `BoundaryReplay` four iterations of two ticks
reach the modulus of 8. In `StreamMonitors` the third sample comes into the cell
of the first, written or not, and two changes are a stream that is deleted ahead
of the search and one created behind it, so that as many streams are there as
were counted and one cannot be found.

Deadlock is checked except where the program ends (`MCMpmcWait`, which may also
hang, see below; `MCLifecycle`, `MCFilterDaemon`, `MCAddrSwap`,
`MCBoundaryReplay`, `MCStreamMonitors`), in `MCFlowLearn`, where a write error
ends the program thread and the others may then wait for a place in the queue,
and in `MCFlowLearnRough`, where the bound on counters cuts behaviours off.

Fairness. In `MpmcWait` and `FlowLearn` each thread that can take a step
eventually does, which is what the operating system's scheduler gives to a
runnable thread; the program thread always comes back for another operation
(its loop), the adapter executes commands. `Lifecycle` assumes less: once the
program is stopped `main` goes on, and as long as some thread can go on one does;
that is enough for its end. In the replay tools `main` and the thread go on, the loops that wait for
the adapter's clock look at it again, and the clock advances. The daemon blocks
only in `sleep(1)`. Nothing is assumed of packets, timeouts, signals, writes to
the file and failures. The queue, the table and the monitors are checked for
safety only: the queue is not wait-free, and its calls are retried by the
callers; nothing must ever happen to the monitors.

The liveness properties say under which condition they hold, because the code
does not give more: `SleeperHearsShutdown` speaks of threads that sleep before
the broadcast; `EndsUnlessLate` excludes a thread that had seen `app_running`
set and was about to sleep, and the walk of `fl_deinit` over a list that a
second listing broke; `EveryFlowPolled` excludes the end of the program thread
by a write error, after which nothing is programmed; `Converges` excludes a
write within a second already seen and a failed filter; `EndsOnceReady` begins
when the thread is ready, and `Ends` of `BoundaryReplay` allows for the thread
that ends in silence.

Each property of a passing run has a mutant, a plausible slip in one definition
(`...Back`, `...Unlocked`, `...First` and so on, next to the definitions they
replace), under which TLC finds that property violated.

### Where code and documentation disagree

The run `MCMpmcWaitStall` shows one such case; the others are findings of
`PROJECT.json` that need no run of their own. Where a definition states what the
documentation says it is named here: give it to a configuration as INVARIANT or
PROPERTY, with the constants mentioned, and TLC finds the behaviour.

* **Everybody asleep** (`futex.h:14`, `SomebodyAwake`). `futex_wait` treats a
  wake-up with an unchanged word as spurious and sleeps again. But `tail`
  changes when a push claims its ticket, before the element is published and the
  wake-up sent. The program thread that loads `tail` in between fails to pull,
  sleeps, is woken, sees the same `tail` and sleeps on although an operation is
  queued. The next push, if there is room, changes `tail` and rescues it; if the
  queue is full there is no next push, and all threads sleep until a signal
  comes. `NewWorkWakes` says exactly what does hold: no wake-up is lost for a
  ticket claimed after the load.
* **The last bucket gets lost** (`flowtable.c:106`; `AppendsToEnd` with
  `ChainSize = 2`). `ft_init` sets `chain->last` to the last bucket but one. With
  `--chain-size 2` or more (`ntnetflow/README.md` suggests `-a 4`) the first
  append overwrites `chain->last->next`: the former last bucket and its flows
  drop out of the chain.
* **A flow is listed twice** (`flowlearn.c:217` with 553-555; `AddsUnlisted` with
  failing learns). A learn-fail status clears TRACK of a listed flow just when
  the poll thread is about to retry the LEARN. The asserts of `fl_add_poll` say
  this cannot be; the build disables them. A timeout record read before a delayed
  retry is pulled does the same, with learns that succeed. How bad this is
  depends on the adapter. If no flow times out while it is being learned, three
  flows keep their references and links however often they are listed again
  (`MCFlowLearnRough`, whose properties are meant for just this). With
  `EarlyTimeout = TRUE` in that run TLC finds a list that leads back to a flow
  after it was removed, so that it is dropped three times and is polled without a
  reference (`InUseReferenced`).
* **A dropped flow is learned** (`flowlearn.c:374`; `LearnedAreListed` with
  `Prompt = FALSE`). A LEARN is retried because its answer is late; the flow times
  out in between, the record clears TRACK, the poll thread drops the flow, and
  then the second learn reaches the adapter. The flow is in no list any more, so
  nobody probes it, and `fl_deinit` leaves it on the adapter: the exception of
  `LeavesNothing`.
* **Flows never leave the table** (`flowlearn.c:433`, `flowtable.c:256`;
  `DropRemoves`). Every entry starts with one reference and gets a second one
  when it is listed; only the second is ever dropped. As rx learns only flows it
  does not find, such a flow is never learned again.
* **Large process ids** (`flowlearn.c:276`, 181, 321). The tag has 17 bits; a
  process with a larger id ignores all answers to its own commands.
* **Endless probing** (`flowlearn.c:503`; `ProbingEnds`). A probe that was queued
  when the flow timed out marks the flow as tracked again; from then on it is
  probed once per interval, in vain.
* **Start and exit of ntnetflow.** `status`, which `main` returns, is overwritten
  on the way, so most failed starts end with 0 (`ntnetflow.c:104`); the threads'
  creation is tested for a negative result that `pthread_create` never gives
  (`rx.c:103`); `fs_init` leaves its stream open when the first read fails
  (`flowstats.c:45`).
* **filter_daemon.** A missing file is created and the daemon then ends, although
  its README says the user may fill it (`NTFileHandler.cpp:78`); a changed end of
  a range is not noticed (`IPAddress.h:103`).
* **addrswap_replay.** Substitutes whose last octet is 128 or more are not used
  (`addrswap_replay.c:848`; `ReplacesListed`; `Swapped`, which holds, leaves open
  what happens to such addresses); the wait before the port's mode is
  cleared forgets the second of headroom (695; `AwaitsAll`); a file that cannot
  be opened leaves `main` waiting (1008; `Ends`); a failed read of the clock
  counts as success (748).
* **boundary_replay.** `iteration` has a type that does not exist (663), and as
  32 bits its product wraps (`AlwaysInOwnBoundary`); the wait looks at the first
  iteration only (473; `AwaitsAll`); captures in nanoseconds are always too long
  (340); a thread that cannot read the last stamp ends in silence (687); an early
  return of `main` leaves the port's mode on (971).
* **bufferProfile.** Without `-f` the end of an alert writes to a null stream
  (`backlog.cpp:141`; `Survives`); drops in any but the last host buffer of a
  stream raise no alert (`bufferProfile.cpp:394`; `DropsDetected`); rows are
  taken by position, not by stream id (538).

What else the models show and nothing in the repository denies: the program
thread ends on EINTR while the program runs on, and with emulated probes a flow
with TRACK as its only flag is polled and never probed.

## 4. The proofs

Eight modules, for every value of the constants:

| Module | Theorem | Statement |
|---|---|---|
| `MpmcQueueProofs` | `TypeCorrect`, `Invariance` | `Spec => []TypeOK`, `Spec => []IInv` |
| | `CellsAreExclusive`, `QueueIsBounded` | `Spec => []ExclusiveCells`, `Spec => []Bounded` |
| | `PullFailureIsHonest`, `PushFailureIsHonest` | `Spec => PullFailsHonestly`, `Spec => PushFailsHonestly` |
| | `Refinement` | `Spec => ImplementsFifo` |
| | `Invariance32`, `StepsAgree` | `Spec32 => []IInv32`, `Spec32 => StepsAsUnbounded` |
| | `CellsAreExclusive32` | `Spec32 => []ExclusiveCells` |
| `MpmcWaitProofs` | `Invariance`, `WakeUpsAreKept` | `Spec => []IInv`, `Spec => []WaitInv` |
| `FlowTableProofs` | `Invariance`, `TypeCorrect` | `Spec => []IInv`, `Spec => []TypeOK` |
| | `ClaimsKept`, `WalkersKept` | `Spec => []ClaimsAreSafe`, `Spec => []TableInv` |
| | `LiveEntriesFound`, `FlowsHaveOneEntry` | if `ChainSize = 1`: `Spec => []LiveEntriesReachable`, `Spec => []OneEntryPerFlow` |
| | `AppendsLast` | if `ChainSize = 1`: `Spec => AppendsToEnd` |
| `FlowLearnProofs` | `Invariance` | if `Orderly`: `Spec => []LearnInv` |
| | `ListIsRight`, `ReferencesHold`, `InUseIsReferenced` | if `Orderly`: `Spec => []ListInv`, `[]References`, `[]InUseReferenced` |
| | `LinksLeadToFlows` | `Spec => []LinksLead` |
| `LifecycleProofs` | `TypeCorrect`, `Invariance` | the types, and the inductive invariant |
| | `NoUseAfterRelease` | `Spec => []LifeInv` |
| | `AdapterIsLeftClean` | `Spec => []LeavesNothing` |
| `FilterDaemonProofs` | `Invariance` | `Spec => []IInv` |
| | `FiltersAreKnown` | `Spec => []DaemonInv` |
| | `UnchangedLinesStay` | `Spec => KeptUntouched` |
| `ToolProofs` (`AddrSwap`) | `Invariance`, `TreeIsRight` | `Spec => []IInv`, `Spec => []SwapInv` |
| | `PacketsAreSwapped`, `WaitIsLongEnough` | `Spec => []Swapped`, `Spec => WaitsForPackets` |
| `ToolProofs` (`StreamMonitors`) | `MonitorInvariance`, `MonitorTypeCorrect` | `MonitorSpec => []MonitorInv`, `MonitorSpec => []MonitorTypeOK` |
| | `SamplesInOrder`, `AlertHasItsPast` | `MonitorSpec => []WrittenInOrder`, `MonitorSpec => Window` |
| | `RowsShowStreams`, `IndexInBounds` | `MonitorSpec => RowsAreStreams`, `MonitorSpec => InBounds` |
| `BoundaryReplayProofs` | `Invariance`, `PortIsRestored` | `Spec => []IInv`, `Spec => []ReplayInv` |
| | `LeavesInBoundary` | `Spec => []InOwnBoundary` |
| | `StartsAhead`, `FirstIterationHasLeft` | `Spec => BeginsAhead`, `Spec => FirstIterationLeaves` |

**The queue.** From `CapacityAssumption` (at least 2, which the code asserts) and
`NoValueAssumption` (which only separates a marker from the values). Neither
`ExclusiveCells` nor `Bounded` is inductive: from a state in which a sequence
number is wrong, both can be lost in one step. `IInv` adds what every sequence
number means: each ticket from `head` to `tail - 1` is published
(`seq = ticket + 1`) or has a pusher between its two stores (`QueuedTickets`),
each of the next free tickets has its cell freed (`seq = ticket`) or a puller
between its read and its store (`FreeTickets`); owners work on tickets of these
ranges whose cell still has the old number (`PushOwners`, `PullOwners`), no two
have the same ticket (`OneOwner`), and a thread that has not yet claimed anything
has seen a position that is not ahead of the real one (`PushCandidates`,
`PullCandidates`). The arithmetic that it rests on is small and comes first:
`SlotInjective` (two tickets less than a round apart have different cells) and
`SlotShift` (a round later it is the same cell). The step lemmas follow the code:
`PushTakesTicket`, `PullTakesTicket` for the compare-and-exchange,
`PushPublishes`, `PullPublishes` for the stores, `CellsKept` for all that leaves
the cells alone. The other theorems follow from `IInv` without further induction.
TLC checks `IInv` in `MCMpmcQueue`.

**The refinement.** `Tracing` says what `Element` yields under `IInv`: what the
one writer of a ticket holds, or what its cell holds. Then every step is one of
the abstract queue or changes nothing there: `TakesTail` and `TakesHead` are the
two compare-and-exchanges, which append an element and take the first;
`WritesUnseen` is the store of the element, which the abstract queue has had since
the claim; `ReadsWhatItTook` is the read of an element that has left; failing
returns use `PullGivesUp` and `PushGivesUp` of `MpmcQueueProofs`; all others are
`QuietStep`.

**Finite width.** From `WidthAssumption`, `LagAssumption` and `StartAssumption`.
The induction is mutual: a step that compares low bits is a step of the unbounded
queue because sequence numbers are within a round of `head` and `tail`
(`SeqIsClose`, from `IInv`) and positions at most `MaxLag` behind (`Lagging`);
and as it is such a step it keeps `IInv`. `CloseDiff` and `CloseBits` are the two
comparisons of close numbers, `TicketOfCell` says that every cell has a ticket in
every round, which also gives the initial sequence numbers.

**Waiting.** From `WaitAssumption`: finitely many threads, one of which pulls
(the program thread; with a second one a wake-up might go to the wrong sleeper).
`NewWorkWakes` is about one case: a program thread that is asleep in `futex_wait`
with a value of `tail` older than a ticket. Then a pusher is at a step that ends
in the loop of wake-ups (`WillWake`), between its claim and that loop. It says
nothing of a ticket claimed before the load and published after it, whose wake-up
is lost (`SomebodyAwake`), nor of pushers that sleep for room. It tells a thread
at `unlist` that has its ticket from one that gives up, and so is nearly
inductive by itself; what is missing is `Counted`, that the numbers of waiters are
the numbers of threads between their two updates, without which a waker might see
0 and return, and `Spinning`, that a thread which spins has an attempt left.

**The flow table.** From `TableAssumption`. `IInv` has four parts: `Walking`
(who walks holds the chain's lock and is in an allocated bucket), `Linked`
(following a link and its inverse leads back, and the first bucket is never
dynamic), `EntryInv`, of which `Live` and `Held` say that an entry with
references, and one that a thread sets up or takes down, is in use, the latter
without references and with one holder, and `Freeing` that a bucket to be freed
is empty and has one thread to free it. So the claim of an index finds nobody
at that entry (`ClaimStep`), the thread that gives the last entry back is the
only one to flag the bucket (`MarkStep`), and what is freed is nobody's
(`FreeStep`).

The chain is the least set that holds the first bucket and that no link leads
out of, so what is shown of it needs no induction: a set that is closed contains
it (`OnwardLeast`), and it is closed itself (`OnwardClosed`). A walker's bucket
stays in it whatever the initial chain is (`WalkersStep`). More is true
when a chain starts with one bucket, the default of `ntnetflow`: `Connected` says
that `chain->last` is the end and that every allocated bucket is met from the
first, through the append (`AppendConnects`) and the removal
(`RemoveConnects`). With two or more it is false from the start, as the finding on
`flowtable.c:106` says; hence the hypothesis `ChainSize = 1`. `OneEntryPerFlow`
rests on it: an rx thread looks a flow up, finds it in no bucket, gives the lock
up and adds it. `FlowInv` follows the thread: as long as it searches, an entry of
its flow with references would be in a bucket still ahead of it (`SoughtAhead`);
from the end of the chain on there is none (`AddedIsMissing`), because only the
threads of a stream add its flows.

**Learning.** From `LearnAssumption`. The list is right as long as learning does
not fail and no flow times out while it is being learned. `Orderly` says that,
and that an earlier process and this one differ in the tag of their ids; without
these the properties are false, as the findings say. It does not need `Prompt`:
answers may come as late as they like. Lost reports, write errors and both kinds
of probe are included. None of the three properties is inductive, because
whether a LEARN lists its flow depends on TRACK, which another LEARN of the same
flow may just have set. So the argument follows the LEARN as a token: it is in
the poll thread's hand, in the queue once, or `LEARN_PENDING` is set, and
nowhere twice (`LearnOnce`); while it is somewhere, no thread, queue, command or
record has anything else to do with the flow (`LearnAlone`), and the adapter has
not heard of it before it is listed (`ListedFirst`). `Counted` ties the
references to the list and to `Moving`, `Ring` says that the two links are each
other's inverse on the listed flows and that the list is one ring, `Sorted` that
the next one is due no earlier. The list is again a least closed set (`Listed`),
and lemmas about its insertion, removal and turning come before the steps of the
threads.

`LinksLeadToFlows` is what remains true in every configuration, and so after the
list has been broken by a flow listed twice: `fl_poll_main`, `fl_add_poll` and
`fl_remove_poll` never follow a null pointer. Its invariant `AnyInv` says that a
flow with one link has the other, and that both lead to flows with links; nothing
is said of their order. For `InUseReferenced` with failing learns there is only
the run.

**The life of ntnetflow.** From `LifeAssumption` (a finite, non-empty set of rx
threads whose names are not those of the flow threads). `Typed` adds to the types
that a thread about to push or to program has an operation. `Controlled` ties the
labels of `main` to what is open and who may run: it gives `LifeInv`. `Tracked`
says of every flow that the list is broken, or it is listed, or it was dropped, or
it is `Unmet`: neither the adapter nor a record knows it, and no operation that
would make it learned without listing it is anywhere. A LEARN in the queue is no
such operation, because the first one lists its flow; one that `fl_program_main`
is about to write is, and so is a REFRESH. This is why `fl_deinit` finds the
learned flows in the list. `Cleared` says what each label of the teardown has
already removed, unless the call failed or the list is broken. `LeavesNothing`
therefore has three exceptions, each of which the code has: a call of the teardown
that fails, a flow the poll thread dropped (`flowlearn.c:374`), and a broken list
(`flowlearn.c:217`). That `taken` has the right stream ids is an assumption of
`MCLifecycle` which TLC evaluates for every set of used ids (`UnusedIsLowest`).

**The filter daemon.** From `DaemonAssumption`, of which the proof needs that
there is a first second and that an earlier daemon's filters fit on the adapter.
`HoldsAllFilters` compares sets of ids; `Holding` says the same of each id, so
that a step is about one id only. It is not inductive: when a filter is deleted
its id must not be that of another object. `Installed` excludes this, because an
object that holds an id holds that of the filter of its own address, and none of
the static ones; this survives although the adapter hands ids out again.
`Stages` says what the sets of `process` are at each of its steps. `KeptUntouched`
follows from these two. `Complete` (every address has its filter unless one
failed) gives `Synchronised`, and `Seen` is `StaleOnlyWithinSecond` carried
through the steps of an update.

**addrswap_replay.** From `SwapAssumption` (tables and captures are of words, of
which there is an even number). `Shaped` says what a search tree is without
speaking of order: the search for a node's key gets to that node, and the search
for any value ends somewhere. Two searches for one value cannot part
(`SameWay`, with the first place where two paths differ), nor can one go on where
the other ends (`NotBelow`), so `Place` is unique (`PlaceUnique`). `insert` puts
the node where the search ended: it is in nobody's way (`ReachesKept`), and a
search that ended there goes on to one side (`OneFurther`). `Content` then ties
nodes to entries, in both directions, and `TreeIsTable` follows for tables of any
length and order, with duplicates. `Dues` says of every packet that it is due by
the clock or at its stamp plus the offset, which gives the wait.

**boundary_replay.** From `BoundaryAssumption` (units of at least a tick, and what
options and captures look like). `RoundUpBounds` and `StartBounds` are the arithmetic of
`CalcStartTS`; `Checked` what `main` has found out about the capture before it
starts the thread, `Sent` that every packet handed over carries the offset and
the product as they were computed. `InOwnBoundary` follows where the product fits
its type, which is its hypothesis, and `FirstIterationLeaves` where the last
packet of the capture is its latest, because the thread has then read the last
stamp (`LastRead`) and waits for it.

**The monitors.** From `MonitorAssumption` (at least one stream and one entry of
the ring). `WrittenInOrder` and `Window` are not inductive, because they speak of
the output alone. `RingInv` relates it to the ring: after n samples the ring has
the last `NumEntries` of them, sample s in the cell of s - 1 (`RingHas`), what is
marked processed has been written, and what is not is later than everything
written (`OutHas`). Entering a sample keeps the first (`Enter`); going round the
ring from the oldest cell meets the samples in their order (`RoundMeets`), so what
`output` writes goes up from the end of what was written (`UnwrittenIs`,
`WriteOut`). `SearchInv` says that the ids found are the ones the search has
passed, in rising order, that in `hbMonitor` exactly their slots are active up to
there, and that the streams ahead of the search, with those deleted since they
were counted, make up what is still missing (`AheadInv`). The rows follow with
`FoundAreFirst`, the end of the array with `AheadInv`, as no stream is ahead of
it. `InOrder` is a choice by the number of smaller members; `NthExists` says that
there is one, because these numbers differ from member to member and are as many
as the set has members.

`InBounds` counts the streams that were deleted. It would be too much to say that
the index leaves the array only while fewer streams exist than were counted: no
such `AheadInv` is inductive, and with two changes TLC finds the behaviour, one
stream deleted ahead of the search and another created behind it.

The two tools share a proof module, not an argument; it extends both models,
whose names are kept apart.

Every invariant and every action property that a passing run checks is stated by
a theorem. Two kinds of hypothesis occur: the flow table starts with one bucket
per chain, which its run does, too, and learning is `Orderly`, which is the case
in `MCFlowLearn` and not in `MCFlowLearnRough` (its `InUseReferenced` is checked
where learns fail and proved where they do not). Only model-checked are the
liveness properties (`SleeperHearsNewWork`, `WakersReturn`,
`SleeperHearsShutdown`, `EveryFlowPolled`, `StopsOnSignal`, `Converges`,
`EndsOnceReady`, `Ends`, `EndsUnlessLate`), which are out of the prover's reach,
as is `ENABLED`. No theorem speaks of what a recursive definition computes
(`UnusedIsLowest` stays an assumption that TLC evaluates): the definitions the
proofs need are least closed sets, or choices with a unique answer, and where an
argument goes by the first or the least of something it uses the least member of
a set of numbers (`LowestIsIn`, `LeastIn`).

## 5. What is not modelled, and why

* `NT2JSON` and `napa_stat`: each reads statistics once per interval and formats
  them; there is no state that one step could leave wrong for another.
* The vendored argument parser and list macros, and the NTPL scripts.
* Memory ordering weaker than sequential consistency. The queue's acquire and
  release pairs make its model adequate; that the relaxed load of a waiter count
  may be reordered with a preceding release store is listed as a hazard.
* Failure of memory allocation in `ft_add`; the write of `rx_process` through
  the null pointer ends the program.
* The width of the shift `1 << entry->index` (listed as a hazard): with up to 31
  entries per bucket it does not matter.
* `fi_update` and the printed counters: the poll decision takes either outcome of
  the comparison of time stamps. Key layouts and the text of NTPL commands.
* In the monitors the figures of ports, CPU and rates; in the replay tools the
  contents of packets but for addresses and time stamps; in the daemon the
  syntax of an address beyond the forms a line can take.
* Contents of commands, records and messages, verbose and debug output,
  code under `MEMDEBUG`, `LEARNDBG` and `#if 0`.

## 6. What could come next

A store buffer per thread in `MpmcWait`, for the relaxed load of the waiter
counts; a proof of `InUseReferenced` for learning that fails, which has to say
what shape a list has after a second listing; two flows in `MCLifecycle`; the
width of the table's masks. The set of runs is kept at a dozen, so that all of
them can be repeated within minutes.
