--------------------------- MODULE BoundaryReplay ---------------------------
(***************************************************************************)
(* boundary_replay: a capture shorter than a boundary (10 ms) is sent over *)
(* and over, each iteration one boundary later than the one before, on a   *)
(* port that transmits every packet at its time stamp plus an offset.      *)
(* main() checks options, port and file; the thread _ReplayData sends.     *)
(* Times are in the ticks of the adapter's clock (10 ns in the code).      *)
(***************************************************************************)
EXTENDS Integers, Sequences

CONSTANTS Second,      \* ticks of a second
          Boundary,    \* boundary_time
          CounterMod,  \* 2^w: iteration * boundary_time is computed in w bits
          DefaultMod,  \* modFactor when none is given (15 s)
          Options,     \* records [mod, start, delay, loop], None where not given
          Captures,    \* records [nano, nt, segments]: a segment is a
                       \* sequence of time stamps
          None,
          MaxClock, MaxIter  \* bounds: the clock, iterations of an endless loop

ASSUME BoundaryAssumption ==
    /\ Second \in Nat \ {0} /\ Boundary \in Nat \ {0} /\ CounterMod \in Nat \ {0}
    /\ DefaultMod \in Nat \ {0} /\ None \notin Nat
    /\ Options \subseteq [mod : Nat \cup {None}, start : Nat \cup {None}, delay : Nat, loop : Nat]
    /\ Captures \subseteq [nano : BOOLEAN, nt : BOOLEAN, segments : Seq(Seq(Nat) \ {<<>>})]
    /\ MaxClock \in Nat /\ Second <= MaxClock /\ MaxIter \in Nat

VARIABLES opts, capture,     \* command line, capture file
          timed, modFactor,  \* timedTx4GA, -m or its default
          firstTS, lastTS, offset,  \* firstPacketTS, lastPacketTS, adapterTimeOffset
          iteration, pos,    \* of _ReplayData: iteration, segments read in it
          sent,              \* packets handed over: [iter, ts, due]
          onTs, clock,       \* transmit on time stamp, the adapter's clock
          running, ready, code,  \* appRunning, threadReady, ApplExitCode
          mpc, tpc           \* control of main() and of _ReplayData()

inputs == <<opts, capture>>
times == <<firstTS, lastTS, offset>>
replay == <<iteration, pos, sent>>
flags == <<running, ready, code>>
vars == <<inputs, timed, modFactor, times, replay, onTs, clock, flags, mpc, tpc>>

RoundUp(n, unit) == ((n + unit - 1) \div unit) * unit

\* CalcStartTS: up to the next second, one more to be safe, and on to the
\* next multiple of mod seconds.  (...Late forgets the safe second.)
CalcStartTSLate(ts, mod) == RoundUp(RoundUp(ts, Second), mod * Second)
CalcStartTS(ts, mod) == RoundUp(RoundUp(ts, Second) + Second, mod * Second)

\* The stamps as they are in the file: nanoseconds are a tenth of a tick.
Raw(ts) == IF capture.nano THEN 10 * ts ELSE ts
StampsOf(seg) == {Raw(seg[i]) : i \in DOMAIN seg}
Stamps == UNION {StampsOf(capture.segments[s]) : s \in DOMAIN capture.segments}
LastStamp == LET seg == capture.segments[Len(capture.segments)] IN Raw(seg[Len(seg)])

Init ==
    /\ opts \in Options /\ capture \in Captures
    /\ timed = FALSE /\ modFactor = opts.mod
    /\ firstTS = 0 /\ lastTS = 0 /\ offset = 0
    /\ iteration = 0 /\ pos = 0 /\ sent = <<>> /\ onTs = FALSE
    /\ clock \in 0 .. Second /\ running = TRUE /\ ready = FALSE /\ code = "success"
    /\ mpc = "args" /\ tpc = "none"

\* Time counts while packets are on their way; Init has any time of a second.
Tick == tpc \in {"loop", "next", "await"} /\ clock < MaxClock /\ clock' = clock + 1
        /\ UNCHANGED <<inputs, timed, modFactor, times, replay, onTs, flags, mpc, tpc>>

-----------------------------------------------------------------------------
(* main().                                                                 *)

\* -s and -m exclude each other, -m 0 is refused.
Validate ==
    /\ mpc = "args"
    /\ \/ opts.mod # None /\ opts.start # None /\ mpc' = "failed" /\ UNCHANGED modFactor
       \/ opts.mod = 0 /\ mpc' = "failed" /\ UNCHANGED modFactor
       \/ /\ opts.mod = None \/ opts.start = None
          /\ opts.mod # 0 /\ mpc' = "port"
          /\ modFactor' = IF opts.mod = None /\ opts.start = None THEN DefaultMod ELSE opts.mod
    /\ UNCHANGED <<inputs, timed, times, replay, onTs, clock, flags, tpc>>

\* CheckCapabilities, read4GACapabilities: what the adapter can do.
CheckCapabilities ==
    /\ mpc = "port"
    /\ \/ mpc' = "failed" /\ UNCHANGED timed
       \/ mpc' = "file" /\ timed' \in BOOLEAN
    /\ UNCHANGED <<inputs, modFactor, times, replay, onTs, clock, flags, tpc>>

\* GetFileData refuses a capture with a packet that is later than a boundary
\* after the first one; the difference is unsigned.
FirstStamp == Raw(Head(Head(capture.segments))) \div (IF capture.nano THEN 10 ELSE 1)
TooLongNever == FALSE
TooLong == \E ts \in Stamps : ts - FirstStamp \notin 0 .. Boundary
GetFileData ==
    /\ mpc = "file"
    /\ \/ mpc' = "failed" /\ UNCHANGED firstTS
       \/ /\ capture.segments # <<>> /\ firstTS' = FirstStamp
          /\ mpc' = IF TooLong THEN "failed" ELSE "create"
    /\ UNCHANGED <<inputs, timed, modFactor, lastTS, offset, replay, onTs, clock, flags, tpc>>

Create ==
    /\ mpc = "create" /\ mpc' = "wait" /\ tpc' = "open_tx"
    /\ UNCHANGED <<inputs, timed, modFactor, times, replay, onTs, clock, flags>>

\* StopApplication, on SIGINT or SIGTERM.
Interrupt ==
    /\ mpc \in {"wait", "poll", "join"} /\ running /\ running' = FALSE
    /\ UNCHANGED <<inputs, timed, modFactor, times, replay, onTs, clock, ready, code, mpc, tpc>>

\* Waiting for the thread, then reporting until it ends.
WaitReady ==
    /\ \/ mpc = "wait" /\ (~running \/ ready) /\ mpc' = "poll"
       \/ mpc = "poll" /\ ~running /\ mpc' = "join"
    /\ UNCHANGED <<inputs, timed, modFactor, times, replay, onTs, clock, flags, tpc>>

\* main() leaves at once when it cannot read the time for its report.
ReportFails ==
    /\ mpc = "poll" /\ running /\ timed
    /\ mpc' = "failed" /\ running' = FALSE
    /\ UNCHANGED <<inputs, timed, modFactor, times, replay, onTs, clock, ready, code, tpc>>

\* After the join the port is cleared again, whatever the thread did.
JoinKeepsPort ==
    /\ mpc = "join" /\ tpc = "done" /\ mpc' = "exit"
    /\ UNCHANGED <<inputs, timed, modFactor, times, replay, onTs, clock, flags, tpc>>
Join ==
    /\ mpc = "join" /\ tpc = "done"
    /\ \/ mpc' = "exit" /\ onTs' = (onTs /\ ~timed)
       \/ mpc' = "failed" /\ timed /\ onTs' \in {onTs, FALSE}
    /\ UNCHANGED <<inputs, timed, modFactor, times, replay, clock, flags, tpc>>

-----------------------------------------------------------------------------
(* _ReplayData(), as long as main() has not returned.                      *)

At(l) == tpc = l /\ mpc \notin {"exit", "failed"} /\ UNCHANGED <<inputs, timed, modFactor, clock, mpc>>
Go(l) == tpc' = l /\ UNCHANGED flags
Abort(c) == tpc' = "done" /\ running' = FALSE /\ code' = c /\ UNCHANGED ready

\* Opening the transmit stream; without timed transmission only the
\* adapter's own file format can be sent.
OpenTx ==
    /\ At("open_tx")
    /\ \/ Abort("ntapi")
       \/ (timed \/ capture.nt) /\ Go(IF timed THEN "setup" ELSE "open")
    /\ UNCHANGED <<times, replay, onTs>>

\* The stream to configure the port may fail before or after the write.
SetPortTransmitOnTimestamp ==
    \/ onTs' = TRUE /\ Go("open")
    \/ onTs' \in {onTs, TRUE} /\ Abort("ntapi")
ClearPortTransmitOnTimestamp ==
    \/ onTs' = FALSE /\ Abort(code)
    \/ onTs' \in {onTs, FALSE} /\ Abort("ntapi")

\* CalculateOffset, then the port.  A start time in the past is reported and
\* used all the same.
SetupTimed ==
    /\ At("setup")
    /\ \/ /\ offset' = (IF opts.start # None THEN opts.start ELSE CalcStartTS(clock, modFactor)) - firstTS
          /\ SetPortTransmitOnTimestamp
       \/ Abort("ntapi") /\ UNCHANGED <<offset, onTs>>
    /\ UNCHANGED <<firstTS, lastTS, replay>>

OpenFile ==
    /\ At("open")
    /\ \/ Abort("ntapi") /\ UNCHANGED pos
       \/ tpc' = "loop" /\ ready' = TRUE /\ pos' = 0 /\ UNCHANGED <<running, code>>
    /\ UNCHANGED <<times, iteration, sent, onTs>>

\* The stamp a packet gets: iteration * boundary_time in CounterMod.
StampDrifts(ts) == ts - opts.delay + ((iteration * (Boundary + 1)) % CounterMod)
Stamp(ts) == ts - opts.delay + ((iteration * Boundary) % CounterMod)

\* A segment read, stamped and released to the port; a failure ends the
\* thread before or after that.
ReplaySegment ==
    /\ At("loop") /\ running /\ pos < Len(capture.segments)
    /\ \/ /\ sent' = sent \o [i \in DOMAIN capture.segments[pos + 1] |->
                 LET ts == Raw(capture.segments[pos + 1][i])
                 IN [iter |-> iteration, ts |-> ts, due |-> Stamp(ts) + offset]]
          /\ pos' = pos + 1
          /\ Go("loop") \/ Abort("ntapi")
       \/ Abort("ntapi") /\ UNCHANGED <<pos, sent>>
    /\ UNCHANGED <<times, iteration, onTs>>

\* End of the file; when its last stamp cannot be read the thread ends
\* without a word to main().
EndOfFile ==
    /\ At("loop") /\ running /\ pos = Len(capture.segments)
    /\ \/ lastTS' = LastStamp /\ Go("next")
       \/ tpc' = "done" /\ code' = "ntapi" /\ UNCHANGED <<running, ready, lastTS>>
    /\ UNCHANGED <<firstTS, offset, replay, onTs>>

\* Stopped between two segments or while waiting for room to transmit.
StopReplay ==
    /\ At("loop") /\ ~running /\ Go("next")
    /\ UNCHANGED <<times, replay, onTs>>

\* The condition of the loop over iterations.
AgainAlways == running
Again == running /\ (opts.loop = 0 \/ iteration + 1 < opts.loop)
NextIteration ==
    /\ At("next") /\ (Again => iteration < MaxIter)
    /\ iteration' = iteration + 1
    /\ Go(IF Again THEN "open" ELSE IF timed THEN "await" ELSE "close")
    /\ UNCHANGED <<times, pos, sent, onTs>>

\* AwaitPacketTransmission.  The time of the last packet is that of the
\* first iteration.
StopTimeFirst == firstTS + offset
StopTime == lastTS + offset
Await ==
    /\ At("await") /\ (~running \/ clock > StopTime) /\ Go("clear")
    /\ UNCHANGED <<times, replay, onTs>>
AwaitFails ==
    /\ At("await") /\ running /\ Go("clear")
    /\ UNCHANGED <<times, replay, onTs>>

Close ==
    /\ \/ At("clear") /\ ClearPortTransmitOnTimestamp
       \/ At("close") /\ Abort(code) /\ UNCHANGED onTs
    /\ UNCHANGED <<times, replay>>

Main == Validate \/ CheckCapabilities \/ GetFileData \/ Create \/ WaitReady \/ Join
Replay == OpenTx \/ SetupTimed \/ OpenFile \/ ReplaySegment \/ EndOfFile \/ StopReplay
          \/ NextIteration \/ Close
Next == Tick \/ Interrupt \/ ReportFails \/ Main \/ Replay \/ Await \/ AwaitFails

\* Neither thread blocks for ever in a call, and the clock runs.
Spec == Init /\ [][Next]_vars /\ WF_vars(Main) /\ WF_vars(Replay) /\ WF_vars(Await) /\ WF_vars(Tick)

-----------------------------------------------------------------------------
\* Types of the counters and the control.
TypeOK ==
    /\ firstTS \in Nat /\ lastTS \in Nat /\ offset \in Int /\ clock \in 0 .. MaxClock
    /\ iteration \in 0 .. MaxIter + 1 /\ pos \in 0 .. Len(capture.segments)
    /\ \A i \in DOMAIN sent : sent[i].iter \in 0 .. MaxIter /\ sent[i].due \in Int
    /\ timed \in BOOLEAN /\ onTs \in BOOLEAN /\ running \in BOOLEAN /\ ready \in BOOLEAN
    /\ code \in {"success", "ntapi"}
    /\ mpc \in {"args", "port", "file", "create", "wait", "poll", "join", "exit", "failed"}
    /\ tpc \in {"none", "open_tx", "setup", "open", "loop", "next", "await", "clear", "close", "done"}

\* Every packet leaves within the boundary of its iteration (the last at its
\* end), at the distance from its start that it has in the capture, as long
\* as the product of iteration and boundary fits its type.
InOwnBoundary ==
    \A i \in DOMAIN sent :
        LET start == firstTS + offset + sent[i].iter * Boundary - opts.delay
        IN timed /\ sent[i].iter * Boundary < CounterMod =>
             /\ sent[i].due \in start .. start + Boundary
             /\ sent[i].due - start = sent[i].ts - firstTS

\* What the README says, without the proviso.
AlwaysInOwnBoundary ==
    \A i \in DOMAIN sent :
        LET start == firstTS + offset + sent[i].iter * Boundary - opts.delay
        IN timed => sent[i].due \in start .. start + Boundary

\* Without a start time the first packet is due on a multiple of the modulus
\* factor, a full second or more after the port is set up, and no later than
\* that requires.
BeginsAhead ==
    [][tpc = "setup" /\ tpc' = "open" /\ opts.start = None =>
         LET begin == firstTS + offset'
         IN /\ begin % (modFactor * Second) = 0
            /\ begin >= clock + Second
            /\ begin - modFactor * Second < clock + 2 * Second]_vars

\* When nothing failed and nobody stopped it, the mode is turned off only
\* after the packets of the first iteration have left, if no packet of the
\* capture is later than the last one.
FirstIterationLeaves ==
    [][tpc = "await" /\ tpc' = "clear" /\ running /\ clock > StopTime =>
         ((\A ts \in Stamps : ts <= LastStamp) =>
            \A i \in DOMAIN sent : sent[i].iter = 0 => sent[i].due < clock)]_vars

\* The comment on AwaitPacketTransmission: all of them.
AwaitsAll ==
    [][tpc = "await" /\ tpc' = "clear" /\ running /\ clock > StopTime =>
         \A i \in DOMAIN sent : sent[i].due < clock]_vars

\* The program does not end with the port in transmit-on-timestamp mode,
\* except by a failure that main() reports.
PortRestored == mpc = "exit" => ~onTs

ReplayInv == TypeOK /\ PortRestored

\* A replay with a limit, or one that was stopped, ends; but a thread that
\* could not read the last time stamp leaves main() waiting.
Ended == mpc \in {"exit", "failed"} \/ (tpc = "done" /\ running)
Ends == (opts.loop # 0 \/ ~running) ~> Ended
=============================================================================
