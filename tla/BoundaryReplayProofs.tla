------------------------ MODULE BoundaryReplayProofs ------------------------
(***************************************************************************)
(* Proofs about boundary_replay: types, the port's mode at the end, the    *)
(* boundary every packet leaves in, the start that is a second ahead and   *)
(* the wait for the packets of the first iteration; for every capture,     *)
(* command line, length of a boundary and width of the counter.            *)
(***************************************************************************)
EXTENDS BoundaryReplay, SequenceTheorems, TLAPS

\* What a packet of the capture looks like once it is handed over.
Packets == {p \in [iter : 0 .. MaxIter, ts : Stamps, due : Int] :
              p.due = p.ts - opts.delay + ((p.iter * Boundary) % CounterMod) + offset}

\* main() has checked the capture.
Checked ==
    /\ capture.segments # <<>> /\ firstTS = FirstStamp /\ ~TooLong

Inputs == opts \in Options /\ capture \in Captures
Control ==
    /\ tpc # "none" => mpc \in {"wait", "poll", "join", "exit", "failed"}
    /\ (tpc # "none" \/ mpc = "create") => Checked
    /\ tpc = "setup" => timed
    /\ onTs => timed /\ tpc # "none"
Factor == opts.start = None /\ mpc \notin {"args", "failed"} => modFactor \in Nat \ {0}
Counted == iteration <= MaxIter \/ tpc \in {"await", "clear", "close", "done"}
Sent == sent \in Seq(Packets) /\ (tpc \in {"none", "open_tx", "setup"} => sent = <<>>)
LastRead == tpc \in {"next", "await"} /\ running => lastTS = LastStamp

IInv == ReplayInv /\ Inputs /\ Control /\ Factor /\ Counted /\ Sent /\ LastRead

-----------------------------------------------------------------------------
(* The arithmetic of the start time.                                       *)

\* RoundUp goes to the next multiple, and no further.
LEMMA RoundUpBounds ==
    ASSUME NEW n \in Nat, NEW u \in Nat \ {0}
    PROVE  /\ RoundUp(n, u) \in Nat /\ RoundUp(n, u) % u = 0
           /\ n <= RoundUp(n, u) /\ RoundUp(n, u) < n + u
<1> DEFINE q == (n + u - 1) \div u
<1>1. q \in Nat /\ u * q <= n + u - 1 /\ n + u - 1 < u * q + u
  BY SMTT(30)
<1>2. RoundUp(n, u) = q * u
  BY DEF RoundUp
<1>3. q * u = u * q /\ q * u \in Nat
  BY <1>1, SMTT(30)
<1>4. (q * u) % u = 0
  BY <1>1, SMTT(30)
<1> HIDE DEF q
<1> QED
  BY <1>1, <1>2, <1>3, <1>4

\* A number below the modulus is its own remainder.
LEMMA ModSmall ==
    ASSUME NEW n \in Nat, NEW m \in Nat \ {0}, n < m
    PROVE  n % m = n
BY SMTT(30)

\* The start is on a multiple of the modulus, a full second ahead and no
\* later than that takes.
LEMMA StartBounds ==
    ASSUME NEW ts \in Nat, NEW mod \in Nat \ {0}
    PROVE  /\ CalcStartTS(ts, mod) \in Nat
           /\ CalcStartTS(ts, mod) % (mod * Second) = 0
           /\ CalcStartTS(ts, mod) >= ts + Second
           /\ CalcStartTS(ts, mod) - mod * Second < ts + 2 * Second
<1>1. Second \in Nat \ {0}
  BY BoundaryAssumption
<1>2. mod * Second \in Nat \ {0}
  BY <1>1, SMTT(30)
<1>3. /\ RoundUp(ts, Second) \in Nat
      /\ ts <= RoundUp(ts, Second) /\ RoundUp(ts, Second) < ts + Second
  BY <1>1, RoundUpBounds
<1> DEFINE n == RoundUp(ts, Second) + Second
           u == mod * Second
<1>4. n \in Nat /\ n >= ts + Second /\ n < ts + 2 * Second
  BY <1>1, <1>3
<1>5. /\ RoundUp(n, u) \in Nat /\ RoundUp(n, u) % u = 0
      /\ n <= RoundUp(n, u) /\ RoundUp(n, u) < n + u
  BY <1>2, <1>4, RoundUpBounds
<1>6. CalcStartTS(ts, mod) = RoundUp(n, u)
  BY DEF CalcStartTS
<1>7. u \in Nat
  BY <1>2
<1> HIDE DEF n, u
<1>8. /\ RoundUp(n, u) >= ts + Second
      /\ RoundUp(n, u) - u < ts + 2 * Second
  BY <1>1, <1>4, <1>5, <1>7
<1> QED
  BY <1>5, <1>6, <1>8 DEF u

-----------------------------------------------------------------------------
(* The stamps of a capture.                                                *)

\* What the constants promise of the options and the capture.
LEMMA CaptureTypes ==
    ASSUME Inputs
    PROVE  /\ opts \in [mod : Nat \cup {None}, start : Nat \cup {None}, delay : Nat, loop : Nat]
           /\ capture \in [nano : BOOLEAN, nt : BOOLEAN, segments : Seq(Seq(Nat) \ {<<>>})]
BY BoundaryAssumption DEF Inputs

\* Stamps are numbers, and those of a segment are stamps of the capture.
LEMMA StampTypes ==
    ASSUME Inputs
    PROVE  /\ \A ts \in Nat : Raw(ts) \in Nat
           /\ Stamps \subseteq Nat
           /\ \A s \in DOMAIN capture.segments : \A i \in DOMAIN capture.segments[s] :
                Raw(capture.segments[s][i]) \in Stamps
<1>1. \A s \in DOMAIN capture.segments : capture.segments[s] \in Seq(Nat)
  BY CaptureTypes
<1>2. \A ts \in Nat : Raw(ts) \in Nat
  BY DEF Raw
<1>3. \A s \in DOMAIN capture.segments : StampsOf(capture.segments[s]) \subseteq Nat
  BY <1>1, <1>2 DEF StampsOf
<1> QED
  BY <1>2, <1>3 DEF Stamps, StampsOf

\* A capture that is not empty has a first and a last stamp.
LEMMA EndsTypes ==
    ASSUME Inputs, capture.segments # <<>>
    PROVE  FirstStamp \in Nat /\ LastStamp \in Nat
<1> DEFINE segs == capture.segments
<1>1. segs \in Seq(Seq(Nat) \ {<<>>}) /\ Len(segs) \in Nat \ {0}
  BY CaptureTypes
<1>2. Head(segs) \in Seq(Nat) \ {<<>>} /\ segs[Len(segs)] \in Seq(Nat) \ {<<>>}
  BY <1>1
<1>3. \A seg \in Seq(Nat) \ {<<>>} : Head(seg) \in Nat /\ seg[Len(seg)] \in Nat
  OBVIOUS
<1>4. Raw(Head(Head(segs))) \in Nat /\ LastStamp \in Nat
  BY <1>2, <1>3, StampTypes DEF LastStamp
<1>5. FirstStamp \in Nat
  BY <1>4 DEF FirstStamp
<1> QED
  BY <1>4, <1>5

-----------------------------------------------------------------------------
(* The invariant.                                                          *)

\* The invariant holds at the start.
LEMMA InitIInv == Init => IInv
<1> SUFFICES ASSUME Init PROVE IInv
  OBVIOUS
<1>1. Inputs
  BY DEF Init, Inputs
<1>2. ReplayInv
  <2>1. capture.segments \in Seq(Seq(Nat) \ {<<>>})
    BY <1>1, CaptureTypes
  <2>2. Len(capture.segments) \in Nat
    BY <2>1
  <2>3. \A i \in DOMAIN sent : sent[i].iter \in 0 .. MaxIter /\ sent[i].due \in Int
    BY DEF Init
  <2>4. /\ clock \in 0 .. MaxClock /\ iteration \in 0 .. MaxIter + 1
        /\ pos \in 0 .. Len(capture.segments)
    BY <2>2, BoundaryAssumption DEF Init
  <2>5. firstTS \in Nat /\ lastTS \in Nat /\ offset \in Int
    BY DEF Init
  <2>6. /\ timed \in BOOLEAN /\ onTs \in BOOLEAN /\ running \in BOOLEAN /\ ready \in BOOLEAN
        /\ code \in {"success", "ntapi"} /\ mpc = "args" /\ tpc = "none"
    BY DEF Init
  <2> QED
    BY <2>3, <2>4, <2>5, <2>6 DEF ReplayInv, TypeOK, PortRestored
<1>3. Control /\ Factor /\ Sent /\ LastRead
  BY DEF Init, Control, Factor, Sent, LastRead
<1>4. Counted
  BY BoundaryAssumption DEF Init, Counted
<1> QED
  BY <1>1, <1>2, <1>3, <1>4 DEF IInv

\* Nobody writes the options and the capture, and what hangs on them.
LEMMA InputsKept ==
    ASSUME IInv, [Next]_vars
    PROVE  /\ opts' = opts /\ capture' = capture /\ Inputs'
           /\ Stamps' = Stamps /\ FirstStamp' = FirstStamp /\ LastStamp' = LastStamp
<1>1. opts' = opts /\ capture' = capture
  BY DEF Next, Main, Replay, Tick, Interrupt, ReportFails, Validate, CheckCapabilities,
         GetFileData, Create, WaitReady, Join, OpenTx, SetupTimed, OpenFile, ReplaySegment,
         EndOfFile, StopReplay, NextIteration, Close, Await, AwaitFails, At, vars, inputs
<1> QED
  BY <1>1 DEF IInv, Inputs, Stamps, StampsOf, FirstStamp, LastStamp, Raw

\* When the capture, its first stamp and the offset stay, so does what a
\* packet may look like.
LEMMA PacketsKept ==
    ASSUME opts' = opts, Stamps' = Stamps, offset' = offset
    PROVE  Packets' = Packets
BY DEF Packets

\* A capture that was found short enough stays so.
LEMMA CheckedKept ==
    ASSUME IInv, [Next]_vars, Checked, firstTS' = firstTS
    PROVE  Checked'
BY InputsKept DEF Checked, TooLong

\* What IInv says of the packets includes what TypeOK says of them.
LEMMA PacketTypes ==
    ASSUME sent \in Seq(Packets)
    PROVE  /\ \A i \in DOMAIN sent : sent[i].iter \in 0 .. MaxIter /\ sent[i].due \in Int
           /\ \A i \in DOMAIN sent : sent[i] \in Packets
<1>1. \A i \in DOMAIN sent : sent[i] \in Packets
  OBVIOUS
<1> QED
  BY <1>1 DEF Packets

\* The modulus factor is positive once the options are accepted.
LEMMA ValidateKeeps == IInv /\ Validate => IInv'
<1> SUFFICES ASSUME IInv, Validate PROVE IInv'
  OBVIOUS
<1>1. Inputs' /\ UNCHANGED <<opts, capture, Stamps>>
  BY InputsKept DEF Next, Main
<1>2. Packets' = Packets
  BY <1>1, PacketsKept DEF Validate, times
<1>3. tpc = "none" /\ tpc' = tpc /\ mpc' \in {"failed", "port"}
  BY DEF Validate, IInv, Control
<1>4. ReplayInv'
  BY <1>1, <1>3
    DEF Validate, IInv, ReplayInv, TypeOK, PortRestored, times, replay, flags
<1>5. Control' /\ Counted' /\ Sent' /\ LastRead'
  BY <1>1, <1>2, <1>3
    DEF Validate, IInv, Control, Counted, Sent, LastRead, times, replay, flags
<1>6. Factor'
  BY <1>1, CaptureTypes, BoundaryAssumption DEF Validate, IInv, Factor
<1> QED
  BY <1>1, <1>4, <1>5, <1>6 DEF IInv

\* Time goes on up to its bound.
LEMMA TickKeeps == IInv /\ Tick => IInv'
<1> SUFFICES ASSUME IInv, Tick PROVE IInv'
  OBVIOUS
<1>1. Inputs' /\ UNCHANGED <<opts, capture, Stamps, FirstStamp, LastStamp>>
  BY InputsKept DEF Next, Main, Replay
<1>2. Packets' = Packets /\ UNCHANGED <<firstTS, offset, sent>>
  BY <1>1, PacketsKept DEF Tick, times, replay, flags
<1>3. Checked => Checked'
  BY <1>2, CheckedKept DEF Next, Main, Replay
<1>4. ReplayInv'
  BY <1>1, <1>2, BoundaryAssumption
  DEF Tick, times, replay, flags, IInv, ReplayInv, TypeOK, PortRestored, Control
<1>5. Control'
  BY <1>1, <1>2, <1>3 DEF Tick, times, replay, flags, IInv, Control
<1>6. Factor'
  BY <1>1 DEF Tick, times, replay, flags, IInv, Factor, Control
<1>7. Counted' /\ Sent' /\ LastRead'
  BY <1>1, <1>2 DEF Tick, times, replay, flags, IInv, Control, Counted, Sent, LastRead
<1> QED
  BY <1>1, <1>4, <1>5, <1>6, <1>7 DEF IInv

\* Ctrl-C clears running, which only weakens what is to be shown.
LEMMA InterruptKeeps == IInv /\ Interrupt => IInv'
<1> SUFFICES ASSUME IInv, Interrupt PROVE IInv'
  OBVIOUS
<1>1. Inputs' /\ UNCHANGED <<opts, capture, Stamps, FirstStamp, LastStamp>>
  BY InputsKept DEF Next, Main, Replay
<1>2. Packets' = Packets /\ UNCHANGED <<firstTS, offset, sent>>
  BY <1>1, PacketsKept DEF Interrupt, times, replay, flags
<1>3. Checked => Checked'
  BY <1>2, CheckedKept DEF Next, Main, Replay
<1>4. ReplayInv'
  BY <1>1, <1>2
    DEF Interrupt, times, replay, flags, IInv, ReplayInv, TypeOK, PortRestored, Control
<1>5. Control'
  BY <1>1, <1>2, <1>3 DEF Interrupt, times, replay, flags, IInv, Control
<1>6. Factor'
  BY <1>1 DEF Interrupt, times, replay, flags, IInv, Factor, Control
<1>7. Counted' /\ Sent' /\ LastRead'
  BY <1>1, <1>2
    DEF Interrupt, times, replay, flags, IInv, Control, Counted, Sent, LastRead
<1> QED
  BY <1>1, <1>4, <1>5, <1>6, <1>7 DEF IInv

\* main() leaves while the thread is under way.
LEMMA ReportFailsKeeps == IInv /\ ReportFails => IInv'
<1> SUFFICES ASSUME IInv, ReportFails PROVE IInv'
  OBVIOUS
<1>1. Inputs' /\ UNCHANGED <<opts, capture, Stamps, FirstStamp, LastStamp>>
  BY InputsKept DEF Next, Main, Replay
<1>2. Packets' = Packets /\ UNCHANGED <<firstTS, offset, sent>>
  BY <1>1, PacketsKept DEF ReportFails, times, replay, flags
<1>3. Checked => Checked'
  BY <1>2, CheckedKept DEF Next, Main, Replay
<1>4. ReplayInv'
  BY <1>1, <1>2
    DEF ReportFails, times, replay, flags, IInv, ReplayInv, TypeOK, PortRestored, Control
<1>5. Control'
  BY <1>1, <1>2, <1>3 DEF ReportFails, times, replay, flags, IInv, Control
<1>6. Factor'
  BY <1>1 DEF ReportFails, times, replay, flags, IInv, Factor, Control
<1>7. Counted' /\ Sent' /\ LastRead'
  BY <1>1, <1>2
    DEF ReportFails, times, replay, flags, IInv, Control, Counted, Sent, LastRead
<1> QED
  BY <1>1, <1>4, <1>5, <1>6, <1>7 DEF IInv

\* timed is set before there is a thread.
LEMMA CheckCapabilitiesKeeps == IInv /\ CheckCapabilities => IInv'
<1> SUFFICES ASSUME IInv, CheckCapabilities PROVE IInv'
  OBVIOUS
<1>1. Inputs' /\ UNCHANGED <<opts, capture, Stamps, FirstStamp, LastStamp>>
  BY InputsKept DEF Next, Main, Replay
<1>2. Packets' = Packets /\ UNCHANGED <<firstTS, offset, sent>>
  BY <1>1, PacketsKept DEF CheckCapabilities, times, replay, flags
<1>3. Checked => Checked'
  BY <1>2, CheckedKept DEF Next, Main, Replay
<1>4. ReplayInv'
  BY <1>1, <1>2
    DEF CheckCapabilities, times, replay, flags, IInv, ReplayInv, TypeOK, PortRestored, Control
<1>5. Control'
  BY <1>1, <1>2, <1>3 DEF CheckCapabilities, times, replay, flags, IInv, Control
<1>6. Factor'
  BY <1>1 DEF CheckCapabilities, times, replay, flags, IInv, Factor, Control
<1>7. Counted' /\ Sent' /\ LastRead'
  BY <1>1, <1>2
    DEF CheckCapabilities, times, replay, flags, IInv, Control, Counted, Sent, LastRead
<1> QED
  BY <1>1, <1>4, <1>5, <1>6, <1>7 DEF IInv

\* The thread starts with a checked capture.
LEMMA CreateKeeps == IInv /\ Create => IInv'
<1> SUFFICES ASSUME IInv, Create PROVE IInv'
  OBVIOUS
<1>1. Inputs' /\ UNCHANGED <<opts, capture, Stamps, FirstStamp, LastStamp>>
  BY InputsKept DEF Next, Main, Replay
<1>2. Packets' = Packets /\ UNCHANGED <<firstTS, offset, sent>>
  BY <1>1, PacketsKept DEF Create, times, replay, flags
<1>3. Checked => Checked'
  BY <1>2, CheckedKept DEF Next, Main, Replay
<1>4. ReplayInv'
  BY <1>1, <1>2
    DEF Create, times, replay, flags, IInv, ReplayInv, TypeOK, PortRestored, Control
<1>5. Control'
  BY <1>1, <1>2, <1>3 DEF Create, times, replay, flags, IInv, Control
<1>6. Factor'
  BY <1>1 DEF Create, times, replay, flags, IInv, Factor, Control
<1>7. Counted' /\ Sent' /\ LastRead'
  BY <1>1, <1>2 DEF Create, times, replay, flags, IInv, Control, Counted, Sent, LastRead
<1> QED
  BY <1>1, <1>4, <1>5, <1>6, <1>7 DEF IInv

\* main() waits for the thread, and for the end.
LEMMA WaitReadyKeeps == IInv /\ WaitReady => IInv'
<1> SUFFICES ASSUME IInv, WaitReady PROVE IInv'
  OBVIOUS
<1>1. Inputs' /\ UNCHANGED <<opts, capture, Stamps, FirstStamp, LastStamp>>
  BY InputsKept DEF Next, Main, Replay
<1>2. Packets' = Packets /\ UNCHANGED <<firstTS, offset, sent>>
  BY <1>1, PacketsKept DEF WaitReady, times, replay, flags
<1>3. Checked => Checked'
  BY <1>2, CheckedKept DEF Next, Main, Replay
<1>4. ReplayInv'
  BY <1>1, <1>2
    DEF WaitReady, times, replay, flags, IInv, ReplayInv, TypeOK, PortRestored, Control
<1>5. Control'
  BY <1>1, <1>2, <1>3 DEF WaitReady, times, replay, flags, IInv, Control
<1>6. Factor'
  BY <1>1 DEF WaitReady, times, replay, flags, IInv, Factor, Control
<1>7. Counted' /\ Sent' /\ LastRead'
  BY <1>1, <1>2
    DEF WaitReady, times, replay, flags, IInv, Control, Counted, Sent, LastRead
<1> QED
  BY <1>1, <1>4, <1>5, <1>6, <1>7 DEF IInv

\* The port is cleared if it was ever set: onTs implies timed.
LEMMA JoinKeeps == IInv /\ Join => IInv'
<1> SUFFICES ASSUME IInv, Join PROVE IInv'
  OBVIOUS
<1>1. Inputs' /\ UNCHANGED <<opts, capture, Stamps, FirstStamp, LastStamp>>
  BY InputsKept DEF Next, Main, Replay
<1>2. Packets' = Packets /\ UNCHANGED <<firstTS, offset, sent>>
  BY <1>1, PacketsKept DEF Join, times, replay, flags
<1>3. Checked => Checked'
  BY <1>2, CheckedKept DEF Next, Main, Replay
<1>4. ReplayInv'
  BY <1>1, <1>2
    DEF Join, times, replay, flags, IInv, ReplayInv, TypeOK, PortRestored, Control
<1>5. Control'
  BY <1>1, <1>2, <1>3 DEF Join, times, replay, flags, IInv, Control
<1>6. Factor'
  BY <1>1 DEF Join, times, replay, flags, IInv, Factor, Control
<1>7. Counted' /\ Sent' /\ LastRead'
  BY <1>1, <1>2 DEF Join, times, replay, flags, IInv, Control, Counted, Sent, LastRead
<1> QED
  BY <1>1, <1>4, <1>5, <1>6, <1>7 DEF IInv

\* The thread sets up the port only when timed.
LEMMA OpenTxKeeps == IInv /\ OpenTx => IInv'
<1> SUFFICES ASSUME IInv, OpenTx PROVE IInv'
  OBVIOUS
<1>1. Inputs' /\ UNCHANGED <<opts, capture, Stamps, FirstStamp, LastStamp>>
  BY InputsKept DEF Next, Main, Replay
<1>2. Packets' = Packets /\ UNCHANGED <<firstTS, offset, sent>>
  BY <1>1, PacketsKept DEF OpenTx, At, Go, Abort, times, replay, flags, inputs
<1>3. Checked => Checked'
  BY <1>2, CheckedKept DEF Next, Main, Replay
<1>4. ReplayInv'
  BY <1>1, <1>2
    DEF OpenTx, At, Go, Abort, times, replay, flags, inputs, IInv, ReplayInv, TypeOK, PortRestored, Control
<1>5. Control'
  BY <1>1, <1>2, <1>3
    DEF OpenTx, At, Go, Abort, times, replay, flags, inputs, IInv, Control
<1>6. Factor'
  BY <1>1 DEF OpenTx, At, Go, Abort, times, replay, flags, inputs, IInv, Factor, Control
<1>7. Counted' /\ Sent' /\ LastRead'
  BY <1>1, <1>2
    DEF OpenTx, At, Go, Abort, times, replay, flags, inputs, IInv, Control, Counted, Sent, LastRead
<1> QED
  BY <1>1, <1>4, <1>5, <1>6, <1>7 DEF IInv

\* A stopped iteration need not have read the last stamp.
LEMMA StopReplayKeeps == IInv /\ StopReplay => IInv'
<1> SUFFICES ASSUME IInv, StopReplay PROVE IInv'
  OBVIOUS
<1>1. Inputs' /\ UNCHANGED <<opts, capture, Stamps, FirstStamp, LastStamp>>
  BY InputsKept DEF Next, Main, Replay
<1>2. Packets' = Packets /\ UNCHANGED <<firstTS, offset, sent>>
  BY <1>1, PacketsKept DEF StopReplay, At, Go, Abort, times, replay, flags, inputs
<1>3. Checked => Checked'
  BY <1>2, CheckedKept DEF Next, Main, Replay
<1>4. ReplayInv'
  BY <1>1, <1>2
    DEF StopReplay, At, Go, Abort, times, replay, flags, inputs, IInv, ReplayInv, TypeOK, PortRestored, Control
<1>5. Control'
  BY <1>1, <1>2, <1>3
    DEF StopReplay, At, Go, Abort, times, replay, flags, inputs, IInv, Control
<1>6. Factor'
  BY <1>1
    DEF StopReplay, At, Go, Abort, times, replay, flags, inputs, IInv, Factor, Control
<1>7. Counted' /\ Sent' /\ LastRead'
  BY <1>1, <1>2
    DEF StopReplay, At, Go, Abort, times, replay, flags, inputs, IInv, Control, Counted, Sent, LastRead
<1> QED
  BY <1>1, <1>4, <1>5, <1>6, <1>7 DEF IInv

\* The wait ends.
LEMMA AwaitKeeps == IInv /\ Await => IInv'
<1> SUFFICES ASSUME IInv, Await PROVE IInv'
  OBVIOUS
<1>1. Inputs' /\ UNCHANGED <<opts, capture, Stamps, FirstStamp, LastStamp>>
  BY InputsKept DEF Next, Main, Replay
<1>2. Packets' = Packets /\ UNCHANGED <<firstTS, offset, sent>>
  BY <1>1, PacketsKept DEF Await, At, Go, times, replay, flags, inputs
<1>3. Checked => Checked'
  BY <1>2, CheckedKept DEF Next, Main, Replay
<1>4. ReplayInv'
  BY <1>1, <1>2
    DEF Await, At, Go, times, replay, flags, inputs, IInv, ReplayInv, TypeOK, PortRestored, Control
<1>5. Control'
  BY <1>1, <1>2, <1>3 DEF Await, At, Go, times, replay, flags, inputs, IInv, Control
<1>6. Factor'
  BY <1>1 DEF Await, At, Go, times, replay, flags, inputs, IInv, Factor, Control
<1>7. Counted' /\ Sent' /\ LastRead'
  BY <1>1, <1>2
    DEF Await, At, Go, times, replay, flags, inputs, IInv, Control, Counted, Sent, LastRead
<1> QED
  BY <1>1, <1>4, <1>5, <1>6, <1>7 DEF IInv

\* The wait fails.
LEMMA AwaitFailsKeeps == IInv /\ AwaitFails => IInv'
<1> SUFFICES ASSUME IInv, AwaitFails PROVE IInv'
  OBVIOUS
<1>1. Inputs' /\ UNCHANGED <<opts, capture, Stamps, FirstStamp, LastStamp>>
  BY InputsKept DEF Next, Main, Replay
<1>2. Packets' = Packets /\ UNCHANGED <<firstTS, offset, sent>>
  BY <1>1, PacketsKept DEF AwaitFails, At, Go, times, replay, flags, inputs
<1>3. Checked => Checked'
  BY <1>2, CheckedKept DEF Next, Main, Replay
<1>4. ReplayInv'
  BY <1>1, <1>2
    DEF AwaitFails, At, Go, times, replay, flags, inputs, IInv, ReplayInv, TypeOK, PortRestored, Control
<1>5. Control'
  BY <1>1, <1>2, <1>3
    DEF AwaitFails, At, Go, times, replay, flags, inputs, IInv, Control
<1>6. Factor'
  BY <1>1 DEF AwaitFails, At, Go, times, replay, flags, inputs, IInv, Factor, Control
<1>7. Counted' /\ Sent' /\ LastRead'
  BY <1>1, <1>2
    DEF AwaitFails, At, Go, times, replay, flags, inputs, IInv, Control, Counted, Sent, LastRead
<1> QED
  BY <1>1, <1>4, <1>5, <1>6, <1>7 DEF IInv

\* The mode is turned off, or stays as it was.
LEMMA CloseKeeps == IInv /\ Close => IInv'
<1> SUFFICES ASSUME IInv, Close PROVE IInv'
  OBVIOUS
<1>1. Inputs' /\ UNCHANGED <<opts, capture, Stamps, FirstStamp, LastStamp>>
  BY InputsKept DEF Next, Main, Replay
<1>2. Packets' = Packets /\ UNCHANGED <<firstTS, offset, sent>>
  BY <1>1, PacketsKept
    DEF Close, ClearPortTransmitOnTimestamp, At, Go, Abort, times, replay, flags, inputs
<1>3. Checked => Checked'
  BY <1>2, CheckedKept DEF Next, Main, Replay
<1>4. ReplayInv'
  BY <1>1, <1>2
    DEF Close, ClearPortTransmitOnTimestamp, At, Go, Abort, times, replay, flags, inputs, IInv, ReplayInv, TypeOK, PortRestored, Control
<1>5. Control'
  <2>1. tpc' = "done" /\ tpc # "none" /\ UNCHANGED <<timed, mpc>>
    BY DEF Close, ClearPortTransmitOnTimestamp, At, Abort
  <2>2. onTs' = FALSE \/ onTs' = onTs
    BY DEF Close, ClearPortTransmitOnTimestamp
  <2> QED
    BY <1>3, <2>1, <2>2 DEF IInv, Control
<1>6. Factor'
  BY <1>1
    DEF Close, ClearPortTransmitOnTimestamp, At, Go, Abort, times, replay, flags, inputs, IInv, Factor, Control
<1>7. Counted' /\ Sent' /\ LastRead'
  BY <1>1, <1>2
    DEF Close, ClearPortTransmitOnTimestamp, At, Go, Abort, times, replay, flags, inputs, IInv, Control, Counted, Sent, LastRead
<1> QED
  BY <1>1, <1>4, <1>5, <1>6, <1>7 DEF IInv

\* Every iteration reads the capture from its start.
LEMMA OpenFileKeeps == IInv /\ OpenFile => IInv'
<1> SUFFICES ASSUME IInv, OpenFile PROVE IInv'
  OBVIOUS
<1>1. Inputs' /\ UNCHANGED <<opts, capture, Stamps, FirstStamp, LastStamp>>
  BY InputsKept DEF Next, Main, Replay
<1>2. Packets' = Packets /\ UNCHANGED <<firstTS, offset, sent>>
  BY <1>1, PacketsKept DEF OpenFile, At, Go, Abort, times, replay, flags, inputs
<1>3. Checked => Checked'
  BY <1>2, CheckedKept DEF Next, Main, Replay
<1>4. ReplayInv'
  <2>1. Len(capture.segments) \in Nat
    BY CaptureTypes DEF IInv
  <2>2. /\ pos' = pos \/ pos' = 0
        /\ tpc' \in {"done", "loop"}
        /\ ready' = TRUE \/ ready' = ready
        /\ running' = FALSE \/ running' = running
        /\ code' = "ntapi" \/ code' = code
        /\ UNCHANGED <<lastTS, iteration, onTs, timed, clock, mpc>>
    BY DEF OpenFile, At, Abort, times
  <2>3. running \in BOOLEAN /\ ready \in BOOLEAN /\ code \in {"success", "ntapi"}
    BY DEF IInv, ReplayInv, TypeOK
  <2>4. running' \in BOOLEAN /\ ready' \in BOOLEAN /\ code' \in {"success", "ntapi"}
    BY <2>2, <2>3
  <2> QED
    BY <1>1, <1>2, <2>1, <2>2, <2>4 DEF IInv, ReplayInv, TypeOK, PortRestored
<1>5. Control'
  BY <1>1, <1>2, <1>3
    DEF OpenFile, At, Go, Abort, times, replay, flags, inputs, IInv, Control
<1>6. Factor'
  BY <1>1
    DEF OpenFile, At, Go, Abort, times, replay, flags, inputs, IInv, Factor, Control
<1>7. Counted' /\ Sent' /\ LastRead'
  BY <1>1, <1>2
    DEF OpenFile, At, Go, Abort, times, replay, flags, inputs, IInv, Control, Counted, Sent, LastRead
<1> QED
  BY <1>1, <1>4, <1>5, <1>6, <1>7 DEF IInv

\* At the end of the file the last stamp is read.
LEMMA EndOfFileKeeps == IInv /\ EndOfFile => IInv'
<1> SUFFICES ASSUME IInv, EndOfFile PROVE IInv'
  OBVIOUS
<1>1. Inputs' /\ UNCHANGED <<opts, capture, Stamps, FirstStamp, LastStamp>>
  BY InputsKept DEF Next, Main, Replay
<1>2. Packets' = Packets /\ UNCHANGED <<firstTS, offset, sent>>
  BY <1>1, PacketsKept DEF EndOfFile, At, Go, times, replay, flags, inputs
<1>3. Checked => Checked'
  BY <1>2, CheckedKept DEF Next, Main, Replay
<1>4. ReplayInv'
  <2>1. LastStamp \in Nat
    BY EndsTypes DEF EndOfFile, At, IInv, Control, Checked
  <2> QED
    BY <1>1, <1>2, <2>1
      DEF EndOfFile, At, Go, times, replay, flags, inputs, IInv, ReplayInv, TypeOK, PortRestored, Control
<1>5. Control'
  BY <1>1, <1>2, <1>3 DEF EndOfFile, At, Go, times, replay, flags, inputs, IInv, Control
<1>6. Factor'
  BY <1>1 DEF EndOfFile, At, Go, times, replay, flags, inputs, IInv, Factor, Control
<1>7. Counted' /\ Sent' /\ LastRead'
  BY <1>1, <1>2
    DEF EndOfFile, At, Go, times, replay, flags, inputs, IInv, Control, Counted, Sent, LastRead
<1> QED
  BY <1>1, <1>4, <1>5, <1>6, <1>7 DEF IInv

\* The count passes its bound only on the way out.
LEMMA NextIterationKeeps == IInv /\ NextIteration => IInv'
<1> SUFFICES ASSUME IInv, NextIteration PROVE IInv'
  OBVIOUS
<1>1. Inputs' /\ UNCHANGED <<opts, capture, Stamps, FirstStamp, LastStamp>>
  BY InputsKept DEF Next, Main, Replay
<1>2. Packets' = Packets /\ UNCHANGED <<firstTS, offset, sent>>
  BY <1>1, PacketsKept DEF NextIteration, At, Go, times, replay, flags, inputs
<1>3. Checked => Checked'
  BY <1>2, CheckedKept DEF Next, Main, Replay
<1>4. iteration' \in 0 .. MaxIter + 1 /\ Counted'
  <2>1. iteration \in Nat /\ iteration <= MaxIter /\ MaxIter \in Nat
    BY BoundaryAssumption DEF NextIteration, At, IInv, Counted, ReplayInv, TypeOK
  <2> QED
    BY <2>1 DEF NextIteration, Go, Counted
<1>5. ReplayInv'
  BY <1>1, <1>2, <1>4
    DEF NextIteration, At, Go, times, flags, inputs, IInv, ReplayInv, TypeOK, PortRestored, Control
<1>6. Control'
  BY <1>1, <1>2, <1>3
    DEF NextIteration, At, Go, times, replay, flags, inputs, IInv, Control
<1>7. Factor'
  BY <1>1 DEF NextIteration, At, Go, times, replay, flags, inputs, IInv, Factor, Control
<1>8. Sent' /\ LastRead'
  BY <1>1, <1>2
    DEF NextIteration, At, Go, times, replay, flags, inputs, IInv, Control, Counted, Sent, LastRead
<1> QED
  BY <1>1, <1>4, <1>5, <1>6, <1>7, <1>8 DEF IInv

\* The capture is checked and its first stamp kept, before a packet is sent.
LEMMA GetFileDataKeeps == IInv /\ GetFileData => IInv'
<1> SUFFICES ASSUME IInv, GetFileData PROVE IInv'
  OBVIOUS
<1>1. Inputs' /\ UNCHANGED <<opts, capture, Stamps, FirstStamp, LastStamp>>
  BY InputsKept DEF Next, Main
<1>2. Packets' = Packets /\ UNCHANGED <<offset, sent>>
  BY <1>1, PacketsKept DEF GetFileData, replay
<1>3. tpc = "none" /\ tpc' = tpc
  BY DEF GetFileData, IInv, Control
<1>4. ReplayInv'
  <2>1. firstTS' \in Nat
    BY EndsTypes DEF GetFileData, IInv, ReplayInv, TypeOK
  <2> QED
    BY <1>1, <1>2, <2>1
      DEF GetFileData, replay, flags, IInv, ReplayInv, TypeOK, PortRestored
<1>5. Control'
  <2>1. mpc' = "create" => Checked'
    BY <1>1 DEF GetFileData, Checked, TooLong
  <2> QED
    BY <1>3, <2>1 DEF GetFileData, IInv, Control
<1>6. Factor' /\ Counted' /\ LastRead'
  BY <1>1, <1>3 DEF GetFileData, replay, IInv, Factor, Counted, LastRead
<1>7. Sent'
  BY <1>2, <1>3 DEF GetFileData, replay, IInv, Sent
<1> QED
  BY <1>1, <1>4, <1>5, <1>6, <1>7 DEF IInv

\* The offset is set while nothing is sent.
LEMMA SetupTimedKeeps == IInv /\ SetupTimed => IInv'
<1> SUFFICES ASSUME IInv, SetupTimed PROVE IInv'
  OBVIOUS
<1>1. Inputs' /\ UNCHANGED <<opts, capture, Stamps, FirstStamp, LastStamp>>
  BY InputsKept DEF Next, Replay
<1>2. /\ tpc = "setup" /\ timed /\ mpc \notin {"args", "exit", "failed"}
      /\ tpc' \in {"open", "done"}
      /\ UNCHANGED <<firstTS, lastTS, timed, modFactor, clock, mpc, replay>>
      /\ (running' => running) /\ running' \in BOOLEAN /\ ready' = ready
      /\ code' \in {"success", "ntapi"} /\ onTs' \in BOOLEAN
  <2>1. /\ tpc = "setup" /\ mpc \notin {"exit", "failed"}
        /\ UNCHANGED <<firstTS, lastTS, timed, modFactor, clock, mpc, replay>>
    BY DEF SetupTimed, At
  <2>2. timed /\ mpc # "args"
    BY <2>1 DEF IInv, Control
  <2>3. /\ tpc' \in {"open", "done"} /\ ready' = ready
        /\ running' = FALSE \/ running' = running
        /\ code' = "ntapi" \/ code' = code
    BY DEF SetupTimed, Go, Abort, SetPortTransmitOnTimestamp, flags
  <2>4. onTs' = TRUE \/ onTs' = onTs
    BY DEF SetupTimed, SetPortTransmitOnTimestamp
  <2>5. running \in BOOLEAN /\ onTs \in BOOLEAN /\ code \in {"success", "ntapi"}
    BY DEF IInv, ReplayInv, TypeOK
  <2>6. running' \in BOOLEAN /\ (running' => running)
    <3>1. CASE running' = FALSE
      BY <3>1
    <3>2. CASE running' = running
      BY <3>2, <2>5, Zenon
    <3> QED
      BY <2>3, <3>1, <3>2
  <2>7. onTs' \in BOOLEAN
    BY <2>4, <2>5
  <2> QED
    BY <2>1, <2>2, <2>3, <2>5, <2>6, <2>7
<1>3. sent' = <<>>
  BY <1>2 DEF IInv, Sent, replay
<1>4. offset' \in Int
  <2>1. opts.start # None => opts.start \in Nat
    BY CaptureTypes DEF IInv
  <2>2. opts.start = None => CalcStartTS(clock, modFactor) \in Nat
    <3>1. opts.start = None => modFactor \in Nat \ {0}
      BY <1>2 DEF IInv, Factor
    <3>2. clock \in Nat
      BY BoundaryAssumption DEF IInv, ReplayInv, TypeOK
    <3> QED
      BY <3>1, <3>2, StartBounds
  <2>3. offset \in Int /\ firstTS \in Nat
    BY DEF IInv, ReplayInv, TypeOK
  <2> QED
    BY <2>1, <2>2, <2>3 DEF SetupTimed
<1>5. ReplayInv'
  BY <1>1, <1>2, <1>3, <1>4 DEF replay, IInv, ReplayInv, TypeOK, PortRestored
<1>6. Control'
  <2>1. Checked'
    BY <1>2, CheckedKept DEF Next, Replay, IInv, Control
  <2> QED
    BY <1>2, <2>1 DEF IInv, Control
<1>7. Factor' /\ Counted' /\ LastRead'
  BY <1>1, <1>2 DEF replay, IInv, Factor, Counted, LastRead
<1>8. Sent'
  BY <1>3 DEF Sent
<1> QED
  BY <1>1, <1>5, <1>6, <1>7, <1>8 DEF IInv

\* Every packet of the segment gets the stamp of its iteration.
LEMMA ReplaySegmentKeeps == IInv /\ ReplaySegment => IInv'
<1> SUFFICES ASSUME IInv, ReplaySegment PROVE IInv'
  OBVIOUS
<1>1. Inputs' /\ UNCHANGED <<opts, capture, Stamps, FirstStamp, LastStamp>>
  BY InputsKept DEF Next, Replay
<1>2. /\ Packets' = Packets
      /\ UNCHANGED <<firstTS, lastTS, offset, iteration, onTs, timed, modFactor, clock, mpc>>
  BY <1>1, PacketsKept DEF ReplaySegment, At, times
<1>3. /\ tpc = "loop" /\ tpc' \in {"loop", "done"} /\ (running' => running)
      /\ running' \in BOOLEAN /\ ready' = ready /\ code' \in {"success", "ntapi"}
  BY DEF ReplaySegment, At, Go, Abort, flags, IInv, ReplayInv, TypeOK
<1>4. pos' \in 0 .. Len(capture.segments)
  <2>1. Len(capture.segments) \in Nat
    BY CaptureTypes DEF IInv
  <2> QED
    BY <2>1 DEF ReplaySegment, IInv, ReplayInv, TypeOK
<1>5. sent' \in Seq(Packets)
  <2> DEFINE seg == capture.segments[pos + 1]
             batch == [i \in DOMAIN seg |->
                         LET ts == Raw(seg[i])
                         IN [iter |-> iteration, ts |-> ts, due |-> Stamp(ts) + offset]]
  <2>1. pos + 1 \in DOMAIN capture.segments
    BY CaptureTypes DEF ReplaySegment, IInv, ReplayInv, TypeOK
  <2>2. seg \in Seq(Nat) /\ \A i \in DOMAIN seg : Raw(seg[i]) \in Stamps
    BY <2>1, CaptureTypes, StampTypes DEF IInv
  <2>3. iteration \in 0 .. MaxIter /\ offset \in Int /\ opts.delay \in Nat
    BY <1>3, CaptureTypes, BoundaryAssumption DEF IInv, Counted, ReplayInv, TypeOK
  <2>4. (iteration * Boundary) % CounterMod \in Int
    BY <2>3, BoundaryAssumption, SMTT(30)
  <2>5. \A ts \in Stamps : [iter |-> iteration, ts |-> ts, due |-> Stamp(ts) + offset] \in Packets
    BY <2>3, <2>4, StampTypes DEF Packets, Stamp, IInv
  <2>6. batch \in Seq(Packets)
    BY <2>2, <2>5
  <2>7. sent \in Seq(Packets)
    BY DEF IInv, Sent
  <2>8. sent' = sent \/ sent' = sent \o batch
    BY DEF ReplaySegment
  <2> HIDE DEF batch
  <2> QED
    BY <2>6, <2>7, <2>8, ConcatProperties
<1>6. ReplayInv'
  <2>1. \A i \in DOMAIN sent' : sent'[i].iter \in 0 .. MaxIter /\ sent'[i].due \in Int
    BY <1>5 DEF Packets
  <2> QED
    BY <1>1, <1>2, <1>3, <1>4, <2>1 DEF IInv, ReplayInv, TypeOK, PortRestored
<1>7. Control'
  <2>1. Checked'
    BY <1>2, <1>3, CheckedKept DEF Next, Replay, IInv, Control
  <2> QED
    BY <1>2, <1>3, <2>1 DEF IInv, Control
<1>8. Factor' /\ Counted' /\ LastRead' /\ Sent'
  BY <1>1, <1>2, <1>3, <1>5 DEF IInv, Factor, Counted, LastRead, Sent
<1> QED
  BY <1>1, <1>6, <1>7, <1>8 DEF IInv

\* Every step keeps the invariant.
LEMMA NextIInv == IInv /\ [Next]_vars => IInv'
<1> SUFFICES ASSUME IInv, [Next]_vars PROVE IInv'
  OBVIOUS
<1>1. CASE UNCHANGED vars
  BY <1>1
    DEF vars, inputs, times, replay, flags, IInv, ReplayInv, TypeOK, PortRestored, Inputs,
         Control, Checked, TooLong, FirstStamp, Stamps, StampsOf, LastStamp, Raw,
         Factor, Counted, Sent, Packets, LastRead
<1>2. CASE Main
  BY <1>2, ValidateKeeps, CheckCapabilitiesKeeps, GetFileDataKeeps, CreateKeeps,
     WaitReadyKeeps, JoinKeeps DEF Main
<1>3. CASE Replay
  BY <1>3, OpenTxKeeps, SetupTimedKeeps, OpenFileKeeps, ReplaySegmentKeeps, EndOfFileKeeps,
     StopReplayKeeps, NextIterationKeeps, CloseKeeps DEF Replay
<1>4. CASE Tick \/ Interrupt \/ ReportFails \/ Await \/ AwaitFails
  BY <1>4, TickKeeps, InterruptKeeps, ReportFailsKeeps, AwaitKeeps, AwaitFailsKeeps
<1> QED
  BY <1>1, <1>2, <1>3, <1>4 DEF Next

\* IInv is an invariant.
THEOREM Invariance == Spec => []IInv
<1> QED
  BY InitIInv, NextIInv, PTL DEF Spec

\* Counters keep their ranges, and the program does not end with the port in
\* transmit-on-timestamp mode, except by a failure that main() reports.
THEOREM PortIsRestored == Spec => []ReplayInv
<1>1. IInv => ReplayInv
  BY DEF IInv
<1> QED
  BY <1>1, Invariance, PTL

\* Every packet leaves in the boundary of its iteration, at the distance from
\* its start that it has in the capture, while the product fits its type.
THEOREM LeavesInBoundary == Spec => []InOwnBoundary
<1>1. IInv => InOwnBoundary
  <2> SUFFICES ASSUME IInv, NEW i \in DOMAIN sent, timed,
                      sent[i].iter * Boundary < CounterMod
               PROVE  LET start == firstTS + offset + sent[i].iter * Boundary - opts.delay
                      IN /\ sent[i].due \in start .. start + Boundary
                         /\ sent[i].due - start = sent[i].ts - firstTS
    BY DEF InOwnBoundary
  <2>1. sent[i] \in Packets /\ tpc # "none"
    BY DEF IInv, Sent
  <2>2. PICK p \in Packets : p = sent[i]
    BY <2>1
  <2>3. /\ p.iter \in 0 .. MaxIter /\ p.ts \in Stamps /\ p.due \in Int
        /\ p.due = p.ts - opts.delay + ((p.iter * Boundary) % CounterMod) + offset
    BY <2>2 DEF Packets
  <2> DEFINE far == p.iter * Boundary
  <2>4. far \in Nat
    BY <2>3, BoundaryAssumption, SMTT(30)
  <2>5. far % CounterMod = far
    <3>1. far < CounterMod
      BY <2>2
    <3> HIDE DEF far
    <3> QED
      BY <2>4, <3>1, ModSmall, BoundaryAssumption
  <2>6. p.ts \in Nat /\ firstTS \in Nat /\ offset \in Int /\ opts.delay \in Nat
    BY <2>3, StampTypes, CaptureTypes DEF IInv, ReplayInv, TypeOK
  <2>7. p.ts - firstTS \in 0 .. Boundary
    BY <2>1, <2>3 DEF IInv, Control, Checked, TooLong
  <2> HIDE DEF far
  <2>8. p.due = p.ts - opts.delay + far + offset
    BY <2>3, <2>5 DEF far
  <2> DEFINE start == firstTS + offset + far - opts.delay
  <2>9. p.due \in start .. start + Boundary /\ p.due - start = p.ts - firstTS
    BY SMTT(30), <2>4, <2>6, <2>7, <2>8, BoundaryAssumption
  <2> QED
    BY <2>2, <2>9 DEF far
<1> QED
  BY <1>1, Invariance, PTL

\* Without a start time the first packet is due on a multiple of the modulus
\* factor, a full second or more ahead and no later than that requires.
THEOREM StartsAhead == Spec => BeginsAhead
<1> DEFINE Begin ==
      tpc = "setup" /\ tpc' = "open" /\ opts.start = None =>
         LET begin == firstTS + offset'
         IN /\ begin % (modFactor * Second) = 0
            /\ begin >= clock + Second
            /\ begin - modFactor * Second < clock + 2 * Second
<1>1. IInv /\ [Next]_vars => [Begin]_vars
  <2> SUFFICES ASSUME IInv, Next, tpc = "setup", tpc' = "open", opts.start = None
               PROVE  LET begin == firstTS + offset'
                      IN /\ begin % (modFactor * Second) = 0
                         /\ begin >= clock + Second
                         /\ begin - modFactor * Second < clock + 2 * Second
    OBVIOUS
  <2>1. SetupTimed
    BY
      DEF Next, Main, Replay, Tick, Interrupt, ReportFails, Validate, CheckCapabilities,
           GetFileData, Create, WaitReady, Join, OpenTx, OpenFile, ReplaySegment,
           EndOfFile, StopReplay, NextIteration, Close, Await, AwaitFails, At
  <2>2. offset' = CalcStartTS(clock, modFactor) - firstTS
    BY <2>1 DEF SetupTimed, Abort
  <2>3. modFactor \in Nat \ {0} /\ clock \in Nat /\ firstTS \in Nat
    BY <2>1, BoundaryAssumption
      DEF SetupTimed, At, IInv, Control, Factor, ReplayInv, TypeOK
  <2>4. CalcStartTS(clock, modFactor) \in Nat
    BY <2>3, StartBounds
  <2>5. firstTS + offset' = CalcStartTS(clock, modFactor)
    BY <2>2, <2>3, <2>4
  <2> QED
    BY <2>3, <2>5, StartBounds
<1> QED
  BY <1>1, Invariance, PTL DEF Spec, BeginsAhead

\* When nothing failed and nobody stopped it, the mode is turned off only
\* after the packets of the first iteration have left.
THEOREM FirstIterationHasLeft == Spec => FirstIterationLeaves
<1> DEFINE Left ==
      tpc = "await" /\ tpc' = "clear" /\ running /\ clock > StopTime =>
         ((\A ts \in Stamps : ts <= LastStamp) =>
            \A i \in DOMAIN sent : sent[i].iter = 0 => sent[i].due < clock)
<1>1. IInv => Left
  <2> SUFFICES ASSUME IInv, tpc = "await", running, clock > StopTime,
                      \A ts \in Stamps : ts <= LastStamp,
                      NEW i \in DOMAIN sent, sent[i].iter = 0
               PROVE  sent[i].due < clock
    OBVIOUS
  <2>1. PICK p \in Packets : p = sent[i]
    BY DEF IInv, Sent
  <2>2. /\ p.ts \in Stamps
        /\ p.due = p.ts - opts.delay + ((p.iter * Boundary) % CounterMod) + offset
    BY DEF Packets
  <2>3. (p.iter * Boundary) % CounterMod = 0
    BY <2>1, BoundaryAssumption, SMTT(30)
  <2>4. p.ts \in Nat /\ offset \in Int /\ opts.delay \in Nat /\ lastTS \in Nat /\ clock \in Nat
    <3>1. Inputs /\ TypeOK
      BY DEF IInv, ReplayInv
    <3>2. p.ts \in Nat /\ opts.delay \in Nat
      BY <2>2, <3>1, StampTypes, CaptureTypes
    <3> QED
      BY <3>1, <3>2, BoundaryAssumption DEF TypeOK
  <2>5. clock > lastTS + offset /\ p.ts <= lastTS
    BY <2>2 DEF IInv, LastRead, StopTime
  <2> QED
    BY <2>1, <2>2, <2>3, <2>4, <2>5
<1> QED
  BY <1>1, Invariance, PTL DEF Spec, FirstIterationLeaves
=============================================================================
