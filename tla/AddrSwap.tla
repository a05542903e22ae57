------------------------------ MODULE AddrSwap ------------------------------
(***************************************************************************)
(* addrswap_replay: a main thread loads a file of address substitutions    *)
(* into a binary search tree and starts a thread that reads packets from a *)
(* capture, swaps their addresses, hands them to a port that transmits     *)
(* each at its time stamp plus an offset, and waits for the last to leave. *)
(* Any call into the adapter's library may fail, and Ctrl-C may come at    *)
(* any time.  Addresses are unsigned words, kept in ints by the tree.      *)
(***************************************************************************)
EXTENDS Integers, Sequences, FiniteSetsExt

CONSTANTS Half,      \* half the number of words (2^31 in the code)
          Tables,    \* substitution files: sequences of [old, new] words
          Captures,  \* capture files: sequences of [src, dst, ts]
          Headroom,  \* the second added to the offset, in clock units
          MaxClock   \* bound: the adapter's clock

Words == 0 .. 2 * Half - 1
Ints == -Half .. Half - 1

ASSUME SwapAssumption ==
    /\ {Half, Headroom} \subseteq Nat \ {0} /\ MaxClock \in Nat
    /\ Tables \subseteq Seq([old : Words, new : Words])
    /\ Captures \subseteq Seq([src : Words, dst : Words, ts : Nat])

VARIABLES table, loaded,     \* the substitution file, entries taken from it
          tree,              \* the tree: path from the root -> [key, data]
          capture, next,     \* the capture, packets read from it
          sent,              \* packets handed to the port: [src, dst, ts, due]
          clock,             \* the adapter's clock
          onTs, timeDelta, startTime,  \* transmit on time stamp, its offset
          running, ready, code,        \* appRunning, threadReady, exit code
          mpc, tpc           \* control of main() and of _Replay()

maps == <<table, loaded, tree>>
port == <<onTs, timeDelta, startTime>>
flags == <<running, ready, code>>
vars == <<maps, capture, next, sent, clock, port, flags, mpc, tpc>>

Signed(w) == IF w >= Half THEN w - 2 * Half ELSE w
Unsigned(i) == i % (2 * Half)

-----------------------------------------------------------------------------
(* The tree.  A node is found by the turns taken from the root: 0 is left. *)

Turn(key, v) == IF v < key THEN 0 ELSE 1

\* search() comes to p: from every node above it goes on, in the direction of p.
Reaches(t, p, v) ==
    \A i \in 1 .. Len(p) :
        LET q == SubSeq(p, 1, i - 1)
        IN q \in DOMAIN t /\ t[q].key # v /\ p[i] = Turn(t[q].key, v)
Stops(t, p, v) == Reaches(t, p, v) /\ (p \in DOMAIN t => t[p].key = v)

\* Where search() ends for a value: at its node, or where it would be.
Places(t) == {<<>>} \cup {Append(p, b) : p \in DOMAIN t, b \in {0, 1}}
Place(t, v) == CHOOSE p \in Places(t) : Stops(t, p, v)

\* (InsertShallow: the recursion forgotten, a child of the root replaced.)
InsertShallow(t, key, data) ==
    LET at == IF t = <<>> THEN <<>> ELSE SubSeq(Place(t, key), 1, 1)
    IN [p \in DOMAIN t \cup {at} |-> IF p = at THEN [key |-> key, data |-> data] ELSE t[p]]
Insert(t, key, data) ==
    LET at == Place(t, key)
    IN [p \in DOMAIN t \cup {at} |-> IF p = at THEN [key |-> key, data |-> data] ELSE t[p]]

\* search_addr_map: the data as an int, -1 when there is none.
Search(w) == LET at == Place(tree, Signed(w)) IN IF at \in DOMAIN tree THEN tree[at].data ELSE -1

\* substitute_IP on one address: a negative int counts as "not found".
SwapAlways(w) == Unsigned(Search(w))
Swap(w) == IF Search(w) >= 0 THEN Search(w) ELSE w

-----------------------------------------------------------------------------
Init ==
    /\ table \in Tables /\ loaded = 0 /\ tree = [p \in {} |-> 0]
    /\ capture \in Captures /\ next = 0 /\ sent = <<>> /\ clock = 0
    /\ onTs = FALSE /\ timeDelta = 0 /\ startTime = 0
    /\ running = TRUE /\ ready = FALSE /\ code = "success"
    /\ mpc = "load" /\ tpc = "none"

\* Time counts from where SetTimestamp may read it.
Tick == tpc \in {"loop", "await"} /\ clock < MaxClock /\ clock' = clock + 1
        /\ UNCHANGED <<maps, capture, next, sent, port, flags, mpc, tpc>>

-----------------------------------------------------------------------------
(* main().                                                                 *)

\* One entry of load_substitute_addr_map: of entries for one address the
\* first counts.
Load ==
    /\ mpc = "load" /\ loaded < Len(table)
    /\ LET e == table[loaded + 1] old == Signed(e.old)
       IN tree' = IF Place(tree, old) \in DOMAIN tree THEN tree
                  ELSE Insert(tree, old, Signed(e.new))
    /\ loaded' = loaded + 1
    /\ UNCHANGED <<table, capture, next, sent, clock, port, flags, mpc, tpc>>

\* The end of the file, or a token that ends the load early and silently.
LoadEnd ==
    /\ mpc = "load" /\ mpc' = "check"
    /\ UNCHANGED <<maps, capture, next, sent, clock, port, flags, tpc>>

\* Feature level, driver version and the capabilities of the adapter's ports;
\* main() returns if a check fails.
Check ==
    /\ mpc = "check" /\ mpc' \in {"create", "failed"}
    /\ UNCHANGED <<maps, capture, next, sent, clock, port, flags, tpc>>

Create ==
    /\ mpc = "create" /\ mpc' = "wait" /\ tpc' = "first"
    /\ UNCHANGED <<maps, capture, next, sent, clock, port, flags>>

\* StopApplication, on SIGINT or SIGTERM.
Interrupt ==
    /\ mpc \in {"wait", "join"} /\ running /\ running' = FALSE
    /\ UNCHANGED <<maps, capture, next, sent, clock, port, ready, code, mpc, tpc>>

WaitReady ==
    /\ mpc = "wait" /\ (~running \/ ready) /\ mpc' = "join"
    /\ UNCHANGED <<maps, capture, next, sent, clock, port, flags, tpc>>

\* ClearPortTransmitOnTimestamp; it too may fail before or after the write.
ClearPort == onTs' = FALSE /\ UNCHANGED <<timeDelta, startTime>>

\* After the join main() clears the port again, whatever the thread did.
Join ==
    /\ mpc = "join" /\ tpc = "done"
    /\ \/ mpc' = "exit" /\ ClearPort
       \/ mpc' = "failed" /\ (UNCHANGED port \/ ClearPort)
    /\ UNCHANGED <<maps, capture, next, sent, clock, flags, tpc>>

-----------------------------------------------------------------------------
(* _Replay().                                                              *)

Abort(c) == tpc' = "done" /\ running' = FALSE /\ code' = c /\ UNCHANGED ready
Leave == tpc' = "done" /\ UNCHANGED flags
Go(l) == tpc' = l /\ UNCHANGED flags

\* GetFileData: the first packet; a file that cannot be opened or is empty
\* ends the thread and nothing else.
First ==
    /\ tpc = "first"
    /\ \/ capture # <<>> /\ Go("setup")
       \/ Leave
    /\ UNCHANGED <<maps, capture, next, sent, clock, port, mpc>>

\* setup_tx and the second opening of the file.
SetupTx ==
    /\ tpc = "setup" /\ (Go("stamp") \/ Abort("config") \/ Abort("ntapi"))
    /\ UNCHANGED <<maps, capture, next, sent, clock, port, mpc>>

\* SetPortTransmitOnTimestamp.  When the adapter's time cannot be read it
\* returns success and the port stays as it was; the closing of the stream
\* may fail after the port was set.
SetTimestamp ==
    /\ tpc = "stamp"
    /\ \/ /\ onTs' = TRUE /\ startTime' = clock
          /\ timeDelta' = clock - capture[1].ts + Headroom
          /\ \/ tpc' = "loop" /\ ready' = TRUE /\ UNCHANGED <<running, code>>
             \/ Abort("ntapi")
       \/ tpc' = "loop" /\ ready' = TRUE /\ UNCHANGED <<running, code, port>>
       \/ Abort("ntapi") /\ UNCHANGED port
    /\ UNCHANGED <<maps, capture, next, sent, clock, mpc>>

\* A packet read, swapped and handed over; IPv4 or not.
ReplayPacket ==
    /\ tpc = "loop" /\ running /\ next < Len(capture)
    /\ LET p == capture[next + 1]
       IN sent' = Append(sent, [src |-> Swap(p.src), dst |-> Swap(p.dst), ts |-> p.ts,
                                due |-> IF onTs THEN p.ts + timeDelta ELSE clock])
    /\ next' = next + 1
    /\ UNCHANGED <<maps, capture, clock, port, flags, mpc, tpc>>

\* A failed read or release, or a transmit buffer still missing when the
\* program is stopped: the thread returns as it stands.
ReplayFails ==
    /\ tpc = "loop" /\ running /\ Leave
    /\ UNCHANGED <<maps, capture, next, sent, clock, port, mpc>>

ReplayEndEof ==
    /\ tpc = "loop" /\ next = Len(capture) /\ Go("await")
    /\ UNCHANGED <<maps, capture, next, sent, clock, port, mpc>>
ReplayEnd ==
    /\ tpc = "loop" /\ (~running \/ next = Len(capture)) /\ Go("await")
    /\ UNCHANGED <<maps, capture, next, sent, clock, port, mpc>>

\* AwaitPacketTransmission: the offset's headroom is not in its stop time.
StopTimeZero == startTime
StopTime == startTime + (IF sent = <<>> THEN 0 ELSE sent[Len(sent)].ts) - capture[1].ts
Await ==
    /\ tpc = "await" /\ (~running \/ clock > StopTime) /\ Go("clear")
    /\ UNCHANGED <<maps, capture, next, sent, clock, port, mpc>>
AwaitFails ==
    /\ tpc = "await" /\ running /\ Go("clear")
    /\ UNCHANGED <<maps, capture, next, sent, clock, port, mpc>>

Clear ==
    /\ tpc = "clear"
    /\ \/ Abort(code) /\ ClearPort
       \/ Abort("ntapi") /\ (UNCHANGED port \/ ClearPort)
    /\ UNCHANGED <<maps, capture, next, sent, clock, mpc>>

Main == Load \/ LoadEnd \/ Check \/ Create \/ WaitReady \/ Join
Replay == First \/ SetupTx \/ SetTimestamp \/ ReplayPacket \/ ReplayFails \/ ReplayEnd
          \/ Clear
Next == Tick \/ Interrupt \/ Main \/ Replay \/ Await \/ AwaitFails

\* Neither thread blocks for ever in a call, and the clock runs.
Spec == Init /\ [][Next]_vars /\ WF_vars(Main) /\ WF_vars(Replay)
        /\ WF_vars(Await) /\ WF_vars(Tick)

-----------------------------------------------------------------------------
Packet == [src : Words, dst : Words, ts : Nat, due : Int]

\* Types of the tree, the packets and the control.
TypeOK ==
    /\ loaded \in 0 .. Len(table) /\ next \in 0 .. Len(capture) /\ clock \in 0 .. MaxClock
    /\ \A p \in DOMAIN tree : tree[p] \in [key : Ints, data : Ints]
    /\ \A i \in DOMAIN sent : sent[i] \in Packet
    /\ onTs \in BOOLEAN /\ running \in BOOLEAN /\ ready \in BOOLEAN
    /\ code \in {"success", "config", "ntapi"}
    /\ mpc \in {"load", "check", "create", "wait", "join", "exit", "failed"}
    /\ tpc \in {"none", "first", "setup", "stamp", "loop", "await", "clear", "done"}

\* What the entries loaded so far say: the first for an address counts.
Entries(w) == {i \in 1 .. loaded : table[i].old = w}
FirstEntry(w) == table[Min(Entries(w))].new

\* The tree is the table: whatever the order of the entries, a search finds
\* exactly the addresses loaded, each with its first replacement.
TreeIsTable ==
    \A w \in Words : Search(w) = IF Entries(w) = {} THEN -1 ELSE Signed(FirstEntry(w))

\* Every packet handed to the port is that of the capture, in its place,
\* with each address that is not listed as it was, and each listed one
\* replaced by the first substitute for it, if the last octet of that is below
\* 128 (not negative as an int: of other substitutes nothing is said here).
Swapped ==
    \A i \in DOMAIN sent : \A f \in {"src", "dst"} :
        LET w == capture[i][f] IN
        /\ Entries(w) = {} => sent[i][f] = w
        /\ Entries(w) # {} /\ Signed(FirstEntry(w)) >= 0 => sent[i][f] = FirstEntry(w)

\* What the README promises instead: any listed address is replaced.
ReplacesListed ==
    \A i \in DOMAIN sent : \A f \in {"src", "dst"} :
        Entries(capture[i][f]) # {} => sent[i][f] = FirstEntry(capture[i][f])

\* The program does not leave the port in transmit-on-timestamp mode, in
\* whatever step the thread failed or was stopped.
PortRestored == mpc = "exit" => ~onTs

\* The types, the tree and the port.
SwapInv == TypeOK /\ TreeIsTable /\ PortRestored

\* When nothing failed and nobody stopped it, the thread turns the mode off
\* after every packet has left whose time is Headroom or more before the
\* last one's.
WaitsForPackets ==
    [][tpc = "await" /\ tpc' = "clear" /\ running =>
         \/ clock <= StopTime        \* AwaitFails
         \/ \A i \in DOMAIN sent : sent[i].ts + Headroom <= sent[Len(sent)].ts
                                   => sent[i].due <= clock]_vars

\* The comment on AwaitPacketTransmission: all of them.
AwaitsAll ==
    [][tpc = "await" /\ tpc' = "clear" /\ running /\ clock > StopTime =>
         \A i \in DOMAIN sent : sent[i].due <= clock]_vars

\* Once the thread is ready the program ends, whatever fails afterwards.
EndsOnceReady == ready ~> (mpc \in {"exit", "failed"})

\* Without "once ready": a capture that cannot be opened keeps main()
\* waiting for a thread that has ended.
Ends == <>(mpc \in {"exit", "failed"})
=============================================================================
