--------------------------- MODULE StreamMonitors ---------------------------
(***************************************************************************)
(* bufferProfile and hbMonitor.  Both count the streams, read the counters *)
(* of one stream after another, whose identifiers they have to find, and   *)
(* show them; streams come and go and packets are dropped meanwhile.       *)
(* bufferProfile keeps the last samples in a ring and writes it out when   *)
(* packets were dropped.  It can run as a daemon that leaves its process   *)
(* id in a file.                                                           *)
(***************************************************************************)
EXTENDS Integers, Sequences, FiniteSets, SequencesExt

CONSTANTS MaxStreams,   \* size of streamStats, and of the byte of a stream id
          NumEntries,   \* NUM_ENTRIES of the backlog
          Layouts,      \* host buffers a stream may have: sequences of adapters
          MaxChanges, MaxDrops, MaxSamples, MaxStarts  \* bounds

ASSUME MonitorAssumption == MaxStreams \in Nat \ {0} /\ NumEntries \in Nat \ {0}

VARIABLES on, drops, changes,  \* the adapter: host buffers of a stream, their
                               \* drop counters; changes so far
          prog, file, continuous, daemon,  \* the program and its options
          pidfile, starts,     \* process id in the file, 0 if none
          slot,                \* streamStats
          want, id, found,     \* numStreams, stream_id, the ids read so far
          gone,                \* history: streams deleted since they were counted
          firstTime, alert, prevAlert,
          sample,              \* samples taken by this process
          ring, currPos,       \* the backlog: [sample, processed]
          out, rows,           \* samples written; the rows of the last one
          pc

adapter == <<on, drops, changes>>
options == <<prog, file, continuous, daemon>>
process == <<pidfile, starts>>
reading == <<slot, want, id, found>>
alerts == <<firstTime, alert, prevAlert>>
backlog == <<ring, currPos, out, rows>>
monitorVars == <<adapter, options, process, reading, gone, alerts, sample, backlog, pc>>

Ids == 0 .. MaxStreams - 1
Junk == -1     \* main() of bufferProfile does not initialise its sysStats
Bufs == 1 .. 2 \* hb[2]
Streams == {i \in Ids : on[i] # <<>>}
EmptySlot(total) == [total |-> [b \in Bufs |-> total], curr |-> 0, adapters |-> {}, active |-> FALSE]

MonitorInit ==
    /\ on \in [Ids -> Layouts] /\ drops = [i \in Ids |-> [b \in DOMAIN on[i] |-> 0]] /\ changes = 0
    /\ prog = "none" /\ file = FALSE /\ continuous = FALSE /\ daemon = FALSE
    /\ pidfile = 0 /\ starts = 0
    /\ slot = [i \in Ids |-> EmptySlot(0)] /\ want = 0 /\ id = 0 /\ found = <<>> /\ gone = {}
    /\ firstTime = TRUE /\ alert = FALSE /\ prevAlert = FALSE /\ sample = 0
    /\ ring = [p \in 0 .. NumEntries - 1 |-> [sample |-> 0, processed |-> TRUE]] /\ currPos = 0
    /\ out = <<>> /\ rows = <<>> /\ pc = "off"

-----------------------------------------------------------------------------
(* The adapter and its users.                                              *)

Drop(i, b) ==
    /\ pc # "off" /\ b \in DOMAIN drops[i]
    /\ drops[i][b] < MaxDrops
    /\ drops' = [drops EXCEPT ![i][b] = @ + 1]
    /\ UNCHANGED <<on, changes, options, process, reading, gone, alerts, sample, backlog, pc>>

\* NTPL commands of another program create a stream anew or delete it.
Change(i, layout) ==
    /\ pc # "off" /\ changes < MaxChanges /\ changes' = changes + 1
    /\ on[i] # layout /\ on' = [on EXCEPT ![i] = layout]
    /\ drops' = [drops EXCEPT ![i] = [b \in DOMAIN layout |-> 0]]
    /\ gone' = IF layout = <<>> THEN gone \cup {i} ELSE gone
    /\ UNCHANGED <<options, process, reading, alerts, sample, backlog, pc>>

-----------------------------------------------------------------------------
(* Start and end.                                                          *)

\* main(): -d is refused when the file names a process, and needs -f.
Start(p, f, c, d) ==
    /\ pc = "off" /\ starts < MaxStarts /\ starts' = starts + 1
    /\ p = "hbMonitor" => ~f /\ ~c /\ ~d
    /\ d => f /\ pidfile = 0
    /\ prog' = p /\ file' = f /\ continuous' = c /\ daemon' = d
    /\ pidfile' = IF d THEN starts + 1 ELSE pidfile
    /\ slot' = [i \in Ids |-> EmptySlot(IF p = "hbMonitor" THEN 0 ELSE Junk)]
    /\ firstTime' = TRUE /\ prevAlert' = FALSE /\ alert' = FALSE /\ sample' = 0
    /\ ring' = [q \in DOMAIN ring |-> [sample |-> 0, processed |-> TRUE]]
    /\ currPos' = 0 /\ out' = <<>> /\ rows' = <<>> /\ pc' = "count"
    /\ UNCHANGED <<adapter, want, id, found, gone>>

\* A call of the library fails while the program sets itself up.
StartFails ==
    /\ pc = "off" /\ starts < MaxStarts /\ starts' = starts + 1
    /\ UNCHANGED <<adapter, options, pidfile, reading, gone, alerts, sample, backlog, pc>>

End(l) == pc' = l /\ UNCHANGED <<adapter, options, reading, gone, alerts, sample, backlog>>

\* SIGINT: hbMonitor exits at once, bufferProfile before its next sample.
\* The file with the process id stays.
StopApplication ==
    /\ pc = "count" \/ (prog = "hbMonitor" /\ pc \in {"read", "output"})
    /\ End("off") /\ UNCHANGED process

\* bufferProfile -k: SIGUSR1, which nobody handles, and a 0 in the file.
Kill ==
    /\ pidfile # 0 /\ pidfile' = 0 /\ UNCHANGED starts
    /\ IF daemon /\ pidfile = starts THEN End("off") ELSE End(pc)

-----------------------------------------------------------------------------
(* readStreamStats().                                                      *)

Count ==
    /\ pc = "count" /\ sample < MaxSamples /\ sample' = sample + 1
    /\ id' = 0 /\ found' = <<>> /\ gone' = {} /\ alert' = FALSE
    /\ want' = Cardinality(Streams) /\ pc' = "read"
    /\ UNCHANGED <<adapter, options, process, slot, firstTime, prevAlert, backlog>>

\* NT_InfoRead fails, before the first identifier, or NT_StatRead of one does.
\* bufferProfile goes on with no stream, and firstTime as it is.
ReadFails ==
    /\ pc = "read" /\ (id = 0 \/ Len(found) < want)
    /\ IF prog = "hbMonitor" THEN End("off") /\ UNCHANGED process
       ELSE /\ want' = 0 /\ found' = <<>> /\ pc' = "output"
            /\ UNCHANGED <<adapter, options, process, slot, id, gone, alerts, sample, backlog>>

\* The next identifier; it is a byte when it goes to the adapter, and not
\* when it is an index.
NextIdTwice == (id + 2) % (2 * MaxStreams)
NextId == IF id + 1 = 2 * MaxStreams THEN MaxStreams ELSE id + 1

\* An identifier without host buffers is passed over.
Skip ==
    /\ pc = "read" /\ Len(found) < want /\ on[id % MaxStreams] = <<>> /\ id' = NextId
    /\ slot' = IF prog = "hbMonitor" /\ id \in Ids THEN [slot EXCEPT ![id].active = FALSE] ELSE slot
    /\ pc' = IF prog = "hbMonitor" /\ id \notin Ids THEN "broken" ELSE pc
    /\ UNCHANGED <<adapter, options, process, want, found, gone, alerts, sample, backlog>>

\* What a counter has grown by: a difference of unsigned words, of which only
\* 0 and the sign are of interest; anything if the old value is junk.
Growth(new, old) == IF old = Junk THEN 0 .. 1 ELSE {new - old}

\* The slot of a stream that was read; adapters only accumulate.
Updated(s, i, growth) ==
    [total |-> [b \in Bufs |-> IF b \in DOMAIN on[i] THEN drops[i][b] ELSE s.total[b]],
     curr |-> growth, adapters |-> s.adapters \cup Range(on[i]), active |-> TRUE]

\* The counters of a stream: every host buffer overwrites those of the one
\* before it, so the last one decides.
Read ==
    /\ pc = "read" /\ Len(found) < want /\ on[id % MaxStreams] # <<>>
    /\ IF id \notin Ids THEN pc' = "broken" /\ UNCHANGED <<slot, id, found, alert>>
       ELSE /\ \E g \in Growth(Last(drops[id]), slot[id].total[Len(on[id])]) :
                 /\ slot' = [slot EXCEPT ![id] = Updated(@, id, g)]
                 /\ alert' = (alert \/ (prog = "bufferProfile" /\ ~firstTime /\ g # 0))
            /\ id' = NextId /\ found' = Append(found, id) /\ pc' = pc
    /\ UNCHANGED <<adapter, options, process, want, gone, firstTime, prevAlert, sample, backlog>>

ReadEnd ==
    /\ pc = "read" /\ Len(found) = want /\ pc' = "output" /\ firstTime' = FALSE
    /\ UNCHANGED <<adapter, options, process, reading, gone, alert, prevAlert, sample, backlog>>

-----------------------------------------------------------------------------
(* outputStats() and the backlog.                                          *)

\* What a loop with a counter meets in a set of numbers, in the order in
\* which it does.
Before(S, i) == {j \in S : j < i}
Nth(S, k) == CHOOSE i \in S : Cardinality(Before(S, i)) = k - 1
InOrder(S) == [k \in 1 .. Cardinality(S) |-> Nth(S, k)]

\* CBacklog::output goes round the ring from the oldest entry (and one step
\* too far, to an entry it has just done).
RoundFromStart(pos) == [i \in 1 .. NumEntries |-> i - 1]
Round(pos) == [i \in 1 .. NumEntries |-> (pos + i - 1) % NumEntries]

\* The samples of the ring that were not written yet, in that order.
Unwritten(r, pos) ==
    LET steps == InOrder({i \in 1 .. NumEntries : ~r[Round(pos)[i]].processed})
    IN [k \in DOMAIN steps |-> r[Round(pos)[steps[k]]].sample]

\* With -c every sample counts as an alert.
AlertNow == continuous \/ alert
WriteNowOnly == AlertNow
WriteNow == AlertNow \/ prevAlert

\* The stream whose row is shown i-th: bufferProfile takes the i-th slot,
\* hbMonitor the i-th active one.
ActiveIdsEver == InOrder({i \in Ids : slot[i].adapters # {}})
ActiveIds == InOrder({i \in Ids : slot[i].active})
RowsOf(n) == [i \in 1 .. n |-> IF prog = "hbMonitor" THEN ActiveIds[i] ELSE i - 1]

\* The statistics of the ports cannot be read: the program exits as it is.
PortsFail == pc = "output" /\ prog = "bufferProfile" /\ End("off") /\ UNCHANGED process

Output ==
    /\ pc = "output" /\ prog = "bufferProfile"
    /\ LET r == [ring EXCEPT ![currPos] = [sample |-> sample, processed |-> FALSE]]
           pos == (currPos + 1) % NumEntries
       IN /\ currPos' = pos
          /\ IF WriteNow
             THEN /\ out' = out \o Unwritten(r, pos)
                  /\ ring' = [p \in DOMAIN r |-> [r[p] EXCEPT !.processed = TRUE]]
             ELSE ring' = r /\ UNCHANGED out
    /\ rows' = RowsOf(want) /\ prevAlert' = AlertNow
    \* The end delimiter goes to the file even if there is none.
    /\ pc' = IF prevAlert /\ ~AlertNow /\ ~file THEN "crashed" ELSE "count"
    /\ UNCHANGED <<adapter, options, process, reading, gone, firstTime, alert, sample>>

\* The first sample of hbMonitor only sets the counters.
Show ==
    /\ pc = "output" /\ prog = "hbMonitor" /\ pc' = "count"
    /\ rows' = IF sample = 1 THEN rows ELSE RowsOf(want)
    /\ UNCHANGED <<adapter, options, process, reading, gone, alerts, sample, ring, currPos, out>>

MonitorNext ==
    \/ \E i \in Ids, b \in Bufs : Drop(i, b)
    \/ \E i \in Ids, l \in Layouts : Change(i, l)
    \/ \E p \in {"bufferProfile", "hbMonitor"}, f, c, d \in BOOLEAN : Start(p, f, c, d)
    \/ StartFails \/ StopApplication \/ Kill \/ Count \/ ReadFails \/ Skip \/ Read \/ ReadEnd \/ PortsFail \/ Output \/ Show

MonitorSpec == MonitorInit /\ [][MonitorNext]_monitorVars

-----------------------------------------------------------------------------
\* Types of the reading loop and of the backlog.
MonitorTypeOK ==
    /\ want \in 0 .. MaxStreams /\ id \in 0 .. 2 * MaxStreams - 1 /\ Range(found) \subseteq Ids
    /\ currPos \in 0 .. NumEntries - 1 /\ \A p \in DOMAIN ring : ring[p].sample \in 0 .. sample
    /\ Range(out) \subseteq 1 .. sample /\ alert \in BOOLEAN /\ prevAlert \in BOOLEAN
    /\ pc \in {"off", "count", "read", "output", "broken", "crashed"}

\* Every sample is written at most once, and they are written in the order
\* in which they were taken, over any number of alerts and turns of the ring.
WrittenInOrder == \A i, j \in DOMAIN out : i < j => out[i] < out[j]

\* When packets were dropped, what the ring still has of the samples before
\* is in the output with the sample itself; the sample after an alert is, too.
Window ==
    [][pc = "output" /\ pc' \in {"count", "crashed"} /\ prog = "bufferProfile" =>
         /\ AlertNow => (sample - NumEntries + 1 .. sample) \cap (1 .. sample) \subseteq Range(out')
         /\ prevAlert => sample \in Range(out')]_monitorVars

\* The rows shown are the streams that were read; bufferProfile needs the
\* identifiers to be 0, 1, 2... for that.
Shown == IF prog = "hbMonitor" THEN sample > 1 ELSE \A i \in DOMAIN found : found[i] = i - 1
RowsAreStreams == [][pc = "output" /\ pc' \in {"count", "crashed"} /\ Shown => rows' = found]_monitorVars

\* The index leaves the array only if streams went away after they were
\* counted, as many as are missing; that others come instead does not help,
\* for they may come behind the search.
InBounds ==
    [][pc' = "broken" => pc = "broken" \/ want <= Len(found) + Cardinality(gone)]_monitorVars

\* What the README says: a drop since the sample before is detected.
DropsDetected ==
    [][pc = "read" /\ found' # found /\ prog = "bufferProfile" /\ ~firstTime =>
         ((\E b \in DOMAIN on[id] : slot[id].total[b] \in 0 .. drops[id][b] - 1) => alert')]_monitorVars

\* Nothing but -h, -k and signals ends the program.
Survives == pc # "crashed"
=============================================================================
