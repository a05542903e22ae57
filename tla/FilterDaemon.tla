---------------------------- MODULE FilterDaemon ----------------------------
(***************************************************************************)
(* The filter daemon (filter_daemon/): a process that polls the            *)
(* modification time of a text file of IP addresses and keeps one NTPL     *)
(* match-list filter on the adapter per address.  The file is rewritten by *)
(* its user at any moment; the adapter may refuse a command; the process   *)
(* may be interrupted (SIGINT), killed (-k sends SIGUSR1, which has no     *)
(* handler) and started again.                                             *)
(***************************************************************************)
EXTENDS Naturals, FiniteSets

CONSTANTS Lines,       \* lines as written: [addr, dir, mask, range, ver]
          Texts,       \* the contents the file is given, sets of lines
          Statics,     \* the field macros and assigns of main()
          Absent,      \* the file does not exist
          NoAddr,      \* the address of a line that holds none
          MaxTime,     \* bound: seconds in which the file is written
          MaxWrites,   \* bound: times the file is written or deleted
          MaxId,       \* bound: filters on the adapter at once
          MaxRefused,  \* bound: NTPL commands the adapter refuses
          MaxStarts    \* bound: times the daemon is started

ASSUME DaemonAssumption ==
    /\ Texts \subseteq SUBSET Lines
    /\ {MaxTime, MaxWrites, MaxId, MaxRefused, MaxStarts} \subseteq Nat
    /\ MaxTime >= 1
    /\ IsFiniteSet(Statics) /\ Cardinality(Statics) <= MaxId

VARIABLES now, text, mtime, writes,   \* the clock and the file
          card, refused,              \* the adapter: NTPL id -> what it matches
          pidfile, starts,            \* the pid file, starts so far
          pc, running,                \* control of the daemon
          prev, statted,              \* m_prevTime; stat has filled its buffer
          ntplIdx,                    \* ids of the static filters
          read, applied,              \* m_readAddrs, m_appliedAddrs
          toAdd, todo,                \* locals of process()
          lost, late, erased          \* history: ids given up, a write in an
                                      \* observed second, an erase in the loop

file == <<now, text, mtime, writes>>
adapter == <<card, refused>>
sets == <<read, applied, toAdd, todo>>
vars == <<file, adapter, pidfile, starts, pc, running, prev, statted, ntplIdx,
          sets, lost, late, erased>>

Garbage == MaxTime + 1                 \* a time read from an unfilled buffer
Empty == [k \in {} |-> 0]
Without(f, S) == [k \in DOMAIN f \ S |-> f[k]]

\* What parse() makes of a line: neither src nor dst means both.
Parse(l) == [l EXCEPT !.dir = IF l.dir = {} THEN {"src", "dst"} ELSE l.dir]

\* What the set orders its members by: not the range, not the version.
Key(l) == <<Parse(l).addr, Parse(l).dir, l.mask>>

\* The lines verifyAddr accepts, by key.
FileKeys == IF text = Absent THEN {} ELSE {Key(l) : l \in {x \in text : x.addr # NoAddr}}

\* The set differences of process().
RemoveAll == DOMAIN applied
ToRemove == DOMAIN applied \ FileKeys
KeptAll == DOMAIN applied
Kept == DOMAIN applied \cap DOMAIN read

\* watchFile compares the fields of the local time, seconds included.
ChangedLater == mtime > prev
Changed == mtime # prev

\* The ids a set of address objects holds (0: none on the adapter).
Ids(f) == {f[k].id : k \in DOMAIN f} \ {0}

\* An earlier daemon may have left its pid and, killed, filters behind.
Init ==
    /\ now = 1 /\ writes = 0 /\ text \in Texts \cup {Absent} /\ mtime = 1
    /\ lost \in {{}, 1 .. Cardinality(Statics)} /\ refused = 0
    /\ \E f \in [lost -> Statics] : card = f
    /\ pidfile \in {0, MaxStarts + 1} /\ starts = 0 /\ pc = "off" /\ running = TRUE
    /\ prev = 0 /\ statted = FALSE /\ ntplIdx = {}
    /\ read = Empty /\ applied = Empty /\ toAdd = Empty /\ todo = {}
    /\ late = FALSE /\ erased = FALSE

-----------------------------------------------------------------------------
(* The user and the clock.                                                 *)

Tick == now < MaxTime /\ now' = now + 1
        /\ UNCHANGED <<text, mtime, writes, adapter, pidfile, starts, pc, running,
                       prev, statted, ntplIdx, sets, lost, late, erased>>

\* A write the daemon can miss: in the second it has seen, after it has read.
Write ==
    /\ writes < MaxWrites
    /\ writes' = writes + 1
    /\ \E t \in (Texts \cup {Absent}) \ {text} : text' = t
    /\ mtime' = now
    /\ late' = (late \/ (now = prev /\ pc # "read"))
    /\ UNCHANGED <<now, adapter, pidfile, starts, pc, running, prev, statted,
                   ntplIdx, sets, lost, erased>>

-----------------------------------------------------------------------------
(* Starting and ending the process.                                        *)

\* main(): refused while the pid file holds a pid; -d writes no pid file.
\* Dummy match lists that type the key sets are added and deleted again.
Start ==
    /\ pc = "off" /\ pidfile = 0 /\ starts < MaxStarts
    /\ starts' = starts + 1
    /\ \E debug \in BOOLEAN : pidfile' = IF debug THEN 0 ELSE starts'
    /\ pc' = "setup" /\ running' = TRUE /\ prev' = 0 /\ statted' = FALSE
    /\ ntplIdx' = {} /\ read' = Empty /\ applied' = Empty /\ toAdd' = Empty
    /\ todo' = {} /\ late' = FALSE /\ erased' = FALSE
    /\ UNCHANGED <<file, adapter, lost>>

Interrupt ==
    /\ pc # "off" /\ running /\ running' = FALSE
    /\ UNCHANGED <<file, adapter, pidfile, starts, pc, prev, statted, ntplIdx, sets,
                   lost, late, erased>>

\* The process is gone and its filters stay on the adapter.
Die == pc' = "off" /\ lost' = DOMAIN card
       /\ UNCHANGED <<file, adapter, starts, running, prev, statted, ntplIdx, sets,
                      late, erased>>

\* -k: the signal reaches the daemon the pid file names, if it still runs.
\* With no pid on file kill(0, ..) ends the -k process itself.
Kill ==
    /\ pidfile # 0 /\ pidfile' = 0
    /\ IF pidfile = starts /\ pc # "off" THEN Die
       ELSE UNCHANGED <<file, adapter, starts, pc, running, prev, statted, ntplIdx,
                        sets, lost, late, erased>>

-----------------------------------------------------------------------------
(* Commands to the adapter.                                                *)

\* NTUtils::NTPL on a filter: a new id, or 0 when it is refused.  Ids of
\* deleted filters are handed out again, the harder case for stale ids.
NtplAdd(match, id) ==
    \/ /\ id \in 1 .. MaxId \ DOMAIN card
       /\ \A i \in 1 .. MaxId \ DOMAIN card : id <= i
       /\ card' = [i \in DOMAIN card \cup {id} |-> IF i = id THEN match ELSE card[i]]
       /\ UNCHANGED refused
    \/ /\ refused < MaxRefused /\ refused' = refused + 1 /\ id = 0
       /\ UNCHANGED card

\* NTUtils::NTPL("delete = %d"); nothing looks at its outcome.
NtplDelete(id) ==
    \/ card' = Without(card, {id}) /\ UNCHANGED <<refused, lost>>
    \/ /\ id \in DOMAIN card /\ refused < MaxRefused /\ refused' = refused + 1
       /\ lost' = lost \cup {id} /\ UNCHANGED card

-----------------------------------------------------------------------------
(* The daemon.                                                             *)

\* The static filters of main(), one NTPL command each.
Setup ==
    /\ pc = "setup"
    /\ IF todo = Statics
       THEN /\ pc' = "open" /\ todo' = {} /\ UNCHANGED <<adapter, ntplIdx>>
       ELSE /\ \E s \in Statics \ todo, id \in 0 .. MaxId + 1 :
                 NtplAdd(s, id) /\ todo' = todo \cup {s} /\ ntplIdx' = ntplIdx \cup ({id} \ {0})
            /\ UNCHANGED pc
    /\ UNCHANGED <<file, pidfile, starts, running, prev, statted, read, applied, toAdd,
                   lost, late, erased>>

\* NTFileHandler::open: a file it has to create is created and reported as
\* a failure.
Open ==
    /\ pc = "open"
    /\ IF text = Absent
       THEN pc' = "close" /\ text' = {} /\ mtime' = now /\ todo' = DOMAIN applied
       ELSE pc' = "watch" /\ UNCHANGED <<text, mtime, todo>>
    /\ UNCHANGED <<now, writes, adapter, pidfile, starts, running, prev, statted,
                   ntplIdx, read, applied, toAdd, lost, late, erased>>

\* One round of watchFile.  A failed stat leaves the buffer as it was: the
\* last good time, or what the stack held, for which localtime may be NULL.
Watch ==
    /\ pc = "watch" /\ running
    /\ \/ /\ text # Absent /\ statted' = ~Changed
          /\ prev' = mtime /\ pc' = IF Changed THEN "read" ELSE "watch"
          /\ UNCHANGED <<lost>>
       \/ /\ text = Absent /\ ~statted
          /\ \/ prev' = Garbage /\ pc' = "read" /\ UNCHANGED lost
             \/ pc' = "off" /\ lost' = DOMAIN card /\ UNCHANGED prev
          /\ UNCHANGED statted
    /\ UNCHANGED <<file, adapter, pidfile, starts, running, ntplIdx, sets, late, erased>>

WatchForever == pc = "watch" /\ ~running /\ UNCHANGED vars
StopWatching ==
    /\ pc = "watch" /\ ~running /\ pc' = "close" /\ todo' = DOMAIN applied
    /\ UNCHANGED <<file, adapter, pidfile, starts, running, prev, statted, ntplIdx, read,
                   applied, toAdd, lost, late, erased>>

\* readFile and the set differences of process(): of lines with one key the
\* first in the file stays, any of them here.
ReadFile ==
    /\ pc = "read" /\ pc' = "remove"
    /\ \E f \in [FileKeys -> Lines] :
         /\ \A k \in FileKeys : f[k] \in text /\ Key(f[k]) = k
         /\ read' = [k \in FileKeys |-> Parse(f[k])]
         /\ toAdd' = [k \in FileKeys \ DOMAIN applied |-> [line |-> Parse(f[k]), id |-> 0]]
    /\ todo' = ToRemove
    /\ statted' = FALSE /\ late' = FALSE
    /\ UNCHANGED <<file, adapter, pidfile, starts, running, prev, ntplIdx, applied, lost,
                   erased>>

\* removeNTPL for the members of toRemove, and of the applied set in close().
Remove ==
    /\ pc \in {"remove", "close"} /\ todo # {}
    /\ \E k \in todo : todo' = todo \ {k} /\ NtplDelete(applied[k].id)
    /\ UNCHANGED <<file, pidfile, starts, pc, running, prev, statted, ntplIdx,
                   read, applied, toAdd, late, erased>>

Removed ==
    /\ pc = "remove" /\ todo = {} /\ pc' = "add" /\ todo' = DOMAIN toAdd
    /\ UNCHANGED <<file, adapter, pidfile, starts, running, prev, statted, ntplIdx, read,
                   applied, toAdd, lost, late, erased>>

\* addNTPL for a member of toAdd.  A member it fails for is erased and the
\* iterator of the erased node advanced: the loop goes on somewhere, ends,
\* or the process crashes.
Add ==
    /\ pc = "add"
    /\ \E k \in todo, id \in 0 .. MaxId + 1 :
         /\ IF toAdd[k].line.ver = "unknown" THEN id = 0 /\ UNCHANGED adapter
            ELSE NtplAdd(k, id)
         /\ \/ /\ id # 0 /\ todo' = todo \ {k} /\ toAdd' = [toAdd EXCEPT ![k].id = id]
               /\ UNCHANGED <<pc, erased, lost>>
            \/ /\ id = 0 /\ toAdd' = Without(toAdd, {k}) /\ erased' = TRUE
               /\ \/ todo' \in SUBSET (todo \ {k}) /\ UNCHANGED <<pc, lost>>
                  \/ todo' = {} /\ pc' = "off" /\ lost' = DOMAIN card
    /\ UNCHANGED <<file, pidfile, starts, running, prev, statted, ntplIdx, read, applied,
                   late>>

\* The end of process(): what was kept and what was added.
Applied ==
    /\ pc = "add" /\ todo = {} /\ pc' = "watch"
    /\ applied' = [k \in Kept \cup DOMAIN toAdd |->
                     IF k \in DOMAIN toAdd THEN toAdd[k] ELSE applied[k]]
    /\ toAdd' = Empty
    /\ UNCHANGED <<file, adapter, pidfile, starts, running, prev, statted, ntplIdx, read,
                   todo, lost, late, erased>>

\* After close(): the static filters, then exit; the pid file keeps the pid.
Exit ==
    /\ pc = "close" /\ todo = {}
    /\ IF ntplIdx = {} THEN pc' = "off" /\ UNCHANGED <<card, refused, lost, ntplIdx>>
       ELSE /\ \E id \in ntplIdx : ntplIdx' = ntplIdx \ {id} /\ NtplDelete(id)
            /\ UNCHANGED pc
    /\ UNCHANGED <<file, pidfile, starts, running, prev, statted, sets, late,
                   erased>>

Daemon == Setup \/ Open \/ Watch \/ StopWatching \/ ReadFile \/ Remove \/ Removed \/ Add
          \/ Applied \/ Exit

Next == Tick \/ Write \/ Start \/ Interrupt \/ Kill \/ Daemon

\* The daemon's own steps are never held up: it blocks only in sleep(1).
Spec == Init /\ [][Next]_vars /\ WF_vars(Daemon)

-----------------------------------------------------------------------------
Entry == [line : Lines \cup {Parse(l) : l \in Lines}, id : 0 .. MaxId]
Keyed(f) == DOMAIN f \subseteq {Key(l) : l \in Lines} /\ \A k \in DOMAIN f : f[k] \in Entry

\* Types of the daemon's sets, of the adapter and of the control.
TypeOK ==
    /\ now \in 1 .. MaxTime /\ mtime \in 1 .. MaxTime /\ text \in (SUBSET Lines) \cup {Absent}
    /\ DOMAIN card \subseteq 1 .. MaxId /\ refused \in 0 .. MaxRefused
    /\ pc \in {"off", "setup", "open", "watch", "read", "remove", "add", "close"}
    /\ running \in BOOLEAN /\ prev \in 0 .. Garbage /\ pidfile \in 0 .. MaxStarts + 1
    /\ Keyed(applied) /\ Keyed(toAdd) /\ ntplIdx \subseteq 1 .. MaxId

\* The filters on the adapter are exactly those the daemon still knows the
\* id of, except the ones it gave up on (a refused delete, a kill or a
\* crash): process() drops no object whose filter is still installed and
\* keeps none whose filter is gone.
Removing == IF pc = "remove" THEN todo \cup DOMAIN read ELSE IF pc = "close" THEN todo
            ELSE IF pc = "add" THEN DOMAIN read ELSE DOMAIN applied
HoldsAllFilters ==
    LET held == IF pc = "off" THEN {}
                ELSE ntplIdx \cup Ids(toAdd) \cup
                     ({applied[k].id : k \in DOMAIN applied \cap Removing} \ {0})
    IN held \cap lost = {} /\ DOMAIN card = held \cup lost

\* Between two changes the daemon has a filter for each address it last read
\* and for no other, as long as it never erased from the set it iterates.
Synchronised ==
    pc = "watch" /\ ~erased /\ prev # 0 =>
        /\ DOMAIN applied = DOMAIN read
        /\ {card[i] : i \in DOMAIN card \ (lost \cup ntplIdx)} = DOMAIN read

\* A file whose time stamp the daemon has seen differs from what it last
\* read only when it was written again within that second.
StaleOnlyWithinSecond ==
    pc = "watch" /\ text # Absent /\ mtime = prev => DOMAIN read = FileKeys \/ late

\* The types and what the daemon knows of its filters and its file.
DaemonInv == TypeOK /\ HoldsAllFilters /\ Synchronised /\ StaleOnlyWithinSecond

\* An update never takes down the filter of an address that the new file
\* still lists: traffic of an unchanged line is not interrupted.
KeptUntouched ==
    [][\A i \in DOMAIN card \ DOMAIN card' : pc = "close" \/ card[i] \notin DOMAIN read]_vars

\* Told to stop, the daemon ends, wherever in an update the signal came.
StopsOnSignal == (pc # "off" /\ ~running) ~> (pc = "off")

\* When the file is left alone the daemon's addresses become those of the
\* file, unless it was last written within an observed second.
Converges ==
    <>[](pc \notin {"off", "setup", "open", "close"} /\ running /\ text # Absent) =>
        <>[](late \/ erased \/ (pc = "watch" /\ DOMAIN applied = FileKeys))
=============================================================================
