------------------------- MODULE FilterDaemonProofs -------------------------
(***************************************************************************)
(* Proofs about FilterDaemon, for any lines, file contents, static filters *)
(* and bounds: the daemon knows the id of every filter on the adapter that *)
(* it has not given up, and an update leaves the unchanged lines alone.    *)
(***************************************************************************)
EXTENDS FilterDaemon, FiniteSetTheorems, TLAPS

Control == /\ starts \in 0 .. MaxStarts /\ statted \in BOOLEAN
           /\ late \in BOOLEAN /\ erased \in BOOLEAN

\* HoldsAllFilters, id by id: the adapter has those the daemon knows of and
\* those it has lost.
Known(i) ==
    /\ pc # "off" /\ i # 0
    /\ \/ i \in ntplIdx
       \/ \E k \in DOMAIN toAdd : toAdd[k].id = i
       \/ \E k \in DOMAIN applied \cap Removing : applied[k].id = i

Holding ==
    \A i : /\ Known(i) => i \notin lost
           /\ i \in DOMAIN card <=> Known(i) \/ i \in lost

\* An address object that holds an id holds the one of its own filter, which
\* is none of the static filters.
Installed ==
    pc # "off" =>
      /\ \A k \in DOMAIN applied \cap Removing : applied[k].id # 0 =>
            card[applied[k].id] = k /\ applied[k].id \notin ntplIdx
      /\ \A k \in DOMAIN toAdd : toAdd[k].id # 0 =>
            card[toAdd[k].id] = k /\ toAdd[k].id \notin ntplIdx

\* The sets of process() from step to step.
Stages ==
    /\ pc \in {"setup", "open"} => DOMAIN applied = {} /\ DOMAIN read = {}
    /\ pc \in {"setup", "open", "watch", "read", "close"} => DOMAIN toAdd = {}
    /\ pc \in {"remove", "add"} => DOMAIN toAdd \subseteq DOMAIN read \ DOMAIN applied
    /\ pc = "remove" => /\ todo \subseteq DOMAIN applied \ DOMAIN read
                        /\ \A k \in DOMAIN toAdd : toAdd[k].id = 0
    /\ pc = "add" => /\ todo \subseteq DOMAIN toAdd
                     /\ \A k \in todo : toAdd[k].id = 0
    /\ pc = "close" => todo \subseteq DOMAIN applied

\* As long as no filter failed, every address has one.
Complete ==
    pc # "off" /\ ~erased =>
      /\ \A k \in DOMAIN applied : applied[k].id # 0
      /\ pc \in {"remove", "add"} => DOMAIN toAdd = DOMAIN read \ DOMAIN applied
      /\ pc = "add" => \A k \in DOMAIN toAdd \ todo : toAdd[k].id # 0
      /\ pc = "watch" /\ prev # 0 => DOMAIN applied = DOMAIN read

\* What the daemon last read is the file it has seen.
Seen ==
    /\ pc \in {"setup", "open"} => prev = 0
    /\ pc \in {"remove", "add", "watch"} /\ text # Absent /\ mtime = prev =>
         DOMAIN read = FileKeys \/ late

FilterInv == Holding /\ Installed /\ Stages
IInv == TypeOK /\ Control /\ FilterInv /\ Complete /\ Seen

-----------------------------------------------------------------------------
(***************************************************************************)
(* Types                                                                   *)
(***************************************************************************)

\* What the commands do to the adapter: a new id, or none; one id less, or
\* one more that is lost.
LEMMA AddResult ==
  ASSUME TypeOK, NEW m, NEW id, NtplAdd(m, id)
  PROVE  /\ refused' \in 0 .. MaxRefused /\ id \in 0 .. MaxId
         /\ id = 0 => card' = card
         /\ id # 0 => /\ id \notin DOMAIN card /\ DOMAIN card' = DOMAIN card \cup {id}
                      /\ card'[id] = m /\ \A i \in DOMAIN card : card'[i] = card[i]
  BY DaemonAssumption DEF NtplAdd, TypeOK

LEMMA DeleteResult ==
  ASSUME TypeOK, NEW id, NtplDelete(id)
  PROVE  /\ refused' \in 0 .. MaxRefused
         /\ \/ /\ DOMAIN card' = DOMAIN card \ {id} /\ lost' = lost
            \/ /\ id \in DOMAIN card /\ card' = card /\ lost' = lost \cup {id}
         /\ \A i \in DOMAIN card' : card'[i] = card[i]
  BY DaemonAssumption DEF NtplDelete, Without, TypeOK

LEMMA KeysOfFile == TypeOK => FileKeys \subseteq {Key(l) : l \in Lines}
<1> SUFFICES ASSUME TypeOK, NEW k \in FileKeys
             PROVE  k \in {Key(l) : l \in Lines}
  OBVIOUS
<1>1. PICK l \in text : k = Key(l) /\ text # Absent
  BY DEF FileKeys
<1>2. l \in Lines
  BY <1>1 DEF TypeOK
<1> HIDE DEF Key
<1> QED  BY <1>1, <1>2

\* Every step keeps the types.
LEMMA TypeStep == IInv /\ [Next]_vars => TypeOK' /\ Control'
<1> SUFFICES ASSUME IInv, [Next]_vars
             PROVE  TypeOK' /\ Control'
  OBVIOUS
<1>0. TypeOK /\ Control /\ Stages
  BY DEF IInv, FilterInv
<1> USE <1>0, DaemonAssumption DEF file, adapter, sets
<1>1. CASE Tick \/ Write \/ Interrupt
  <2>1. /\ now' \in 1 .. MaxTime /\ mtime' \in 1 .. MaxTime
        /\ text' \in (SUBSET Lines) \cup {Absent}
        /\ running' \in BOOLEAN /\ late' \in BOOLEAN
    <3>1. CASE Tick
      BY <3>1 DEF Tick, TypeOK, Control
    <3>2. CASE Write
      <4>1. late' \in BOOLEAN
        BY <3>2 DEF Write
      <4>2. text' \in (SUBSET Lines) \cup {Absent}
        BY <3>2 DEF Write, TypeOK
      <4> QED  BY <3>2, <4>1, <4>2 DEF Write, TypeOK
    <3>3. CASE Interrupt
      BY <3>3 DEF Interrupt, TypeOK, Control
    <3> QED  BY <1>1, <3>1, <3>2, <3>3
  <2>2. UNCHANGED <<card, refused, pidfile, starts, pc, prev, statted, ntplIdx,
                    applied, toAdd, erased>>
    BY <1>1 DEF Tick, Write, Interrupt
  <2> QED  BY <2>1, <2>2 DEF TypeOK, Control, Keyed, Entry, Garbage
<1>2. CASE Start
  <2>1. Keyed(applied') /\ Keyed(toAdd')
    BY <1>2 DEF Start, Keyed, Empty
  <2>2. /\ starts' \in 0 .. MaxStarts /\ pidfile' \in 0 .. MaxStarts + 1
        /\ prev' \in 0 .. Garbage
    BY <1>2 DEF Start, Control, Garbage
  <2> QED  BY <1>2, <2>1, <2>2 DEF Start, TypeOK, Control
<1>3. CASE Kill
  <2>1. pidfile' \in 0 .. MaxStarts + 1 /\ pc' \in {pc, "off"}
    BY <1>3 DEF Kill, Die
  <2>2. UNCHANGED <<now, mtime, text, adapter, starts, running, prev, statted,
                    ntplIdx, applied, toAdd, late, erased>>
    BY <1>3 DEF Kill, Die
  <2> QED  BY <2>1, <2>2 DEF TypeOK, Control, Keyed, Entry, Garbage
<1>4. CASE Setup
  <2>1. CASE todo = Statics
    BY <1>4, <2>1 DEF Setup, TypeOK, Control, Keyed, Entry
  <2>2. CASE todo # Statics
    <3>1. PICK s, id : NtplAdd(s, id) /\ ntplIdx' = ntplIdx \cup ({id} \ {0})
      BY <1>4, <2>2 DEF Setup
    <3>2. /\ refused' \in 0 .. MaxRefused /\ DOMAIN card' \subseteq 1 .. MaxId
          /\ ntplIdx' \subseteq 1 .. MaxId
      <4>1. /\ refused' \in 0 .. MaxRefused /\ id \in 0 .. MaxId
            /\ id = 0 => card' = card
            /\ id # 0 => DOMAIN card' = DOMAIN card \cup {id}
        BY <3>1, AddResult
      <4>2. ntplIdx' \subseteq 1 .. MaxId
        BY <3>1, <4>1 DEF TypeOK
      <4>3. DOMAIN card' \subseteq 1 .. MaxId
        BY <4>1 DEF TypeOK
      <4> QED  BY <4>1, <4>2, <4>3
    <3> QED  BY <1>4, <2>2, <3>2 DEF Setup, TypeOK, Control, Keyed, Entry
  <2> QED  BY <2>1, <2>2
<1>5. CASE Open
  BY <1>5 DEF Open, TypeOK, Control, Keyed, Entry
<1>6. CASE Watch
  <2>1. prev' \in 0 .. Garbage /\ statted' \in BOOLEAN
        /\ pc' \in {"watch", "read", "off"}
    <3>1. prev' \in {prev, mtime, Garbage} /\ pc' \in {"watch", "read", "off"}
      BY <1>6 DEF Watch
    <3>2. statted' \in BOOLEAN
      BY <1>6 DEF Watch, Control
    <3> QED  BY <3>1, <3>2 DEF TypeOK, Garbage
  <2>2. UNCHANGED <<now, mtime, text, adapter, pidfile, starts, running, ntplIdx,
                    applied, toAdd, late, erased>>
    BY <1>6 DEF Watch
  <2> QED  BY <2>1, <2>2 DEF TypeOK, Control, Keyed, Entry, Garbage
<1>7. CASE StopWatching \/ Removed
  BY <1>7 DEF StopWatching, Removed, TypeOK, Control, Keyed, Entry
<1>8. CASE ReadFile
  <2>1. PICK f \in [FileKeys -> Lines] :
          toAdd' = [k \in FileKeys \ DOMAIN applied |-> [line |-> Parse(f[k]), id |-> 0]]
    BY <1>8 DEF ReadFile
  <2>2. Keyed(toAdd')
    BY <2>1, KeysOfFile DEF Keyed, Entry
  <2>3. Keyed(applied')
    BY <1>8 DEF ReadFile, TypeOK
  <2> QED  BY <1>8, <2>2, <2>3 DEF ReadFile, TypeOK, Control
<1>9. CASE Remove
  <2>1. PICK k : NtplDelete(applied[k].id)
    BY <1>9 DEF Remove
  <2>2. refused' \in 0 .. MaxRefused /\ DOMAIN card' \subseteq 1 .. MaxId
    BY <2>1, DeleteResult DEF TypeOK
  <2> QED  BY <1>9, <2>2 DEF Remove, TypeOK, Control, Keyed, Entry
<1>10. CASE Add
  <2>1. PICK k \in todo, id \in 0 .. MaxId + 1 :
          /\ (id = 0 /\ UNCHANGED adapter) \/ NtplAdd(k, id)
          /\ \/ id # 0 /\ toAdd' = [toAdd EXCEPT ![k].id = id] /\ UNCHANGED pc
             \/ toAdd' = Without(toAdd, {k}) /\ pc' \in {pc, "off"}
    BY <1>10, Zenon DEF Add
  <2>2. /\ refused' \in 0 .. MaxRefused /\ DOMAIN card' \subseteq 1 .. MaxId
        /\ id \in 0 .. MaxId
    <3>1. CASE id = 0 /\ UNCHANGED adapter
      BY <3>1 DEF TypeOK
    <3>2. CASE NtplAdd(k, id)
      <4>1. /\ refused' \in 0 .. MaxRefused /\ id \in 0 .. MaxId
            /\ id = 0 => card' = card
            /\ id # 0 => DOMAIN card' = DOMAIN card \cup {id}
        BY <3>2, AddResult
      <4> QED  BY <4>1 DEF TypeOK
    <3> QED  BY <2>1, <3>1, <3>2
  <2>3. k \in DOMAIN toAdd /\ Keyed(toAdd)
    BY <1>10, <2>1 DEF Add, Stages, TypeOK
  <2>4. Keyed(toAdd')
    BY <2>1, <2>2, <2>3 DEF Keyed, Entry, Without
  <2>5. erased' \in BOOLEAN
    BY <1>10 DEF Add, Control
  <2> QED  BY <1>10, <2>1, <2>2, <2>4, <2>5 DEF Add, TypeOK, Control, Keyed, Entry
<1>11. CASE Applied
  <2>1. Keyed(applied') /\ Keyed(toAdd')
    BY <1>11 DEF Applied, Kept, Keyed, TypeOK, Empty
  <2> QED  BY <1>11, <2>1 DEF Applied, TypeOK, Control
<1>12. CASE Exit
  <2>1. CASE ntplIdx = {}
    BY <1>12, <2>1 DEF Exit, TypeOK, Control, Keyed, Entry
  <2>2. CASE ntplIdx # {}
    <3>1. PICK id \in ntplIdx : ntplIdx' = ntplIdx \ {id} /\ NtplDelete(id)
      BY <1>12, <2>2 DEF Exit
    <3>2. refused' \in 0 .. MaxRefused /\ DOMAIN card' \subseteq 1 .. MaxId
      BY <3>1, DeleteResult DEF TypeOK
    <3> QED  BY <1>12, <2>2, <3>1, <3>2 DEF Exit, TypeOK, Control, Keyed, Entry
  <2> QED  BY <2>1, <2>2
<1>13. CASE UNCHANGED vars
  BY <1>13 DEF vars, TypeOK, Control, Keyed, Entry
<1> QED
  BY <1>1, <1>2, <1>3, <1>4, <1>5, <1>6, <1>7, <1>8, <1>9, <1>10, <1>11, <1>12,
     <1>13 DEF Next, Daemon

-----------------------------------------------------------------------------
(***************************************************************************)
(* What the daemon knows of its filters                                    *)
(***************************************************************************)

\* A step in which no id is given to or taken from anything.
LEMMA NothingMoves ==
  ASSUME Holding, Installed, Stages,
         UNCHANGED <<card, lost, ntplIdx, applied>>,
         pc' = "off" <=> pc = "off",
         \A k \in DOMAIN applied : k \in Removing' <=> k \in Removing,
         \/ toAdd' = toAdd
         \/ DOMAIN toAdd = {} /\ \A k \in DOMAIN toAdd' : toAdd'[k].id = 0
  PROVE  Holding' /\ Installed'
<1>1. \A i : Known(i)' <=> Known(i)
  BY DEF Known
<1>2. Holding'
  BY <1>1 DEF Holding
<1>3. Installed'
  BY DEF Installed
<1> QED  BY <1>2, <1>3

\* The process ends without taking its filters along.
LEMMA Abandoned ==
  ASSUME pc' = "off", card' = card, lost' = DOMAIN card
  PROVE  Holding' /\ Installed'
<1>1. \A i : ~Known(i)'
  BY DEF Known
<1> QED  BY <1>1 DEF Holding, Installed

\* A new filter on the adapter becomes one of the static ones, or that of an
\* address.
LEMMA StaticAdded ==
  ASSUME TypeOK, Holding, Installed, pc = "setup", pc' = "setup", NEW m, NEW id,
         NtplAdd(m, id), ntplIdx' = ntplIdx \cup ({id} \ {0}),
         UNCHANGED <<lost, applied, toAdd, read>>,
         DOMAIN applied = {}, DOMAIN toAdd = {}
  PROVE  Holding' /\ Installed'
<1>1. /\ id = 0 => card' = card
      /\ id # 0 => id \notin DOMAIN card /\ DOMAIN card' = DOMAIN card \cup {id}
  BY AddResult
<1>2. \A i : Known(i)' <=> Known(i) \/ (i = id /\ id # 0)
  BY DEF Known
<1>3. \A i : i \in DOMAIN card' <=> i \in DOMAIN card \/ (i = id /\ id # 0)
  BY <1>1
<1>4. id # 0 => id \notin lost
  BY <1>1 DEF Holding
<1>5. Holding'
  BY <1>2, <1>3, <1>4 DEF Holding
<1> QED  BY <1>5 DEF Installed

LEMMA AddressAdded ==
  ASSUME TypeOK, Holding, Installed, Stages, pc = "add", pc' = "add",
         NEW k \in todo, NEW id, id # 0, NtplAdd(k, id),
         toAdd' = [toAdd EXCEPT ![k].id = id],
         UNCHANGED <<lost, applied, read, ntplIdx>>
  PROVE  Holding' /\ Installed'
<1>1. /\ id \notin DOMAIN card /\ DOMAIN card' = DOMAIN card \cup {id} /\ card'[id] = k
      /\ \A i \in DOMAIN card : card'[i] = card[i]
  BY AddResult
<1>2. k \in DOMAIN toAdd /\ toAdd[k].id = 0
  BY DEF Stages
<1>3. /\ DOMAIN toAdd' = DOMAIN toAdd /\ toAdd'[k].id = id
      /\ \A j \in DOMAIN toAdd \ {k} : toAdd'[j] = toAdd[j]
  BY <1>2 DEF TypeOK, Keyed, Entry
<1>4. Removing = DOMAIN read /\ Removing' = DOMAIN read
  BY DEF Removing
<1>5. \A i : Known(i)' <=> Known(i) \/ i = id
  BY <1>2, <1>3, <1>4 DEF Known
<1>6. Holding'
  BY <1>1, <1>5 DEF Holding
<1>7. \A j \in DOMAIN applied \cap Removing : applied[j].id # 0
        => applied[j].id \in DOMAIN card
  BY DEF Holding, Known
<1>8. \A j \in DOMAIN toAdd : toAdd[j].id # 0 => toAdd[j].id \in DOMAIN card
  BY DEF Holding, Known
<1>9. id \notin ntplIdx
  BY <1>1 DEF Holding, Known, TypeOK
<1>10. Installed'
  <2>1. \A j \in DOMAIN applied \cap Removing' : applied[j].id # 0
          => card'[applied[j].id] = j /\ applied[j].id \notin ntplIdx
    BY <1>1, <1>4, <1>7 DEF Installed
  <2>2. \A j \in DOMAIN toAdd' : toAdd'[j].id # 0
          => card'[toAdd'[j].id] = j /\ toAdd'[j].id \notin ntplIdx
    BY <1>1, <1>3, <1>8, <1>9 DEF Installed
  <2> QED  BY <2>1, <2>2 DEF Installed
<1> QED  BY <1>6, <1>10

\* An address that could not be applied is forgotten; it had no id.
LEMMA AddressDropped ==
  ASSUME Holding, Installed, Stages, pc = "add", pc' = "add", NEW k \in todo,
         toAdd' = Without(toAdd, {k}),
         UNCHANGED <<card, lost, applied, read, ntplIdx>>
  PROVE  Holding' /\ Installed'
<1>1. k \in DOMAIN toAdd /\ toAdd[k].id = 0
  BY DEF Stages
<1>2. /\ DOMAIN toAdd' = DOMAIN toAdd \ {k}
      /\ \A j \in DOMAIN toAdd' : toAdd'[j] = toAdd[j]
  BY DEF Without
<1>3. Removing = DOMAIN read /\ Removing' = DOMAIN read
  BY DEF Removing
<1>4. \A i : Known(i)' <=> Known(i)
  BY <1>1, <1>2, <1>3 DEF Known
<1>5. Holding'
  BY <1>4 DEF Holding
<1> QED  BY <1>2, <1>3, <1>5 DEF Installed

\* The filter of an address goes, or is lost: nothing else has its id.
LEMMA AddressRemoved ==
  ASSUME TypeOK, Holding, Installed, Stages, pc \in {"remove", "close"},
         NEW k \in todo, todo' = todo \ {k}, NtplDelete(applied[k].id),
         UNCHANGED <<pc, applied, toAdd, read, ntplIdx>>
  PROVE  Holding' /\ Installed'
<1>0. PICK id : id = applied[k].id
  OBVIOUS
<1>1. /\ k \in DOMAIN applied /\ k \in Removing
      /\ \A j \in DOMAIN applied : j \in Removing' <=> j \in Removing /\ j # k
  BY DEF Stages, Removing
<1>2. /\ \/ DOMAIN card' = DOMAIN card \ {id} /\ lost' = lost
         \/ id \in DOMAIN card /\ card' = card /\ lost' = lost \cup {id}
      /\ \A i \in DOMAIN card' : card'[i] = card[i]
  BY <1>0, DeleteResult
<1>3. /\ \A j \in DOMAIN toAdd : toAdd[j].id = 0
      /\ 0 \notin DOMAIN card
  BY DEF Stages, TypeOK
<1>4. id # 0 => Known(id) /\ id \notin lost /\ id \in DOMAIN card
                 /\ card[id] = k /\ id \notin ntplIdx
  BY <1>0, <1>1 DEF Known, Holding, Installed
<1>5. \A j \in DOMAIN applied \cap Removing : applied[j].id = id /\ id # 0 => j = k
  BY <1>0, <1>1 DEF Installed
<1>6. \A i : Known(i)' <=> Known(i) /\ i # id
  <2>1. \A i : Known(i)' => Known(i)
    BY <1>1 DEF Known
  <2>2. ~Known(id)'
    BY <1>0, <1>1, <1>3, <1>4, <1>5 DEF Known
  <2>3. ASSUME NEW i, Known(i), i # id
        PROVE  Known(i)'
    BY <1>0, <1>1, <2>3 DEF Known
  <2> QED  BY <2>1, <2>2, <2>3
<1>7. Holding'
  BY <1>2, <1>3, <1>4, <1>6 DEF Holding, Known
<1>8. \A j \in DOMAIN applied \cap Removing' : applied[j].id # 0
        => Known(applied[j].id)'
  BY <1>1 DEF Known
<1>9. Installed'
  <2>1. ASSUME NEW j \in DOMAIN applied \cap Removing', applied[j].id # 0
        PROVE  card'[applied[j].id] = j /\ applied[j].id \notin ntplIdx
    <3>1. j \in Removing /\ applied[j].id \in DOMAIN card'
      BY <1>1, <1>7, <1>8, <2>1 DEF Holding
    <3> QED  BY <1>2, <2>1, <3>1 DEF Installed
  <2> QED  BY <1>3, <2>1 DEF Installed
<1> QED  BY <1>7, <1>9

\* So does a static filter at the end.
LEMMA StaticRemoved ==
  ASSUME TypeOK, Holding, Installed, Stages, pc = "close", todo = {},
         NEW id \in ntplIdx, ntplIdx' = ntplIdx \ {id}, NtplDelete(id),
         UNCHANGED <<pc, sets>>
  PROVE  Holding' /\ Installed'
<1>1. /\ DOMAIN toAdd = {} /\ Removing = {} /\ Removing' = {} /\ DOMAIN toAdd' = {}
      /\ id # 0 /\ 0 \notin DOMAIN card
  BY DEF Stages, Removing, sets, TypeOK
<1>2. \/ DOMAIN card' = DOMAIN card \ {id} /\ lost' = lost
      \/ id \in DOMAIN card /\ card' = card /\ lost' = lost \cup {id}
  BY DeleteResult
<1>3. \A i : Known(i)' <=> Known(i) /\ i # id
  BY <1>1 DEF Known
<1>4. Known(id) /\ id \notin lost
  BY <1>1 DEF Known, Holding
<1>5. Holding'
  BY <1>1, <1>2, <1>3, <1>4 DEF Holding
<1> QED  BY <1>1, <1>5 DEF Installed

\* The end of process() puts together what was kept and what was added.
LEMMA Together ==
  ASSUME Holding, Installed, Stages, Applied
  PROVE  Holding' /\ Installed'
<1>1. /\ pc = "add" /\ pc' = "watch" /\ DOMAIN toAdd' = {}
      /\ DOMAIN applied' = (DOMAIN applied \cap DOMAIN read) \cup DOMAIN toAdd
      /\ UNCHANGED <<card, lost, ntplIdx>>
      /\ \A k \in DOMAIN applied' :
           applied'[k] = IF k \in DOMAIN toAdd THEN toAdd[k] ELSE applied[k]
  BY DEF Applied, Kept, Empty, adapter
<1>2. Removing = DOMAIN read /\ Removing' = DOMAIN applied'
  BY <1>1 DEF Removing
<1>3. DOMAIN toAdd \subseteq DOMAIN read \ DOMAIN applied
  BY <1>1 DEF Stages
<1>4. \A i : Known(i)' <=> Known(i)
  BY <1>1, <1>2, <1>3 DEF Known
<1>5. Holding'
  BY <1>1, <1>4 DEF Holding
<1>6. Installed'
  BY <1>1, <1>2, <1>3 DEF Installed
<1> QED  BY <1>5, <1>6

-----------------------------------------------------------------------------
(***************************************************************************)
(* Every step keeps the invariant                                          *)
(***************************************************************************)

LEMMA FilterStep == IInv /\ [Next]_vars => Holding' /\ Installed'
<1> SUFFICES ASSUME IInv, [Next]_vars
             PROVE  Holding' /\ Installed'
  OBVIOUS
<1>0. TypeOK /\ Holding /\ Installed /\ Stages
  BY DEF IInv, FilterInv
<1> USE <1>0
<1>1. CASE Tick \/ Write \/ Interrupt \/ UNCHANGED vars
  <2>1. UNCHANGED <<card, lost, ntplIdx, applied, toAdd, pc, todo, read>>
    BY <1>1 DEF Tick, Write, Interrupt, vars, adapter, sets
  <2>2. Removing' = Removing
    BY <2>1 DEF Removing
  <2> QED  BY <2>1, <2>2, NothingMoves
<1>2. CASE Start
  <2>1. /\ pc = "off" /\ UNCHANGED <<card, lost>>
        /\ ntplIdx' = {} /\ DOMAIN applied' = {} /\ DOMAIN toAdd' = {}
    BY <1>2 DEF Start, adapter, Empty
  <2>2. \A i : ~Known(i) /\ ~Known(i)'
    BY <2>1 DEF Known
  <2> QED  BY <2>1, <2>2 DEF Holding, Installed
<1>3. CASE Kill
  <2>1. CASE Die
    BY <2>1, Abandoned DEF Die, adapter
  <2>2. CASE UNCHANGED <<file, adapter, starts, pc, running, prev, statted, ntplIdx,
                         sets, lost, late, erased>>
    <3>1. UNCHANGED <<card, lost, ntplIdx, applied, toAdd, pc, todo, read>>
      BY <2>2 DEF adapter, sets
    <3>2. Removing' = Removing
      BY <3>1 DEF Removing
    <3> QED  BY <3>1, <3>2, NothingMoves
  <2> QED  BY <1>3, <2>1, <2>2 DEF Kill
<1>4. CASE Setup
  <2>1. /\ pc = "setup" /\ UNCHANGED <<lost, read, applied, toAdd>>
        /\ DOMAIN applied = {} /\ DOMAIN toAdd = {}
    BY <1>4 DEF Setup, Stages
  <2>2. CASE todo = Statics
    <3>1. pc' = "open" /\ UNCHANGED <<card, ntplIdx>>
      BY <1>4, <2>2 DEF Setup, adapter
    <3> QED  BY <2>1, <3>1, NothingMoves
  <2>3. CASE todo # Statics
    <3>1. PICK s, id : NtplAdd(s, id) /\ ntplIdx' = ntplIdx \cup ({id} \ {0}) /\ pc' = pc
      BY <1>4, <2>3 DEF Setup
    <3> QED  BY <2>1, <3>1, StaticAdded
  <2> QED  BY <2>2, <2>3
<1>5. CASE Open
  <2>1. /\ UNCHANGED <<card, lost, ntplIdx, applied, toAdd>> /\ pc = "open"
        /\ pc' \in {"close", "watch"} /\ DOMAIN applied = {}
    BY <1>5 DEF Open, adapter, Stages
  <2> QED  BY <2>1, NothingMoves
<1>6. CASE Watch
  <2>1. UNCHANGED <<card, ntplIdx, applied, toAdd>> /\ pc = "watch"
    BY <1>6 DEF Watch, adapter, sets
  <2>2. \/ pc' \in {"watch", "read"} /\ UNCHANGED lost
        \/ pc' = "off" /\ lost' = DOMAIN card
    BY <1>6 DEF Watch
  <2>3. CASE pc' \in {"watch", "read"} /\ UNCHANGED lost
    <3>1. Removing = DOMAIN applied /\ Removing' = DOMAIN applied
      BY <2>1, <2>3 DEF Removing
    <3> QED  BY <2>1, <2>3, <3>1, NothingMoves
  <2>4. CASE pc' = "off" /\ lost' = DOMAIN card
    BY <2>1, <2>4, Abandoned
  <2> QED  BY <2>2, <2>3, <2>4
<1>7. CASE StopWatching
  <2>1. UNCHANGED <<card, lost, ntplIdx, applied, toAdd>> /\ pc = "watch"
        /\ pc' = "close" /\ todo' = DOMAIN applied
    BY <1>7 DEF StopWatching, adapter
  <2>2. Removing = DOMAIN applied /\ Removing' = DOMAIN applied
    BY <2>1 DEF Removing
  <2> QED  BY <2>1, <2>2, NothingMoves
<1>8. CASE ReadFile
  <2>1. /\ UNCHANGED <<card, lost, ntplIdx, applied>> /\ pc = "read" /\ pc' = "remove"
        /\ DOMAIN read' = FileKeys /\ todo' = DOMAIN applied \ FileKeys
        /\ DOMAIN toAdd = {} /\ \A k \in DOMAIN toAdd' : toAdd'[k].id = 0
    BY <1>8 DEF ReadFile, ToRemove, adapter, Stages
  <2>2. \A k \in DOMAIN applied : k \in Removing /\ k \in Removing'
    BY <2>1 DEF Removing
  <2> QED  BY <2>1, <2>2, NothingMoves
<1>9. CASE Remove
  <2>1. PICK k \in todo : todo' = todo \ {k} /\ NtplDelete(applied[k].id)
    BY <1>9 DEF Remove
  <2>2. pc \in {"remove", "close"} /\ UNCHANGED <<pc, applied, toAdd, read, ntplIdx>>
    BY <1>9 DEF Remove
  <2> QED  BY <2>1, <2>2, AddressRemoved
<1>10. CASE Removed
  <2>1. /\ UNCHANGED <<card, lost, ntplIdx, applied, toAdd, read>>
        /\ pc = "remove" /\ pc' = "add" /\ todo = {}
    BY <1>10 DEF Removed, adapter
  <2>2. Removing = DOMAIN read /\ Removing' = DOMAIN read
    BY <2>1 DEF Removing
  <2> QED  BY <2>1, <2>2, NothingMoves
<1>11. CASE Add
  <2>1. PICK k \in todo, id \in 0 .. MaxId + 1 :
          /\ (id = 0 /\ UNCHANGED adapter) \/ NtplAdd(k, id)
          /\ \/ id # 0 /\ toAdd' = [toAdd EXCEPT ![k].id = id] /\ UNCHANGED <<pc, lost>>
             \/ /\ id = 0 /\ toAdd' = Without(toAdd, {k})
                /\ \/ UNCHANGED <<pc, lost>>
                   \/ pc' = "off" /\ lost' = DOMAIN card
    BY <1>11, Zenon DEF Add
  <2>2. pc = "add" /\ UNCHANGED <<applied, read, ntplIdx>>
    BY <1>11 DEF Add
  <2>3. CASE id # 0
    BY <2>1, <2>2, <2>3, AddressAdded
  <2>4. CASE id = 0
    <3>1. card' = card
      BY <2>1, <2>4, AddResult DEF adapter
    <3> QED  BY <2>1, <2>2, <2>4, <3>1, AddressDropped, Abandoned
  <2> QED  BY <2>3, <2>4
<1>12. CASE Applied
  BY <1>12, Together
<1>13. CASE Exit
  <2>1. pc = "close" /\ todo = {} /\ UNCHANGED sets
    BY <1>13 DEF Exit
  <2>2. CASE ntplIdx = {}
    <3>1. pc' = "off" /\ UNCHANGED <<card, lost>> /\ DOMAIN toAdd = {} /\ Removing = {}
      BY <1>13, <2>1, <2>2 DEF Exit, Stages, Removing
    <3>2. \A i : ~Known(i) /\ ~Known(i)'
      BY <2>2, <3>1 DEF Known
    <3> QED  BY <3>1, <3>2 DEF Holding, Installed
  <2>3. CASE ntplIdx # {}
    <3>1. PICK id \in ntplIdx : ntplIdx' = ntplIdx \ {id} /\ NtplDelete(id) /\ pc' = pc
      BY <1>13, <2>3 DEF Exit
    <3> QED  BY <2>1, <3>1, StaticRemoved
  <2> QED  BY <2>2, <2>3
<1> QED
  BY <1>1, <1>2, <1>3, <1>4, <1>5, <1>6, <1>7, <1>8, <1>9, <1>10, <1>11, <1>12,
     <1>13 DEF Next, Daemon

LEMMA StagesStep == IInv /\ [Next]_vars => Stages'
<1> SUFFICES ASSUME IInv, [Next]_vars
             PROVE  Stages'
  OBVIOUS
<1>0. TypeOK /\ Stages
  BY DEF IInv, FilterInv
<1> USE <1>0
<1>1. CASE Tick \/ Write \/ Interrupt \/ UNCHANGED vars
  <2>1. UNCHANGED <<applied, toAdd, pc, todo, read>>
    BY <1>1 DEF Tick, Write, Interrupt, vars, sets
  <2> QED  BY <2>1 DEF Stages
<1>2. CASE Start
  BY <1>2 DEF Start, Stages, Empty
<1>3. CASE Kill
  <2>1. pc' \in {pc, "off"} /\ UNCHANGED <<applied, toAdd, todo, read>>
    BY <1>3 DEF Kill, Die, sets
  <2> QED  BY <2>1 DEF Stages
<1>4. CASE Setup
  BY <1>4 DEF Setup, Stages
<1>5. CASE Open
  BY <1>5 DEF Open, Stages
<1>6. CASE Watch \/ StopWatching
  BY <1>6 DEF Watch, StopWatching, Stages, sets
<1>7. CASE ReadFile
  <2>1. /\ pc = "read" /\ pc' = "remove" /\ applied' = applied
        /\ DOMAIN read' = FileKeys /\ DOMAIN toAdd' = FileKeys \ DOMAIN applied
        /\ \A k \in DOMAIN toAdd' : toAdd'[k].id = 0
        /\ todo' = DOMAIN applied \ FileKeys
    BY <1>7 DEF ReadFile, ToRemove
  <2> QED  BY <2>1 DEF Stages
<1>8. CASE Remove
  BY <1>8 DEF Remove, Stages
<1>9. CASE Removed
  BY <1>9 DEF Removed, Stages
<1>10. CASE Add
  <2>1. PICK k \in todo, id \in 0 .. MaxId + 1 :
          \/ /\ toAdd' = [toAdd EXCEPT ![k].id = id] /\ UNCHANGED pc
             /\ todo' = todo \ {k}
          \/ /\ toAdd' = Without(toAdd, {k}) /\ pc' \in {pc, "off"}
             /\ todo' \subseteq todo \ {k}
    BY <1>10, Zenon DEF Add
  <2>2. pc = "add" /\ UNCHANGED <<applied, read>>
    BY <1>10 DEF Add
  <2>3. todo' \subseteq todo \ {k} /\ pc' \in {"add", "off"}
    BY <2>1, <2>2
  <2>4. /\ DOMAIN toAdd' \subseteq DOMAIN toAdd /\ DOMAIN toAdd \ {k} \subseteq DOMAIN toAdd'
        /\ \A j \in DOMAIN toAdd \ {k} : toAdd'[j] = toAdd[j]
    BY <2>1 DEF Without
  <2> QED  BY <2>2, <2>3, <2>4 DEF Stages
<1>11. CASE Applied
  BY <1>11 DEF Applied, Stages, Empty
<1>12. CASE Exit
  BY <1>12 DEF Exit, Stages, sets
<1> QED
  BY <1>1, <1>2, <1>3, <1>4, <1>5, <1>6, <1>7, <1>8, <1>9, <1>10, <1>11, <1>12
  DEF Next, Daemon

LEMMA SeenStep == IInv /\ [Next]_vars => Seen'
<1> SUFFICES ASSUME IInv, [Next]_vars
             PROVE  Seen'
  OBVIOUS
<1>0. TypeOK /\ Seen /\ \A t \in 1 .. MaxTime : t # 0
  BY DaemonAssumption DEF IInv, FilterInv
<1> USE <1>0
<1>1. CASE Write
  <2>1. UNCHANGED <<pc, prev, read>> /\ mtime' = now
        /\ late' = (late \/ (now = prev /\ pc # "read"))
    BY <1>1 DEF Write, sets
  <2> QED  BY <2>1 DEF Seen
<1>2. CASE Tick \/ Interrupt \/ Remove \/ Removed \/ Setup \/ UNCHANGED vars
  <2>1. UNCHANGED <<text, mtime, prev, read, late>>
    BY <1>2 DEF Tick, Interrupt, Remove, Removed, Setup, vars, file, sets
  <2>2. \/ pc' = pc
        \/ pc = "remove" /\ pc' = "add"
        \/ pc = "setup" /\ pc' = "open"
    BY <1>2 DEF Tick, Interrupt, Remove, Removed, Setup, vars
  <2>3. FileKeys' = FileKeys
    BY <2>1 DEF FileKeys
  <2> QED  BY <2>1, <2>2, <2>3 DEF Seen
<1>3. CASE Start
  BY <1>3 DEF Start, Seen
<1>4. CASE Kill
  <2>1. pc' \in {pc, "off"} /\ UNCHANGED <<text, mtime, prev, read, late>>
    BY <1>4 DEF Kill, Die, file, sets
  <2>2. FileKeys' = FileKeys
    BY <2>1 DEF FileKeys
  <2> QED  BY <2>1, <2>2 DEF Seen
<1>5. CASE Open
  <2>1. prev' = 0 /\ pc' \in {"close", "watch"}
    BY <1>5 DEF Open, Seen
  <2>2. mtime' # 0 \/ pc' = "close"
    BY <1>5, <2>1 DEF Open, TypeOK
  <2> QED  BY <2>1, <2>2 DEF Seen
<1>6. CASE Watch
  <2>1. /\ pc = "watch" /\ UNCHANGED <<text, mtime, read, late>>
        /\ \/ pc' = "watch" /\ prev' = prev
           \/ pc' \in {"read", "off"}
    BY <1>6 DEF Watch, Changed, file, sets
  <2>2. FileKeys' = FileKeys
    BY <2>1 DEF FileKeys
  <2> QED  BY <2>1, <2>2 DEF Seen
<1>7. CASE ReadFile
  <2>1. pc' = "remove" /\ DOMAIN read' = FileKeys /\ text' = text
    BY <1>7 DEF ReadFile, file
  <2>2. FileKeys' = FileKeys
    BY <2>1 DEF FileKeys
  <2> QED  BY <2>1, <2>2 DEF Seen
<1>8. CASE StopWatching \/ Exit
  BY <1>8 DEF StopWatching, Exit, Seen
<1>9. CASE Add \/ Applied
  <2>1. /\ pc = "add" /\ UNCHANGED <<text, mtime, prev, read, late>>
        /\ pc' \in {"add", "watch", "off"}
    BY <1>9 DEF Add, Applied, file
  <2>2. FileKeys' = FileKeys
    BY <2>1 DEF FileKeys
  <2> QED  BY <2>1, <2>2 DEF Seen
<1> QED
  BY <1>1, <1>2, <1>3, <1>4, <1>5, <1>6, <1>7, <1>8, <1>9 DEF Next, Daemon

LEMMA CompleteStep == IInv /\ [Next]_vars => Complete'
<1> SUFFICES ASSUME IInv, [Next]_vars
             PROVE  Complete'
  OBVIOUS
<1>0. TypeOK /\ Stages /\ Complete /\ Seen
  BY DEF IInv, FilterInv
<1> USE <1>0
<1>1. CASE Tick \/ Write \/ Interrupt \/ UNCHANGED vars
  <2>1. UNCHANGED <<pc, prev, erased, read, applied, toAdd, todo>>
    BY <1>1 DEF Tick, Write, Interrupt, vars, sets
  <2> QED  BY <2>1 DEF Complete
<1>2. CASE Start
  BY <1>2 DEF Start, Complete, Empty
<1>3. CASE Kill
  <2>1. pc' \in {pc, "off"} /\ UNCHANGED <<prev, erased, read, applied, toAdd, todo>>
    BY <1>3 DEF Kill, Die, sets
  <2> QED  BY <2>1 DEF Complete
<1>4. CASE Setup
  BY <1>4 DEF Setup, Complete
<1>5. CASE Open
  BY <1>5 DEF Open, Complete, Seen
<1>6. CASE Watch
  <2>1. /\ pc = "watch" /\ UNCHANGED <<erased, read, applied, toAdd, todo>>
        /\ \/ pc' = "watch" /\ prev' = prev
           \/ pc' \in {"read", "off"}
    BY <1>6 DEF Watch, Changed, sets
  <2> QED  BY <2>1 DEF Complete
<1>7. CASE StopWatching
  BY <1>7 DEF StopWatching, Complete
<1>8. CASE ReadFile
  <2>1. /\ pc = "read" /\ pc' = "remove" /\ UNCHANGED <<applied, erased>>
        /\ DOMAIN read' = FileKeys /\ DOMAIN toAdd' = FileKeys \ DOMAIN applied
    BY <1>8 DEF ReadFile
  <2> QED  BY <2>1 DEF Complete
<1>9. CASE Remove
  BY <1>9 DEF Remove, Complete
<1>10. CASE Removed
  BY <1>10 DEF Removed, Complete
<1>11. CASE Add
  <2>1. PICK k \in todo, id \in 0 .. MaxId + 1 :
          \/ /\ id # 0 /\ toAdd' = [toAdd EXCEPT ![k].id = id] /\ UNCHANGED pc
             /\ todo' = todo \ {k} /\ UNCHANGED erased
          \/ erased'
    BY <1>11, Zenon DEF Add
  <2>2. pc = "add" /\ UNCHANGED <<applied, read>>
    BY <1>11 DEF Add
  <2>3. CASE erased'
    BY <2>3 DEF Complete
  <2>4. CASE ~erased'
    <3>1. DOMAIN toAdd' = DOMAIN toAdd
          /\ \A j \in DOMAIN toAdd \ {k} : toAdd'[j] = toAdd[j]
      BY <2>1, <2>4
    <3>2. toAdd'[k].id # 0
      BY <2>1, <2>2, <2>4 DEF Stages, TypeOK, Keyed, Entry
    <3>3. pc' = "add" /\ todo' = todo \ {k} /\ ~erased
      BY <2>1, <2>2, <2>4
    <3> QED  BY <2>2, <3>1, <3>2, <3>3 DEF Complete
  <2> QED  BY <2>3, <2>4
<1>12. CASE Applied
  <2>1. /\ pc = "add" /\ pc' = "watch" /\ todo = {} /\ erased' = erased /\ read' = read
        /\ DOMAIN applied' = (DOMAIN applied \cap DOMAIN read) \cup DOMAIN toAdd
        /\ \A k \in DOMAIN applied' :
             applied'[k] = IF k \in DOMAIN toAdd THEN toAdd[k] ELSE applied[k]
    BY <1>12 DEF Applied, Kept
  <2> QED  BY <2>1 DEF Complete
<1>13. CASE Exit
  BY <1>13 DEF Exit, Complete, sets
<1> QED
  BY <1>1, <1>2, <1>3, <1>4, <1>5, <1>6, <1>7, <1>8, <1>9, <1>10, <1>11, <1>12,
     <1>13 DEF Next, Daemon

-----------------------------------------------------------------------------
(***************************************************************************)
(* The theorems                                                            *)
(***************************************************************************)

LEMMA InitInvariant == Init => IInv
<1> SUFFICES ASSUME Init
             PROVE  IInv
  OBVIOUS
<1> USE DaemonAssumption
<1>1. Cardinality(Statics) \in 0 .. MaxId
  BY FS_CardinalityType
<1>2. DOMAIN card = lost /\ lost \subseteq 1 .. MaxId /\ pc = "off" /\ erased = FALSE
  BY <1>1 DEF Init
<1>3. Keyed(applied) /\ Keyed(toAdd)
  BY DEF Init, Keyed, Empty
<1>4. /\ text \in (SUBSET Lines) \cup {Absent}
      /\ now \in 1 .. MaxTime /\ mtime \in 1 .. MaxTime /\ prev \in 0 .. Garbage
      /\ refused \in 0 .. MaxRefused /\ pidfile \in 0 .. MaxStarts + 1
  BY DEF Init, Garbage
<1>5. TypeOK /\ Control
  <2>1. pc = "off" /\ running \in BOOLEAN /\ ntplIdx = {}
    BY DEF Init
  <2>2. TypeOK
    BY <1>2, <1>3, <1>4, <2>1 DEF TypeOK
  <2>3. Control
    <3>1. starts \in 0 .. MaxStarts
      BY DEF Init
    <3>2. statted \in BOOLEAN /\ late \in BOOLEAN /\ erased \in BOOLEAN
      BY DEF Init
    <3> QED  BY <3>1, <3>2 DEF Control
  <2> QED  BY <2>2, <2>3
<1>6. \A i : ~Known(i)
  BY <1>2 DEF Known
<1>7. Holding /\ Installed
  BY <1>2, <1>6 DEF Holding, Installed
<1>8. Stages /\ Complete /\ Seen
  BY <1>2 DEF Stages, Complete, Seen
<1> QED  BY <1>5, <1>7, <1>8 DEF IInv, FilterInv

\* The invariant of the daemon: it is kept by every write of the file, every
\* refused command, every signal, crash and restart.
THEOREM Invariance == Spec => []IInv
<1>1. IInv /\ [Next]_vars => IInv'
  BY TypeStep, FilterStep, StagesStep, CompleteStep, SeenStep DEF IInv, FilterInv
<1> QED  BY InitInvariant, <1>1, PTL DEF Spec

\* What the invariant says at a look at the file and the adapter.
LEMMA InvariantSuffices == IInv => DaemonInv
<1> SUFFICES ASSUME IInv
             PROVE  DaemonInv
  OBVIOUS
<1>0. TypeOK /\ Holding /\ Installed /\ Stages /\ Complete /\ Seen
  BY DEF IInv, FilterInv
<1> DEFINE held == IF pc = "off" THEN {}
                   ELSE ntplIdx \cup Ids(toAdd) \cup
                        ({applied[k].id : k \in DOMAIN applied \cap Removing} \ {0})
<1>1. HoldsAllFilters
  <2>1. \A i : i \in held <=> Known(i)
    BY <1>0 DEF Known, Ids, TypeOK
  <2> HIDE DEF held
  <2>2. held \cap lost = {} /\ DOMAIN card = held \cup lost
    BY <1>0, <2>1 DEF Holding
  <2> QED  BY <2>2 DEF HoldsAllFilters, held
<1>2. Synchronised
  <2> SUFFICES ASSUME pc = "watch", ~erased, prev # 0
               PROVE  /\ DOMAIN applied = DOMAIN read
                      /\ {card[i] : i \in DOMAIN card \ (lost \cup ntplIdx)} = DOMAIN read
    BY DEF Synchronised
  <2>1. DOMAIN applied = DOMAIN read /\ \A k \in DOMAIN applied : applied[k].id # 0
    BY <1>0 DEF Complete
  <2>2. DOMAIN toAdd = {} /\ Removing = DOMAIN applied
    BY <1>0 DEF Stages, Removing
  <2>3. ASSUME NEW i \in DOMAIN card \ (lost \cup ntplIdx)
        PROVE  card[i] \in DOMAIN read
    <3>1. PICK k \in DOMAIN applied : applied[k].id = i
      BY <1>0, <2>2, <2>3 DEF Holding, Known
    <3> QED  BY <1>0, <2>1, <2>2, <3>1 DEF Installed
  <2>4. ASSUME NEW k \in DOMAIN read
        PROVE  \E i \in DOMAIN card \ (lost \cup ntplIdx) : card[i] = k
    <3>1. card[applied[k].id] = k /\ applied[k].id \notin ntplIdx
      BY <1>0, <2>1, <2>2 DEF Installed
    <3>2. Known(applied[k].id)
      BY <2>1, <2>2 DEF Known
    <3>3. applied[k].id \in DOMAIN card \ lost
      BY <1>0, <3>2 DEF Holding
    <3> QED  BY <3>1, <3>3
  <2> QED  BY <2>1, <2>3, <2>4
<1>3. StaleOnlyWithinSecond
  BY <1>0 DEF Seen, StaleOnlyWithinSecond
<1> QED  BY <1>0, <1>1, <1>2, <1>3 DEF DaemonInv

\* The daemon knows the id of every filter on the adapter it has not given
\* up; between two changes the filters are those of the addresses it read,
\* and these are those of the file unless it was written in an observed
\* second (NTFileHandler, NTAddress, IPAddr: process() and close()).
THEOREM FiltersAreKnown == Spec => []DaemonInv
BY Invariance, InvariantSuffices, PTL

\* process() never takes down the filter of an address the new file lists,
\* even though the adapter hands the id of a deleted filter out again.
THEOREM UnchangedLinesStay == Spec => KeptUntouched
<1>1. ASSUME IInv, [Next]_vars, NEW i \in DOMAIN card \ DOMAIN card'
      PROVE  pc = "close" \/ card[i] \notin DOMAIN read
  <2>0. TypeOK /\ Installed /\ Stages
    BY <1>1 DEF IInv, FilterInv
  <2>1. Remove \/ Exit
    <3>1. CASE Tick \/ Write \/ Interrupt \/ UNCHANGED vars \/ Start \/ Kill \/ Open
               \/ Watch \/ StopWatching \/ ReadFile \/ Removed \/ Applied
      BY <1>1, <3>1 DEF Tick, Write, Interrupt, vars, Start, Kill, Die, Open, Watch,
         StopWatching, ReadFile, Removed, Applied, adapter
    <3>2. ASSUME NEW m, NEW id, NtplAdd(m, id)
          PROVE  DOMAIN card \subseteq DOMAIN card'
      BY <2>0, <3>2, AddResult
    <3>3. CASE Setup
      BY <1>1, <3>2, <3>3 DEF Setup, adapter
    <3>4. CASE Add
      <4>1. PICK k \in todo, id \in 0 .. MaxId + 1 : UNCHANGED adapter \/ NtplAdd(k, id)
        BY <3>4, Zenon DEF Add
      <4> QED  BY <1>1, <3>2, <4>1 DEF adapter
    <3> QED  BY <1>1, <3>1, <3>3, <3>4 DEF Next, Daemon
  <2>2. CASE pc = "remove"
    <3>1. PICK k \in todo : NtplDelete(applied[k].id)
      BY <2>1, <2>2 DEF Remove, Exit
    <3>2. i = applied[k].id /\ i # 0
      <4>1. \/ DOMAIN card' = DOMAIN card \ {applied[k].id}
            \/ card' = card
        BY <2>0, <3>1, DeleteResult
      <4>2. i # 0
        BY <1>1, <2>0, DaemonAssumption DEF TypeOK
      <4> QED  BY <1>1, <4>1, <4>2
    <3>3. k \in DOMAIN applied \cap Removing /\ k \notin DOMAIN read
      BY <2>0, <2>2 DEF Stages, Removing
    <3> QED  BY <2>0, <2>2, <3>2, <3>3 DEF Installed
  <2> QED  BY <2>1, <2>2 DEF Remove, Exit
<1>2. IInv /\ [Next]_vars =>
        [\A i \in DOMAIN card \ DOMAIN card' : pc = "close" \/ card[i] \notin DOMAIN read]_vars
  BY <1>1
<1> QED  BY Invariance, <1>2, PTL DEF Spec, KeptUntouched
=============================================================================
