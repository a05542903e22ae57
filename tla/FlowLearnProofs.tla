-------------------------- MODULE FlowLearnProofs --------------------------
(***************************************************************************)
(* Proofs about FlowLearn, for any number of flows and any sizes of the    *)
(* queue and of the adapter's buffers, with reports lost and write errors  *)
(* at any time.                                                            *)
(*                                                                         *)
(* As long as learning does not fail and no flow times out while it is     *)
(* being learned (Orderly), a flow is listed once, however late the        *)
(* answers come: the poll list is a ring in the order of due times, the    *)
(* flows in it and those on their way into it or out of it are the ones    *)
(* with a second reference, and nobody refers to a flow without one.  The  *)
(* argument is that learning a flow is a token: it is in one place (a      *)
(* queued operation, LEARN_PENDING, or the poll thread's hand), and where  *)
(* it is nothing else is under way for that flow.                          *)
(*                                                                         *)
(* In any configuration, also when a flow is listed twice and the list is  *)
(* no ring any more, every link that is followed leads to a flow.          *)
(***************************************************************************)
EXTENDS FlowLearn, FiniteSetTheorems, TLAPS

\* No learn fails, no flow times out while it is being learned, and an earlier
\* process and this one are told apart by the tag.
Orderly ==
  /\ ~EarlyTimeout /\ ~LearnMayFail
  /\ EarlierPid % TagSize # Pid

\* A thread is about to do something with e.
Works(t, e) == t.at \notin {"idle", "gone", "walk"} /\ t.flow = e

\* Steps of the threads, and what they carry.
ThreadTypes ==
  /\ program \in [at : {"idle", "gone"}] \cup
       [at : {"ref", "list", "skip", "write"}, flow : Flow, cmd : {"learn", "unlearn", "probe"},
        old : SUBSET Flags]
  /\ status \in [at : {"idle"}] \cup [at : {"skip"}, flow : Flow, polls : Nat]
  /\ record \in [at : {"idle"}] \cup
       [at : {"probed", "REFRESH", "UNLEARN", "untrack"}, flow : Flow]
  /\ poll \in [at : {"idle", "walk"}] \cup
       [at : {"walk", "skip", "flags", "drop", "deref"} \cup Base, flow : Flow]

-----------------------------------------------------------------------------
(* The poll list is a ring.                                                *)

Ring ==
  /\ pollHead # Null => pollHead \in Listed
  /\ \A e \in Listed :
       /\ pollNext[e] \in Listed /\ pollPrev[e] \in Listed
       /\ pollNext[pollPrev[e]] = e /\ pollPrev[pollNext[e]] = e

\* Due times rise along the links, but for the one back to the head.
Sorted == \A e \in Listed : pollNext[e] # pollHead => due[e] <= due[pollNext[e]]

-----------------------------------------------------------------------------
(* A LEARN operation is passed on: from rx or the poll thread into the     *)
(* queue, from there to the flag LEARN_PENDING, from there to the poll     *)
(* thread or, by the adapter's answer, to its end.                         *)

Elems(s) == {s[i] : i \in DOMAIN s}
Once(s) == \A i, j \in DOMAIN s : s[i][1] = "LEARN" /\ s[i] = s[j] => i = j

Waiting(e) == poll = Do("LEARN", e) \/ <<"LEARN", e>> \in Elems(queue)
Learning(e) == "LEARN_PENDING" \in flags[e] \/ Waiting(e)

\* It is in one place.
LearnOnce(e) ==
  /\ poll = Do("LEARN", e) => <<"LEARN", e>> \notin Elems(queue)
  /\ Waiting(e) => /\ flags[e] \subseteq {"TRACK", "SOFTWARE"}
                   /\ "TRACK" \in flags[e] <=> e \in Listed
  /\ "LEARN_PENDING" \in flags[e] => "TRACK" \in flags[e]

\* What the threads and the adapter have to do with a flow besides learning
\* it; nothing of the kind while the flow is being learned.
OtherFlags == {"PROBE", "REFRESH", "UNLEARN",
               "PROBE_PENDING", "REFRESH_PENDING", "UNLEARN_PENDING"}
Reported(e) == \E r \in Elems(infos) : r[2] = e /\ Ours(r)
OthersOf(e) ==
  \/ flags[e] \cap OtherFlags # {}
  \/ \E q \in Elems(queue) : q[2] = e /\ q[1] # "LEARN"
  \/ Works(program, e) /\ program.cmd # "learn"
  \/ \E c \in Elems(commands) : c[2] = e /\ c[1] # "learn"
  \/ Reported(e)
  \/ Works(record, e)
  \/ Works(poll, e) /\ poll.at \in {"PROBE", "REFRESH", "UNLEARN", "drop", "deref"}
LearnAlone(e) == Learning(e) => ~OthersOf(e)

\* The adapter knows of the flow; not before it is listed.
Touched(e) ==
  \/ e \in learned
  \/ \E c \in Elems(commands) : c[2] = e
  \/ \E r \in Elems(statuses) : r[2] = e
ListedFirst(e) ==
  /\ Learning(e) /\ e \notin Listed =>
       ~Touched(e) /\ (Works(program, e) => program.at \in {"ref", "list"})
  /\ program.at \in {"ref", "list"} /\ program.flow = e =>
       e \notin Listed /\ "LEARN_PENDING" \in flags[e]

-----------------------------------------------------------------------------
(* References.                                                             *)

\* Anybody has heard of the flow.
Heard(e) ==
  \/ Touched(e) \/ Reported(e) \/ e \in Listed
  \/ \E q \in Elems(queue) : q[2] = e
  \/ Works(program, e) \/ Works(status, e) \/ Works(record, e) \/ Works(poll, e)

Counted(e) ==
  /\ rc[e] \in 0 .. 2 /\ (rc[e] = 2 <=> e \in Listed \/ Moving(e))
  /\ Heard(e) => rc[e] > 0

-----------------------------------------------------------------------------
Types == TypeOK /\ ThreadTypes
FlowInv == \A e \in Flow : LearnOnce(e) /\ LearnAlone(e) /\ ListedFirst(e) /\ Counted(e)

\* Learning does not fail, and the poll thread visits flows of the list.
Others ==
  /\ Once(queue)
  /\ \A r \in Elems(statuses) : r[1] # "learn_fail"
  /\ poll.at \notin {"idle", "walk", "deref"} => poll.flow \in Listed
  /\ poll.at = "deref" => poll.flow \notin Listed

LearnInv == Types /\ Ring /\ Sorted /\ FlowInv /\ Others

-----------------------------------------------------------------------------
(* Sequences as the sets of their elements.                                *)

\* The elements are of the type, the first one too.
LEMMA ElemsType ==
  ASSUME NEW S, NEW s \in Seq(S)
  PROVE  Elems(s) \subseteq S /\ (s # <<>> => s[1] \in Elems(s) /\ s[1] \in S)
<1>1. \A i \in DOMAIN s : s[i] \in S
  OBVIOUS
<1>2. s # <<>> => 1 \in DOMAIN s
  OBVIOUS
<1> QED
  BY <1>1, <1>2 DEF Elems

\* Append adds one element.
LEMMA ElemsAppend ==
  ASSUME NEW S, NEW s \in Seq(S), NEW x \in S
  PROVE  Append(s, x) \in Seq(S) /\ Elems(Append(s, x)) = Elems(s) \cup {x}
<1>1. /\ Append(s, x) \in Seq(S)
      /\ Len(Append(s, x)) = Len(s) + 1 /\ Len(s) \in Nat
      /\ \A i \in 1 .. Len(s) : Append(s, x)[i] = s[i]
      /\ Append(s, x)[Len(s) + 1] = x
  OBVIOUS
<1>2. DOMAIN s = 1 .. Len(s) /\ DOMAIN Append(s, x) = 1 .. Len(s) + 1
  BY <1>1
<1>3. \A i \in 1 .. Len(s) + 1 : i \in 1 .. Len(s) \/ i = Len(s) + 1
  BY <1>1
<1>4. (1 .. Len(s)) \subseteq (1 .. Len(s) + 1) /\ Len(s) + 1 \in 1 .. Len(s) + 1
  BY <1>1
<1> QED
  BY <1>1, <1>2, <1>3, <1>4 DEF Elems

\* Tail adds none.
LEMMA ElemsTail ==
  ASSUME NEW S, NEW s \in Seq(S), s # <<>>
  PROVE  /\ Tail(s) \in Seq(S) /\ Elems(Tail(s)) \subseteq Elems(s)
         /\ s[1] \in Elems(s) /\ s[1] \in S
<1>1. /\ Tail(s) \in Seq(S) /\ Len(s) \in Nat \ {0}
      /\ DOMAIN Tail(s) = 1 .. Len(s) - 1 /\ DOMAIN s = 1 .. Len(s)
      /\ \A i \in 1 .. Len(s) - 1 : Tail(s)[i] = s[i + 1] /\ i + 1 \in 1 .. Len(s)
  OBVIOUS
<1> QED
  BY <1>1, ElemsType DEF Elems

\* A LEARN operation leaves the queue for good when it is pulled.
LEMMA OnceTail ==
  ASSUME NEW S, NEW s \in Seq(S), s # <<>>, Once(s)
  PROVE  Once(Tail(s)) /\ (s[1][1] = "LEARN" => s[1] \notin Elems(Tail(s)))
<1>1. /\ Len(s) \in Nat \ {0}
      /\ DOMAIN Tail(s) = 1 .. Len(s) - 1 /\ DOMAIN s = 1 .. Len(s)
      /\ \A i \in 1 .. Len(s) - 1 : Tail(s)[i] = s[i + 1] /\ i + 1 \in 1 .. Len(s)
  OBVIOUS
<1>2. Once(Tail(s))
  <2> SUFFICES ASSUME NEW i \in 1 .. Len(s) - 1, NEW j \in 1 .. Len(s) - 1,
                      Tail(s)[i][1] = "LEARN", Tail(s)[i] = Tail(s)[j]
               PROVE  i = j
    BY <1>1 DEF Once
  <2>1. i + 1 = j + 1
    BY <1>1 DEF Once
  <2> QED
    BY <2>1
<1>3. ASSUME s[1][1] = "LEARN", s[1] \in Elems(Tail(s))
      PROVE  FALSE
  <2>1. PICK i \in 1 .. Len(s) - 1 : Tail(s)[i] = s[1]
    BY <1>1, <1>3 DEF Elems
  <2>2. i + 1 = 1
    BY <1>1, <1>3, <2>1 DEF Once
  <2> QED
    BY <2>2
<1> QED
  BY <1>2, <1>3

\* Nor does it come twice, if it is appended only when it is not there.
LEMMA OnceAppend ==
  ASSUME NEW S, NEW s \in Seq(S), NEW x \in S, Once(s),
         x[1] = "LEARN" => x \notin Elems(s)
  PROVE  Once(Append(s, x))
<1>1. /\ Len(Append(s, x)) = Len(s) + 1 /\ Len(s) \in Nat
      /\ \A i \in 1 .. Len(s) : Append(s, x)[i] = s[i] /\ i \in DOMAIN s
      /\ Append(s, x)[Len(s) + 1] = x
      /\ DOMAIN Append(s, x) = 1 .. Len(s) + 1
  OBVIOUS
<1>2. \A i \in 1 .. Len(s) + 1 : i \in 1 .. Len(s) \/ i = Len(s) + 1
  BY <1>1
<1>3. \A i \in 1 .. Len(s) : s[i] \in Elems(s)
  BY <1>1 DEF Elems
<1> SUFFICES ASSUME NEW i \in 1 .. Len(s) + 1, NEW j \in 1 .. Len(s) + 1,
                    Append(s, x)[i][1] = "LEARN", Append(s, x)[i] = Append(s, x)[j]
             PROVE  i = j
  BY <1>1 DEF Once
<1>4. CASE i \in 1 .. Len(s) /\ j \in 1 .. Len(s)
  BY <1>1, <1>4 DEF Once
<1>5. CASE i = Len(s) + 1 \/ j = Len(s) + 1
  BY <1>1, <1>2, <1>3, <1>5
<1> QED
  BY <1>2, <1>4, <1>5

-----------------------------------------------------------------------------
(* The set of listed flows under the operations of the list.               *)

\* The flows listed are the least set with the head that the links stay in.
LEMMA ListedIsLeast ==
  /\ Listed \subseteq Flow
  /\ pollHead = Null => Listed = {}
  /\ pollHead \in Flow => pollHead \in Listed
  /\ TypeOK => \A e \in Listed : pollNext[e] \in Listed \cup {Null}
  /\ \A S \in SUBSET Flow : pollHead \in S /\ ClosedUnderNext(S) => Listed \subseteq S
<1>1. TypeOK => \A e \in Listed : pollNext[e] \in Listed \cup {Null}
  <2> SUFFICES ASSUME TypeOK, NEW e \in Listed, pollNext[e] # Null
               PROVE  pollNext[e] \in Listed
    OBVIOUS
  <2>1. pollNext[e] \in Flow
    BY DEF Listed, TypeOK
  <2>2. \A S \in SUBSET Flow : pollHead \in S /\ ClosedUnderNext(S) => pollNext[e] \in S
    BY DEF Listed, ClosedUnderNext
  <2> QED
    BY <2>1, <2>2 DEF Listed
<1>2. pollHead \in Flow => pollHead \in Listed
  BY LearnAssumption DEF Listed
<1> QED
  BY <1>1, <1>2 DEF Listed

\* The same of the next state.
LEMMA ListedIsLeastNext ==
  /\ pollHead' \in Flow => pollHead' \in Listed'
  /\ \A S \in SUBSET Flow :
       pollHead' \in S /\ (\A x \in S : pollNext'[x] \in S \cup {Null}) => Listed' \subseteq S
<1>1. Listed' = {x \in Flow : /\ pollHead' # Null
            /\ \A S \in SUBSET Flow :
                 pollHead' \in S /\ (\A y \in S : pollNext'[y] \in S \cup {Null}) => x \in S}
  BY DEF Listed, ClosedUnderNext
<1> QED
  BY <1>1, LearnAssumption

\* The due times and the links backwards do not matter.
LEMMA ListedKept ==
  ASSUME UNCHANGED <<pollNext, pollHead>>
  PROVE  Listed' = Listed
BY DEF Listed, ClosedUnderNext

\* A step that leaves the list alone leaves it a ring.
LEMMA RingKept ==
  ASSUME UNCHANGED <<pollNext, pollPrev, pollHead>>
  PROVE  /\ Listed' = Listed
         /\ Ring => Ring'
         /\ Sorted /\ due' = due => Sorted'
BY ListedKept DEF Ring, Sorted

\* fl_add_poll puts a flow behind the last one, which is before the head.
LEMMA AddListed ==
  ASSUME TypeOK, Ring, Sorted, NEW e \in Flow \ Listed, AddPoll(e)
  PROVE  Listed' = Listed \cup {e} /\ Ring' /\ Sorted'
<1> USE LearnAssumption
<1>1. CASE pollHead = Null
  <2>1. Listed = {}
    BY <1>1, ListedIsLeast
  <2>2. /\ pollHead' = e /\ pollNext'[e] = e /\ pollPrev'[e] = e
        /\ pollNext' \in [Flow -> Flow \cup {Null}]
    BY ZenonT(40), <1>1 DEF AddPoll, TypeOK
  <2>3. Listed' = {e}
    <3>1. \A x \in {e} : pollNext'[x] \in {e} \cup {Null}
      BY <2>2
    <3>2. Listed' \subseteq {e}
      BY <2>2, <3>1, ListedIsLeastNext
    <3>3. e \in Listed'
      BY <2>2, ListedIsLeastNext
    <3> QED
      BY <3>2, <3>3
  <2> QED
    BY <2>1, <2>2, <2>3 DEF Ring, Sorted
<1>2. CASE pollHead # Null
  <2>1. PICK t \in Flow : t = pollPrev[pollHead] /\ t \in Listed /\ pollNext[t] = pollHead
    BY <1>2, ListedIsLeast DEF Ring, TypeOK
  <2>2. /\ pollHead \in Listed /\ pollHead # e /\ t # e /\ pollHead' = pollHead
        /\ Listed \subseteq Flow
    BY <1>2, <2>1, ListedIsLeast DEF AddPoll, TypeOK
  <2>3. /\ pollNext' = [pollNext EXCEPT ![e] = pollHead, ![t] = e]
        /\ pollPrev' = [pollPrev EXCEPT ![e] = t, ![pollHead] = e]
        /\ due' = [due EXCEPT ![e] = Interval]
    BY <1>2, <2>1 DEF AddPoll
  <2>4. /\ pollNext'[e] = pollHead /\ pollNext'[t] = e
        /\ \A x \in Flow \ {e, t} : pollNext'[x] = pollNext[x]
        /\ pollPrev'[e] = t /\ pollPrev'[pollHead] = e
        /\ \A x \in Flow \ {e, pollHead} : pollPrev'[x] = pollPrev[x]
        /\ due'[e] = Interval /\ \A x \in Flow \ {e} : due'[x] = due[x]
    BY <2>1, <2>2, <2>3 DEF TypeOK
  <2>5. Listed' \subseteq Listed \cup {e}
    <3>1. PICK L : L = Listed \cup {e}
      OBVIOUS
    <3>2. \A x \in L : pollNext'[x] \in L
      BY <3>1, <2>1, <2>2, <2>4 DEF Ring
    <3> QED
      BY <3>1, <3>2, <2>2, ListedIsLeastNext
  <2>6. ASSUME NEW S \in SUBSET Flow, pollHead \in S, ClosedUnderNext(S)'
        PROVE  Listed \cup {e} \subseteq S
    <3> DEFINE T == S \cap Listed
    <3>1. ClosedUnderNext(T)
      <4> SUFFICES ASSUME NEW x \in T PROVE pollNext[x] \in T
        BY DEF ClosedUnderNext
      <4>1. CASE x = t
        BY <4>1, <2>1, <2>2, <2>6
      <4>2. CASE x # t
        <5>1. pollNext[x] \in Listed /\ pollNext'[x] = pollNext[x] /\ pollNext[x] # Null
          BY <4>2, <2>2, <2>4 DEF Ring
        <5> QED
          BY <5>1, <2>6 DEF ClosedUnderNext
      <4> QED
        BY <4>1, <4>2
    <3>2. T \in SUBSET Flow /\ pollHead \in T
      BY <2>2, <2>6
    <3>3. Listed \subseteq T
      BY <3>1, <3>2, ListedIsLeast
    <3>4. e \in S
      BY <3>3, <2>1, <2>4, <2>6 DEF ClosedUnderNext
    <3> QED
      BY <3>3, <3>4
  <2>7. Listed' = Listed \cup {e}
    <3>1. Listed' = {x \in Flow : /\ pollHead' # Null
                /\ \A S \in SUBSET Flow : pollHead' \in S /\ ClosedUnderNext(S)' => x \in S}
      BY DEF Listed
    <3> QED
      BY <3>1, <1>2, <2>2, <2>5, <2>6
  <2>8. Ring'
    <3> SUFFICES ASSUME NEW x \in Listed \cup {e}
                 PROVE  /\ pollNext'[x] \in Listed \cup {e} /\ pollPrev'[x] \in Listed \cup {e}
                        /\ pollNext'[pollPrev'[x]] = x /\ pollPrev'[pollNext'[x]] = x
      BY <2>2, <2>7 DEF Ring
    <3>1. CASE x = e
      BY <3>1, <2>1, <2>2, <2>4
    <3>2. CASE x # e
      <4>1. /\ x \in Listed /\ pollNext[x] \in Listed /\ pollPrev[x] \in Listed
            /\ pollNext[pollPrev[x]] = x /\ pollPrev[pollNext[x]] = x
        BY <3>2 DEF Ring
      <4>2. pollNext'[x] \in Listed \cup {e} /\ pollPrev'[pollNext'[x]] = x
        <5>1. CASE x = t
          BY <5>1, <2>4
        <5>2. CASE x # t
          <6>1. pollNext'[x] = pollNext[x] /\ pollNext[x] # e
            BY <5>2, <3>2, <4>1, <2>2, <2>4
          <6>2. pollNext[x] # pollHead
            BY <5>2, <4>1, <2>1
          <6> QED
            BY <6>1, <6>2, <4>1, <2>2, <2>4
        <5> QED
          BY <5>1, <5>2
      <4>3. pollPrev'[x] \in Listed \cup {e} /\ pollNext'[pollPrev'[x]] = x
        <5>1. CASE x = pollHead
          BY <5>1, <2>4
        <5>2. CASE x # pollHead
          <6>1. pollPrev'[x] = pollPrev[x] /\ pollPrev[x] # e
            BY <5>2, <3>2, <4>1, <2>2, <2>4
          <6>2. pollPrev[x] # t
            BY <5>2, <4>1, <2>1
          <6> QED
            BY <6>1, <6>2, <4>1, <2>2, <2>4
        <5> QED
          BY <5>1, <5>2
      <4> QED
        BY <4>2, <4>3
    <3> QED
      BY <3>1, <3>2
  <2>9. Sorted'
    <3> SUFFICES ASSUME NEW x \in Listed \cup {e}, pollNext'[x] # pollHead
                 PROVE  due'[x] <= due'[pollNext'[x]]
      BY <2>2, <2>7 DEF Sorted
    <3>1. x # e
      BY <2>4
    <3>2. CASE x = t
      BY SMTT(30), <3>1, <3>2, <2>4 DEF TypeOK
    <3>3. CASE x # t
      <4>1. x \in Listed /\ pollNext'[x] = pollNext[x] /\ pollNext[x] \in Listed
        BY <3>1, <3>3, <2>2, <2>4 DEF Ring
      <4> QED
        BY <4>1, <3>1, <2>2, <2>4 DEF Sorted
    <3> QED
      BY <3>2, <3>3
  <2> QED
    BY <2>7, <2>8, <2>9
<1> QED
  BY <1>1, <1>2

\* fl_remove_poll links the flow's neighbours.
LEMMA RemoveListed ==
  ASSUME TypeOK, Ring, Sorted, NEW e \in Listed, RemovePoll(e)
  PROVE  Listed' = Listed \ {e} /\ Ring' /\ Sorted'
<1> USE LearnAssumption
<1>1. PICK p \in Flow, n \in Flow :
        /\ p = pollPrev[e] /\ n = pollNext[e] /\ p \in Listed /\ n \in Listed
        /\ pollNext[p] = e /\ pollPrev[n] = e
  BY ListedIsLeast DEF Ring
<1>2. /\ pollNext' = [pollNext EXCEPT ![p] = n]
      /\ pollPrev' = [pollPrev EXCEPT ![n] = p]
      /\ due' = due
  BY <1>1 DEF RemovePoll
<1>3. /\ pollNext'[p] = n /\ \A x \in Flow \ {p} : pollNext'[x] = pollNext[x]
      /\ pollPrev'[n] = p /\ \A x \in Flow \ {n} : pollPrev'[x] = pollPrev[x]
  BY <1>1, <1>2 DEF TypeOK
<1>4. Listed \subseteq Flow /\ pollHead \in Listed
  BY ListedIsLeast DEF TypeOK
<1>5. CASE n = e
  <2>1. p = e
    BY <1>1, <1>5
  <2>2. Listed = {e}
    <3>1. pollHead = e
      <4>1. ClosedUnderNext(Listed \ {e})
        <5> SUFFICES ASSUME NEW x \in Listed \ {e} PROVE pollNext[x] \in Listed \ {e}
          BY DEF ClosedUnderNext
        <5> QED
          BY <1>1, <2>1 DEF Ring
      <4> QED
        BY <4>1, <1>4, ListedIsLeast
    <3>2. ClosedUnderNext({e})
      BY <1>1, <1>5 DEF ClosedUnderNext
    <3> QED
      BY <3>1, <3>2, <1>4, ListedIsLeast
  <2>3. pollHead' = Null
    BY <2>2, <1>1, <1>4, <1>5 DEF RemovePoll
  <2>4. Listed' = {}
    BY <2>3 DEF Listed
  <2> QED
    BY <2>2, <2>3, <2>4 DEF Ring, Sorted
<1>6. CASE n # e
  <2>1. p # e
    BY <1>1, <1>6
  <2>2. /\ pollHead = e => pollHead' = n
        /\ pollHead # e => pollHead' = pollHead
    BY <1>1, <1>6 DEF RemovePoll
  <2>3. pollHead' \in Listed \ {e}
    BY <2>2, <1>1, <1>4, <1>6
  <2>4. \A x \in Listed \ {e, p} : pollNext[x] \in Listed \ {e}
    BY <1>1 DEF Ring
  <2>5. Listed' \subseteq Listed \ {e}
    <3>1. PICK L : L = Listed \ {e}
      OBVIOUS
    <3>2. \A x \in L : pollNext'[x] \in L
      BY <3>1, <2>4, <1>1, <1>3, <1>4, <1>6
    <3> QED
      BY <3>1, <3>2, <2>3, <1>4, ListedIsLeastNext
  <2>6. ASSUME NEW S \in SUBSET Flow, pollHead' \in S, ClosedUnderNext(S)'
        PROVE  Listed \ {e} \subseteq S
    <3> DEFINE T == {x \in Listed : IF x = e THEN p \in S \/ pollHead = e ELSE x \in S}
    <3>1. T \in SUBSET Flow /\ pollHead \in T
      BY <1>4, <2>2, <2>6
    <3>2. ClosedUnderNext(T)
      <4> SUFFICES ASSUME NEW x \in T PROVE pollNext[x] \in T
        BY DEF ClosedUnderNext
      <4>1. CASE x = e
        <5>1. n \in S
          <6>1. CASE pollHead = e
            BY <6>1, <2>2, <2>6
          <6>2. CASE p \in S
            BY <6>2, <1>1, <1>3, <2>6 DEF ClosedUnderNext
          <6> QED
            BY <4>1, <6>1, <6>2
        <5> QED
          BY <4>1, <5>1, <1>1, <1>6
      <4>2. CASE x = p
        BY <4>2, <2>1, <1>1
      <4>3. CASE x \notin {e, p}
        <5>1. pollNext[x] \in Listed \ {e} /\ pollNext'[x] = pollNext[x] /\ x \in S
          BY <4>3, <2>4, <1>3, <1>4
        <5>2. pollNext[x] # Null
          BY <5>1, <1>4
        <5> QED
          BY <5>1, <5>2, <2>6 DEF ClosedUnderNext
      <4> QED
        BY <4>1, <4>2, <4>3
    <3>3. Listed \subseteq T
      BY <3>1, <3>2, ListedIsLeast
    <3> QED
      BY <3>3
  <2>7. Listed' = Listed \ {e}
    <3>1. Listed' = {x \in Flow : /\ pollHead' # Null
                /\ \A S \in SUBSET Flow : pollHead' \in S /\ ClosedUnderNext(S)' => x \in S}
      BY DEF Listed
    <3> QED
      BY <3>1, <1>4, <2>3, <2>5, <2>6
  <2>8. Ring'
    <3> SUFFICES ASSUME NEW x \in Listed \ {e}
                 PROVE  /\ pollNext'[x] \in Listed \ {e} /\ pollPrev'[x] \in Listed \ {e}
                        /\ pollNext'[pollPrev'[x]] = x /\ pollPrev'[pollNext'[x]] = x
      BY <2>3, <2>7 DEF Ring
    <3>1. /\ x \in Listed /\ pollNext[x] \in Listed /\ pollPrev[x] \in Listed
          /\ pollNext[pollPrev[x]] = x /\ pollPrev[pollNext[x]] = x
      BY DEF Ring
    <3>2. pollNext'[x] \in Listed \ {e} /\ pollPrev'[pollNext'[x]] = x
      <4>1. CASE x = p
        BY <4>1, <1>1, <1>3, <1>6
      <4>2. CASE x # p
        <5>1. pollNext'[x] = pollNext[x] /\ pollNext[x] # e /\ pollNext[x] # n
          BY <4>2, <3>1, <1>1, <1>3, <1>4
        <5> QED
          BY <5>1, <3>1, <1>3, <1>4
      <4> QED
        BY <4>1, <4>2
    <3>3. pollPrev'[x] \in Listed \ {e} /\ pollNext'[pollPrev'[x]] = x
      <4>1. CASE x = n
        BY <4>1, <1>1, <1>3, <2>1
      <4>2. CASE x # n
        <5>1. pollPrev'[x] = pollPrev[x] /\ pollPrev[x] # e /\ pollPrev[x] # p
          BY <4>2, <3>1, <1>1, <1>3, <1>4
        <5> QED
          BY <5>1, <3>1, <1>3, <1>4
      <4> QED
        BY <4>1, <4>2
    <3> QED
      BY <3>2, <3>3
  <2>9. Sorted'
    <3> SUFFICES ASSUME NEW x \in Listed \ {e}, pollNext'[x] # pollHead'
                 PROVE  due[x] <= due[pollNext'[x]]
      BY <1>2, <2>7 DEF Sorted
    <3>1. CASE x = p
      <4>1. pollNext'[x] = n /\ pollHead' # n /\ pollHead # e /\ pollHead # n
        BY <3>1, <1>3, <2>2
      <4>2. due[p] <= due[e] /\ due[e] <= due[n]
        BY <4>1, <1>1 DEF Sorted
      <4>3. due[p] \in Int /\ due[e] \in Int /\ due[n] \in Int
        BY <1>1, <1>4 DEF TypeOK
      <4> QED
        BY <4>1, <4>2, <4>3, <3>1
    <3>2. CASE x # p
      <4>1. pollNext'[x] = pollNext[x] /\ pollNext[x] # e
        BY <3>2, <1>1, <1>3, <1>4 DEF Ring
      <4>2. pollNext[x] # pollHead
        BY <4>1, <2>2
      <4> QED
        BY <4>1, <4>2 DEF Sorted
    <3> QED
      BY <3>1, <3>2
  <2> QED
    BY <2>7, <2>8, <2>9
<1> QED
  BY <1>5, <1>6

\* The poll thread moves the head on, with the old head due last.
LEMMA WalkListed ==
  ASSUME TypeOK, Ring, Sorted, pollHead \in Listed,
         pollHead' = pollNext[pollHead], due' = [due EXCEPT ![pollHead] = Interval],
         UNCHANGED <<pollNext, pollPrev>>
  PROVE  Listed' = Listed /\ Ring' /\ Sorted'
<1> USE LearnAssumption
<1>1. Listed \subseteq Flow /\ pollHead' \in Listed
  BY ListedIsLeast DEF Ring
<1>2. Listed' \subseteq Listed
  <2>1. PICK L : L = Listed
    OBVIOUS
  <2>2. \A x \in L : pollNext'[x] \in L
    BY <2>1 DEF Ring
  <2> QED
    BY <2>1, <2>2, <1>1, ListedIsLeastNext
<1>3. ASSUME NEW S \in SUBSET Flow, pollHead' \in S, ClosedUnderNext(S)'
      PROVE  Listed \subseteq S
  <2> DEFINE T == (S \cap Listed) \cup {pollHead}
  <2>1. ClosedUnderNext(T)
    <3> SUFFICES ASSUME NEW x \in T PROVE pollNext[x] \in T
      BY DEF ClosedUnderNext
    <3>1. CASE x = pollHead
      BY <3>1, <1>1, <1>3
    <3>2. CASE x # pollHead
      <4>1. x \in S /\ pollNext[x] \in Listed /\ pollNext[x] # Null
        BY <3>2, <1>1 DEF Ring
      <4> QED
        BY <4>1, <1>3 DEF ClosedUnderNext
    <3> QED
      BY <3>1, <3>2
  <2>2. Listed \subseteq S \cup {pollHead}
    BY <2>1, <1>1, ListedIsLeast
  <2>3. pollHead \in S
    <3>1. PICK t \in Listed : t = pollPrev[pollHead] /\ pollNext[t] = pollHead
      BY DEF Ring
    <3>2. CASE t = pollHead
      BY <3>1, <3>2, <1>3
    <3>3. CASE t # pollHead
      BY <3>1, <3>3, <2>2, <1>1, <1>3 DEF ClosedUnderNext
    <3> QED
      BY <3>2, <3>3
  <2> QED
    BY <2>2, <2>3
<1>4. Listed' = Listed
  <2>1. Listed' = {x \in Flow : /\ pollHead' # Null
              /\ \A S \in SUBSET Flow : pollHead' \in S /\ ClosedUnderNext(S)' => x \in S}
    BY DEF Listed
  <2> QED
    BY <2>1, <1>1, <1>2, <1>3
<1>5. Ring'
  BY <1>1, <1>4 DEF Ring
<1>6. Sorted'
  <2> SUFFICES ASSUME NEW x \in Listed, pollNext[x] # pollHead'
               PROVE  due'[x] <= due'[pollNext[x]]
    BY <1>4 DEF Sorted
  <2>1. x # pollHead /\ x \in Flow /\ pollNext[x] \in Flow /\ due'[x] = due[x]
    BY <1>1 DEF Ring, TypeOK
  <2>2. CASE pollNext[x] = pollHead
    BY <2>1, <2>2 DEF TypeOK
  <2>3. CASE pollNext[x] # pollHead
    BY <2>1, <2>3 DEF Sorted, TypeOK
  <2> QED
    BY <2>2, <2>3
<1> QED
  BY <1>4, <1>5, <1>6

\* The skip counter has no part in the invariant.
LEMMA ProgramSkipKeeps ==
  ASSUME LearnInv, Orderly, ProgramSkip, UNCHANGED hwProbe
  PROVE  LearnInv'
<1> USE LearnAssumption DEF entryVars, listVars, threadVars, adapterVars
<1>1. Listed' = Listed /\ Ring' /\ Sorted' /\ TypeOK /\ ThreadTypes
  BY RingKept DEF ProgramSkip, Do, Idle, LearnInv, Types
<1>2. Types'
  <2>1. PICK f \in Flow : f = program.flow
    BY <1>1 DEF ProgramSkip, ThreadTypes
  <2>2. skip \in [Flow -> Int] /\ skip[f] \in Int
    BY <1>1 DEF TypeOK
  <2>3. skip' = [skip EXCEPT ![f] = skip[f] + 1] \/ skip' = [skip EXCEPT ![f] = skip[f]]
    BY <2>1, <2>2 DEF ProgramSkip
  <2>4. skip' \in [Flow -> Int]
    BY <2>2, <2>3
  <2>5. program' \in [at : {"write"}, flow : Flow, cmd : {"learn", "unlearn", "probe"},
                      old : SUBSET Flags]
    BY <1>1 DEF ProgramSkip, ThreadTypes
  <2>6. ThreadTypes'
    BY <1>1, <2>1, <2>2, <2>3, <2>4, <2>5 DEF ProgramSkip, Do, Idle, ThreadTypes
  <2>7. TypeOK'
    BY <1>1, <2>1, <2>2, <2>3, <2>4, <2>5 DEF ProgramSkip, Do, Idle, TypeOK
  <2> QED
    BY <2>6, <2>7 DEF Types
<1>3. FlowInv'
  <2> SUFFICES ASSUME NEW e \in Flow
               PROVE  LearnOnce(e)' /\ LearnAlone(e)' /\ ListedFirst(e)' /\ Counted(e)'
    BY DEF FlowInv
  <2>1. LearnOnce(e) /\ LearnAlone(e) /\ ListedFirst(e) /\ Counted(e)
    BY DEF LearnInv, FlowInv
  <2>2. LearnOnce(e)'
    BY <1>1, <2>1
      DEF ProgramSkip, Do, Idle, LearnOnce, LearnAlone, OthersOf, Works, Waiting,
          Learning, TypeOK, ThreadTypes
  <2>3. LearnAlone(e)'
    BY <1>1, <2>1
      DEF ProgramSkip, Do, Idle, LearnOnce, LearnAlone, OthersOf, Reported, Ours,
          Works, Waiting, Learning, TypeOK, ThreadTypes
  <2>4. ListedFirst(e)'
    BY <1>1, <2>1
      DEF ProgramSkip, Do, Idle, ListedFirst, LearnOnce, LearnAlone, OthersOf, Touched,
          Works, Waiting, Learning, TypeOK, ThreadTypes
  <2>5. Counted(e)'
    BY <1>1, <2>1
      DEF ProgramSkip, Do, Idle, Counted, Moving, Heard, Touched, Reported, Ours, Works,
          TypeOK, ThreadTypes
  <2> QED
    BY <2>2, <2>3, <2>4, <2>5
<1>4. Others'
  BY <1>1 DEF ProgramSkip, Do, Idle, LearnInv, Others, ThreadTypes
<1> QED
  BY <1>1, <1>2, <1>3, <1>4 DEF LearnInv

\* The program thread is gone; what it marked stays marked.
LEMMA ProgramFailKeeps ==
  ASSUME LearnInv, Orderly, ProgramFail, UNCHANGED hwProbe
  PROVE  LearnInv'
<1> USE LearnAssumption DEF entryVars, listVars, threadVars, adapterVars
<1>1. Listed' = Listed /\ Ring' /\ Sorted' /\ TypeOK /\ ThreadTypes
  BY RingKept DEF ProgramFail, Do, Idle, LearnInv, Types
<1>2. Types'
  BY <1>1 DEF ProgramFail, Do, Idle, Types, TypeOK, ThreadTypes
<1>3. FlowInv'
  <2> SUFFICES ASSUME NEW e \in Flow
               PROVE  LearnOnce(e)' /\ LearnAlone(e)' /\ ListedFirst(e)' /\ Counted(e)'
    BY DEF FlowInv
  <2>1. LearnOnce(e) /\ LearnAlone(e) /\ ListedFirst(e) /\ Counted(e)
    BY DEF LearnInv, FlowInv
  <2>2. LearnOnce(e)'
    BY <1>1, <2>1
      DEF ProgramFail, Do, Idle, LearnOnce, LearnAlone, OthersOf, Works, Waiting,
          Learning, TypeOK, ThreadTypes
  <2>3. LearnAlone(e)'
    BY <1>1, <2>1
      DEF ProgramFail, Do, Idle, LearnOnce, LearnAlone, OthersOf, Reported, Ours,
          Works, Waiting, Learning, TypeOK, ThreadTypes
  <2>4. ListedFirst(e)'
    BY <1>1, <2>1
      DEF ProgramFail, Do, Idle, ListedFirst, LearnOnce, LearnAlone, OthersOf, Touched,
          Works, Waiting, Learning, TypeOK, ThreadTypes
  <2>5. Counted(e)'
    BY <1>1, <2>1
      DEF ProgramFail, Do, Idle, Counted, Moving, Heard, Touched, Reported, Ours, Works,
          TypeOK, ThreadTypes
  <2> QED
    BY <2>2, <2>3, <2>4, <2>5
<1>4. Others'
  BY <1>1 DEF ProgramFail, Do, Idle, LearnInv, Others, ThreadTypes
<1> QED
  BY <1>1, <1>2, <1>3, <1>4 DEF LearnInv

\* Nor has it here.
LEMMA StatusSkipKeeps ==
  ASSUME LearnInv, Orderly, StatusSkip, UNCHANGED hwProbe
  PROVE  LearnInv'
<1> USE LearnAssumption DEF entryVars, listVars, threadVars, adapterVars
<1>1. Listed' = Listed /\ Ring' /\ Sorted' /\ TypeOK /\ ThreadTypes
  BY RingKept DEF StatusSkip, Do, Idle, LearnInv, Types
<1>2. Types'
  <2>1. PICK f \in Flow, k \in Nat : f = status.flow /\ k = status.polls
    BY <1>1 DEF StatusSkip, ThreadTypes
  <2>2. skip \in [Flow -> Int] /\ skip[f] \in Int
    BY <1>1 DEF TypeOK
  <2>3. skip' = [skip EXCEPT ![f] = skip[f] - k]
    BY <2>1, <2>2 DEF StatusSkip
  <2>4. skip' \in [Flow -> Int]
    BY <2>2, <2>3
  <2>5. status' \in [at : {"idle"}] /\ UNCHANGED <<flags, rc, listVars, queue, program, record, poll, adapterVars>>
    BY DEF StatusSkip, Idle
  <2>6. ThreadTypes'
    BY <1>1, <2>1, <2>2, <2>3, <2>4, <2>5 DEF Do, Idle, ThreadTypes
  <2>7. TypeOK'
    BY <1>1, <2>1, <2>2, <2>3, <2>4, <2>5 DEF Do, Idle, TypeOK
  <2> QED
    BY <2>6, <2>7 DEF Types
<1>3. FlowInv'
  <2> SUFFICES ASSUME NEW e \in Flow
               PROVE  LearnOnce(e)' /\ LearnAlone(e)' /\ ListedFirst(e)' /\ Counted(e)'
    BY DEF FlowInv
  <2>1. LearnOnce(e) /\ LearnAlone(e) /\ ListedFirst(e) /\ Counted(e)
    BY DEF LearnInv, FlowInv
  <2>2. LearnOnce(e)'
    BY <1>1, <2>1
      DEF StatusSkip, Do, Idle, LearnOnce, LearnAlone, OthersOf, Works, Waiting,
          Learning, TypeOK, ThreadTypes
  <2>3. LearnAlone(e)'
    BY <1>1, <2>1
      DEF StatusSkip, Do, Idle, LearnOnce, LearnAlone, OthersOf, Reported, Ours, Works,
          Waiting, Learning, TypeOK, ThreadTypes
  <2>4. ListedFirst(e)'
    BY <1>1, <2>1
      DEF StatusSkip, Do, Idle, ListedFirst, LearnOnce, LearnAlone, OthersOf, Touched,
          Works, Waiting, Learning, TypeOK, ThreadTypes
  <2>5. Counted(e)'
    BY <1>1, <2>1
      DEF StatusSkip, Do, Idle, Counted, Moving, Heard, Touched, Reported, Ours, Works, TypeOK,
          ThreadTypes
  <2> QED
    BY <2>2, <2>3, <2>4, <2>5
<1>4. Others'
  BY <1>1 DEF StatusSkip, Do, Idle, LearnInv, Others, ThreadTypes
<1> QED
  BY <1>1, <1>2, <1>3, <1>4 DEF LearnInv

\* The emulated probe is over.
LEMMA RecordProbedKeeps ==
  ASSUME LearnInv, Orderly, RecordProbed, UNCHANGED hwProbe
  PROVE  LearnInv'
<1> USE LearnAssumption DEF entryVars, listVars, threadVars, adapterVars
<1>1. Listed' = Listed /\ Ring' /\ Sorted' /\ TypeOK /\ ThreadTypes
  BY RingKept DEF RecordProbed, ClearFlags, Do, Idle, LearnInv, Types
<1>2. Types'
  BY ZenonT(40), <1>1 DEF RecordProbed, ClearFlags, Do, Idle, Types, TypeOK, ThreadTypes
<1>3. FlowInv'
  <2> SUFFICES ASSUME NEW e \in Flow
               PROVE  LearnOnce(e)' /\ LearnAlone(e)' /\ ListedFirst(e)' /\ Counted(e)'
    BY DEF FlowInv
  <2>1. LearnOnce(e) /\ LearnAlone(e) /\ ListedFirst(e) /\ Counted(e)
    BY DEF LearnInv, FlowInv
  <2>2. LearnOnce(e)'
    BY <1>1, <2>1
      DEF RecordProbed, ClearFlags, Do, Idle, LearnOnce, LearnAlone, OthersOf, Works,
          Waiting, Learning, TypeOK, ThreadTypes
  <2>3. LearnAlone(e)'
    BY <1>1, <2>1
      DEF RecordProbed, ClearFlags, Do, Idle, LearnOnce, LearnAlone, OthersOf,
          Reported, Ours, Works, Waiting, Learning, TypeOK, ThreadTypes
  <2>4. ListedFirst(e)'
    BY <1>1, <2>1
      DEF RecordProbed, ClearFlags, Do, Idle, ListedFirst, LearnOnce, LearnAlone,
          OthersOf, Touched, Works, Waiting, Learning, TypeOK, ThreadTypes
  <2>5. Counted(e)'
    BY <1>1, <2>1
      DEF RecordProbed, ClearFlags, Do, Idle, Counted, Moving, Heard, Touched, Reported, Ours,
          Works, TypeOK, ThreadTypes
  <2> QED
    BY <2>2, <2>3, <2>4, <2>5
<1>4. Others'
  BY <1>1 DEF RecordProbed, ClearFlags, Do, Idle, LearnInv, Others, ThreadTypes
<1> QED
  BY <1>1, <1>2, <1>3, <1>4 DEF LearnInv

\* Nobody untracks a flow that is being learned.
LEMMA RecordUntrackKeeps ==
  ASSUME LearnInv, Orderly, RecordUntrack, UNCHANGED hwProbe
  PROVE  LearnInv'
<1> USE LearnAssumption DEF entryVars, listVars, threadVars, adapterVars
<1>1. Listed' = Listed /\ Ring' /\ Sorted' /\ TypeOK /\ ThreadTypes
  BY RingKept DEF RecordUntrack, ClearFlags, Do, Idle, LearnInv, Types
<1>2. Types'
  BY SMTT(30), <1>1 DEF RecordUntrack, ClearFlags, Do, Idle, Types, TypeOK, ThreadTypes
<1>3. FlowInv'
  <2> SUFFICES ASSUME NEW e \in Flow
               PROVE  LearnOnce(e)' /\ LearnAlone(e)' /\ ListedFirst(e)' /\ Counted(e)'
    BY DEF FlowInv
  <2>1. LearnOnce(e) /\ LearnAlone(e) /\ ListedFirst(e) /\ Counted(e)
    BY DEF LearnInv, FlowInv
  <2>2. LearnOnce(e)'
    BY <1>1, <2>1
      DEF RecordUntrack, ClearFlags, Do, Idle, LearnOnce, LearnAlone, OthersOf, Works,
          Waiting, Learning, TypeOK, ThreadTypes
  <2>3. LearnAlone(e)'
    BY <1>1, <2>1
      DEF RecordUntrack, ClearFlags, Do, Idle, LearnOnce, LearnAlone, OthersOf,
          Reported, Ours, Works, Waiting, Learning, TypeOK, ThreadTypes
  <2>4. ListedFirst(e)'
    BY <1>1, <2>1
      DEF RecordUntrack, ClearFlags, Do, Idle, ListedFirst, LearnOnce, LearnAlone,
          OthersOf, Touched, Works, Waiting, Learning, TypeOK, ThreadTypes
  <2>5. Counted(e)'
    BY <1>1, <2>1
      DEF RecordUntrack, ClearFlags, Do, Idle, Counted, Moving, Heard, Touched, Reported, Ours,
          Works, TypeOK, ThreadTypes
  <2> QED
    BY <2>2, <2>3, <2>4, <2>5
<1>4. Others'
  BY <1>1 DEF RecordUntrack, ClearFlags, Do, Idle, LearnInv, Others, ThreadTypes
<1> QED
  BY <1>1, <1>2, <1>3, <1>4 DEF LearnInv

\* The poll thread passes over the flow or looks at its flags.
LEMMA PollSkipKeeps ==
  ASSUME LearnInv, Orderly, PollSkip, UNCHANGED hwProbe
  PROVE  LearnInv'
<1> USE LearnAssumption DEF entryVars, listVars, threadVars, adapterVars
<1>1. Listed' = Listed /\ Ring' /\ Sorted' /\ TypeOK /\ ThreadTypes
  BY RingKept DEF PollSkip, Do, Idle, LearnInv, Types
<1>2. Types'
  <2>1. poll.flow \in Flow
    BY <1>1 DEF PollSkip, ThreadTypes
  <2>2. skip' \in [Flow -> Int]
    BY <1>1, <2>1 DEF PollSkip, TypeOK
  <2>3. poll' = [at |-> "walk"] \/ poll' = [at |-> "flags", flow |-> poll.flow]
    BY DEF PollSkip, Do
  <2>4. ThreadTypes'
    BY <1>1, <2>1, <2>2, <2>3 DEF PollSkip, Do, Idle, ThreadTypes
  <2>5. TypeOK'
    BY <1>1, <2>1, <2>2, <2>3 DEF PollSkip, Do, Idle, TypeOK
  <2> QED
    BY <2>4, <2>5 DEF Types
<1>3. FlowInv'
  <2> SUFFICES ASSUME NEW e \in Flow
               PROVE  LearnOnce(e)' /\ LearnAlone(e)' /\ ListedFirst(e)' /\ Counted(e)'
    BY DEF FlowInv
  <2>1. LearnOnce(e) /\ LearnAlone(e) /\ ListedFirst(e) /\ Counted(e)
    BY DEF LearnInv, FlowInv
  <2>2. LearnOnce(e)'
    BY <1>1, <2>1
      DEF PollSkip, Do, Idle, LearnOnce, LearnAlone, OthersOf, Works, Waiting,
          Learning, TypeOK, ThreadTypes
  <2>3. LearnAlone(e)'
    BY <1>1, <2>1
      DEF PollSkip, Do, Idle, LearnOnce, LearnAlone, OthersOf, Reported, Ours, Works,
          Waiting, Learning, TypeOK, ThreadTypes
  <2>4. ListedFirst(e)'
    BY <1>1, <2>1
      DEF PollSkip, Do, Idle, ListedFirst, LearnOnce, LearnAlone, OthersOf, Touched,
          Works, Waiting, Learning, TypeOK, ThreadTypes
  <2>5. Counted(e)'
    BY <1>1, <2>1
      DEF PollSkip, Do, Idle, Counted, Moving, Heard, Touched, Reported, Ours, Works, TypeOK,
          ThreadTypes
  <2> QED
    BY <2>2, <2>3, <2>4, <2>5
<1>4. Others'
  BY <1>1 DEF PollSkip, Do, Idle, LearnInv, Others, ThreadTypes
<1> QED
  BY <1>1, <1>2, <1>3, <1>4 DEF LearnInv

\* What LearnDone counts.
LEMMA TwoFlags ==
  \A S : Cardinality(S \cap {"REFRESH_PENDING", "LEARN_PENDING"}) \in Nat
<1>1. IsFiniteSet({"REFRESH_PENDING", "LEARN_PENDING"})
  <2>1. IsFiniteSet({} \cup {"REFRESH_PENDING"})
    BY FS_EmptySet, FS_AddElement
  <2>2. IsFiniteSet({"REFRESH_PENDING"} \cup {"LEARN_PENDING"})
    BY <2>1, FS_AddElement
  <2> QED
    BY <2>2
<1> QED
  BY <1>1, FS_Subset, FS_CardinalityType

\* A command is written: no other than learn for a flow being learned, and
\* none before the flow is listed.
LEMMA ProgramWriteKeeps ==
  ASSUME LearnInv, Orderly, ProgramWrite, UNCHANGED hwProbe
  PROVE  LearnInv'
<1> USE LearnAssumption DEF entryVars, listVars, threadVars, adapterVars
<1>1. Listed' = Listed /\ Ring' /\ Sorted' /\ TypeOK /\ ThreadTypes
  BY RingKept DEF ProgramWrite, LearnInv, Types
<1>2. PICK f \in Flow, c \in {"learn", "unlearn", "probe"} :
        f = program.flow /\ c = program.cmd /\ Works(program, f) /\ program.at = "write"
  BY <1>1 DEF ProgramWrite, ThreadTypes, Works
<1>3. /\ commands' \in Seq({"learn", "unlearn", "probe"} \X Flow)
      /\ Elems(commands') = Elems(commands) \cup {<<c, f>>}
  <2>1. commands' = Append(commands, <<c, f>>)
    BY <1>2 DEF ProgramWrite
  <2>2. <<c, f>> \in {"learn", "unlearn", "probe"} \X Flow
    OBVIOUS
  <2>3. commands \in Seq({"learn", "unlearn", "probe"} \X Flow)
    BY <1>1 DEF TypeOK
  <2> QED
    BY <2>1, <2>2, <2>3, ElemsAppend
<1>4. /\ program' = [at |-> "idle"]
      /\ UNCHANGED <<hwProbe, flags, skip, rc, listVars, queue, status, record, poll,
                     learned, statuses, infos>>
  BY DEF ProgramWrite, Idle
<1>5. Types'
  <2>1. ThreadTypes'
    BY <1>1, <1>4 DEF ThreadTypes
  <2>2. TypeOK'
    BY <1>1, <1>3, <1>4 DEF TypeOK
  <2> QED
    BY <2>1, <2>2 DEF Types
<1>6. Others'
  BY <1>1, <1>4 DEF LearnInv, Others
<1>7. FlowInv'
  <2> SUFFICES ASSUME NEW e \in Flow
               PROVE  LearnOnce(e)' /\ LearnAlone(e)' /\ ListedFirst(e)' /\ Counted(e)'
    BY DEF FlowInv
  <2>1. LearnOnce(e) /\ LearnAlone(e) /\ ListedFirst(e) /\ Counted(e)
    BY DEF LearnInv, FlowInv
  <2>2. LearnOnce(e)'
    BY <1>1, <1>2, <1>3, <1>4, <2>1
      DEF LearnOnce, LearnAlone, OthersOf, Works, Waiting, Learning, Do, Idle
  <2>3. LearnAlone(e)'
    BY <1>1, <1>2, <1>3, <1>4, <2>1
      DEF LearnOnce, LearnAlone, OthersOf, Reported, Ours, Works, Waiting, Learning,
          Do, Idle
  <2>4. ListedFirst(e)'
    BY <1>1, <1>2, <1>3, <1>4, <2>1
      DEF ListedFirst, LearnOnce, LearnAlone, OthersOf, Touched, Works, Waiting,
          Learning, Do, Idle
  <2>5. Counted(e)'
    BY <1>1, <1>2, <1>3, <1>4, <2>1
      DEF Counted, Moving, Heard, Touched, Reported, Ours, Works, Do, Idle
  <2> QED
    BY <2>2, <2>3, <2>4, <2>5
<1> QED
  BY <1>1, <1>5, <1>6, <1>7 DEF LearnInv

\* An answer clears no TRACK, and a LEARN_PENDING only when the flow is listed.
LEMMA StatusReadKeeps ==
  ASSUME LearnInv, Orderly, StatusRead, UNCHANGED hwProbe
  PROVE  LearnInv'
<1> USE LearnAssumption DEF entryVars, listVars, threadVars, adapterVars
<1>1. Listed' = Listed /\ Ring' /\ Sorted' /\ TypeOK /\ ThreadTypes
  BY RingKept
    DEF StatusRead, LearnDone, LearnFailed, UnlearnDone, Status, ClearFlags, LearnInv,
        Types
<1> DEFINE Kinds == {"learn_done", "learn_fail", "unlearn_done"} \X Flow \X (0 .. TagSize - 1)
<1>2. PICK r \in Kinds : r = statuses[1] /\ r \in Elems(statuses) /\ r[1] # "learn_fail"
  BY <1>1, ElemsTail DEF StatusRead, TypeOK, LearnInv, Others
<1>3. statuses' \in Seq(Kinds) /\ Elems(statuses') \subseteq Elems(statuses)
  BY <1>1, ElemsTail DEF StatusRead, TypeOK
<1>4. PICK f \in Flow : f = r[2]
  BY <1>2
<1>5. /\ UNCHANGED <<hwProbe, skip, rc, listVars, queue, program, record, poll, learned,
                     commands, infos>>
      /\ \/ flags' = flags /\ status' = [at |-> "idle"]
         \/ \E S \in {{"SOFTWARE", "REFRESH", "REFRESH_PENDING", "LEARN_PENDING"},
                      {"UNLEARN_PENDING"}, {"UNLEARN_PENDING", "PROBE_PENDING"}}, n \in Nat :
              /\ flags' = [flags EXCEPT ![f] = @ \ S]
              /\ status' = [at |-> "skip", flow |-> f, polls |-> n]
  <2>1. Cardinality(flags[f] \cap {"REFRESH_PENDING", "LEARN_PENDING"}) \in Nat
    BY TwoFlags
  <2>2. CASE ~Ours(r)
    BY <1>2, <2>2 DEF StatusRead, Idle, LearnDone, UnlearnDone, Status
  <2>3. CASE Ours(r) /\ LearnDone(f)
    BY <2>1, <2>3 DEF StatusRead, LearnDone, Status, ClearFlags
  <2>4. CASE Ours(r) /\ UnlearnDone(f)
    BY <2>4 DEF StatusRead, UnlearnDone, Status, ClearFlags
  <2>5. UNCHANGED <<hwProbe, skip, rc, listVars, queue, program, record, poll, learned,
                    commands, infos>>
    BY DEF StatusRead
  <2> QED
    BY <1>2, <1>4, <2>2, <2>3, <2>4, <2>5 DEF StatusRead
<1>8. /\ flags' \in [Flow -> SUBSET Flags]
      /\ \A e \in Flow \ {f} : flags'[e] = flags[e]
      /\ flags'[f] \subseteq flags[f] /\ ("TRACK" \in flags'[f] <=> "TRACK" \in flags[f])
      /\ status' = [at |-> "idle"] \/ (Works(status', f) /\ status'.at = "skip")
  <2>1. flags \in [Flow -> SUBSET Flags]
    BY <1>1 DEF TypeOK
  <2>2. ASSUME NEW S, "TRACK" \notin S, flags' = [flags EXCEPT ![f] = @ \ S]
        PROVE  /\ flags' \in [Flow -> SUBSET Flags]
               /\ \A e \in Flow \ {f} : flags'[e] = flags[e]
               /\ flags'[f] \subseteq flags[f] /\ ("TRACK" \in flags'[f] <=> "TRACK" \in flags[f])
    BY <2>1, <2>2
  <2>3. status' = [at |-> "idle"] \/ (Works(status', f) /\ status'.at = "skip")
    BY <1>5 DEF Works
  <2> QED
    BY <1>5, <2>1, <2>2, <2>3
<1>9. Types'
  <2>1. ThreadTypes'
    BY <1>1, <1>5 DEF ThreadTypes
  <2>2. status'.at \in {"idle", "skip"}
    BY <1>5
  <2>3. TypeOK'
    BY <1>1, <1>3, <1>5, <1>8, <2>2 DEF TypeOK
  <2> QED
    BY <2>1, <2>3 DEF Types
<1>6. Others'
  BY <1>1, <1>3, <1>5 DEF LearnInv, Others
<1>7. FlowInv'
  <2> SUFFICES ASSUME NEW e \in Flow
               PROVE  LearnOnce(e)' /\ LearnAlone(e)' /\ ListedFirst(e)' /\ Counted(e)'
    BY DEF FlowInv
  <2>1. LearnOnce(e) /\ LearnAlone(e) /\ ListedFirst(e) /\ Counted(e)
    BY DEF LearnInv, FlowInv
  <2>2. LearnOnce(e)'
    BY <1>1, <1>2, <1>3, <1>4, <1>5, <1>8, <2>1
      DEF LearnOnce, LearnAlone, OthersOf, Works, Waiting, Learning, Do, Idle
  <2>3. LearnAlone(e)'
    BY <1>1, <1>2, <1>3, <1>4, <1>5, <1>8, <2>1
      DEF LearnOnce, LearnAlone, OthersOf, Reported, Ours, Works, Waiting, Learning,
          Do, Idle
  <2>4. ListedFirst(e)'
    BY <1>1, <1>2, <1>3, <1>4, <1>5, <1>8, <2>1
      DEF ListedFirst, LearnOnce, LearnAlone, OthersOf, Touched, Works, Waiting,
          Learning, Do, Idle
  <2>5. Counted(e)'
    BY <1>1, <1>2, <1>3, <1>4, <1>5, <1>8, <2>1
      DEF Counted, Moving, Heard, Touched, Reported, Ours, Works, Do, Idle
  <2> QED
    BY <2>2, <2>3, <2>4, <2>5
<1> QED
  BY <1>1, <1>6, <1>7, <1>9 DEF LearnInv

\* A record for this process: its flow is not being learned.
LEMMA RecordReadKeeps ==
  ASSUME LearnInv, Orderly, RecordRead, UNCHANGED hwProbe
  PROVE  LearnInv'
<1> USE LearnAssumption DEF entryVars, listVars, threadVars, adapterVars
<1>1. Listed' = Listed /\ Ring' /\ Sorted' /\ TypeOK /\ ThreadTypes
  BY RingKept DEF RecordRead, SetFlags, LearnInv, Types
<1> DEFINE Kinds == {"software", "probe", "timeout"} \X Flow \X (0 .. TagSize - 1)
<1>0. infos \in Seq(Kinds) /\ infos # <<>> /\ infos' = Tail(infos)
  BY <1>1 DEF RecordRead, TypeOK
<1>2. PICK r \in Kinds : r = infos[1] /\ r \in Elems(infos)
  BY <1>0, ElemsTail
<1>3. infos' \in Seq(Kinds) /\ Elems(infos') \subseteq Elems(infos)
  BY <1>0, ElemsTail
<1>4. PICK f \in Flow : f = r[2]
  BY <1>2
<1>5. /\ UNCHANGED <<hwProbe, skip, rc, listVars, queue, program, status, poll, learned,
                     commands, statuses>>
      /\ \/ flags' = flags /\ record' = record
         \/ /\ Reported(f)
            /\ flags' = [flags EXCEPT ![f] = @ \cup {"SOFTWARE"}]
            /\ record' \in [at : {"idle"}] \cup
                           [at : {"UNLEARN", "untrack", "probed"}, flow : {f}]
  <2>1. CASE ~Ours(r)
    BY <1>2, <2>1 DEF RecordRead
  <2>2. CASE Ours(r) /\ r[1] = "probe"
    BY <1>2, <1>4, <2>2 DEF RecordRead, SetFlags, Do, Idle, Reported
  <2>3. CASE Ours(r) /\ r[1] = "timeout"
    BY <1>2, <1>4, <2>3 DEF RecordRead, SetFlags, Do, Idle, Reported
  <2>4. CASE Ours(r) /\ r[1] = "software"
    BY <1>2, <1>4, <2>4 DEF RecordRead, SetFlags, Do, Idle, Reported
  <2> QED
    BY <1>2, <2>1, <2>2, <2>3, <2>4
<1>8. /\ flags' \in [Flow -> SUBSET Flags]
      /\ \A e \in Flow : flags'[e] \subseteq flags[e] \cup {"SOFTWARE"}
      /\ \A e \in Flow : flags[e] \subseteq flags'[e]
      /\ \A e \in Flow : Works(record', e) => Reported(e) \/ Works(record, e)
      /\ \A e \in Flow : Reported(e)' => Reported(e)
  <2>1. flags \in [Flow -> SUBSET Flags] /\ "SOFTWARE" \in Flags
    BY <1>1 DEF TypeOK, Flags
  <2>2. ASSUME flags' = [flags EXCEPT ![f] = @ \cup {"SOFTWARE"}]
        PROVE  /\ flags' \in [Flow -> SUBSET Flags]
               /\ \A e \in Flow : flags'[e] \subseteq flags[e] \cup {"SOFTWARE"}
               /\ \A e \in Flow : flags[e] \subseteq flags'[e]
    BY <2>1, <2>2
  <2>3. \A e \in Flow : Works(record', e) => Reported(e) \/ Works(record, e)
    BY <1>5 DEF Works
  <2>4. \A e \in Flow : Reported(e)' => Reported(e)
    BY <1>3 DEF Reported, Ours
  <2> QED
    BY <1>5, <2>1, <2>2, <2>3, <2>4
<1>9. Types'
  <2>1. ThreadTypes'
    BY <1>1, <1>5 DEF ThreadTypes
  <2>2. record'.at \in {"idle", "probed", "REFRESH", "UNLEARN", "untrack"}
    BY <1>1, <1>5 DEF TypeOK
  <2>3. TypeOK'
    BY <1>1, <1>3, <1>5, <1>8, <2>2 DEF TypeOK
  <2> QED
    BY <2>1, <2>3 DEF Types
<1>6. Others'
  BY <1>1, <1>3, <1>5 DEF LearnInv, Others
<1>7. FlowInv'
  <2> SUFFICES ASSUME NEW e \in Flow
               PROVE  LearnOnce(e)' /\ LearnAlone(e)' /\ ListedFirst(e)' /\ Counted(e)'
    BY DEF FlowInv
  <2>1. LearnOnce(e) /\ LearnAlone(e) /\ ListedFirst(e) /\ Counted(e)
    BY DEF LearnInv, FlowInv
  <2>2. LearnOnce(e)'
    BY <1>1, <1>5, <1>8, <2>1
      DEF LearnOnce, LearnAlone, OthersOf, Works, Waiting, Learning, Do, Idle
  <2>3. LearnAlone(e)'
    BY <1>1, <1>5, <1>8, <2>1
      DEF LearnOnce, LearnAlone, OthersOf, Works, Waiting, Learning, Do, Idle
  <2>4. ListedFirst(e)'
    BY <1>1, <1>5, <1>8, <2>1
      DEF ListedFirst, LearnOnce, LearnAlone, OthersOf, Touched, Works, Waiting,
          Learning, Do, Idle
  <2>5. Counted(e)'
    BY <1>1, <1>5, <1>8, <2>1 DEF Counted, Moving, Heard, Touched, Works, Do, Idle
  <2> QED
    BY <2>2, <2>3, <2>4, <2>5
<1> QED
  BY <1>1, <1>6, <1>7, <1>9 DEF LearnInv

\* A thread that is to learn a flow again, or unlearn it, passes it on.
LEMMA RecordEnqueueKeeps ==
  ASSUME LearnInv, Orderly, RecordEnqueue, UNCHANGED hwProbe
  PROVE  LearnInv'
<1> USE LearnAssumption DEF entryVars, listVars, threadVars, adapterVars
<1>1. Listed' = Listed /\ Ring' /\ Sorted' /\ TypeOK /\ ThreadTypes
  BY RingKept DEF RecordEnqueue, LearnInv, Types
<1> DEFINE Ops == Base \X Flow
<1>2. PICK f \in Flow, op \in {"REFRESH", "UNLEARN"} :
        f = record.flow /\ op = record.at /\ Works(record, f)
  BY <1>1 DEF RecordEnqueue, ThreadTypes, Works
<1>3. /\ queue' \in Seq(Ops) /\ Elems(queue') = Elems(queue) \cup {<<op, f>>}
      /\ Once(queue')
  <2>1. queue' = Append(queue, <<op, f>>)
    BY <1>2 DEF RecordEnqueue, Enqueue
  <2>2. <<op, f>> \in Ops
    BY DEF Base
  <2>3. queue \in Seq(Ops) /\ Once(queue)
    BY <1>1 DEF TypeOK, LearnInv, Others
  <2> QED
    BY <2>1, <2>2, <2>3, ElemsAppend, OnceAppend
<1>4. /\ record' = [at |-> "idle"]
      /\ UNCHANGED <<hwProbe, flags, skip, rc, listVars, program, status, poll, adapterVars>>
  BY DEF RecordEnqueue, Idle
<1>5. Types'
  <2>1. ThreadTypes'
    BY <1>1, <1>4 DEF ThreadTypes
  <2>2. TypeOK'
    BY <1>1, <1>3, <1>4 DEF TypeOK
  <2> QED
    BY <2>1, <2>2 DEF Types
<1>6. Others'
  BY <1>1, <1>3, <1>4 DEF LearnInv, Others
<1>7. FlowInv'
  <2> SUFFICES ASSUME NEW e \in Flow
               PROVE  LearnOnce(e)' /\ LearnAlone(e)' /\ ListedFirst(e)' /\ Counted(e)'
    BY DEF FlowInv
  <2>1. LearnOnce(e) /\ LearnAlone(e) /\ ListedFirst(e) /\ Counted(e)
    BY DEF LearnInv, FlowInv
  <2>2. LearnOnce(e)'
    BY <1>1, <1>2, <1>3, <1>4, <2>1
      DEF LearnOnce, LearnAlone, OthersOf, Works, Waiting, Learning, Do, Idle
  <2>3. LearnAlone(e)'
    BY <1>1, <1>2, <1>3, <1>4, <2>1
      DEF LearnOnce, LearnAlone, OthersOf, Reported, Ours, Works, Waiting, Learning,
          Do, Idle
  <2>4. ListedFirst(e)'
    BY <1>1, <1>2, <1>3, <1>4, <2>1
      DEF ListedFirst, LearnOnce, LearnAlone, OthersOf, Touched, Works, Waiting,
          Learning, Do, Idle
  <2>5. Counted(e)'
    BY <1>1, <1>2, <1>3, <1>4, <2>1
      DEF Counted, Moving, Heard, Touched, Reported, Ours, Works, Do, Idle
  <2> QED
    BY <2>2, <2>3, <2>4, <2>5
<1> QED
  BY <1>1, <1>5, <1>6, <1>7 DEF LearnInv

\* Time passes for every flow.
LEMMA PollTickKeeps ==
  ASSUME LearnInv, Orderly, PollTick, UNCHANGED hwProbe
  PROVE  LearnInv'
<1> USE LearnAssumption DEF entryVars, listVars, threadVars, adapterVars
<1>1. TypeOK /\ ThreadTypes /\ Ring /\ Sorted
  BY DEF LearnInv, Types
<1>2. /\ poll = [at |-> "idle"] /\ poll' = [at |-> "walk"]
      /\ due' = [e \in Flow |-> IF due[e] > 0 THEN due[e] - 1 ELSE 0]
      /\ UNCHANGED <<hwProbe, flags, skip, rc, pollNext, pollPrev, pollHead, queue,
                     program, status, record, adapterVars>>
  BY DEF PollTick, Idle
<1>3. Listed' = Listed /\ Ring'
  BY <1>1, <1>2, RingKept
<1>4. Sorted'
  <2> SUFFICES ASSUME NEW e \in Listed, pollNext[e] # pollHead
               PROVE  due'[e] <= due'[pollNext[e]]
    BY <1>2, <1>3 DEF Sorted
  <2>1. PICK n \in Flow : n = pollNext[e] /\ due[e] <= due[n] /\ e \in Flow
    BY <1>1, ListedIsLeast DEF Ring, Sorted
  <2>2. due[e] \in Nat /\ due[n] \in Nat
    BY <1>1, <2>1 DEF TypeOK
  <2> QED
    BY <1>2, <2>1, <2>2
<1>5. Types'
  <2>1. ThreadTypes'
    BY <1>1, <1>2 DEF ThreadTypes
  <2>2. due' \in [Flow -> 0 .. Interval]
    BY SMTT(30), <1>1, <1>2 DEF TypeOK
  <2>3. TypeOK'
    BY <1>1, <1>2, <2>2 DEF TypeOK
  <2> QED
    BY <2>1, <2>3 DEF Types
<1>6. Others'
  BY <1>2 DEF LearnInv, Others
<1>7. FlowInv'
  <2> SUFFICES ASSUME NEW e \in Flow
               PROVE  LearnOnce(e)' /\ LearnAlone(e)' /\ ListedFirst(e)' /\ Counted(e)'
    BY DEF FlowInv
  <2>1. LearnOnce(e) /\ LearnAlone(e) /\ ListedFirst(e) /\ Counted(e)
    BY DEF LearnInv, FlowInv
  <2>2. LearnOnce(e)'
    BY <1>1, <1>2, <1>3, <2>1
      DEF LearnOnce, LearnAlone, OthersOf, Works, Waiting, Learning, Do, Idle
  <2>3. LearnAlone(e)'
    BY <1>1, <1>2, <1>3, <2>1
      DEF LearnOnce, LearnAlone, OthersOf, Reported, Ours, Works, Waiting, Learning,
          Do, Idle
  <2>4. ListedFirst(e)'
    BY <1>1, <1>2, <1>3, <2>1
      DEF ListedFirst, LearnOnce, LearnAlone, OthersOf, Touched, Works, Waiting,
          Learning, Do, Idle
  <2>5. Counted(e)'
    BY <1>1, <1>2, <1>3, <2>1
      DEF Counted, Moving, Heard, Touched, Reported, Ours, Works, Do, Idle
  <2> QED
    BY <2>2, <2>3, <2>4, <2>5
<1> QED
  BY <1>3, <1>4, <1>5, <1>6, <1>7 DEF LearnInv

\* The poll thread puts the head off and goes on with the flow behind it.
LEMMA PollWalkKeeps ==
  ASSUME LearnInv, Orderly, PollWalk, UNCHANGED hwProbe
  PROVE  LearnInv'
<1> USE LearnAssumption DEF entryVars, listVars, threadVars, adapterVars
<1>1. TypeOK /\ ThreadTypes /\ Ring /\ Sorted
  BY DEF LearnInv, Types
<1>2. /\ poll.at = "walk"
      /\ UNCHANGED <<hwProbe, flags, skip, rc, pollNext, pollPrev, queue, program, status,
                     record, adapterVars>>
      /\ \/ poll' = [at |-> "idle"] /\ pollHead' = pollHead /\ due' = due
         \/ /\ pollHead # Null
            /\ due' = [due EXCEPT ![pollHead] = Interval]
            /\ pollHead' = pollNext[pollHead]
            /\ poll' = [at |-> "skip", flow |-> pollNext[pollHead]]
  BY DEF PollWalk, Idle, Do
<1>3. /\ Listed' = Listed /\ Ring' /\ Sorted'
      /\ pollHead' \in Flow \cup {Null} /\ due' \in [Flow -> 0 .. Interval]
      /\ \/ poll' = [at |-> "idle"]
         \/ \E f \in Listed : poll' = [at |-> "skip", flow |-> f]
  <2>1. CASE poll' = [at |-> "idle"] /\ pollHead' = pollHead /\ due' = due
    BY <1>1, <1>2, <2>1, RingKept DEF TypeOK
  <2>2. CASE /\ pollHead # Null
             /\ due' = [due EXCEPT ![pollHead] = Interval]
             /\ pollHead' = pollNext[pollHead]
             /\ poll' = [at |-> "skip", flow |-> pollNext[pollHead]]
    <3>1. pollHead \in Listed /\ pollNext[pollHead] \in Listed /\ Listed \subseteq Flow
      BY <1>1, <2>2, ListedIsLeast DEF Ring
    <3>2. Listed' = Listed /\ Ring' /\ Sorted'
      BY <1>1, <1>2, <2>2, <3>1, WalkListed
    <3>3. due' \in [Flow -> 0 .. Interval]
      BY <1>1, <2>2, <3>1 DEF TypeOK
    <3> QED
      BY <2>2, <3>1, <3>2, <3>3
  <2> QED
    BY <1>2, <2>1, <2>2
<1>4. Listed \subseteq Flow
  BY ListedIsLeast
<1>5. Types'
  <2>1. ThreadTypes'
    BY <1>1, <1>2, <1>3, <1>4 DEF ThreadTypes
  <2>2. poll'.at \in {"idle", "skip"}
    BY <1>3
  <2>3. TypeOK'
    BY <1>1, <1>2, <1>3, <2>2 DEF TypeOK
  <2> QED
    BY <2>1, <2>3 DEF Types
<1>6. Others'
  BY <1>2, <1>3 DEF LearnInv, Others
<1>7. FlowInv'
  <2> SUFFICES ASSUME NEW e \in Flow
               PROVE  LearnOnce(e)' /\ LearnAlone(e)' /\ ListedFirst(e)' /\ Counted(e)'
    BY DEF FlowInv
  <2>1. LearnOnce(e) /\ LearnAlone(e) /\ ListedFirst(e) /\ Counted(e)
    BY DEF LearnInv, FlowInv
  <2>2. LearnOnce(e)'
    BY <1>1, <1>2, <1>3, <2>1
      DEF LearnOnce, LearnAlone, OthersOf, Works, Waiting, Learning, Do, Idle
  <2>3. LearnAlone(e)'
    BY <1>1, <1>2, <1>3, <2>1
      DEF LearnOnce, LearnAlone, OthersOf, Reported, Ours, Works, Waiting, Learning,
          Do, Idle
  <2>4. ListedFirst(e)'
    BY <1>1, <1>2, <1>3, <2>1
      DEF ListedFirst, LearnOnce, LearnAlone, OthersOf, Touched, Works, Waiting,
          Learning, Do, Idle
  <2>5. Counted(e)'
    BY <1>1, <1>2, <1>3, <2>1
      DEF Counted, Moving, Heard, Touched, Reported, Ours, Works, Do, Idle
  <2> QED
    BY <2>2, <2>3, <2>4, <2>5
<1> QED
  BY <1>3, <1>5, <1>6, <1>7 DEF LearnInv

\* What the poll thread decides about a flow, by the flow's flags.
LEMMA DecisionOf ==
  ASSUME NEW S
  PROVE  /\ Decision(S) \in Base \cup {"drop", "walk"}
         /\ Decision(S) = "LEARN" <=> "LEARN_PENDING" \in S
         /\ S \subseteq {"TRACK", "SOFTWARE"} /\ "TRACK" \in S => Decision(S) = "walk"
<1>1. Decision(S) \in Base \cup {"drop", "walk"}
  BY DEF Decision, Base
<1>2. Decision(S) = "LEARN" <=> "LEARN_PENDING" \in S
  BY DEF Decision
<1>3. ASSUME S \subseteq {"TRACK", "SOFTWARE"}, "TRACK" \in S
      PROVE  Decision(S) = "walk"
  <2>1. \A x \in {"LEARN_PENDING", "REFRESH_PENDING", "PROBE_PENDING", "UNLEARN_PENDING",
                  "UNLEARN", "LEARN", "PROBE", "REFRESH"} : x \notin S
    BY <1>3
  <2>2. S \cap {"LEARN", "PROBE", "REFRESH", "PROBE_PENDING"} = {}
    BY <2>1
  <2> QED
    BY <1>3, <2>1, <2>2 DEF Decision
<1> QED
  BY <1>1, <1>2, <1>3

\* The poll thread takes all flags of the flow: a pending learn is now its
\* own to issue again.
LEMMA PollFlagsKeeps ==
  ASSUME LearnInv, Orderly, PollFlags, UNCHANGED hwProbe
  PROVE  LearnInv'
<1> USE LearnAssumption DEF entryVars, listVars, threadVars, adapterVars
<1>1. Listed' = Listed /\ Ring' /\ Sorted' /\ TypeOK /\ ThreadTypes
  BY RingKept DEF PollFlags, ClearFlags, LearnInv, Types
<1>2. PICK f \in Flow : f = poll.flow /\ Works(poll, f) /\ poll.at = "flags" /\ f \in Listed
  BY <1>1 DEF PollFlags, ThreadTypes, Works, LearnInv, Others
<1>3. PICK d \in Base \cup {"drop", "walk"} : d = Decision(flags[f])
  BY DecisionOf
<1>4. /\ poll' = [at |-> d, flow |-> f]
      /\ flags' = [flags EXCEPT ![f] = @ \ (Base \cup PendingFlags)]
      /\ UNCHANGED <<hwProbe, skip, rc, listVars, queue, program, status, record, adapterVars>>
  BY <1>2, <1>3 DEF PollFlags, ClearFlags, Do
<1>8. /\ flags' \in [Flow -> SUBSET Flags]
      /\ \A e \in Flow \ {f} : flags'[e] = flags[e]
      /\ flags'[f] \subseteq {"TRACK", "SOFTWARE"}
      /\ flags'[f] \subseteq flags[f] /\ ("TRACK" \in flags'[f] <=> "TRACK" \in flags[f])
  <2>1. "TRACK" \notin Base \cup PendingFlags
    BY DEF Base, PendingFlags, Pending
  <2>2. Flags = Base \cup PendingFlags \cup {"TRACK", "SOFTWARE"}
    BY DEF Flags
  <2>3. flags \in [Flow -> SUBSET Flags]
    BY <1>1 DEF TypeOK
  <2>4. flags'[f] = flags[f] \ (Base \cup PendingFlags)
    BY <1>4, <2>3
  <2>5. \A e \in Flow \ {f} : flags'[e] = flags[e]
    BY <1>4, <2>3
  <2>6. flags' \in [Flow -> SUBSET Flags]
    BY <1>4, <2>3
  <2> QED
    BY <2>1, <2>2, <2>3, <2>4, <2>5, <2>6
<1>5. /\ d = "LEARN" <=> "LEARN_PENDING" \in flags[f]
      /\ Learning(f) /\ "LEARN_PENDING" \notin flags[f] => d = "walk"
  <2>1. d = "LEARN" <=> "LEARN_PENDING" \in flags[f]
    BY <1>3, DecisionOf
  <2>2. LearnOnce(f)
    BY DEF LearnInv, FlowInv
  <2>3. ASSUME Waiting(f) PROVE d = "walk"
    BY <1>2, <1>3, <2>2, <2>3, DecisionOf DEF LearnOnce
  <2> QED
    BY <2>1, <2>3 DEF Learning
<1>9. Types'
  <2>1. ThreadTypes'
    BY <1>1, <1>4 DEF ThreadTypes, Base
  <2>2. poll'.at \in {"idle", "walk", "skip", "flags", "drop", "deref"} \cup Base
    BY <1>4 DEF Base
  <2>3. TypeOK'
    BY <1>1, <1>4, <1>8, <2>2 DEF TypeOK
  <2> QED
    BY <2>1, <2>3 DEF Types
<1>6. Others'
  BY <1>1, <1>2, <1>4 DEF LearnInv, Others, Base
<1>10. /\ poll = [at |-> "flags", flow |-> f]
       /\ \A e \in Flow : Works(poll', e) => e = f
       /\ \A e \in Flow : Works(poll, e) <=> e = f
       /\ d # "idle" /\ d # "gone"
  <2>1. poll = [at |-> "flags", flow |-> f]
    BY <1>1, <1>2 DEF ThreadTypes
  <2> QED
    BY <1>4, <2>1 DEF Works, Base
<1>7. FlowInv'
  <2> SUFFICES ASSUME NEW e \in Flow
               PROVE  LearnOnce(e)' /\ LearnAlone(e)' /\ ListedFirst(e)' /\ Counted(e)'
    BY DEF FlowInv
  <2>1. LearnOnce(e) /\ LearnAlone(e) /\ ListedFirst(e) /\ Counted(e)
    BY DEF LearnInv, FlowInv
  <2>2. LearnOnce(e)'
    BY <1>1, <1>2, <1>4, <1>5, <1>8, <1>10, <2>1
      DEF LearnOnce, LearnAlone, OthersOf, Works, Waiting, Learning, Do, Idle,
          OtherFlags
  <2>3. LearnAlone(e)'
    BY <1>1, <1>2, <1>4, <1>5, <1>8, <1>10, <2>1
      DEF LearnOnce, LearnAlone, OthersOf, Reported, Ours, Works, Waiting, Learning,
          Do, Idle, OtherFlags
  <2>4. ListedFirst(e)'
    BY <1>1, <1>2, <1>4, <1>5, <1>8, <1>10, <2>1
      DEF ListedFirst, LearnOnce, LearnAlone, OthersOf, Touched, Works, Waiting,
          Learning, Do, Idle, OtherFlags
  <2>5. Counted(e)'
    BY <1>1, <1>2, <1>4, <1>5, <1>8, <1>10, <2>1
      DEF Counted, Moving, Heard, Touched, Reported, Ours, Works, Do, Idle, OtherFlags
  <2> QED
    BY <2>2, <2>3, <2>4, <2>5
<1> QED
  BY <1>1, <1>6, <1>7, <1>9 DEF LearnInv

\* The poll thread passes its operation on; a learn is in no other place.
LEMMA PollEnqueueKeeps ==
  ASSUME LearnInv, Orderly, PollEnqueue, UNCHANGED hwProbe
  PROVE  LearnInv'
<1> USE LearnAssumption DEF entryVars, listVars, threadVars, adapterVars
<1>1. Listed' = Listed /\ Ring' /\ Sorted' /\ TypeOK /\ ThreadTypes
  BY RingKept DEF PollEnqueue, LearnInv, Types
<1> DEFINE Ops == Base \X Flow
<1>2. PICK f \in Flow, op \in Base :
        f = poll.flow /\ op = poll.at /\ poll = [at |-> op, flow |-> f] /\ Works(poll, f)
  BY <1>1 DEF PollEnqueue, ThreadTypes, Works, Base
<1>8. op = "LEARN" => <<op, f>> \notin Elems(queue)
  BY <1>2 DEF LearnInv, FlowInv, LearnOnce, Do
<1>3. /\ queue' \in Seq(Ops) /\ Elems(queue') = Elems(queue) \cup {<<op, f>>}
      /\ Once(queue')
  <2>1. queue' = Append(queue, <<op, f>>)
    BY <1>2 DEF PollEnqueue, Enqueue
  <2>2. <<op, f>> \in Ops /\ <<op, f>>[1] = op
    OBVIOUS
  <2>3. queue \in Seq(Ops) /\ Once(queue)
    BY <1>1 DEF TypeOK, LearnInv, Others
  <2>4. Elems(queue') = Elems(queue) \cup {<<op, f>>} /\ queue' \in Seq(Ops)
    BY <2>1, <2>2, <2>3, ElemsAppend
  <2>5. Once(queue')
    BY <2>1, <2>2, <2>3, <1>8, OnceAppend
  <2> QED
    BY <2>4, <2>5
<1>4. /\ poll' = [at |-> "walk"]
      /\ UNCHANGED <<hwProbe, flags, skip, rc, listVars, program, status, record, adapterVars>>
  BY DEF PollEnqueue, Idle
<1>5. Types'
  <2>1. ThreadTypes'
    BY <1>1, <1>4 DEF ThreadTypes
  <2>2. TypeOK'
    BY <1>1, <1>3, <1>4 DEF TypeOK
  <2> QED
    BY <2>1, <2>2 DEF Types
<1>6. Others'
  BY <1>1, <1>3, <1>4 DEF LearnInv, Others
<1>7. FlowInv'
  <2> SUFFICES ASSUME NEW e \in Flow
               PROVE  LearnOnce(e)' /\ LearnAlone(e)' /\ ListedFirst(e)' /\ Counted(e)'
    BY DEF FlowInv
  <2>1. LearnOnce(e) /\ LearnAlone(e) /\ ListedFirst(e) /\ Counted(e)
    BY DEF LearnInv, FlowInv
  <2>2. LearnOnce(e)'
    BY <1>1, <1>2, <1>3, <1>4, <1>8, <2>1
      DEF LearnOnce, LearnAlone, OthersOf, Works, Waiting, Learning, Do, Idle, Base
  <2>3. LearnAlone(e)'
    BY <1>1, <1>2, <1>3, <1>4, <1>8, <2>1
      DEF LearnOnce, LearnAlone, OthersOf, Reported, Ours, Works, Waiting, Learning,
          Do, Idle, Base
  <2>4. ListedFirst(e)'
    BY <1>1, <1>2, <1>3, <1>4, <1>8, <2>1
      DEF ListedFirst, LearnOnce, LearnAlone, OthersOf, Touched, Works, Waiting,
          Learning, Do, Idle, Base
  <2>5. Counted(e)'
    BY <1>1, <1>2, <1>3, <1>4, <1>8, <2>1
      DEF Counted, Moving, Heard, Touched, Reported, Ours, Works, Do, Idle, Base
  <2> QED
    BY <2>2, <2>3, <2>4, <2>5
<1> QED
  BY <1>1, <1>5, <1>6, <1>7 DEF LearnInv

\* A flow that nobody learns leaves the list.
LEMMA PollDropKeeps ==
  ASSUME LearnInv, Orderly, PollDrop, UNCHANGED hwProbe
  PROVE  LearnInv'
<1> USE LearnAssumption DEF entryVars, listVars, threadVars, adapterVars
<1>1. TypeOK /\ ThreadTypes /\ Ring /\ Sorted
  BY DEF LearnInv, Types
<1>2. PICK f \in Flow : f = poll.flow /\ poll = [at |-> "drop", flow |-> f] /\ f \in Listed
  BY <1>1 DEF PollDrop, ThreadTypes, Base, LearnInv, Others
<1>3. Listed' = Listed \ {f} /\ Ring' /\ Sorted'
  BY <1>1, <1>2, RemoveListed DEF PollDrop
<1>8. Works(poll, f) /\ ~Learning(f)
  <2>1. LearnAlone(f)
    BY DEF LearnInv, FlowInv
  <2> QED
    BY <1>2, <2>1 DEF LearnAlone, OthersOf, Works
<1>4. /\ poll' = [at |-> "deref", flow |-> f]
      /\ UNCHANGED <<hwProbe, flags, skip, rc, queue, program, status, record, adapterVars>>
  BY <1>2 DEF PollDrop, Do
<1>5. Types'
  <2>1. ThreadTypes'
    BY <1>1, <1>4 DEF ThreadTypes
  <2>2. pollNext' \in [Flow -> Flow \cup {Null}] /\ pollPrev' \in [Flow -> Flow \cup {Null}]
        /\ pollHead' \in Flow \cup {Null} /\ due' = due
    BY <1>1, <1>2 DEF PollDrop, RemovePoll, TypeOK
  <2>3. TypeOK'
    BY <1>1, <1>4, <2>2 DEF TypeOK
  <2> QED
    BY <2>1, <2>3 DEF Types
<1>6. Others'
  BY <1>3, <1>4 DEF LearnInv, Others
<1>7. FlowInv'
  <2> SUFFICES ASSUME NEW e \in Flow
               PROVE  LearnOnce(e)' /\ LearnAlone(e)' /\ ListedFirst(e)' /\ Counted(e)'
    BY DEF FlowInv
  <2>1. LearnOnce(e) /\ LearnAlone(e) /\ ListedFirst(e) /\ Counted(e)
    BY DEF LearnInv, FlowInv
  <2>2. LearnOnce(e)'
    BY <1>1, <1>2, <1>3, <1>4, <1>8, <2>1
      DEF LearnOnce, LearnAlone, OthersOf, Works, Waiting, Learning, Do, Idle
  <2>3. LearnAlone(e)'
    BY <1>1, <1>2, <1>3, <1>4, <1>8, <2>1
      DEF LearnOnce, LearnAlone, OthersOf, Reported, Ours, Works, Waiting, Learning,
          Do, Idle
  <2>4. ListedFirst(e)'
    BY <1>1, <1>2, <1>3, <1>4, <1>8, <2>1
      DEF ListedFirst, LearnOnce, LearnAlone, OthersOf, Touched, Works, Waiting,
          Learning, Do, Idle
  <2>5. Counted(e)'
    BY <1>1, <1>2, <1>3, <1>4, <1>8, <2>1
      DEF Counted, Moving, Heard, Touched, Reported, Ours, Works, Do, Idle
  <2> QED
    BY <2>2, <2>3, <2>4, <2>5
<1> QED
  BY <1>3, <1>5, <1>6, <1>7 DEF LearnInv

\* The reference of the list goes after the flow has left it.
LEMMA PollDerefKeeps ==
  ASSUME LearnInv, Orderly, PollDeref, UNCHANGED hwProbe
  PROVE  LearnInv'
<1> USE LearnAssumption DEF entryVars, listVars, threadVars, adapterVars
<1>1. Listed' = Listed /\ Ring' /\ Sorted' /\ TypeOK /\ ThreadTypes
  BY RingKept DEF PollDeref, LearnInv, Types
<1>2. PICK f \in Flow : f = poll.flow /\ poll = [at |-> "deref", flow |-> f] /\ f \notin Listed
  BY <1>1 DEF PollDeref, ThreadTypes, Base, LearnInv, Others
<1>8. /\ Works(poll, f) /\ ~Learning(f) /\ rc[f] = 2
      /\ ~(program.at = "list" /\ program.flow = f)
  <2>1. LearnAlone(f) /\ ListedFirst(f) /\ Counted(f)
    BY DEF LearnInv, FlowInv
  <2>2. Works(poll, f) /\ ~Learning(f)
    BY <1>2, <2>1 DEF LearnAlone, OthersOf, Works
  <2>3. rc[f] = 2
    BY <1>2, <2>1 DEF Counted, Moving
  <2>4. ~(program.at = "list" /\ program.flow = f)
    BY <2>1, <2>2 DEF ListedFirst, Learning
  <2> QED
    BY <2>2, <2>3, <2>4
<1>4. /\ poll' = [at |-> "walk"]
      /\ rc' = [rc EXCEPT ![f] = 1] /\ rc \in [Flow -> Nat] /\ rc'[f] = 1
      /\ \A e \in Flow \ {f} : rc'[e] = rc[e]
      /\ UNCHANGED <<hwProbe, flags, skip, listVars, queue, program, status, record,
                     adapterVars>>
  <2>1. rc' = [rc EXCEPT ![f] = rc[f] - 1] /\ rc \in [Flow -> Nat] /\ rc[f] - 1 = 1
    BY <1>1, <1>2, <1>8 DEF PollDeref, TypeOK
  <2>2. rc' = [rc EXCEPT ![f] = 1]
    BY <2>1
  <2> QED
    BY <2>1, <2>2 DEF PollDeref
<1>5. Types'
  <2>1. ThreadTypes'
    BY <1>1, <1>4 DEF ThreadTypes
  <2>2. rc' \in [Flow -> Nat]
    BY <1>4
  <2>3. TypeOK'
    BY <1>1, <1>4, <2>2 DEF TypeOK
  <2> QED
    BY <2>1, <2>3 DEF Types
<1>6. Others'
  BY <1>1, <1>4 DEF LearnInv, Others
<1>7. FlowInv'
  <2> SUFFICES ASSUME NEW e \in Flow
               PROVE  LearnOnce(e)' /\ LearnAlone(e)' /\ ListedFirst(e)' /\ Counted(e)'
    BY DEF FlowInv
  <2>1. LearnOnce(e) /\ LearnAlone(e) /\ ListedFirst(e) /\ Counted(e)
    BY DEF LearnInv, FlowInv
  <2>2. LearnOnce(e)'
    BY <1>1, <1>2, <1>4, <1>8, <2>1
      DEF LearnOnce, LearnAlone, OthersOf, Works, Waiting, Learning, Do, Idle
  <2>3. LearnAlone(e)'
    BY <1>1, <1>2, <1>4, <1>8, <2>1
      DEF LearnOnce, LearnAlone, OthersOf, Reported, Ours, Works, Waiting, Learning,
          Do, Idle
  <2>4. ListedFirst(e)'
    BY <1>1, <1>2, <1>4, <1>8, <2>1
      DEF ListedFirst, LearnOnce, LearnAlone, OthersOf, Touched, Works, Waiting,
          Learning, Do, Idle
  <2>5. Counted(e)'
    BY <1>1, <1>2, <1>4, <1>8, <2>1
      DEF Counted, Moving, Heard, Touched, Reported, Ours, Works, Do, Idle
  <2> QED
    BY <2>2, <2>3, <2>4, <2>5
<1> QED
  BY <1>1, <1>5, <1>6, <1>7 DEF LearnInv

\* An operation is pulled.  A LEARN operation is now the flag LEARN_PENDING,
\* and a flow that is not listed is about to be; any other is of a flow that
\* is not being learned.
LEMMA ProgramPullKeeps ==
  ASSUME LearnInv, Orderly, ProgramPull, UNCHANGED hwProbe
  PROVE  LearnInv'
<1> USE LearnAssumption DEF entryVars, listVars, threadVars, adapterVars
<1>1. Listed' = Listed /\ Ring' /\ Sorted' /\ TypeOK /\ ThreadTypes
  BY RingKept
    DEF ProgramPull, ProgramProbe, ProgramUnlearn, ProgramRefresh, ProgramLearn,
        LearnInv, Types
<1> DEFINE Ops == Base \X Flow
<1>0. queue \in Seq(Ops) /\ queue # <<>> /\ queue' = Tail(queue) /\ Once(queue)
  BY <1>1 DEF ProgramPull, TypeOK, LearnInv, Others
<1>2. PICK q \in Ops : q = queue[1] /\ q \in Elems(queue)
  BY <1>0, ElemsTail
<1>3. PICK op \in Base, f \in Flow : q = <<op, f>>
  BY <1>2
<1>4. /\ queue' \in Seq(Ops) /\ Elems(queue') \subseteq Elems(queue) /\ Once(queue')
      /\ op = "LEARN" => <<op, f>> \notin Elems(queue')
  <2>1. queue' \in Seq(Ops) /\ Elems(queue') \subseteq Elems(queue)
    BY <1>0, ElemsTail
  <2>2. Once(queue') /\ (q[1] = "LEARN" => q \notin Elems(queue'))
    BY <1>0, <1>2, OnceTail
  <2> QED
    BY <1>3, <2>1, <2>2
<1>5. /\ program = [at |-> "idle"]
      /\ UNCHANGED <<hwProbe, skip, rc, listVars, status, record, poll, adapterVars>>
  BY DEF ProgramPull, Idle
<1> DEFINE Written == [at : {"write"}, flow : {f}, cmd : {"learn", "unlearn", "probe"},
                       old : SUBSET Flags]
           Added == {{"PROBE", "PROBE_PENDING", "TRACK"}, {"UNLEARN", "UNLEARN_PENDING"},
                     {"REFRESH", "REFRESH_PENDING", "TRACK"}}
<1>8. LearnOnce(f) /\ LearnAlone(f) /\ ListedFirst(f) /\ Counted(f)
  BY DEF LearnInv, FlowInv
<1>9. flags \in [Flow -> SUBSET Flags] /\ flags[f] \in SUBSET Flags
  BY <1>1 DEF TypeOK
<1>10. CASE op # "LEARN"
  <2>1. ~Learning(f)
    BY <1>2, <1>3, <1>8, <1>10 DEF LearnAlone, OthersOf
  <2>2. PICK S \in Added :
          flags' = [flags EXCEPT ![f] = @ \cup S] /\ program' \in [at : {"idle"}] \cup Written
    <3>1. CASE op = "PROBE" /\ ProgramProbe(f)
      BY <3>1, <1>9 DEF ProgramProbe, SetFlags, Issue
    <3>2. CASE op = "UNLEARN" /\ ProgramUnlearn(f)
      BY <3>2, <1>9 DEF ProgramUnlearn, SetFlags, Issue, Idle
    <3>3. CASE op = "REFRESH" /\ ProgramRefresh(f)
      BY <3>3, <1>9 DEF ProgramRefresh, SetFlags, Issue, Idle
    <3> QED
      BY <1>2, <1>3, <1>10, <3>1, <3>2, <3>3 DEF ProgramPull, Base
  <2>3. /\ flags' \in [Flow -> SUBSET Flags]
        /\ \A e \in Flow \ {f} : flags'[e] = flags[e]
        /\ "LEARN_PENDING" \notin flags'[f]
    <3>1. S \subseteq Flags /\ "LEARN_PENDING" \notin S
      BY DEF Flags, Base, PendingFlags, Pending
    <3>2. "LEARN_PENDING" \notin flags[f]
      BY <2>1 DEF Learning
    <3> QED
      BY <1>9, <2>2, <3>1, <3>2
  <2>4. ~Learning(f)'
    BY <1>4, <1>5, <2>1, <2>3 DEF Learning, Waiting, Do
  <2>5. /\ \A e \in Flow : Works(program', e) => e = f /\ program'.at = "write"
        /\ program'.at \notin {"ref", "list"} /\ program.at # "list"
    BY <1>5, <2>2 DEF Works
  <2>6. Heard(f)
    BY <1>2, <1>3 DEF Heard
  <2>7. Types'
    <3>1. program' \in [at : {"idle", "gone"}] \cup
            [at : {"ref", "list", "skip", "write"}, flow : Flow, cmd : {"learn", "unlearn", "probe"},
             old : SUBSET Flags]
      BY <2>2
    <3>2. ThreadTypes'
      BY <1>1, <1>5, <3>1 DEF ThreadTypes
    <3>3. program'.at \in {"idle", "ref", "list", "skip", "write", "gone"}
      BY <3>1
    <3>4. TypeOK'
      BY <1>1, <1>4, <1>5, <2>3, <3>3 DEF TypeOK
    <3> QED
      BY <3>2, <3>4 DEF Types
  <2>8. FlowInv'
    <3> SUFFICES ASSUME NEW e \in Flow
                 PROVE  LearnOnce(e)' /\ LearnAlone(e)' /\ ListedFirst(e)' /\ Counted(e)'
      BY DEF FlowInv
    <3>1. LearnOnce(e) /\ LearnAlone(e) /\ ListedFirst(e) /\ Counted(e)
      BY DEF LearnInv, FlowInv
    <3>2. LearnOnce(e)'
      BY <1>1, <1>4, <1>5, <2>3, <2>4, <2>5, <2>6, <3>1
        DEF LearnOnce, LearnAlone, OthersOf, Works, Waiting, Learning, Do, Idle, Base
    <3>3. LearnAlone(e)'
      BY SMTT(30), <1>1, <1>4, <1>5, <2>3, <2>4, <2>5, <2>6, <3>1
        DEF LearnOnce, LearnAlone, OthersOf, Reported, Ours, Works, Waiting, Learning,
            Do, Idle, Base
    <3>4. ListedFirst(e)'
      BY <1>1, <1>4, <1>5, <2>3, <2>4, <2>5, <2>6, <3>1
        DEF ListedFirst, LearnOnce, LearnAlone, OthersOf, Touched, Works, Waiting,
            Learning, Do, Idle, Base
    <3>5. Counted(e)'
      BY <1>1, <1>4, <1>5, <2>3, <2>4, <2>5, <2>6, <3>1
        DEF Counted, Moving, Heard, Touched, Reported, Ours, Works, Do, Idle, Base
    <3> QED
      BY <3>2, <3>3, <3>4, <3>5
  <2>9. Others'
    BY <1>1, <1>4, <1>5 DEF LearnInv, Others
  <2> QED
    BY <1>1, <2>7, <2>8, <2>9 DEF LearnInv
<1>11. CASE op = "LEARN"
  <2>1. /\ <<"LEARN", f>> \in Elems(queue) /\ Waiting(f) /\ Learning(f) /\ Heard(f)
        /\ flags[f] \subseteq {"TRACK", "SOFTWARE"}
        /\ "TRACK" \in flags[f] <=> f \in Listed
        /\ poll # Do("LEARN", f) /\ ~OthersOf(f)
    BY <1>2, <1>3, <1>8, <1>11 DEF Waiting, Learning, LearnOnce, LearnAlone, Heard
  <2>2. /\ flags' = [flags EXCEPT ![f] = @ \cup {"LEARN", "LEARN_PENDING", "TRACK"}]
        /\ program' = [at |-> IF "TRACK" \in flags[f] THEN "skip" ELSE "ref",
                       flow |-> f, cmd |-> "learn", old |-> flags[f]]
    <3>1. ProgramLearn(f)
      BY <1>2, <1>3, <1>11 DEF ProgramPull
    <3>2. "LEARN" \notin flags[f]
      BY <2>1
    <3> QED
      BY <3>1, <3>2 DEF ProgramLearn, SetFlags, Issue
  <2>3. /\ flags' \in [Flow -> SUBSET Flags]
        /\ \A e \in Flow \ {f} : flags'[e] = flags[e]
        /\ flags'[f] \subseteq {"LEARN", "LEARN_PENDING", "TRACK", "SOFTWARE"}
        /\ "LEARN_PENDING" \in flags'[f] /\ "TRACK" \in flags'[f]
    <3>1. {"LEARN", "LEARN_PENDING", "TRACK"} \subseteq Flags
      BY DEF Flags, Base, PendingFlags, Pending
    <3> QED
      BY <1>9, <2>1, <2>2, <3>1
  <2>4. ~Waiting(f)'
    BY <1>4, <1>5, <1>11, <2>1 DEF Waiting, Do
  <2>5. /\ program'.flow = f /\ program'.cmd = "learn" /\ program'.at \in {"skip", "ref"}
        /\ f \notin Listed <=> program'.at = "ref"
        /\ program.at # "list"
        /\ \A e \in Flow : Works(program', e) => e = f
    BY <1>5, <2>1, <2>2 DEF Works
  <2>6. ~OthersOf(f)'
    BY <1>4, <1>5, <2>1, <2>3, <2>5 DEF OthersOf, OtherFlags, Works, Reported, Ours
  <2>7. Types'
    <3>1. program' \in [at : {"idle", "gone"}] \cup
            [at : {"ref", "list", "skip", "write"}, flow : Flow, cmd : {"learn", "unlearn", "probe"},
             old : SUBSET Flags]
      BY <1>9, <2>2
    <3>2. ThreadTypes'
      BY <1>1, <1>5, <3>1 DEF ThreadTypes
    <3>3. program'.at \in {"idle", "ref", "list", "skip", "write", "gone"}
      BY <3>1
    <3>4. TypeOK'
      BY <1>1, <1>4, <1>5, <2>3, <3>3 DEF TypeOK
    <3> QED
      BY <3>2, <3>4 DEF Types
  <2>8. FlowInv'
    <3> SUFFICES ASSUME NEW e \in Flow
                 PROVE  LearnOnce(e)' /\ LearnAlone(e)' /\ ListedFirst(e)' /\ Counted(e)'
      BY DEF FlowInv
    <3>1. LearnOnce(e) /\ LearnAlone(e) /\ ListedFirst(e) /\ Counted(e)
      BY DEF LearnInv, FlowInv
    <3>2. LearnOnce(e)'
      BY <1>1, <1>4, <1>5, <2>1, <2>3, <2>4, <2>5, <2>6, <3>1
        DEF LearnOnce, LearnAlone, OthersOf, Works, Waiting, Learning, Do, Idle, Base
    <3>3. LearnAlone(e)'
      BY <1>1, <1>4, <1>5, <2>1, <2>3, <2>4, <2>5, <2>6, <3>1
        DEF LearnOnce, LearnAlone, OthersOf, Reported, Ours, Works, Waiting, Learning,
            Do, Idle, Base
    <3>4. ListedFirst(e)'
      BY <1>1, <1>4, <1>5, <2>1, <2>3, <2>4, <2>5, <2>6, <3>1
        DEF ListedFirst, LearnOnce, LearnAlone, OthersOf, Touched, Works, Waiting,
            Learning, Do, Idle, Base
    <3>5. Counted(e)'
      BY <1>1, <1>4, <1>5, <2>1, <2>3, <2>4, <2>5, <2>6, <3>1
        DEF Counted, Moving, Heard, Touched, Reported, Ours, Works, Do, Idle, Base
    <3> QED
      BY <3>2, <3>3, <3>4, <3>5
  <2>9. Others'
    BY <1>1, <1>4, <1>5 DEF LearnInv, Others
  <2> QED
    BY <1>1, <2>7, <2>8, <2>9 DEF LearnInv
<1> QED
  BY <1>10, <1>11

\* The flow to be learned gets the list's reference.
LEMMA ProgramRefKeeps ==
  ASSUME LearnInv, Orderly, ProgramRef, UNCHANGED hwProbe
  PROVE  LearnInv'
<1> USE LearnAssumption DEF entryVars, listVars, threadVars, adapterVars
<1>1. Listed' = Listed /\ Ring' /\ Sorted' /\ TypeOK /\ ThreadTypes
  BY RingKept DEF ProgramRef, LearnInv, Types
<1>2. PICK f \in Flow, c \in {"learn", "unlearn", "probe"}, o \in SUBSET Flags :
        program = [at |-> "ref", flow |-> f, cmd |-> c, old |-> o]
  BY <1>1 DEF ProgramRef, ThreadTypes
<1>8. /\ f \notin Listed /\ "LEARN_PENDING" \in flags[f] /\ rc[f] = 1 /\ Learning(f)
      /\ ~(poll.at = "deref" /\ poll.flow = f)
  <2>1. LearnAlone(f) /\ ListedFirst(f) /\ Counted(f)
    BY DEF LearnInv, FlowInv
  <2>2. f \notin Listed /\ "LEARN_PENDING" \in flags[f] /\ Learning(f)
    BY <1>2, <2>1 DEF ListedFirst, Learning
  <2>3. Heard(f)
    BY <1>2 DEF Heard, Works
  <2>4. ~(poll.at = "deref" /\ poll.flow = f)
    BY <2>1, <2>2 DEF LearnAlone, OthersOf, Works
  <2>5. rc[f] = 1
    BY <1>2, <2>1, <2>2, <2>3, <2>4 DEF Counted, Moving
  <2> QED
    BY <2>2, <2>4, <2>5
<1>4. /\ program' = [at |-> "list", flow |-> f, cmd |-> c, old |-> o]
      /\ rc' = [rc EXCEPT ![f] = 2] /\ rc'[f] = 2 /\ rc' \in [Flow -> Nat]
      /\ \A e \in Flow \ {f} : rc'[e] = rc[e]
      /\ UNCHANGED <<hwProbe, flags, skip, listVars, queue, status, record, poll,
                     adapterVars>>
  <2>1. rc' = [rc EXCEPT ![f] = rc[f] + 1] /\ rc \in [Flow -> Nat] /\ rc[f] + 1 = 2
    BY <1>1, <1>2, <1>8 DEF ProgramRef, TypeOK
  <2>2. rc' = [rc EXCEPT ![f] = 2]
    BY <2>1
  <2>3. program' = [at |-> "list", flow |-> f, cmd |-> c, old |-> o]
    BY <1>2 DEF ProgramRef
  <2>4. rc' \in [Flow -> Nat] /\ rc'[f] = 2 /\ \A e \in Flow \ {f} : rc'[e] = rc[e]
    BY <2>1, <2>2
  <2>5. UNCHANGED <<hwProbe, flags, skip, listVars, queue, status, record, poll,
                    adapterVars>>
    BY DEF ProgramRef
  <2> QED
    BY <2>2, <2>3, <2>4, <2>5
<1>5. Types'
  <2>1. ThreadTypes'
    BY <1>1, <1>4 DEF ThreadTypes
  <2>2. TypeOK'
    BY <1>1, <1>4 DEF TypeOK
  <2> QED
    BY <2>1, <2>2 DEF Types
<1>6. Others'
  BY <1>1, <1>4 DEF LearnInv, Others
<1>7. FlowInv'
  <2> SUFFICES ASSUME NEW e \in Flow
               PROVE  LearnOnce(e)' /\ LearnAlone(e)' /\ ListedFirst(e)' /\ Counted(e)'
    BY DEF FlowInv
  <2>1. LearnOnce(e) /\ LearnAlone(e) /\ ListedFirst(e) /\ Counted(e)
    BY DEF LearnInv, FlowInv
  <2>2. LearnOnce(e)'
    BY <1>1, <1>2, <1>4, <1>8, <2>1
      DEF LearnOnce, LearnAlone, OthersOf, Works, Waiting, Learning, Do, Idle
  <2>3. LearnAlone(e)'
    BY <1>1, <1>2, <1>4, <1>8, <2>1
      DEF LearnOnce, LearnAlone, OthersOf, Reported, Ours, Works, Waiting, Learning,
          Do, Idle
  <2>4. ListedFirst(e)'
    BY <1>1, <1>2, <1>4, <1>8, <2>1
      DEF ListedFirst, LearnOnce, LearnAlone, OthersOf, Touched, Works, Waiting,
          Learning, Do, Idle
  <2>5. Counted(e)'
    BY <1>1, <1>2, <1>4, <1>8, <2>1
      DEF Counted, Moving, Heard, Touched, Reported, Ours, Works, Do, Idle
  <2> QED
    BY <2>2, <2>3, <2>4, <2>5
<1> QED
  BY <1>1, <1>5, <1>6, <1>7 DEF LearnInv

\* Then it is put into the list.
LEMMA ProgramListKeeps ==
  ASSUME LearnInv, Orderly, ProgramList, UNCHANGED hwProbe
  PROVE  LearnInv'
<1> USE LearnAssumption DEF entryVars, listVars, threadVars, adapterVars
<1>1. TypeOK /\ ThreadTypes /\ Ring /\ Sorted
  BY DEF LearnInv, Types
<1>2. PICK f \in Flow, c \in {"learn", "unlearn", "probe"}, o \in SUBSET Flags :
        program = [at |-> "list", flow |-> f, cmd |-> c, old |-> o]
  BY <1>1 DEF ProgramList, ThreadTypes
<1>8. /\ f \notin Listed /\ "LEARN_PENDING" \in flags[f] /\ rc[f] = 2 /\ ~Waiting(f)
      /\ ~OthersOf(f) /\ ~(poll.at = "deref" /\ poll.flow = f)
  <2>1. LearnOnce(f) /\ LearnAlone(f) /\ ListedFirst(f) /\ Counted(f)
    BY DEF LearnInv, FlowInv
  <2>2. f \notin Listed /\ "LEARN_PENDING" \in flags[f]
    BY <1>2, <2>1 DEF ListedFirst
  <2>4. rc[f] = 2
    BY <1>2, <2>1 DEF Counted, Moving
  <2>5. ~Waiting(f)
    BY <2>1, <2>2 DEF LearnOnce
  <2>6. ~OthersOf(f)
    BY <2>1, <2>2 DEF LearnAlone, Learning
  <2>7. ~(poll.at = "deref" /\ poll.flow = f)
    BY <2>6 DEF OthersOf, Works
  <2> QED
    BY <2>2, <2>4, <2>5, <2>6, <2>7
<1>3. Listed' = Listed \cup {f} /\ Ring' /\ Sorted'
  BY <1>1, <1>2, <1>8, AddListed DEF ProgramList
<1>4. /\ program' = [at |-> "skip", flow |-> f, cmd |-> c, old |-> o]
      /\ UNCHANGED <<hwProbe, flags, skip, rc, queue, status, record, poll, adapterVars>>
  BY <1>2 DEF ProgramList
<1>5. Types'
  <2>1. ThreadTypes'
    BY <1>1, <1>4 DEF ThreadTypes
  <2>2. /\ pollNext' \in [Flow -> Flow \cup {Null}] /\ pollPrev' \in [Flow -> Flow \cup {Null}]
        /\ pollHead' \in Flow \cup {Null}
    <3>1. AddPoll(f) /\ pollNext \in [Flow -> Flow \cup {Null}]
          /\ pollPrev \in [Flow -> Flow \cup {Null}] /\ pollHead \in Flow \cup {Null}
      BY <1>1, <1>2 DEF ProgramList, TypeOK
    <3>2. CASE pollHead = Null
      BY <3>1, <3>2 DEF AddPoll
    <3>3. CASE pollHead # Null
      BY <3>1, <3>3 DEF AddPoll
    <3> QED
      BY <3>2, <3>3
  <2>3. due' \in [Flow -> 0 .. Interval]
    BY <1>1, <1>2 DEF ProgramList, AddPoll, TypeOK
  <2>4. TypeOK'
    BY <1>1, <1>4, <2>2, <2>3 DEF TypeOK
  <2> QED
    BY <2>1, <2>4 DEF Types
<1>6. Others'
  BY <1>3, <1>4, <1>8 DEF LearnInv, Others
<1>7. FlowInv'
  <2> SUFFICES ASSUME NEW e \in Flow
               PROVE  LearnOnce(e)' /\ LearnAlone(e)' /\ ListedFirst(e)' /\ Counted(e)'
    BY DEF FlowInv
  <2>1. LearnOnce(e) /\ LearnAlone(e) /\ ListedFirst(e) /\ Counted(e)
    BY DEF LearnInv, FlowInv
  <2>2. LearnOnce(e)'
    BY <1>1, <1>2, <1>3, <1>4, <1>8, <2>1
      DEF LearnOnce, LearnAlone, OthersOf, Works, Waiting, Learning, Do, Idle
  <2>3. LearnAlone(e)'
    BY <1>1, <1>2, <1>3, <1>4, <1>8, <2>1
      DEF LearnOnce, LearnAlone, OthersOf, Reported, Ours, Works, Waiting, Learning,
          Do, Idle
  <2>4. ListedFirst(e)'
    BY <1>1, <1>2, <1>3, <1>4, <1>8, <2>1
      DEF ListedFirst, LearnOnce, LearnAlone, OthersOf, Touched, Works, Waiting,
          Learning, Do, Idle
  <2>5. Counted(e)'
    BY <1>1, <1>2, <1>3, <1>4, <1>8, <2>1
      DEF Counted, Moving, Heard, Touched, Reported, Ours, Works, Do, Idle
  <2> QED
    BY <2>2, <2>3, <2>4, <2>5
<1> QED
  BY <1>3, <1>5, <1>6, <1>7 DEF LearnInv

\* A report is added or lost.
LEMMA ReportElems ==
  ASSUME NEW S, NEW s \in Seq(S), NEW k, NEW e, <<k, e, Tag>> \in S
  PROVE  Report(s, k, e) \in Seq(S) /\ Elems(Report(s, k, e)) \subseteq Elems(s) \cup {<<k, e, Tag>>}
BY ElemsAppend DEF Report

\* A tag has its type.
LEMMA TagType == Tag \in 0 .. TagSize - 1
BY LearnAssumption DEF Tag

\* A new flow: nobody has heard of it.
LEMMA RxPacketKeeps ==
  ASSUME LearnInv, Orderly, NEW x \in Flow, RxPacket(x)
  PROVE  LearnInv'
<1> USE LearnAssumption DEF entryVars, listVars, threadVars, adapterVars
<1>1. Listed' = Listed /\ Ring' /\ Sorted' /\ TypeOK /\ ThreadTypes
  BY RingKept DEF RxPacket, LearnInv, Types
<1> DEFINE Ops == Base \X Flow
<1>2. /\ rc[x] = 0 /\ ~Heard(x) 
      /\ x \notin Listed /\ ~Works(poll, x) /\ ~Works(program, x) /\ ~Works(record, x)
      /\ ~Touched(x) /\ ~Reported(x) /\ ~\E q \in Elems(queue) : q[2] = x
  <2>1. Counted(x)
    BY DEF LearnInv, FlowInv
  <2>2. rc[x] = 0
    BY DEF RxPacket
  <2>3. ~Heard(x)
    BY <2>1, <2>2 DEF Counted
  <2> QED
    BY <2>2, <2>3 DEF Heard, Learning, Waiting, Works, Do
<1>3. /\ queue' \in Seq(Ops) /\ Elems(queue') \subseteq Elems(queue) \cup {<<"LEARN", x>>}
      /\ Elems(queue) \subseteq Elems(queue') /\ Once(queue')
  <2>1. queue \in Seq(Ops) /\ Once(queue)
    BY <1>1 DEF TypeOK, LearnInv, Others
  <2>2. CASE queue' = queue
    BY <2>1, <2>2
  <2>3. CASE queue' = Append(queue, <<"LEARN", x>>)
    <3>1. <<"LEARN", x>> \in Ops /\ <<"LEARN", x>> \notin Elems(queue)
      BY <1>2 DEF Base
    <3>2. queue' \in Seq(Ops) /\ Elems(queue') = Elems(queue) \cup {<<"LEARN", x>>}
      BY <2>1, <2>3, <3>1, ElemsAppend
    <3>3. Once(queue')
      BY <2>1, <2>3, <3>1, OnceAppend
    <3> QED
      BY <3>2, <3>3
  <2> QED
    BY <2>2, <2>3 DEF RxPacket, Enqueue
<1>4. /\ flags' = [flags EXCEPT ![x] = {}] /\ rc' = [rc EXCEPT ![x] = 1]
      /\ UNCHANGED <<hwProbe, skip, listVars, threadVars, adapterVars>>
  BY DEF RxPacket
<1>8. /\ flags' \in [Flow -> SUBSET Flags] /\ rc' \in [Flow -> Nat]
      /\ flags'[x] = {} /\ rc'[x] = 1
      /\ \A e \in Flow \ {x} : flags'[e] = flags[e] /\ rc'[e] = rc[e]
  BY <1>1, <1>4 DEF TypeOK
<1>5. Types'
  <2>1. ThreadTypes'
    BY <1>1, <1>4 DEF ThreadTypes
  <2>2. TypeOK'
    BY <1>1, <1>3, <1>4, <1>8 DEF TypeOK
  <2> QED
    BY <2>1, <2>2 DEF Types
<1>6. Others'
  BY <1>1, <1>3, <1>4 DEF LearnInv, Others
<1>7. FlowInv'
  <2> SUFFICES ASSUME NEW e \in Flow
               PROVE  LearnOnce(e)' /\ LearnAlone(e)' /\ ListedFirst(e)' /\ Counted(e)'
    BY DEF FlowInv
  <2>1. LearnOnce(e) /\ LearnAlone(e) /\ ListedFirst(e) /\ Counted(e)
    BY DEF LearnInv, FlowInv
  <2>2. LearnOnce(e)'
    BY <1>1, <1>2, <1>3, <1>4, <1>8, <2>1
      DEF LearnOnce, LearnAlone, OthersOf, Works, Waiting, Learning, Do, Idle
  <2>3. LearnAlone(e)'
    <3>1. Reported(e)' => Reported(e)
      BY <1>4 DEF Reported, Ours
    <3>2. CASE e = x
      <4>1. ~OthersOf(x)'
        BY <1>2, <1>3, <1>4, <1>8, <3>1, <3>2 DEF OthersOf, Works, Touched
      <4> QED
        BY <3>2, <4>1 DEF LearnAlone
    <3>3. CASE e # x
      BY <1>3, <1>4, <1>8, <2>1, <3>1, <3>3
        DEF LearnAlone, OthersOf, Works, Waiting, Learning
    <3> QED
      BY <3>2, <3>3
  <2>4. ListedFirst(e)'
    BY <1>1, <1>2, <1>3, <1>4, <1>8, <2>1
      DEF ListedFirst, LearnOnce, LearnAlone, OthersOf, Touched, Works, Waiting,
          Learning, Do, Idle
  <2>5. Counted(e)'
    BY <1>1, <1>2, <1>3, <1>4, <1>8, <2>1
      DEF Counted, Moving, Heard, Touched, Reported, Ours, Works, Do, Idle
  <2> QED
    BY <2>2, <2>3, <2>4, <2>5
<1> QED
  BY <1>1, <1>5, <1>6, <1>7 DEF LearnInv

\* The adapter executes a command, and reports on its flow.
LEMMA AdapterExecuteKeeps ==
  ASSUME LearnInv, Orderly, AdapterExecute
  PROVE  LearnInv'
<1> USE LearnAssumption DEF entryVars, listVars, threadVars, adapterVars
<1>1. Listed' = Listed /\ Ring' /\ Sorted' /\ TypeOK /\ ThreadTypes
  BY RingKept DEF AdapterExecute, LearnInv, Types
<1> DEFINE Cmds == {"learn", "unlearn", "probe"} \X Flow
           Answers == {"learn_done", "learn_fail", "unlearn_done"} \X Flow \X (0 .. TagSize - 1)
           Kinds == {"software", "probe", "timeout"} \X Flow \X (0 .. TagSize - 1)
<1>0. /\ commands \in Seq(Cmds) /\ commands # <<>> /\ commands' = Tail(commands)
      /\ statuses \in Seq(Answers) /\ infos \in Seq(Kinds) /\ learned \subseteq Flow
  BY <1>1 DEF AdapterExecute, TypeOK
<1>2. PICK c \in {"learn", "unlearn", "probe"}, f \in Flow :
        <<c, f>> = commands[1] /\ <<c, f>> \in Elems(commands)
  <2>1. commands[1] \in Cmds /\ commands[1] \in Elems(commands)
    BY <1>0, ElemsTail
  <2> QED
    BY <2>1
<1>3. commands' \in Seq(Cmds) /\ Elems(commands') \subseteq Elems(commands)
  BY <1>0, ElemsTail
<1>4. UNCHANGED <<hwProbe, flags, skip, rc, listVars, queue, threadVars>>
  BY DEF AdapterExecute
<1>8. /\ learned' \subseteq learned \cup {f}
      /\ \/ statuses' = statuses
         \/ \E k \in {"learn_done", "unlearn_done"} : statuses' = Report(statuses, k, f)
      /\ \/ infos' = infos
         \/ c # "learn" /\ \E k \in {"software", "probe"} : infos' = Report(infos, k, f)
  <2>1. CASE c = "learn" /\ AdapterLearn(f) /\ UNCHANGED infos
    BY <2>1 DEF AdapterLearn, Orderly
  <2>2. CASE c = "unlearn" /\ AdapterUnlearn(f)
    BY <2>2 DEF AdapterUnlearn
  <2>3. CASE c = "probe" /\ AdapterProbe(f) /\ UNCHANGED <<learned, statuses>>
    BY <2>3 DEF AdapterProbe
  <2> QED
    BY <1>2, <2>1, <2>2, <2>3 DEF AdapterExecute
<1>9. /\ statuses' \in Seq(Answers)
      /\ \A r \in Elems(statuses') : r \in Elems(statuses) \/ (r[2] = f /\ r[1] # "learn_fail")
  <2>1. ASSUME NEW k \in {"learn_done", "unlearn_done"}, statuses' = Report(statuses, k, f)
        PROVE  /\ statuses' \in Seq(Answers)
               /\ \A r \in Elems(statuses') : r \in Elems(statuses) \/ (r[2] = f /\ r[1] # "learn_fail")
    <3>1. <<k, f, Tag>> \in Answers
      BY TagType
    <3>2. statuses' \in Seq(Answers) /\ Elems(statuses') \subseteq Elems(statuses) \cup {<<k, f, Tag>>}
      BY <1>0, <2>1, <3>1, ReportElems
    <3> QED
      BY <3>2
  <2> QED
    BY <1>0, <1>8, <2>1
<1>10. /\ infos' \in Seq(Kinds)
       /\ \A r \in Elems(infos') : r \in Elems(infos) \/ (r[2] = f /\ c # "learn")
  <2>1. ASSUME NEW k \in {"software", "probe"}, infos' = Report(infos, k, f), c # "learn"
        PROVE  /\ infos' \in Seq(Kinds)
               /\ \A r \in Elems(infos') : r \in Elems(infos) \/ (r[2] = f /\ c # "learn")
    <3>1. <<k, f, Tag>> \in Kinds
      BY TagType
    <3>2. infos' \in Seq(Kinds) /\ Elems(infos') \subseteq Elems(infos) \cup {<<k, f, Tag>>}
      BY <1>0, <2>1, <3>1, ReportElems
    <3> QED
      BY <2>1, <3>2
  <2> QED
    BY <1>0, <1>8, <2>1
<1>11. /\ Touched(f) /\ (c # "learn" => ~Learning(f))
       /\ \A e \in Flow : Touched(e)' => Touched(e)
       /\ \A e \in Flow : Reported(e)' => Reported(e) \/ (e = f /\ c # "learn")
  <2>1. Touched(f) /\ (c # "learn" => ~Learning(f))
    <3>1. LearnAlone(f)
      BY DEF LearnInv, FlowInv
    <3> QED
      BY <1>2, <3>1 DEF Touched, LearnAlone, OthersOf
  <2>2. \A e \in Flow : Touched(e)' => Touched(e)
    BY <1>3, <1>8, <1>9, <2>1 DEF Touched
  <2>3. \A e \in Flow : Reported(e)' => Reported(e) \/ (e = f /\ c # "learn")
    BY <1>10 DEF Reported, Ours
  <2> QED
    BY <2>1, <2>2, <2>3
<1>5. Types'
  <2>1. ThreadTypes'
    BY <1>1, <1>4 DEF ThreadTypes
  <2>2. learned' \subseteq Flow
    BY <1>0, <1>8
  <2>3. TypeOK'
    BY SMTT(30), <1>1, <1>3, <1>4, <1>9, <1>10, <2>2 DEF TypeOK
  <2> QED
    BY <2>1, <2>3 DEF Types
<1>6. Others'
  BY <1>1, <1>4, <1>9 DEF LearnInv, Others
<1>7. FlowInv'
  <2> SUFFICES ASSUME NEW e \in Flow
               PROVE  LearnOnce(e)' /\ LearnAlone(e)' /\ ListedFirst(e)' /\ Counted(e)'
    BY DEF FlowInv
  <2>1. LearnOnce(e) /\ LearnAlone(e) /\ ListedFirst(e) /\ Counted(e)
    BY DEF LearnInv, FlowInv
  <2>2. LearnOnce(e)'
    BY <1>1, <1>3, <1>4, <1>11, <2>1
      DEF LearnOnce, LearnAlone, OthersOf, Works, Waiting, Learning, Do, Idle
  <2>3. LearnAlone(e)'
    BY <1>1, <1>3, <1>4, <1>11, <2>1
      DEF LearnOnce, LearnAlone, OthersOf, Works, Waiting, Learning, Do, Idle
  <2>4. ListedFirst(e)'
    BY <1>1, <1>3, <1>4, <1>11, <2>1
      DEF ListedFirst, LearnOnce, LearnAlone, OthersOf, Works, Waiting, Learning, Do,
          Idle
  <2>5. Counted(e)'
    BY <1>1, <1>3, <1>4, <1>11, <2>1 DEF Counted, Moving, Heard, Works, Do, Idle
  <2> QED
    BY <2>2, <2>3, <2>4, <2>5
<1> QED
  BY <1>1, <1>5, <1>6, <1>7 DEF LearnInv

\* The adapter lets go of a flow that nobody is learning.
LEMMA AdapterTimeoutKeeps ==
  ASSUME LearnInv, Orderly, NEW f \in Flow, AdapterTimeout(f)
  PROVE  LearnInv'
<1> USE LearnAssumption DEF entryVars, listVars, threadVars, adapterVars
<1>1. Listed' = Listed /\ Ring' /\ Sorted' /\ TypeOK /\ ThreadTypes
  BY RingKept DEF AdapterTimeout, LearnInv, Types
<1> DEFINE Kinds == {"software", "probe", "timeout"} \X Flow \X (0 .. TagSize - 1)
<1>2. Touched(f) /\ ~Learning(f)
  BY DEF AdapterTimeout, Orderly, Touched, BeingLearned, Learning, Waiting, Elems
<1>3. /\ infos' \in Seq(Kinds)
      /\ \A e \in Flow : Reported(e)' => Reported(e) \/ e = f
  <2>1. infos \in Seq(Kinds) /\ <<"timeout", f, Tag>> \in Kinds
    BY <1>1, TagType DEF TypeOK
  <2>2. infos' = Report(infos, "timeout", f)
    BY DEF AdapterTimeout
  <2>3. /\ infos' \in Seq(Kinds)
        /\ Elems(infos') \subseteq Elems(infos) \cup {<<"timeout", f, Tag>>}
    BY <2>1, <2>2, ReportElems
  <2> QED
    BY <2>3 DEF Reported, Ours
<1>4. /\ learned' \subseteq learned
      /\ UNCHANGED <<hwProbe, flags, skip, rc, listVars, queue, threadVars, commands, statuses>>
  BY DEF AdapterTimeout
<1>8. \A e \in Flow : Touched(e)' => Touched(e)
  BY <1>4 DEF Touched
<1>5. Types'
  <2>1. ThreadTypes'
    BY <1>1, <1>4 DEF ThreadTypes
  <2>2. TypeOK'
    BY SMTT(30), <1>1, <1>3, <1>4 DEF TypeOK
  <2> QED
    BY <2>1, <2>2 DEF Types
<1>6. Others'
  BY <1>1, <1>4 DEF LearnInv, Others
<1>7. FlowInv'
  <2> SUFFICES ASSUME NEW e \in Flow
               PROVE  LearnOnce(e)' /\ LearnAlone(e)' /\ ListedFirst(e)' /\ Counted(e)'
    BY DEF FlowInv
  <2>1. LearnOnce(e) /\ LearnAlone(e) /\ ListedFirst(e) /\ Counted(e)
    BY DEF LearnInv, FlowInv
  <2>2. LearnOnce(e)'
    BY <1>1, <1>2, <1>3, <1>4, <1>8, <2>1
      DEF LearnOnce, LearnAlone, OthersOf, Works, Waiting, Learning, Do, Idle
  <2>3. LearnAlone(e)'
    <3>1. ~Learning(f)'
      BY <1>1, <1>2, <1>4 DEF Learning, Waiting
    <3>2. CASE e = f
      BY <3>1, <3>2 DEF LearnAlone
    <3>3. CASE e # f
      BY <1>3, <1>4, <2>1, <3>3 DEF LearnAlone, OthersOf, Works, Waiting, Learning
    <3> QED
      BY <3>2, <3>3
  <2>4.. ListedFirst(e)'
    BY <1>1, <1>2, <1>3, <1>4, <1>8, <2>1
      DEF ListedFirst, LearnOnce, LearnAlone, OthersOf, Works, Waiting, Learning, Do,
          Idle
  <2>5. Counted(e)'
    BY <1>1, <1>2, <1>3, <1>4, <1>8, <2>1 DEF Counted, Moving, Heard, Works, Do, Idle
  <2> QED
    BY <2>2, <2>3, <2>4, <2>5
<1> QED
  BY <1>1, <1>5, <1>6, <1>7 DEF LearnInv

-----------------------------------------------------------------------------
(* The invariant, and what follows from it.                                *)

\* The initial states satisfy the invariant.
LEMMA InitInv == ASSUME Orderly, Init PROVE LearnInv
<1> USE LearnAssumption DEF Init, Idle
<1>1. /\ pollHead = Null /\ Listed = {} /\ Ring /\ Sorted
  BY ListedIsLeast DEF Ring, Sorted
<1>2. /\ infos \in Seq({"software", "probe", "timeout"} \X Flow \X (0 .. TagSize - 1))
      /\ \A e \in Flow : ~Reported(e)
  <2>1. EarlierPid % TagSize \in 0 .. TagSize - 1 /\ EarlierPid % TagSize # Pid
    BY DEF Orderly
  <2>2. CASE infos = <<>>
    BY <2>2 DEF Reported, Elems
  <2>3. CASE \E e \in Flow : infos = << <<"timeout", e, EarlierPid % TagSize>> >>
    BY <2>1, <2>3 DEF Reported, Elems, Ours
  <2> QED
    BY <2>2, <2>3
<1>3. Types
  <2>1. TypeOK
    BY <1>2 DEF TypeOK
  <2>2. ThreadTypes
    BY DEF ThreadTypes
  <2> QED
    BY <2>1, <2>2 DEF Types
<1>4. FlowInv
  <2> SUFFICES ASSUME NEW e \in Flow
               PROVE  LearnOnce(e) /\ LearnAlone(e) /\ ListedFirst(e) /\ Counted(e)
    BY DEF FlowInv
  <2>1. Elems(queue) = {} /\ Elems(commands) = {} /\ Elems(statuses) = {}
    BY DEF Elems
  <2>2. ~Learning(e)
    BY <2>1 DEF Learning, Waiting, Do
  <2>3. ~Touched(e)
    BY <2>1 DEF Touched
  <2>4. ~Heard(e)
    BY <1>1, <1>2, <2>1, <2>3 DEF Heard, Works
  <2>5. LearnOnce(e)
    BY <2>1, <2>2 DEF LearnOnce, Learning, Do
  <2>6. LearnAlone(e) /\ ListedFirst(e)
    BY <2>2 DEF LearnAlone, ListedFirst
  <2>7. Counted(e)
    BY <1>1, <2>4 DEF Counted, Moving
  <2> QED
    BY <2>5, <2>6, <2>7
<1>5. Others
  <2>1. Elems(statuses) = {} /\ Once(queue)
    BY DEF Elems, Once
  <2> QED
    BY <2>1 DEF Others
<1> QED
  BY <1>1, <1>3, <1>4, <1>5 DEF LearnInv

\* A step that changes nothing keeps it.
LEMMA StutterKeeps == ASSUME LearnInv, UNCHANGED vars PROVE LearnInv'
<1> USE DEF vars, entryVars, listVars, threadVars, adapterVars
<1>1. Listed' = Listed /\ Ring' /\ Sorted'
  BY RingKept DEF LearnInv
<1>2. Types'
  <2>1. TypeOK'
    BY DEF LearnInv, Types, TypeOK
  <2>2. ThreadTypes'
    BY DEF LearnInv, Types, ThreadTypes
  <2> QED
    BY <2>1, <2>2 DEF Types
<1>3. FlowInv'
  BY ZenonT(40), <1>1
    DEF LearnInv, FlowInv, LearnOnce, LearnAlone, ListedFirst, Counted, Moving,
        Learning, Waiting, OthersOf, Reported, Ours, Touched, Heard
<1>4. Others'
  BY <1>1 DEF LearnInv, Others
<1> QED
  BY <1>1, <1>2, <1>3, <1>4 DEF LearnInv

\* Every step keeps it.
LEMMA NextKeeps ==
  ASSUME LearnInv, Orderly, [Next]_vars PROVE LearnInv'
<1>1. CASE \E e \in Flow : RxPacket(e) \/ AdapterTimeout(e)
  BY <1>1, RxPacketKeeps, AdapterTimeoutKeeps
<1>2. CASE ProgramStep
  BY <1>2, ProgramPullKeeps, ProgramRefKeeps, ProgramListKeeps, ProgramSkipKeeps, ProgramWriteKeeps,
     ProgramFailKeeps
    DEF ProgramStep
<1>3. CASE StatusStep
  BY <1>3, StatusReadKeeps, StatusSkipKeeps DEF StatusStep
<1>4. CASE RecordStep
  BY <1>4, RecordReadKeeps, RecordProbedKeeps, RecordEnqueueKeeps,
     RecordUntrackKeeps DEF RecordStep
<1>5. CASE PollStep
  BY <1>5, PollTickKeeps, PollWalkKeeps, PollSkipKeeps, PollFlagsKeeps,
     PollEnqueueKeeps, PollDropKeeps, PollDerefKeeps
    DEF PollStep
<1>6. CASE AdapterExecute
  BY <1>6, AdapterExecuteKeeps
<1>7. CASE UNCHANGED vars
  BY <1>7, StutterKeeps
<1> QED
  BY <1>1, <1>2, <1>3, <1>4, <1>5, <1>6, <1>7 DEF Next

\* Learning is passed on as one token, alone with its flow and before anything
\* else happens to it; the list is a ring in the order of due times.
THEOREM Invariance == ASSUME Orderly PROVE Spec => []LearnInv
<1>1. Init => LearnInv
  BY InitInv
<1>2. LearnInv /\ [Next]_vars => LearnInv'
  BY NextKeeps
<1> QED
  BY <1>1, <1>2, PTL DEF Spec

\* fl_add_poll's assertion holds, the links agree in both directions, and the
\* head is due first (flowlearn.c: fl_add_poll, fl_remove_poll, fl_poll_main).
THEOREM ListIsRight == ASSUME Orderly PROVE Spec => []ListInv
<1>1. LearnInv => ListInv
  <2> SUFFICES ASSUME LearnInv PROVE ListInv
    OBVIOUS
  <2>1. TypeOK /\ ThreadTypes /\ Ring /\ Sorted
    BY DEF LearnInv, Types
  <2>2. AddsUnlisted
    <3> SUFFICES ASSUME program.at = "list" PROVE program.flow \notin Listed
      BY DEF AddsUnlisted
    <3>1. program.flow \in Flow
      BY <2>1 DEF ThreadTypes
    <3> QED
      BY <3>1 DEF LearnInv, FlowInv, ListedFirst
  <2>3. ListWellFormed
    BY <2>1 DEF Ring, ListWellFormed
  <2>4. HeadIsDueFirst
    <3> DEFINE S == {e \in Listed : due[pollHead] <= due[e]}
    <3> SUFFICES ASSUME NEW e \in Listed PROVE e \in S
      BY DEF HeadIsDueFirst
    <3>1. /\ pollHead \in Listed /\ Listed \subseteq Flow
          /\ \A x \in Flow : due[x] \in Nat
      BY SMTT(30), <2>1, ListedIsLeast, LearnAssumption DEF TypeOK, Ring
    <3>2. pollHead \in S
      BY <3>1
    <3>3. \A x \in S : pollNext[x] \in S
      BY <2>1, <3>1, <3>2 DEF Ring, Sorted
    <3> HIDE DEF S
    <3>4. S \in SUBSET Flow /\ ClosedUnderNext(S)
      BY <3>1, <3>3 DEF S, ClosedUnderNext
    <3> QED
      BY <3>2, <3>4, ListedIsLeast
  <2> QED
    BY <2>1, <2>2, <2>3, <2>4 DEF ListInv
<1> QED
  BY <1>1, Invariance, PTL

\* A flow has a second reference exactly while it is in the list, about to be
\* added, or just removed (ft_ref before fl_add_poll in fl_program_main,
\* ft_deref after fl_remove_poll in fl_poll_main).
THEOREM ReferencesHold == ASSUME Orderly PROVE Spec => []References
<1>1. LearnInv => References
  <2> SUFFICES ASSUME LearnInv, NEW e \in Flow, rc[e] > 0
               PROVE  rc[e] = IF e \in Listed \/ Moving(e) THEN 2 ELSE 1
    BY DEF References
  <2>1. rc[e] \in 0 .. 2 /\ (rc[e] = 2 <=> e \in Listed \/ Moving(e))
    BY DEF LearnInv, FlowInv, Counted
  <2> QED
    BY <2>1
<1> QED
  BY <1>1, Invariance, PTL

\* No thread, queue or list refers to an entry that has left the table.
THEOREM InUseIsReferenced == ASSUME Orderly PROVE Spec => []InUseReferenced
<1>1. LearnInv => InUseReferenced
  <2> SUFFICES ASSUME LearnInv, NEW e \in Flow, InUse(e) PROVE ~(rc[e] <= 0)
    BY DEF InUseReferenced
  <2>1. Heard(e)
    BY DEF InUse, Heard, Works, Elems
  <2>2. rc[e] \in 0 .. 2 /\ rc[e] > 0
    BY <2>1 DEF LearnInv, FlowInv, Counted
  <2> QED
    BY <2>2
<1> QED
  BY <1>1, Invariance, PTL

-----------------------------------------------------------------------------
(* In any configuration, with the list broken by a flow that was added     *)
(* twice: every link that is followed leads to a flow.                     *)

Fields ==
  /\ ThreadTypes
  /\ flags \in [Flow -> SUBSET Flags]
  /\ pollNext \in [Flow -> Flow \cup {Null}]
  /\ pollPrev \in [Flow -> Flow \cup {Null}]
  /\ pollHead \in Flow \cup {Null}
  /\ queue \in Seq(Base \X Flow)
  /\ commands \in Seq({"learn", "unlearn", "probe"} \X Flow)
  /\ statuses \in Seq({"learn_done", "learn_fail", "unlearn_done"} \X Flow \X (0 .. TagSize - 1))
  /\ infos \in Seq({"software", "probe", "timeout"} \X Flow \X (0 .. TagSize - 1))
Linked(e) == e \in Flow /\ pollNext[e] # Null
Links ==
  /\ pollHead # Null => Linked(pollHead)
  /\ \A e \in Flow : /\ pollNext[e] = Null <=> pollPrev[e] = Null
                     /\ Linked(e) => Linked(pollNext[e]) /\ Linked(pollPrev[e])
  /\ poll.at \notin {"idle", "walk"} => Linked(poll.flow)
AnyInv == Fields /\ Links

-----------------------------------------------------------------------------
\* The program thread keeps the types.
LEMMA ProgramFields == ASSUME AnyInv, ProgramStep PROVE Fields'
<1> USE LearnAssumption DEF entryVars, listVars, threadVars, adapterVars
<1>1. Fields /\ ThreadTypes /\ Links
  BY DEF AnyInv, Fields
<1> DEFINE Ops == Base \X Flow
           Cmds == {"learn", "unlearn", "probe"} \X Flow
<1>2. ASSUME NEW p, program' = p,
             p \in [at : {"idle", "gone"}] \cup
               [at : {"ref", "list", "skip", "write"}, flow : Flow, cmd : {"learn", "unlearn", "probe"},
                old : SUBSET Flags],
             UNCHANGED <<status, record, poll>>
      PROVE  ThreadTypes'
  BY <1>1, <1>2 DEF ThreadTypes
<1>3. CASE ProgramPull
  <2>1. queue \in Seq(Ops) /\ queue # <<>> /\ queue' = Tail(queue)
    BY <1>1, <1>3 DEF ProgramPull, Fields
  <2>2. queue[1] \in Ops /\ queue' \in Seq(Ops)
    BY <2>1, ElemsTail
  <2>3. PICK op \in Base, f \in Flow :
          queue[1] = <<op, f>> /\ queue[1][1] = op /\ queue[1][2] = f
    BY <2>2
  <2>4. flags \in [Flow -> SUBSET Flags] /\ flags[f] \in SUBSET Flags
    BY <1>1 DEF Fields
  <2>5. \E S \in SUBSET Flags :
          /\ flags' = [flags EXCEPT ![f] = @ \cup S]
          /\ \/ program' = [at |-> "idle"]
             \/ \E a \in {"ref", "list", "skip", "write"}, c \in {"learn", "unlearn", "probe"} :
                  program' = [at |-> a, flow |-> f, cmd |-> c, old |-> flags[f]]
    <3> USE DEF SetFlags, Issue, Idle
    <3>0. /\ {"PROBE", "PROBE_PENDING", "TRACK"} \in SUBSET Flags
          /\ {"UNLEARN", "UNLEARN_PENDING"} \in SUBSET Flags
          /\ {"REFRESH", "REFRESH_PENDING", "TRACK"} \in SUBSET Flags
          /\ {"LEARN", "LEARN_PENDING", "TRACK"} \in SUBSET Flags
      BY DEF Flags, Base, PendingFlags, Pending
    <3>1. CASE ProgramProbe(f)
      BY <3>0, <3>1 DEF ProgramProbe
    <3>2. CASE ProgramUnlearn(f)
      BY <3>0, <3>2 DEF ProgramUnlearn
    <3>3. CASE ProgramRefresh(f)
      BY <3>0, <3>3 DEF ProgramRefresh
    <3>4. CASE ProgramLearn(f)
      BY <3>0, <3>4 DEF ProgramLearn
    <3> QED
      BY <1>3, <2>3, <3>1, <3>2, <3>3, <3>4 DEF ProgramPull
  <2>6. flags' \in [Flow -> SUBSET Flags]
    BY <2>4, <2>5
  <2>7. ThreadTypes'
    BY <1>2, <1>3, <2>4, <2>5 DEF ProgramPull
  <2> QED
    BY <1>1, <1>3, <2>2, <2>6, <2>7 DEF ProgramPull, Fields
<1>4. CASE ProgramRef \/ ProgramList \/ ProgramSkip \/ ProgramWrite \/ ProgramFail
  <2>1. ThreadTypes'
    <3>1. CASE ProgramList
      BY <1>1, <3>1 DEF ProgramList, ThreadTypes
    <3>2. CASE ProgramSkip
      BY <1>1, <3>2 DEF ProgramSkip, ThreadTypes
    <3>3. CASE ProgramWrite
      BY <1>1, <3>3 DEF ProgramWrite, Idle, ThreadTypes
    <3>4. CASE ProgramFail
      BY <1>1, <3>4 DEF ProgramFail, ThreadTypes
    <3>5. CASE ProgramRef
      BY <1>1, <3>5 DEF ProgramRef, ThreadTypes
    <3> QED
      BY <1>4, <3>1, <3>2, <3>3, <3>4, <3>5
  <2>2. commands' \in Seq(Cmds)
    <3>1. CASE ProgramWrite
      <4>1. <<program.cmd, program.flow>> \in Cmds /\ commands \in Seq(Cmds)
        BY <1>1, <3>1 DEF ProgramWrite, ThreadTypes, Fields
      <4> QED
        BY <3>1, <4>1, ElemsAppend DEF ProgramWrite
    <3> QED
      BY <1>1, <1>4, <3>1 DEF Fields, ProgramRef, ProgramList, ProgramSkip, ProgramFail
  <2>3. /\ pollNext' \in [Flow -> Flow \cup {Null}]
        /\ pollPrev' \in [Flow -> Flow \cup {Null}]
        /\ pollHead' \in Flow \cup {Null}
    <3>1. CASE ProgramList
      <4>1. PICK f \in Flow : AddPoll(f)
        BY <1>1, <3>1 DEF ProgramList, ThreadTypes
      <4>2. CASE pollHead = Null
        BY <1>1, <4>1, <4>2 DEF AddPoll, Fields
      <4>3. CASE pollHead # Null
        <5>1. PICK t \in Flow : t = pollPrev[pollHead]
          BY <1>1, <4>3 DEF Fields, Links, Linked
        <5>2. /\ pollNext' = [pollNext EXCEPT ![f] = pollHead, ![t] = f]
              /\ pollPrev' = [pollPrev EXCEPT ![f] = t, ![pollHead] = f]
              /\ pollHead' = pollHead
          BY <4>1, <4>3, <5>1 DEF AddPoll
        <5> QED
          BY <1>1, <5>1, <5>2 DEF Fields
      <4> QED
        BY <4>2, <4>3
    <3> QED
      BY <1>1, <1>4, <3>1 DEF Fields, ProgramRef, ProgramWrite, ProgramSkip, ProgramFail
  <2>4. UNCHANGED <<flags, queue, statuses, infos>>
    BY <1>4 DEF ProgramRef, ProgramList, ProgramSkip, ProgramWrite, ProgramFail
  <2> QED
    BY <1>1, <2>1, <2>2, <2>3, <2>4 DEF Fields
<1> QED
  BY <1>3, <1>4 DEF ProgramStep

\* The status thread keeps the types.
LEMMA StatusFields == ASSUME AnyInv, StatusStep PROVE Fields'
<1> USE LearnAssumption DEF entryVars, listVars, threadVars, adapterVars
<1>1. Fields /\ ThreadTypes
  BY DEF AnyInv, Fields
<1> DEFINE Answers == {"learn_done", "learn_fail", "unlearn_done"} \X Flow \X (0 .. TagSize - 1)
<1>2. CASE StatusRead
  <2>1. statuses \in Seq(Answers) /\ statuses # <<>> /\ statuses' = Tail(statuses)
    BY <1>1, <1>2 DEF StatusRead, Fields
  <2>2. statuses[1] \in Answers /\ statuses' \in Seq(Answers)
    BY <2>1, ElemsTail
  <2>3. PICK f \in Flow : f = statuses[1][2]
    BY <2>2
  <2>4. Cardinality(flags[f] \cap {"REFRESH_PENDING", "LEARN_PENDING"}) \in Nat
    BY TwoFlags
  <2>5. \/ flags' = flags /\ status' = status
        \/ \E S : \E n \in Nat : Status(f, S, n)
    <3>1. CASE LearnDone(f)
      BY <2>4, <3>1 DEF LearnDone
    <3>2. CASE LearnFailed(f)
      BY <3>2 DEF LearnFailed
    <3>3. CASE UnlearnDone(f)
      BY <3>3 DEF UnlearnDone
    <3> QED
      BY <1>2, <2>3, <3>1, <3>2, <3>3 DEF StatusRead
  <2>6. flags' \in [Flow -> SUBSET Flags]
    BY ZenonT(40), <1>1, <2>5 DEF Status, ClearFlags, Fields
  <2>7. status' \in [at : {"idle"}] \cup [at : {"skip"}, flow : Flow, polls : Nat]
    BY <1>1, <2>5 DEF Status, ThreadTypes
  <2>8. ThreadTypes'
    BY <1>1, <1>2, <2>7 DEF StatusRead, ThreadTypes
  <2> QED
    BY <1>1, <1>2, <2>2, <2>6, <2>8 DEF StatusRead, Fields
<1>3. CASE StatusSkip
  <2>1. ThreadTypes'
    BY <1>1, <1>3 DEF StatusSkip, Idle, ThreadTypes
  <2> QED
    BY <1>1, <1>3, <2>1 DEF StatusSkip, Fields
<1> QED
  BY <1>2, <1>3 DEF StatusStep

\* The record thread keeps the types.
LEMMA RecordFields == ASSUME AnyInv, RecordStep PROVE Fields'
<1> USE LearnAssumption DEF entryVars, listVars, threadVars, adapterVars
<1>1. Fields /\ ThreadTypes
  BY DEF AnyInv, Fields
<1> DEFINE Kinds == {"software", "probe", "timeout"} \X Flow \X (0 .. TagSize - 1)
           Ops == Base \X Flow
<1>2. CASE RecordRead
  <2>1. infos \in Seq(Kinds) /\ infos # <<>> /\ infos' = Tail(infos)
    BY <1>1, <1>2 DEF RecordRead, Fields
  <2>2. infos[1] \in Kinds /\ infos' \in Seq(Kinds)
    BY <2>1, ElemsTail
  <2>3. PICK f \in Flow : f = infos[1][2]
    BY <2>2
  <2>4. \/ flags' = flags /\ record' = record
        \/ /\ flags' = [flags EXCEPT ![f] = @ \cup {"SOFTWARE"}]
           /\ record' \in {Idle, Do("UNLEARN", f), Do("untrack", f), Do("probed", f)}
    BY <1>2, <2>2, <2>3 DEF RecordRead, SetFlags
  <2>5. flags' \in [Flow -> SUBSET Flags]
    <3>1. "SOFTWARE" \in Flags /\ flags \in [Flow -> SUBSET Flags]
      BY <1>1 DEF Flags, Fields
    <3> QED
      BY <2>4, <3>1
  <2>6. record' \in [at : {"idle"}] \cup
               [at : {"probed", "REFRESH", "UNLEARN", "untrack"}, flow : Flow]
    BY <1>1, <2>4 DEF ThreadTypes, Idle, Do
  <2>7. ThreadTypes'
    BY <1>1, <1>2, <2>6 DEF RecordRead, ThreadTypes
  <2> QED
    BY <1>1, <1>2, <2>2, <2>5, <2>7 DEF RecordRead, Fields
<1>3. CASE RecordProbed \/ RecordUntrack
  <2>1. flags' \in [Flow -> SUBSET Flags]
    <3>1. PICK S : flags' = [flags EXCEPT ![record.flow] = @ \ S]
      BY <1>3 DEF RecordProbed, RecordUntrack, ClearFlags
    <3>2. record.flow \in Flow /\ flags \in [Flow -> SUBSET Flags]
      BY <1>1, <1>3 DEF RecordProbed, RecordUntrack, ThreadTypes, Fields
    <3> QED
      BY <3>1, <3>2
  <2>2. record' \in {Idle, Do("REFRESH", record.flow)} /\ record.flow \in Flow
    BY <1>1, <1>3 DEF RecordProbed, RecordUntrack, ThreadTypes
  <2>3. ThreadTypes'
    BY <1>1, <1>3, <2>2 DEF RecordProbed, RecordUntrack, ThreadTypes, Idle, Do
  <2> QED
    BY <1>1, <1>3, <2>1, <2>3 DEF RecordProbed, RecordUntrack, Fields
<1>4. CASE RecordEnqueue
  <2>1. <<record.at, record.flow>> \in Ops /\ queue \in Seq(Ops)
    BY <1>1, <1>4 DEF RecordEnqueue, ThreadTypes, Base, Fields
  <2>2. queue' \in Seq(Ops)
    BY <1>4, <2>1, ElemsAppend DEF RecordEnqueue, Enqueue
  <2>3. ThreadTypes'
    BY <1>1, <1>4 DEF RecordEnqueue, ThreadTypes, Idle
  <2> QED
    BY <1>1, <1>4, <2>2, <2>3 DEF RecordEnqueue, Fields
<1> QED
  BY <1>2, <1>3, <1>4 DEF RecordStep

\* The poll thread keeps the types.
LEMMA PollFields == ASSUME AnyInv, PollStep PROVE Fields'
<1> USE LearnAssumption DEF entryVars, listVars, threadVars, adapterVars
<1>1. Fields /\ ThreadTypes /\ Links
  BY DEF AnyInv, Fields
<1> DEFINE Ops == Base \X Flow
           Polls == [at : {"idle", "walk"}] \cup
                    [at : {"walk", "skip", "flags", "drop", "deref"} \cup Base, flow : Flow]
<1>2. UNCHANGED <<program, status, record, commands, statuses, infos>>
  BY DEF PollStep, PollTick, PollWalk, PollSkip, PollFlags, PollEnqueue, PollDrop,
         PollDeref
<1>3. ASSUME poll' \in Polls PROVE ThreadTypes'
  BY <1>1, <1>2, <1>3 DEF ThreadTypes
<1>4. CASE PollTick
  <2>1. poll' \in Polls
    BY <1>4 DEF PollTick
  <2> QED
    BY <1>1, <1>2, <1>3, <1>4, <2>1 DEF PollTick, Fields
<1>5. CASE PollWalk
  <2>1. poll' \in Polls /\ pollHead' \in Flow \cup {Null}
    <3>1. CASE poll' = Idle /\ pollHead' = pollHead
      BY <1>1, <3>1 DEF Idle, Fields
    <3>2. CASE pollHead # Null /\ pollHead' = pollNext[pollHead] /\ poll' = Do("skip", pollHead')
      BY <1>1, <3>2 DEF Do, Fields, Links, Linked
    <3> QED
      BY <1>5, <3>1, <3>2 DEF PollWalk
  <2> QED
    BY <1>1, <1>2, <1>3, <1>5, <2>1 DEF PollWalk, Fields
<1>6. CASE PollSkip
  <2>1. poll.flow \in Flow
    BY <1>1, <1>6 DEF PollSkip, ThreadTypes
  <2>2. poll' = [at |-> "walk"] \/ poll' = Do("flags", poll.flow)
    BY <1>6 DEF PollSkip
  <2>3. poll' \in Polls
    BY <2>1, <2>2 DEF Do
  <2> QED
    BY <1>1, <1>2, <1>3, <1>6, <2>3 DEF PollSkip, Fields
<1>7. CASE PollFlags
  <2>1. poll.flow \in Flow /\ Decision(flags[poll.flow]) \in Base \cup {"drop", "walk"}
    BY <1>1, <1>7, DecisionOf DEF PollFlags, ThreadTypes
  <2>2. poll' \in Polls
    BY <1>7, <2>1 DEF PollFlags, Do
  <2>3. flags' \in [Flow -> SUBSET Flags]
    BY <1>1, <1>7, <2>1 DEF PollFlags, ClearFlags, Fields
  <2> QED
    BY <1>1, <1>2, <1>3, <1>7, <2>2, <2>3 DEF PollFlags, Fields
<1>8. CASE PollEnqueue
  <2>1. <<poll.at, poll.flow>> \in Ops /\ queue \in Seq(Ops)
    BY <1>1, <1>8 DEF PollEnqueue, ThreadTypes, Base, Fields
  <2>2. queue' \in Seq(Ops)
    BY <1>8, <2>1, ElemsAppend DEF PollEnqueue, Enqueue
  <2>3. poll' \in Polls
    BY <1>8 DEF PollEnqueue
  <2> QED
    BY <1>1, <1>2, <1>3, <1>8, <2>2, <2>3 DEF PollEnqueue, Fields
<1>9. CASE PollDrop
  <2>1. poll' \in Polls
    BY <1>1, <1>9 DEF PollDrop, Do, ThreadTypes
  <2>2. PICK f \in Flow : RemovePoll(f) /\ Linked(f)
    BY <1>1, <1>9 DEF PollDrop, Links, Linked
  <2>3. /\ pollNext' \in [Flow -> Flow \cup {Null}]
        /\ pollPrev' \in [Flow -> Flow \cup {Null}]
        /\ pollHead' \in Flow \cup {Null}
    BY <1>1, <2>2 DEF RemovePoll, Fields
  <2> QED
    BY <1>1, <1>2, <1>3, <1>9, <2>1, <2>3 DEF PollDrop, Fields
<1>10. CASE PollDeref
  <2>1. poll' \in Polls
    BY <1>10 DEF PollDeref
  <2> QED
    BY <1>1, <1>2, <1>3, <1>10, <2>1 DEF PollDeref, Fields
<1> QED
  BY <1>4, <1>5, <1>6, <1>7, <1>8, <1>9, <1>10 DEF PollStep

\* The adapter keeps the types.
LEMMA AdapterFields ==
  ASSUME AnyInv, AdapterExecute \/ \E e \in Flow : AdapterTimeout(e)
  PROVE  Fields'
<1> USE LearnAssumption DEF entryVars, listVars, threadVars, adapterVars
<1>1. Fields /\ ThreadTypes
  BY DEF AnyInv, Fields
<1> DEFINE Cmds == {"learn", "unlearn", "probe"} \X Flow
           Answers == {"learn_done", "learn_fail", "unlearn_done"} \X Flow \X (0 .. TagSize - 1)
           Kinds == {"software", "probe", "timeout"} \X Flow \X (0 .. TagSize - 1)
<1>2. statuses \in Seq(Answers) /\ infos \in Seq(Kinds) /\ commands \in Seq(Cmds)
  BY <1>1 DEF Fields
<1>3. PICK f \in Flow :
        /\ commands' \in Seq(Cmds)
        /\ statuses' = statuses \/ \E k \in {"learn_done", "learn_fail", "unlearn_done"} :
                                     statuses' = Report(statuses, k, f)
        /\ infos' = infos \/ \E k \in {"software", "probe", "timeout"} :
                               infos' = Report(infos, k, f)
  <2>1. CASE AdapterExecute
    <3>1. commands # <<>> /\ commands' = Tail(commands)
      BY <2>1 DEF AdapterExecute
    <3>2. commands[1] \in Cmds /\ commands' \in Seq(Cmds)
      BY <1>2, <3>1, ElemsTail
    <3>3. PICK f \in Flow : f = commands[1][2]
      BY <3>2
    <3> QED
      BY <2>1, <3>2, <3>3 DEF AdapterExecute, AdapterLearn, AdapterUnlearn, AdapterProbe
  <2>2. CASE \E e \in Flow : AdapterTimeout(e)
    BY <1>2, <2>2 DEF AdapterTimeout
  <2> QED
    BY <2>1, <2>2
<1>4. statuses' \in Seq(Answers)
  <2>1. ASSUME NEW k \in {"learn_done", "learn_fail", "unlearn_done"}
        PROVE  Report(statuses, k, f) \in Seq(Answers)
    <3>1. <<k, f, Tag>> \in Answers
      BY TagType
    <3> QED
      BY <1>2, <3>1, ReportElems
  <2> QED
    BY <1>2, <1>3, <2>1
<1>5. infos' \in Seq(Kinds)
  <2>1. ASSUME NEW k \in {"software", "probe", "timeout"}
        PROVE  Report(infos, k, f) \in Seq(Kinds)
    <3>1. <<k, f, Tag>> \in Kinds
      BY TagType
    <3> QED
      BY <1>2, <3>1, ReportElems
  <2> QED
    BY <1>2, <1>3, <2>1
<1>6. UNCHANGED <<flags, listVars, queue, threadVars>>
  BY DEF AdapterExecute, AdapterTimeout
<1>7. ThreadTypes'
  BY <1>1, <1>6 DEF ThreadTypes
<1> QED
  BY <1>1, <1>3, <1>4, <1>5, <1>6, <1>7 DEF Fields

\* A packet keeps the types.
LEMMA RxFields == ASSUME AnyInv, NEW x \in Flow, RxPacket(x) PROVE Fields'
<1> USE LearnAssumption DEF entryVars, listVars, threadVars, adapterVars
<1>1. Fields /\ ThreadTypes
  BY DEF AnyInv, Fields
<1>2. flags' \in [Flow -> SUBSET Flags]
  BY <1>1 DEF RxPacket, Fields
<1>3. queue' \in Seq(Base \X Flow)
  <2>1. <<"LEARN", x>> \in Base \X Flow /\ queue \in Seq(Base \X Flow)
    BY <1>1 DEF Base, Fields
  <2> QED
    <3>1. Append(queue, <<"LEARN", x>>) \in Seq(Base \X Flow)
      BY <2>1, ElemsAppend
    <3> QED
      BY <2>1, <3>1 DEF RxPacket, Enqueue
<1>4. ThreadTypes'
  BY <1>1 DEF RxPacket, ThreadTypes
<1> QED
  BY <1>1, <1>2, <1>3, <1>4 DEF RxPacket, Fields

\* A flow that is put into the list, or taken out of it, keeps its links.
LEMMA LinksKept == ASSUME AnyInv, [Next]_vars PROVE Links'
<1> USE LearnAssumption DEF vars, entryVars, listVars, threadVars, adapterVars
<1>1. Fields /\ ThreadTypes /\ Links
  BY DEF AnyInv, Fields
<1>2. /\ pollNext \in [Flow -> Flow \cup {Null}] /\ pollPrev \in [Flow -> Flow \cup {Null}]
      /\ pollHead \in Flow \cup {Null}
  BY <1>1 DEF Fields
<1>3. CASE UNCHANGED <<pollNext, pollPrev, pollHead, poll>>
  BY <1>1, <1>3 DEF Links, Linked
<1>4. CASE ProgramList
  <2>1. PICK f \in Flow : AddPoll(f)
    BY <1>1, <1>4 DEF ProgramList, ThreadTypes
  <2>2. poll' = poll
    BY <1>4 DEF ProgramList
  <2>3. CASE pollHead = Null
    <3>1. /\ pollHead' = f /\ pollNext'[f] = f /\ pollPrev'[f] = f
          /\ \A e \in Flow \ {f} : pollNext'[e] = pollNext[e] /\ pollPrev'[e] = pollPrev[e]
      BY <1>2, <2>1, <2>3 DEF AddPoll
    <3> QED
      BY <1>1, <2>2, <3>1 DEF Links, Linked
  <2>4. CASE pollHead # Null
    <3>1. PICK t \in Flow : t = pollPrev[pollHead] /\ Linked(t) /\ Linked(pollHead)
      BY <1>1, <2>4 DEF Links, Linked
    <3>2. /\ pollNext' = [pollNext EXCEPT ![f] = pollHead, ![t] = f]
          /\ pollPrev' = [pollPrev EXCEPT ![f] = t, ![pollHead] = f]
          /\ pollHead' = pollHead
      BY <2>1, <2>4, <3>1 DEF AddPoll
    <3>3. /\ pollNext'[f] \in {pollHead, f} /\ pollNext'[t] = f
          /\ \A e \in Flow \ {f, t} : pollNext'[e] = pollNext[e]
          /\ pollPrev'[f] \in {t, f} /\ pollPrev'[pollHead] = f
          /\ \A e \in Flow \ {f, pollHead} : pollPrev'[e] = pollPrev[e]
      BY <1>2, <3>1, <3>2 DEF Linked
    <3>4. \A e \in Flow : Linked(e)' <=> Linked(e) \/ e = f
      BY <3>1, <3>3 DEF Linked
    <3>5. \A e \in Flow : pollPrev'[e] # Null <=> Linked(e) \/ e = f
      BY <1>1, <3>1, <3>3 DEF Links, Linked
    <3>6. \A e \in Flow : Linked(e)' => Linked(pollNext[e])' /\ Linked(pollPrev[e])'
      BY <1>1, <3>1, <3>3, <3>4 DEF Links, Linked
    <3>7. poll'.at \notin {"idle", "walk"} => Linked(poll.flow)'
      BY <1>1, <2>2, <3>4 DEF Links, Linked
    <3> QED
      BY <3>1, <3>2, <3>4, <3>5, <3>6, <3>7 DEF Links, Linked
  <2> QED
    BY <2>3, <2>4
<1>5. CASE PollDrop
  <2>1. PICK f \in Flow : RemovePoll(f) /\ Linked(f) /\ poll' = [at |-> "deref", flow |-> f]
    BY <1>1, <1>5 DEF PollDrop, Do, Links, Linked
  <2>2. PICK p \in Flow, n \in Flow :
          p = pollPrev[f] /\ n = pollNext[f] /\ Linked(p) /\ Linked(n)
    BY <1>1, <2>1 DEF Links, Linked
  <2>3. /\ pollNext' = [pollNext EXCEPT ![p] = n] /\ pollPrev' = [pollPrev EXCEPT ![n] = p]
        /\ pollHead' \in {pollHead, Null, n}
    BY <2>1, <2>2 DEF RemovePoll
  <2>4. /\ pollNext'[p] = n /\ \A e \in Flow \ {p} : pollNext'[e] = pollNext[e]
        /\ pollPrev'[n] = p /\ \A e \in Flow \ {n} : pollPrev'[e] = pollPrev[e]
    BY <1>2, <2>2, <2>3
  <2>5. \A e \in Flow : Linked(e)' <=> Linked(e)
    BY <2>2, <2>4 DEF Linked
  <2>6. \A e \in Flow : pollPrev'[e] # Null <=> Linked(e)
    BY <1>1, <2>2, <2>4 DEF Links, Linked
  <2>7. \A e \in Flow : Linked(e)' => Linked(pollNext[e])' /\ Linked(pollPrev[e])'
    BY <1>1, <2>2, <2>4, <2>5 DEF Links, Linked
  <2>8. pollHead' # Null => Linked(pollHead)'
    BY <1>1, <2>2, <2>3, <2>5 DEF Links, Linked
  <2> QED
    BY <2>1, <2>5, <2>6, <2>7, <2>8 DEF Links, Linked
<1>6. CASE PollWalk
  <2>1. UNCHANGED <<pollNext, pollPrev>>
    BY <1>6 DEF PollWalk
  <2>2. CASE poll' = Idle /\ pollHead' = pollHead
    BY <1>1, <2>1, <2>2 DEF Idle, Links, Linked
  <2>3. CASE pollHead # Null /\ pollHead' = pollNext[pollHead] /\ poll' = Do("skip", pollHead')
    BY <1>1, <2>1, <2>3 DEF Do, Links, Linked
  <2> QED
    BY <1>6, <2>2, <2>3 DEF PollWalk
<1>7. CASE PollTick \/ PollSkip \/ PollFlags \/ PollEnqueue \/ PollDeref
  <2>1. UNCHANGED <<pollNext, pollPrev, pollHead>>
    BY <1>7 DEF PollTick, PollSkip, PollFlags, PollEnqueue, PollDeref
  <2>2. poll'.at \notin {"idle", "walk"} =>
          poll'.flow = poll.flow /\ poll.at \notin {"idle", "walk"}
    BY <1>7 DEF PollTick, PollSkip, PollFlags, PollEnqueue, PollDeref, Do, Idle
  <2> QED
    BY <1>1, <2>1, <2>2 DEF Links, Linked
<1>8. ASSUME ~UNCHANGED <<pollNext, pollPrev, pollHead, poll>>
      PROVE  ProgramList \/ PollStep
  BY <1>8
    DEF Next, RxPacket, AdapterTimeout, AdapterExecute, ProgramStep, ProgramPull,
        ProgramRef, ProgramSkip, ProgramWrite, ProgramFail, StatusStep, StatusRead,
        StatusSkip, RecordStep, RecordRead, RecordProbed, RecordEnqueue, RecordUntrack
<1> QED
  BY <1>3, <1>4, <1>5, <1>6, <1>7, <1>8 DEF PollStep

\* Whatever the adapter answers, and when.
LEMMA LinksInvariance == Spec => []AnyInv
<1>1. Init => AnyInv
  <2> SUFFICES ASSUME Init PROVE Fields /\ Links
    BY DEF AnyInv
  <2> USE LearnAssumption DEF Init, Idle
  <2>1. EarlierPid % TagSize \in 0 .. TagSize - 1
    OBVIOUS
  <2>2. infos \in Seq({"software", "probe", "timeout"} \X Flow \X (0 .. TagSize - 1))
    <3> DEFINE Kinds == {"software", "probe", "timeout"} \X Flow \X (0 .. TagSize - 1)
    <3>1. \A e \in Flow : <<"timeout", e, EarlierPid % TagSize>> \in Kinds
      BY <2>1
    <3> HIDE DEF Kinds
    <3>2. <<>> \in Seq(Kinds) /\ \A r \in Kinds : <<r>> \in Seq(Kinds)
      OBVIOUS
    <3>3. infos \in Seq(Kinds)
      BY <3>1, <3>2
    <3> QED
      BY <3>3 DEF Kinds
  <2>3. Fields
    BY <2>2 DEF Fields, ThreadTypes
  <2>4. Links
    BY DEF Links, Linked
  <2> QED
    BY <2>3, <2>4
<1>2. AnyInv /\ [Next]_vars => AnyInv'
  <2> SUFFICES ASSUME AnyInv, [Next]_vars PROVE Fields' /\ Links'
    BY DEF AnyInv
  <2>1. CASE UNCHANGED vars
    <3>1. UNCHANGED <<flags, listVars, queue, threadVars, adapterVars>>
      BY <2>1 DEF vars, entryVars, listVars, threadVars, adapterVars
    <3>2. ThreadTypes'
      BY <3>1 DEF AnyInv, Fields, ThreadTypes, threadVars
    <3>3. Fields'
      BY <3>1, <3>2 DEF AnyInv, Fields, listVars, adapterVars
    <3> QED
      BY <3>3, LinksKept
  <2>2. CASE Next
    <3>1. Fields'
      BY <2>2, RxFields, ProgramFields, StatusFields, RecordFields, PollFields,
         AdapterFields DEF Next
    <3> QED
      BY <3>1, LinksKept
  <2> QED
    BY <2>1, <2>2
<1> QED
  BY <1>1, <1>2, PTL DEF Spec

\* The links that fl_poll_main, fl_add_poll and fl_remove_poll follow without a
\* test lead to flows, in a list that a flow added twice has broken too.
THEOREM LinksLeadToFlows == Spec => []LinksLead
<1>1. AnyInv => LinksLead
  BY LearnAssumption DEF AnyInv, Fields, Links, Linked, LinksLead
<1> QED
  BY <1>1, LinksInvariance, PTL

=============================================================================
