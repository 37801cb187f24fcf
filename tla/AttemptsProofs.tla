--------------------------- MODULE AttemptsProofs ---------------------------
(***************************************************************************)
(* Proofs about Attempts: the types, one command at a time, a resend that  *)
(* runs nothing twice, a gateway log that is faithful to the node's, and   *)
(* what is reported complete being whole, for all scenarios, page sizes    *)
(* and numbers of faults.                                                  *)
(***************************************************************************)
EXTENDS Attempts, FiniteSetTheorems, SequenceTheorems, TLAPS

(***************************************************************************)
(* The gateway's log                                                       *)
(***************************************************************************)
\* What the gateway has stored and given up below its cursor.
Faithful(log, cursor, gaps) ==
    /\ \A i, j \in 1..Len(log) : i < j => log[i].seq < log[j].seq
    /\ \A i \in 1..Len(log) : log[i].seq < cursor
    /\ \A k \in gaps : k < cursor
    /\ \A k \in 0..(cursor - 1) :
          (\E i \in 1..Len(log) : log[i].seq = k /\ log[i].real) <=> k \notin gaps

\* The records first..last - 1 as entries.
Batch(first, last) == [i \in 1..(last - first) |-> [seq |-> first + i - 1, real |-> TRUE]]

\* A batch is a sequence of entries.
LEMMA BatchType ==
    ASSUME NEW first \in Nat, NEW last \in Nat, first < last
    PROVE  /\ Batch(first, last) \in Seq(Entries)
           /\ Len(Batch(first, last)) = last - first
           /\ \A i \in 1..(last - first) :
                Batch(first, last)[i] = [seq |-> first + i - 1, real |-> TRUE]
  <1>1. \A i \in 1..(last - first) : [seq |-> first + i - 1, real |-> TRUE] \in Entries
    BY DEF Entries
  <1>2. last - first \in Nat
    OBVIOUS
  <1> QED
    BY <1>1, <1>2 DEF Batch

\* Storing a batch at or after the cursor, and giving up what lies between, is faithful.
LEMMA StoreBatch ==
    ASSUME NEW log \in Seq(Entries), NEW cursor \in Nat, NEW gaps \in SUBSET Nat,
           Faithful(log, cursor, gaps),
           NEW first \in Nat, NEW last \in Nat, cursor <= first, first < last
    PROVE  /\ log \o Batch(first, last) \in Seq(Entries)
           /\ Len(log) <= Len(log \o Batch(first, last))
           /\ Faithful(log \o Batch(first, last), last, gaps \cup (cursor .. (first - 1)))
  <1> DEFINE new == log \o Batch(first, last)
             n == Len(log)
             m == last - first
  <1>0. /\ n \in Nat /\ m \in Nat /\ \A i \in 1..n : log[i] \in Entries
        /\ Batch(first, last) \in Seq(Entries) /\ Len(Batch(first, last)) = m
    <2>1. Batch(first, last) \in Seq(Entries) /\ Len(Batch(first, last)) = m
      BY BatchType
    <2>2. n \in Nat /\ m \in Nat /\ \A i \in 1..n : log[i] \in Entries
      OBVIOUS
    <2> QED
      BY <2>1, <2>2
  <1>1. /\ new \in Seq(Entries) /\ Len(new) = n + m
        /\ \A i \in 1..(n + m) : new[i] = IF i <= n THEN log[i] ELSE Batch(first, last)[i - n]
    BY <1>0, ConcatProperties
  <1> HIDE DEF new, n
  <1>2. \A i \in 1..(n + m) : i <= n => new[i] = log[i] /\ i \in 1..n
    BY <1>0, <1>1
  <1>3. \A i \in 1..n : log[i].seq \in Nat /\ log[i].seq < cursor /\ i \in 1..(n + m)
    BY <1>0 DEF Faithful, Entries, n
  <1>4. \A i \in 1..(n + m) : n < i =>
           new[i].seq \in Nat /\ new[i].seq = first + (i - n) - 1 /\ new[i].real = TRUE
    <2> SUFFICES ASSUME NEW i \in 1..(n + m), n < i
                 PROVE  new[i].seq \in Nat /\ new[i].seq = first + (i - n) - 1 /\ new[i].real = TRUE
      OBVIOUS
    <2>1. i - n \in 1..(last - first) /\ ~(i <= n)
      BY <1>0
    <2>2. new[i] = Batch(first, last)[i - n]
      BY <2>1, <1>1
    <2>3. new[i] = [seq |-> first + (i - n) - 1, real |-> TRUE]
      BY <2>1, <2>2, BatchType
    <2>4. first + (i - n) - 1 \in Nat
      BY <2>1, <1>0
    <2> QED
      BY <2>3, <2>4
  <1> HIDE DEF m
  <1>5. \A i, j \in 1..(n + m) : i < j => new[i].seq < new[j].seq
    <2> SUFFICES ASSUME NEW i \in 1..(n + m), NEW j \in 1..(n + m), i < j
                 PROVE  new[i].seq < new[j].seq
      OBVIOUS
    <2>1. CASE j <= n
      BY <2>1, <1>0, <1>2 DEF Faithful, n
    <2>2. CASE n < j /\ i <= n
      <3>1. new[i].seq \in Nat /\ new[i].seq < cursor
        BY <2>2, <1>2, <1>3
      <3>2. new[j].seq \in Nat /\ first <= new[j].seq
        BY <2>2, <1>4, <1>0
      <3> QED
        BY <3>1, <3>2
    <2>3. CASE n < j /\ n < i
      BY <2>3, <1>0, <1>4
    <2> QED
      BY <2>1, <2>2, <2>3, <1>0
  <1>6. ASSUME NEW i \in 1..(n + m) PROVE new[i].seq < last
    <2>1. CASE i <= n
      BY <2>1, <1>2, <1>3
    <2>2. CASE n < i
      BY <2>2, <1>4, <1>0 DEF m
    <2> QED
      BY <2>1, <2>2, <1>0
  <1>7. \A k \in gaps \cup (cursor .. (first - 1)) : k < last
    BY DEF Faithful
  <1>8. ASSUME NEW k \in 0..(last - 1)
        PROVE (\E i \in 1..(n + m) : new[i].seq = k /\ new[i].real) <=>
              k \notin gaps \cup (cursor .. (first - 1))
    <2>1. CASE k < cursor
      <3>0. ASSUME NEW i \in 1..(n + m), new[i].seq = k PROVE i <= n
        BY <3>0, <2>1, <1>4, <1>0
      <3>1. (\E i \in 1..(n + m) : new[i].seq = k /\ new[i].real) <=>
            (\E i \in 1..n : log[i].seq = k /\ log[i].real)
        BY <3>0, <1>2, <1>3, <1>0
      <3>2. k \in gaps \cup (cursor .. (first - 1)) <=> k \in gaps
        BY <2>1
      <3>3. (\E i \in 1..n : log[i].seq = k /\ log[i].real) <=> k \notin gaps
        BY <2>1 DEF Faithful, n
      <3> QED
        BY <3>1, <3>2, <3>3
    <2>2. CASE cursor <= k /\ k < first
      <3>1. ASSUME NEW i \in 1..(n + m) PROVE new[i].seq # k
        <4>1. CASE i <= n
          BY <4>1, <2>2, <1>2, <1>3
        <4>2. CASE n < i
          BY <4>2, <2>2, <1>4, <1>0
        <4> QED
          BY <4>1, <4>2, <1>0
      <3> QED
        BY <3>1, <2>2
    <2>3. CASE first <= k
      <3>0. PICK i \in 1..(n + m) : i = n + (k - first + 1)
        BY <2>3, <1>0 DEF m
      <3>1. n < i /\ first + (i - n) - 1 = k
        BY <3>0, <2>3, <1>0
      <3>2. new[i].seq = k /\ new[i].real
        BY <3>1, <1>4
      <3>3. k \notin gaps \cup (cursor .. (first - 1))
        BY <2>3 DEF Faithful
      <3> QED
        BY <3>2, <3>3
    <2> QED
      BY <2>1, <2>2, <2>3
  <1>9. Len(log) <= Len(new)
    BY <1>0, <1>1 DEF n
  <1> QED
    BY <1>1, <1>5, <1>6, <1>7, <1>8, <1>9 DEF Faithful, new

\* Entering all that lies below a later end as unavailable, with one warning, is faithful.
LEMMA StoreWarning ==
    ASSUME NEW log \in Seq(Entries), NEW cursor \in Nat, NEW gaps \in SUBSET Nat,
           Faithful(log, cursor, gaps), NEW next \in Nat, cursor < next
    PROVE  LET new == Append(log, [seq |-> next - 1, real |-> FALSE])
           IN  /\ new \in Seq(Entries) /\ Len(log) <= Len(new)
               /\ Faithful(new, next, gaps \cup (cursor .. (next - 1)))
  <1> DEFINE e == [seq |-> next - 1, real |-> FALSE]
             new == Append(log, e)
             n == Len(log)
  <1>0. n \in Nat /\ e \in Entries /\ \A i \in 1..n : log[i] \in Entries
    <2>1. next - 1 \in Nat
      OBVIOUS
    <2>2. e \in Entries
      BY <2>1 DEF Entries
    <2>3. n \in Nat /\ \A i \in 1..n : log[i] \in Entries
      OBVIOUS
    <2> QED
      BY <2>2, <2>3
  <1>1. /\ new \in Seq(Entries) /\ Len(new) = n + 1
        /\ \A i \in 1..n : new[i] = log[i]
        /\ new[n + 1].seq = next - 1 /\ new[n + 1].real = FALSE
    BY AppendProperties, <1>0
  <1> HIDE DEF new, e, n
  <1>3. \A i \in 1..n : log[i].seq \in Nat /\ log[i].seq < cursor
    BY <1>0 DEF Faithful, Entries, n
  <1>5. \A i, j \in 1..(n + 1) : i < j => new[i].seq < new[j].seq
    <2> SUFFICES ASSUME NEW i \in 1..(n + 1), NEW j \in 1..(n + 1), i < j
                 PROVE  new[i].seq < new[j].seq
      OBVIOUS
    <2>0. i \in 1..n
      BY <1>0
    <2>1. CASE j \in 1..n
      BY <2>0, <2>1, <1>1 DEF Faithful, n
    <2>2. CASE j = n + 1
      BY <2>0, <2>2, <1>1, <1>3
    <2> QED
      BY <2>1, <2>2, <1>0
  <1>6. \A i \in 1..(n + 1) : new[i].seq < next
    BY <1>0, <1>1, <1>3
  <1>7. \A k \in gaps \cup (cursor .. (next - 1)) : k < next
    BY DEF Faithful
  <1>8. ASSUME NEW k \in 0..(next - 1)
        PROVE (\E i \in 1..(n + 1) : new[i].seq = k /\ new[i].real) <=>
              k \notin gaps \cup (cursor .. (next - 1))
    <2>0. (\E i \in 1..(n + 1) : new[i].seq = k /\ new[i].real) <=>
          (\E i \in 1..n : log[i].seq = k /\ log[i].real)
      BY <1>0, <1>1
    <2>1. CASE k < cursor
      <3>2. k \in gaps \cup (cursor .. (next - 1)) <=> k \in gaps
        BY <2>1
      <3>3. (\E i \in 1..n : log[i].seq = k /\ log[i].real) <=> k \notin gaps
        BY <2>1 DEF Faithful, n
      <3> QED
        BY <2>0, <3>2, <3>3
    <2>2. CASE cursor <= k
      BY <2>0, <2>2, <1>3
    <2> QED
      BY <2>1, <2>2
  <1>9. Len(log) <= Len(new)
    BY <1>0, <1>1 DEF n
  <1> QED
    BY <1>1, <1>5, <1>6, <1>7, <1>8, <1>9 DEF Faithful, new, e

(***************************************************************************)
(* The inductive invariant                                                 *)
(***************************************************************************)
Nodes == [row : BOOLEAN, ph : Phases, stop : BOOLEAN, cancel : BOOLEAN]
Cmds == {"none", "live", "ok", "failed", "killed"}
Sinks == [st : {"none", "recording", "closing", "draining", "over"}, held : Nat]
Pages == [next : Nat, ph : Copies, lo : Nat, hi : Nat, more : BOOLEAN]
Gates == [cursor : Nat, log : Seq(Entries), gaps : SUBSET Nat, ph : Copies]
Runs == [pc : RPCs, send : Launches \cup {0}, lost : BOOLEAN, off : Nat, fresh : BOOLEAN,
         result : Results]

\* The types of the node's and of the gateway's variables.
NodeTyped ==
    /\ scene \in Scenario /\ scene \in Scenarios
    /\ node \in Nodes /\ nlog \in Seq(Kinds) /\ ndrop \in Nat
    /\ lpc \in [Launches -> LPCs] /\ wpc \in [Launches -> WPCs] /\ cmd \in [Launches -> Cmds]
    /\ pipe \in [Launches -> Nat] /\ sink \in [Launches -> Sinks]
    /\ probe \in Phases /\ faults \in Nat

GateTyped ==
    /\ gate \in Gates /\ col \in [Collectors -> [pc : CPCs, page : Pages]]
    /\ lock \in Collectors \cup {"free"} /\ run \in Runs

\* The records the node has and the ones still under way
Load == Len(nlog) + pipe[1] + pipe[2] + sink[1].held + sink[2].held

\* ... are within the bound.
Bounded ==
    /\ Load <= scene.records
    /\ ndrop <= Len(nlog) /\ faults <= scene.faults

\* A page is asked for from the cursor; an answered one continues the gateway's log but
\* for what the node had dropped; the last page leaves nothing else out.
PageOK(c) ==
    LET page == col[c].page IN
    /\ col[c].pc \notin Ingesting => page.lo <= gate.cursor
    /\ col[c].pc \in Ingesting =>
          /\ page.lo <= gate.cursor \/ page.lo <= ndrop
          /\ page.lo <= page.hi /\ page.hi <= page.next /\ page.next <= Len(nlog)
          /\ page.more \/ page.hi = page.next
    /\ col[c].pc = "meta" /\ ~page.more => page.next <= gate.cursor \/ page.next <= ndrop

Paged ==
    /\ gate.cursor <= Len(nlog) /\ run.off <= Len(gate.log)
    /\ run.pc = "decide" => col[Own].pc = "idle"
    /\ \A c \in Collectors : PageOK(c)

\* The gateway's log is faithful, and what it lacks was dropped.
LogOK ==
    /\ Faithful(gate.log, gate.cursor, gate.gaps)
    /\ \A k \in gate.gaps : k < ndrop

Inv == NodeTyped /\ GateTyped /\ Bounded /\ Paged /\ LogOK

\* The records that a page adds are those from the cursor, or from its first one.
LEMMA UnseenIs ==
    ASSUME NEW page \in Pages, gate \in Gates
    PROVE  LET first == Larger(page.lo, gate.cursor)
           IN  /\ first \in Nat /\ first >= gate.cursor /\ first \in {page.lo, gate.cursor}
               /\ Unseen(page) = {} <=> page.hi <= first
               /\ Unseen(page) # {} => page.hi - Cardinality(Unseen(page)) = first
                                       /\ Cardinality(Unseen(page)) = page.hi - first
  <1> DEFINE first == Larger(page.lo, gate.cursor)
  <1>1. /\ first \in Nat /\ first >= gate.cursor /\ first \in {page.lo, gate.cursor}
        /\ page.lo \in Nat /\ page.hi \in Nat /\ gate.cursor \in Nat
        /\ \A k \in Nat : k >= first <=> k >= page.lo /\ k >= gate.cursor
    BY DEF Pages, Gates, Larger
  <1> HIDE DEF first
  <1>2. Unseen(page) = first .. (page.hi - 1)
    BY <1>1 DEF Unseen
  <1>3. Cardinality(first .. (page.hi - 1)) = IF first > page.hi - 1 THEN 0 ELSE page.hi - 1 - first + 1
    <2>1. first \in Int /\ page.hi - 1 \in Int
      BY <1>1
    <2> QED
      BY <2>1, FS_Interval
  <1>4. first .. (page.hi - 1) = {} <=> page.hi <= first
    BY <1>1
  <1>5. ASSUME ~(page.hi <= first)
        PROVE  Cardinality(Unseen(page)) = page.hi - first /\ page.hi - (page.hi - first) = first
    BY <1>1, <1>2, <1>3, <1>5
  <1> QED
    BY <1>1, <1>2, <1>4, <1>5 DEF first

\* What storing the records of a page does to the gateway's row.
LEMMA AppendIs ==
    ASSUME GateTyped, NEW c \in Collectors, AppendPage(c)
    PROVE  LET page == col[c].page
               first == Larger(page.lo, gate.cursor)
           IN  /\ first \in Nat /\ first >= gate.cursor /\ first \in {page.lo, gate.cursor}
               /\ \/ page.hi <= first /\ gate' = gate
                  \/ /\ first < page.hi
                     /\ gate' = [cursor |-> page.hi, log |-> gate.log \o Batch(first, page.hi),
                                 gaps |-> gate.gaps \cup (gate.cursor .. (first - 1)), ph |-> gate.ph]
  <1> DEFINE page == col[c].page
             first == Larger(page.lo, gate.cursor)
  <1>1. page \in Pages /\ gate \in Gates
    BY DEF GateTyped
  <1>2. /\ first \in Nat /\ first >= gate.cursor /\ first \in {page.lo, gate.cursor}
        /\ Unseen(page) = {} <=> page.hi <= first
        /\ Unseen(page) # {} => page.hi - Cardinality(Unseen(page)) = first
                                /\ Cardinality(Unseen(page)) = page.hi - first
    BY <1>1, UnseenIs
  <1>3. CASE Unseen(page) = {}
    BY <1>2, <1>3 DEF AppendPage
  <1>4. CASE Unseen(page) # {}
    <2>1. gate' = [gate EXCEPT !.log = @ \o [i \in 1..(page.hi - first) |-> [seq |-> first + i - 1, real |-> TRUE]],
                               !.gaps = @ \cup (gate.cursor .. (first - 1)),
                               !.cursor = page.hi]
      BY <1>2, <1>4 DEF AppendPage, CursorAfter
    <2>2. gate' = [cursor |-> page.hi, log |-> gate.log \o Batch(first, page.hi),
                   gaps |-> gate.gaps \cup (gate.cursor .. (first - 1)), ph |-> gate.ph]
      BY <2>1, <1>1 DEF Gates, Batch
    <2>3. first < page.hi
      BY <1>1, <1>2, <1>4 DEF Pages
    <2> QED
      BY <2>2, <2>3, <1>2
  <1> QED
    BY <1>3, <1>4

\* The parts of the invariant that an initial state has.
LEMMA InitInv == Init => Inv
  <1> SUFFICES ASSUME Init PROVE Inv
    OBVIOUS
  <1>0. None \in Phases /\ Seen(None) \in Copies
    BY DEF None, Phases, Statuses, Launches, Copies
  <1>1. NodeTyped
    BY <1>0, AttemptsAssumption DEF Init, NodeTyped, Nodes, LPCs, WPCs, Cmds, Sinks, NoSink, Kinds
  <1>2. GateTyped
    BY <1>0 DEF Init, GateTyped, Gates, CPCs, Pages, NoPage, Ask, Runs, RPCs, Results, Ingesting
  <1>3. Bounded
    BY AttemptsAssumption DEF Init, Bounded, Load, NoSink, Scenario, Launches
  <1>4. Paged
    BY DEF Init, Paged, PageOK, NoPage, Ask, Ingesting
  <1>5. LogOK
    BY DEF Init, LogOK, Faithful
  <1> QED
    BY <1>1, <1>2, <1>3, <1>4, <1>5 DEF Inv

\* What a step of the node leaves of the gateway: nothing it has stored or asked for
\* becomes wrong while the node's log and what is dropped of it only grow.
LEMMA GateFrame ==
    ASSUME Inv, UNCHANGED gateVars, NodeTyped', Len(nlog) <= Len(nlog'), ndrop <= ndrop'
    PROVE  GateTyped' /\ Paged' /\ LogOK'
  <1>1. GateTyped'
    BY DEF Inv, GateTyped, gateVars
  <1>2. Len(nlog) \in Nat /\ Len(nlog') \in Nat /\ ndrop \in Nat /\ ndrop' \in Nat
    BY DEF Inv, NodeTyped
  <1>3. Paged'
    BY <1>2 DEF Inv, GateTyped, Gates, Pages, Paged, PageOK, gateVars, Ingesting
  <1>4. LogOK'
    BY <1>2 DEF Inv, GateTyped, Gates, LogOK, gateVars
  <1> QED
    BY <1>1, <1>3, <1>4

\* Every change of a recorded phase is one of these.
LEMMA PhaseOps ==
    ASSUME NEW ph \in Phases, NEW l \in Launches, NEW b \in BOOLEAN, NEW e \in {0, 1}
    PROVE  /\ [ph EXCEPT !.launcher = l] \in Phases
           /\ [ph EXCEPT !.st = "running", !.pid = l] \in Phases
           /\ [ph EXCEPT !.st = "complete", !.exit = e] \in Phases
           /\ [ph EXCEPT !.st = "complete", !.exit = 1, !.rec = FALSE] \in Phases
           /\ [ph EXCEPT !.st = "complete", !.exit = 1, !.eng = b] \in Phases
           /\ [ph EXCEPT !.st = "survivor", !.exit = 1, !.rec = FALSE] \in Phases
           /\ [ph EXCEPT !.rec = FALSE] \in Phases
           /\ [ph EXCEPT !.eng = FALSE] \in Phases
           /\ [ph EXCEPT !.st = "launching", !.rec = TRUE, !.eng = b] \in Phases
  BY ZenonT(60) DEF Phases, Statuses

\* Storing a phase keeps the node's row well typed.
LEMMA PhaseType ==
    ASSUME node \in Nodes, NEW ph \in Phases, Phase(ph)
    PROVE  node' \in Nodes
  BY DEF Nodes, Phase

\* A worker and its sink add to the records under way only while there is room.
Share(w) == Len(nlog) + pipe[w] + sink[w].held

\* The bound on the records under way survives a step that touches one launch and adds a record
\* only while there is room.
LEMMA Loads ==
    ASSUME NodeTyped, Load <= scene.records, NEW w \in Launches,
           Len(nlog') \in Nat, pipe' \in [Launches -> Nat], sink' \in [Launches -> Sinks],
           \A v \in Launches \ {w} : pipe'[v] = pipe[v] /\ sink'[v].held = sink[v].held,
           Share(w)' <= Share(w) \/ (Room /\ Share(w)' <= Share(w) + 1)
    PROVE  Load' <= scene.records
  <1>1. /\ Len(nlog) \in Nat /\ pipe[1] \in Nat /\ pipe[2] \in Nat /\ scene.records \in Nat
        /\ sink[1].held \in Nat /\ sink[2].held \in Nat
        /\ Len(nlog') \in Nat /\ pipe'[1] \in Nat /\ pipe'[2] \in Nat
        /\ sink'[1].held \in Nat /\ sink'[2].held \in Nat
    BY DEF NodeTyped, Sinks, Launches, Scenario
  <1>2. PICK l \in Nat, p1 \in Nat, p2 \in Nat, s1 \in Nat, s2 \in Nat, max \in Nat :
           /\ l = Len(nlog) /\ p1 = pipe[1] /\ p2 = pipe[2] /\ max = scene.records
           /\ s1 = sink[1].held /\ s2 = sink[2].held
    BY <1>1
  <1>3. PICK k \in Nat, q1 \in Nat, q2 \in Nat, t1 \in Nat, t2 \in Nat :
           /\ k = Len(nlog') /\ q1 = pipe'[1] /\ q2 = pipe'[2]
           /\ t1 = sink'[1].held /\ t2 = sink'[2].held
    BY <1>1
  <1>4. /\ l + p1 + p2 + s1 + s2 <= max
        /\ Room => l + p1 + p2 + s1 + s2 < max
    BY <1>2 DEF Load, Room
  <1>5. CASE w = 1
    <2>1. q2 = p2 /\ t2 = s2
      BY <1>2, <1>3, <1>5 DEF Launches
    <2>2. \/ k + q1 + t1 <= l + p1 + s1
          \/ Room /\ k + q1 + t1 <= l + p1 + s1 + 1
      BY <1>2, <1>3, <1>5 DEF Share
    <2>3. k + q1 + q2 + t1 + t2 <= max
      BY <2>1, <2>2, <1>4
    <2> QED
      BY <1>2, <1>3, <2>3 DEF Load
  <1>6. CASE w = 2
    <2>1. q1 = p1 /\ t1 = s1
      BY <1>2, <1>3, <1>6 DEF Launches
    <2>2. \/ k + q2 + t2 <= l + p2 + s2
          \/ Room /\ k + q2 + t2 <= l + p2 + s2 + 1
      BY <1>2, <1>3, <1>6 DEF Share
    <2>3. k + q1 + q2 + t1 + t2 <= max
      BY <2>1, <2>2, <1>4
    <2> QED
      BY <1>2, <1>3, <2>3 DEF Load
  <1> QED
    BY <1>5, <1>6 DEF Launches

\* A step of the node: the launches, the workers, the sinks, the probe.
NodeStep ==
    \/ \E l \in Launches : LaunchStep(l) \/ WorkerStep(l) \/ SinkStep(l)
    \/ Reboot \/ Rotate \/ ProbeReads \/ ProbeCloses

\* The node's steps keep its types and bounds, and its log only grows.
LEMMA NodeStepOK ==
    ASSUME Inv, NodeStep
    PROVE  NodeTyped' /\ Bounded' /\ UNCHANGED gateVars /\ Len(nlog) <= Len(nlog') /\ ndrop <= ndrop'
  <1> DEFINE Goal == NodeTyped' /\ Bounded' /\ UNCHANGED gateVars /\ Len(nlog) <= Len(nlog') /\ ndrop <= ndrop'
  <1>0. /\ NodeTyped /\ Bounded
        /\ scene.records \in Nat /\ scene.faults \in Nat /\ scene.drops \in Nat
        /\ scene.engine \in BOOLEAN
        /\ Len(nlog) \in Nat /\ ndrop \in Nat
    BY DEF Inv, NodeTyped, Scenario
  <1>p. \A w \in Launches : pipe[w] \in Nat /\ sink[w].held \in Nat /\ sink[w] \in Sinks
    BY DEF Inv, NodeTyped, Sinks
  <1>l. /\ \A n \in Nat : Outs(n) \in Seq(Kinds) /\ Len(Outs(n)) = n
        /\ \A n \in Nat : EngineLines(n) \in Seq(Kinds) /\ Len(EngineLines(n)) = n
    BY DEF Outs, EngineLines, Kinds
  <1>e. node \in Nodes /\ node.ph \in Phases
    BY DEF Inv, NodeTyped, Nodes
  <1>n. None \in Phases
    BY DEF None, Phases, Statuses, Launches
  <1> USE DEF Launches
  <1>1. ASSUME NEW l \in Launches, LaunchArrives(l) PROVE Goal
    <2>0. UNCHANGED <<scene, gateVars>>
      BY <1>1 DEF LaunchArrives
    <2>1. UNCHANGED nlog
      BY <1>1 DEF LaunchArrives
    <2>2. UNCHANGED node
      BY <1>1 DEF LaunchArrives, nodeVars
    <2>3. sink' \in [Launches -> Sinks] /\ pipe' \in [Launches -> Nat]
      BY <1>1, <1>0, <1>p DEF LaunchArrives, NodeTyped, Sinks
    <2>4. NodeTyped'
      BY <1>1, <1>0, <1>n, <2>0, <2>1, <2>2, <2>3 DEF LaunchArrives, NodeTyped, LPCs, WPCs, Cmds
    <2>5. Bounded'
      BY <1>1, <1>0, <1>p, <2>0, <2>1 DEF LaunchArrives, NodeTyped, Bounded, Load, nodeVars
    <2>6. Len(nlog) <= Len(nlog') /\ ndrop <= ndrop'
      BY <2>1, <1>1, <1>0, <1>p DEF LaunchArrives, nodeVars
    <2> QED
      BY <2>0, <2>4, <2>5, <2>6
  <1>2. ASSUME NEW l \in Launches, CreateRow(l) PROVE Goal
    <2>0. UNCHANGED <<scene, gateVars>>
      BY <1>2 DEF CreateRow
    <2>1. UNCHANGED nlog
      BY <1>2 DEF CreateRow
    <2>2. node' \in Nodes
      BY <1>2, <1>0, <1>e, PhaseOps DEF CreateRow, Nodes, NodeTyped
    <2>3. sink' \in [Launches -> Sinks] /\ pipe' \in [Launches -> Nat]
      BY <1>2, <1>0, <1>p DEF CreateRow, NodeTyped, Sinks
    <2>4. NodeTyped'
      BY <1>2, <1>0, <1>n, <2>0, <2>1, <2>2, <2>3 DEF CreateRow, NodeTyped, LPCs, WPCs, Cmds
    <2>5. Bounded'
      BY <1>2, <1>0, <1>p, <2>0, <2>1 DEF CreateRow, NodeTyped, Bounded, Load, nodeVars
    <2>6. Len(nlog) <= Len(nlog') /\ ndrop <= ndrop'
      BY <2>1, <1>2, <1>0, <1>p DEF CreateRow, nodeVars
    <2> QED
      BY <2>0, <2>4, <2>5, <2>6
  <1>3. ASSUME NEW l \in Launches, CheckPhase(l) PROVE Goal
    <2>0. UNCHANGED <<scene, gateVars>>
      BY <1>3 DEF CheckPhase
    <2>1. UNCHANGED nlog
      BY <1>3 DEF CheckPhase
    <2>2. UNCHANGED node
      BY <1>3 DEF CheckPhase, nodeVars
    <2>3. sink' \in [Launches -> Sinks] /\ pipe' \in [Launches -> Nat]
      BY <1>3, <1>0, <1>p DEF CheckPhase, NodeTyped, Sinks
    <2>4. NodeTyped'
      BY <1>3, <1>0, <1>n, <2>0, <2>1, <2>2, <2>3 DEF CheckPhase, NodeTyped, LPCs, WPCs, Cmds
    <2>5. Bounded'
      BY <1>3, <1>0, <1>p, <2>0, <2>1 DEF CheckPhase, NodeTyped, Bounded, Load, nodeVars
    <2>6. Len(nlog) <= Len(nlog') /\ ndrop <= ndrop'
      BY <2>1, <1>3, <1>0, <1>p DEF CheckPhase, nodeVars
    <2> QED
      BY <2>0, <2>4, <2>5, <2>6
  <1>4. ASSUME NEW l \in Launches, WritePhase(l) PROVE Goal
    <2>0. UNCHANGED <<scene, gateVars>>
      BY <1>4 DEF WritePhase
    <2>1. UNCHANGED nlog
      BY <1>4 DEF WritePhase
    <2>2. node' \in Nodes
      BY <1>4, <1>0, <1>e, PhaseOps DEF WritePhase, Nodes, NodeTyped
    <2>3. sink' \in [Launches -> Sinks] /\ pipe' \in [Launches -> Nat]
      BY <1>4, <1>0, <1>p DEF WritePhase, NodeTyped, Sinks
    <2>4. NodeTyped'
      BY <1>4, <1>0, <1>n, <2>0, <2>1, <2>2, <2>3 DEF WritePhase, NodeTyped, LPCs, WPCs, Cmds
    <2>5. Bounded'
      BY <1>4, <1>0, <1>p, <2>0, <2>1 DEF WritePhase, NodeTyped, Bounded, Load, nodeVars
    <2>6. Len(nlog) <= Len(nlog') /\ ndrop <= ndrop'
      BY <2>1, <1>4, <1>0, <1>p DEF WritePhase, nodeVars
    <2> QED
      BY <2>0, <2>4, <2>5, <2>6
  <1>5. ASSUME NEW l \in Launches, Spawn(l) PROVE Goal
    <2>0. UNCHANGED <<scene, gateVars>>
      BY <1>5 DEF Spawn
    <2>1. UNCHANGED nlog
      BY <1>5 DEF Spawn
    <2>2. node' \in Nodes
      BY <1>5, <1>e, PhaseOps, PhaseType DEF Spawn
    <2>3. sink' \in [Launches -> Sinks] /\ pipe' \in [Launches -> Nat]
      BY <1>5, <1>0, <1>p DEF Spawn, Phase, NodeTyped, Sinks
    <2>4. NodeTyped'
      BY <1>5, <1>0, <1>n, <2>0, <2>1, <2>2, <2>3 DEF Spawn, NodeTyped, LPCs, WPCs, Cmds
    <2>5. Bounded'
      BY <1>5, <1>0, <1>p, <2>0, <2>1 DEF Spawn, Phase, NodeTyped, Bounded, Load, nodeVars
    <2>6. Len(nlog) <= Len(nlog') /\ ndrop <= ndrop'
      BY <2>1, <1>5, <1>0, <1>p DEF Spawn, nodeVars
    <2> QED
      BY <2>0, <2>4, <2>5, <2>6
  <1>6. ASSUME NEW w \in Launches, StartCommand(w) PROVE Goal
    <2>0. UNCHANGED <<scene, gateVars>>
      BY <1>6 DEF StartCommand
    <2>1. UNCHANGED nlog
      BY <1>6 DEF StartCommand
    <2>2. node' \in Nodes
      BY <1>6, <1>e, PhaseOps, PhaseType DEF StartCommand, Phase
    <2>3. sink' \in [Launches -> Sinks] /\ pipe' \in [Launches -> Nat]
      BY <1>6, <1>0, <1>p DEF StartCommand, Phase, NodeTyped, Sinks
    <2>4. NodeTyped'
      BY <1>6, <1>0, <1>n, <2>0, <2>1, <2>2, <2>3 DEF StartCommand, NodeTyped, LPCs, WPCs, Cmds
    <2>5. Bounded'
      BY <1>6, <1>0, <1>p, <2>0, <2>1 DEF StartCommand, Phase, NodeTyped, Bounded, Load, nodeVars
    <2>6. Len(nlog) <= Len(nlog') /\ ndrop <= ndrop'
      BY <2>1, <1>6, <1>0, <1>p DEF StartCommand, nodeVars
    <2> QED
      BY <2>0, <2>4, <2>5, <2>6
  <1>7. ASSUME NEW w \in Launches, MarkRunning(w) PROVE Goal
    <2>0. UNCHANGED <<scene, gateVars>>
      BY <1>7 DEF MarkRunning
    <2>1. UNCHANGED nlog
      BY <1>7 DEF MarkRunning
    <2>2. node' \in Nodes
      BY <1>7, <1>e, PhaseOps, PhaseType DEF MarkRunning
    <2>3. sink' \in [Launches -> Sinks] /\ pipe' \in [Launches -> Nat]
      BY <1>7, <1>0, <1>p DEF MarkRunning, Phase, NodeTyped, Sinks
    <2>4. NodeTyped'
      BY <1>7, <1>0, <1>n, <2>0, <2>1, <2>2, <2>3 DEF MarkRunning, NodeTyped, LPCs, WPCs, Cmds
    <2>5. Bounded'
      BY <1>7, <1>0, <1>p, <2>0, <2>1 DEF MarkRunning, Phase, NodeTyped, Bounded, Load, nodeVars
    <2>6. Len(nlog) <= Len(nlog') /\ ndrop <= ndrop'
      BY <2>1, <1>7, <1>0, <1>p DEF MarkRunning, nodeVars
    <2> QED
      BY <2>0, <2>4, <2>5, <2>6
  <1>8. ASSUME NEW w \in Launches, CommandWrites(w) PROVE Goal
    <2>0. UNCHANGED <<scene, gateVars>>
      BY <1>8 DEF CommandWrites
    <2>1. UNCHANGED nlog
      BY <1>8 DEF CommandWrites
    <2>2. UNCHANGED node
      BY <1>8 DEF CommandWrites, nodeVars
    <2>3. sink' \in [Launches -> Sinks] /\ pipe' \in [Launches -> Nat]
      BY SMTT(30), <1>8, <1>0, <1>p DEF CommandWrites, Room, NodeTyped, Sinks
    <2>4. NodeTyped'
      BY <1>8, <1>0, <1>n, <2>0, <2>1, <2>2, <2>3 DEF CommandWrites, Room, NodeTyped, LPCs, WPCs,
         Cmds
    <2>5. Bounded'
      <3>1. Load' <= scene.records
        <4>0. PICK k \in Nat, p \in Nat, h \in Nat : k = Len(nlog) /\ p = pipe[w] /\ h = sink[w].held
          BY <1>0, <1>p
        <4>1. /\ \A v \in Launches \ {w} : pipe'[v] = pipe[v] /\ sink'[v].held = sink[v].held
              /\ pipe'[w] = (p + 1) /\ sink'[w].held = h
          BY <1>8, <4>0, <1>0, <1>p DEF CommandWrites, NodeTyped, Sinks
        <4>2. Len(nlog') = k /\ Room
          BY <2>1, <4>0, <1>8 DEF CommandWrites
        <4>3. k + (p + 1) + h <= k + p + h + 1
          OBVIOUS
        <4>4. Share(w)' <= Share(w) + 1
          BY <4>0, <4>1, <4>2, <4>3 DEF Share
        <4>5. Len(nlog') \in Nat
          BY <4>2
        <4> QED
          BY <4>1, <4>2, <4>4, <4>5, <2>3, <1>0, Loads DEF Bounded
      <3> QED
        BY <3>1, <1>8, <1>0, <1>p, <2>0, <2>1 DEF CommandWrites, Bounded, NodeTyped
    <2>6. Len(nlog) <= Len(nlog') /\ ndrop <= ndrop'
      BY <2>1, <1>8, <1>0, <1>p DEF CommandWrites, nodeVars
    <2> QED
      BY <2>0, <2>4, <2>5, <2>6
  <1>9. ASSUME NEW w \in Launches, CommandExits(w) PROVE Goal
    <2>0. UNCHANGED <<scene, gateVars>>
      BY <1>9 DEF CommandExits
    <2>1. UNCHANGED nlog
      BY <1>9 DEF CommandExits
    <2>2. UNCHANGED node
      BY <1>9 DEF CommandExits, nodeVars
    <2>3. sink' \in [Launches -> Sinks] /\ pipe' \in [Launches -> Nat]
      BY <1>9, <1>0, <1>p DEF CommandExits, NodeTyped, Sinks
    <2>4. NodeTyped'
      BY <1>9, <1>0, <1>n, <2>0, <2>1, <2>2, <2>3 DEF CommandExits, NodeTyped, LPCs, WPCs, Cmds
    <2>5. Bounded'
      BY <1>9, <1>0, <1>p, <2>0, <2>1 DEF CommandExits, NodeTyped, Bounded, Load, nodeVars
    <2>6. Len(nlog) <= Len(nlog') /\ ndrop <= ndrop'
      BY <2>1, <1>9, <1>0, <1>p DEF CommandExits, nodeVars
    <2> QED
      BY <2>0, <2>4, <2>5, <2>6
  <1>10. ASSUME NEW w \in Launches, RecordOutput(w) PROVE Goal
    <2>0. UNCHANGED <<scene, gateVars>>
      BY <1>10 DEF RecordOutput
    <2>1. nlog' \in Seq(Kinds) /\ Len(nlog') = Len(nlog) + pipe[w]
      <3>1. nlog' = nlog \o Outs(pipe[w]) /\ Outs(pipe[w]) \in Seq(Kinds) /\ Len(Outs(pipe[w])) = pipe[w]
        BY <1>10, <1>l, <1>p DEF RecordOutput
      <3> QED
        BY <3>1, <1>0, ConcatProperties DEF NodeTyped
    <2>2. UNCHANGED node
      BY <1>10 DEF RecordOutput, nodeVars
    <2>3. sink' \in [Launches -> Sinks] /\ pipe' \in [Launches -> Nat]
      BY <1>10, <1>0, <1>p DEF RecordOutput, Outs, NodeTyped, Sinks
    <2>4. NodeTyped'
      BY <1>10, <1>0, <1>n, <2>0, <2>1, <2>2, <2>3 DEF RecordOutput, Outs, NodeTyped, LPCs, WPCs,
         Cmds
    <2>5. Bounded'
      <3>1. Load' <= scene.records
        <4>0. PICK k \in Nat, p \in Nat, h \in Nat : k = Len(nlog) /\ p = pipe[w] /\ h = sink[w].held
          BY <1>0, <1>p
        <4>1. /\ \A v \in Launches \ {w} : pipe'[v] = pipe[v] /\ sink'[v].held = sink[v].held
              /\ pipe'[w] = 0 /\ sink'[w].held = h
          BY <1>10, <4>0, <1>0, <1>p DEF RecordOutput, Outs, NodeTyped, Sinks
        <4>2. Len(nlog') = k + p
          BY <2>1, <4>0
        <4>3. (k + p) + 0 + h <= k + p + h
          OBVIOUS
        <4>4. Share(w)' <= Share(w)
          BY <4>0, <4>1, <4>2, <4>3 DEF Share
        <4>5. Len(nlog') \in Nat
          BY <4>2
        <4> QED
          BY <4>1, <4>2, <4>4, <4>5, <2>3, <1>0, Loads DEF Bounded
      <3> QED
        BY <3>1, <1>10, <1>0, <1>p, <2>0, <2>1 DEF RecordOutput, Bounded, NodeTyped
    <2>6. Len(nlog) <= Len(nlog') /\ ndrop <= ndrop'
      BY <2>1, <1>10, <1>0, <1>p DEF RecordOutput, nodeVars
    <2> QED
      BY <2>0, <2>4, <2>5, <2>6
  <1>11. ASSUME NEW w \in Launches, RecordJournal(w) PROVE Goal
    <2>0. UNCHANGED <<scene, gateVars>>
      BY <1>11 DEF RecordJournal
    <2>1. nlog' \in Seq(Kinds) /\ Len(nlog') = Len(nlog) + 1
      BY <1>11, <1>0, AppendProperties DEF RecordJournal, NodeTyped, Kinds
    <2>2. UNCHANGED node
      BY <1>11 DEF RecordJournal, nodeVars
    <2>3. sink' \in [Launches -> Sinks] /\ pipe' \in [Launches -> Nat]
      BY <1>11, <1>0, <1>p DEF RecordJournal, Room, NodeTyped, Sinks
    <2>4. NodeTyped'
      BY <1>11, <1>0, <1>n, <2>0, <2>1, <2>2, <2>3 DEF RecordJournal, Room, NodeTyped, LPCs, WPCs,
         Cmds
    <2>5. Bounded'
      <3>1. Load' <= scene.records
        <4>0. PICK k \in Nat, p \in Nat, h \in Nat : k = Len(nlog) /\ p = pipe[w] /\ h = sink[w].held
          BY <1>0, <1>p
        <4>1. /\ \A v \in Launches \ {w} : pipe'[v] = pipe[v] /\ sink'[v].held = sink[v].held
              /\ pipe'[w] = p /\ sink'[w].held = h
          BY <1>11, <4>0, <1>0, <1>p DEF RecordJournal, NodeTyped, Sinks
        <4>2. Len(nlog') = k + 1 /\ Room
          BY <2>1, <4>0, <1>11 DEF RecordJournal
        <4>3. (k + 1) + p + h <= k + p + h + 1
          OBVIOUS
        <4>4. Share(w)' <= Share(w) + 1
          BY <4>0, <4>1, <4>2, <4>3 DEF Share
        <4>5. Len(nlog') \in Nat
          BY <4>2
        <4> QED
          BY <4>1, <4>2, <4>4, <4>5, <2>3, <1>0, Loads DEF Bounded
      <3> QED
        BY <3>1, <1>11, <1>0, <1>p, <2>0, <2>1 DEF RecordJournal, Bounded, NodeTyped
    <2>6. Len(nlog) <= Len(nlog') /\ ndrop <= ndrop'
      BY <2>1, <1>11, <1>0, <1>p DEF RecordJournal, nodeVars
    <2> QED
      BY <2>0, <2>4, <2>5, <2>6
  <1>12. ASSUME NEW w \in Launches, CommandDone(w) PROVE Goal
    <2>0. UNCHANGED <<scene, gateVars>>
      BY <1>12 DEF CommandDone
    <2>1. UNCHANGED nlog
      BY <1>12 DEF CommandDone
    <2>2. node' \in Nodes
      BY <1>12, <1>e, PhaseOps, PhaseType DEF CommandDone
    <2>3. sink' \in [Launches -> Sinks] /\ pipe' \in [Launches -> Nat]
      BY <1>12, <1>0, <1>p DEF CommandDone, Phase, NodeTyped, Sinks
    <2>4. NodeTyped'
      BY <1>12, <1>0, <1>n, <2>0, <2>1, <2>2, <2>3 DEF CommandDone, NodeTyped, LPCs, WPCs, Cmds
    <2>5. Bounded'
      BY <1>12, <1>0, <1>p, <2>0, <2>1 DEF CommandDone, Phase, NodeTyped, Bounded, Load, nodeVars
    <2>6. Len(nlog) <= Len(nlog') /\ ndrop <= ndrop'
      BY <2>1, <1>12, <1>0, <1>p DEF CommandDone, nodeVars
    <2> QED
      BY <2>0, <2>4, <2>5, <2>6
  <1>13. ASSUME NEW w \in Launches, StopCommand(w) PROVE Goal
    <2>a. /\ \/ /\ cmd' = [cmd EXCEPT ![w] = IF @ = "live" THEN "killed" ELSE @]
                /\ sink' = [sink EXCEPT ![w] = IF @.st = "none" THEN @ ELSE Killed]
             \/ UNCHANGED <<cmd, sink>>
          /\ wpc' = [wpc EXCEPT ![w] = "end"]
          /\ UNCHANGED <<nlog, ndrop, lpc, pipe, probe, faults>>
      BY <1>13 DEF StopCommand
    <2>0. UNCHANGED <<scene, gateVars>>
      BY <1>13 DEF StopCommand
    <2>1. UNCHANGED nlog
      BY <1>13 DEF StopCommand
    <2>2. node' \in Nodes
      BY <1>13, <1>e, PhaseOps, PhaseType DEF StopCommand, Killed
    <2>3. sink' \in [Launches -> Sinks] /\ pipe' \in [Launches -> Nat]
      BY <2>a, <1>0, <1>p DEF Killed, NodeTyped, Sinks
    <2>4. NodeTyped'
      BY <2>a, <1>0, <1>n, <2>0, <2>1, <2>2, <2>3 DEF Killed, NodeTyped, LPCs, WPCs, Cmds
    <2>5. Bounded'
      <3>1. Load' <= scene.records
        <4>0. PICK k \in Nat, p \in Nat, h \in Nat : k = Len(nlog) /\ p = pipe[w] /\ h = sink[w].held
          BY <1>0, <1>p
        <4>g. PICK g \in {0, h} : g = sink'[w].held
          BY <2>a, <1>0, <1>p, <4>0 DEF Killed, NodeTyped, Sinks
        <4>1. /\ \A v \in Launches \ {w} : pipe'[v] = pipe[v] /\ sink'[v].held = sink[v].held
              /\ pipe'[w] = p /\ sink'[w].held = g
          BY <2>a, <4>g, <4>0, <1>0, <1>p DEF Killed, NodeTyped, Sinks
        <4>2. Len(nlog') = k
          BY <2>1, <4>0
        <4>3. k + p + g <= k + p + h
          BY <4>g
        <4>4. Share(w)' <= Share(w)
          BY <4>0, <4>1, <4>2, <4>3 DEF Share
        <4>5. Len(nlog') \in Nat
          BY <4>2
        <4> QED
          BY <4>1, <4>2, <4>4, <4>5, <2>3, <1>0, Loads DEF Bounded
      <3> QED
        BY <3>1, <2>a, <1>0, <1>p, <2>0, <2>1 DEF Bounded, NodeTyped
    <2>6. Len(nlog) <= Len(nlog') /\ ndrop <= ndrop'
      BY <2>1, <2>a, <1>0, <1>p DEF nodeVars
    <2> QED
      BY <2>0, <2>4, <2>5, <2>6
  <1>14. ASSUME NEW w \in Launches, StopTail(w) PROVE Goal
    <2>0. UNCHANGED <<scene, gateVars>>
      BY <1>14 DEF StopTail
    <2>1. UNCHANGED nlog
      BY <1>14 DEF StopTail
    <2>2. UNCHANGED node
      BY <1>14 DEF StopTail, nodeVars
    <2>3. sink' \in [Launches -> Sinks] /\ pipe' \in [Launches -> Nat]
      BY <1>14, <1>0, <1>p DEF StopTail, NodeTyped, Sinks
    <2>4. NodeTyped'
      BY <1>14, <1>0, <1>n, <2>0, <2>1, <2>2, <2>3 DEF StopTail, NodeTyped, LPCs, WPCs, Cmds
    <2>5. Bounded'
      BY <1>14, <1>0, <1>p, <2>0, <2>1 DEF StopTail, NodeTyped, Bounded, Load, nodeVars
    <2>6. Len(nlog) <= Len(nlog') /\ ndrop <= ndrop'
      BY <2>1, <1>14, <1>0, <1>p DEF StopTail, nodeVars
    <2> QED
      BY <2>0, <2>4, <2>5, <2>6
  <1>15. ASSUME NEW w \in Launches, DrainPipes(w) PROVE Goal
    <2>0. UNCHANGED <<scene, gateVars>>
      BY <1>15 DEF DrainPipes
    <2>1. nlog' \in Seq(Kinds) /\ Len(nlog') = Len(nlog) + pipe[w]
      <3>1. nlog' = nlog \o Outs(pipe[w]) /\ Outs(pipe[w]) \in Seq(Kinds) /\ Len(Outs(pipe[w])) = pipe[w]
        BY <1>15, <1>l, <1>p DEF DrainPipes
      <3> QED
        BY <3>1, <1>0, ConcatProperties DEF NodeTyped
    <2>2. node' \in Nodes
      BY <1>15, <1>0, <1>e, PhaseOps DEF DrainPipes, Nodes, NodeTyped
    <2>3. sink' \in [Launches -> Sinks] /\ pipe' \in [Launches -> Nat]
      BY <1>15, <1>0, <1>p DEF DrainPipes, Outs, NodeTyped, Sinks
    <2>4. NodeTyped'
      BY SMTT(30), <1>15, <1>0, <1>n, <2>0, <2>1, <2>2, <2>3 DEF DrainPipes, Outs, NodeTyped,
         LPCs, WPCs, Cmds
    <2>5. Bounded'
      <3>1. Load' <= scene.records
        <4>0. PICK k \in Nat, p \in Nat, h \in Nat : k = Len(nlog) /\ p = pipe[w] /\ h = sink[w].held
          BY <1>0, <1>p
        <4>1. /\ \A v \in Launches \ {w} : pipe'[v] = pipe[v] /\ sink'[v].held = sink[v].held
              /\ pipe'[w] = 0 /\ sink'[w].held = h
          BY <1>15, <4>0, <1>0, <1>p DEF DrainPipes, Outs, NodeTyped, Sinks
        <4>2. Len(nlog') = k + p
          BY <2>1, <4>0
        <4>3. (k + p) + 0 + h <= k + p + h
          OBVIOUS
        <4>4. Share(w)' <= Share(w)
          BY <4>0, <4>1, <4>2, <4>3 DEF Share
        <4>5. Len(nlog') \in Nat
          BY <4>2
        <4> QED
          BY <4>1, <4>2, <4>4, <4>5, <2>3, <1>0, Loads DEF Bounded
      <3> QED
        BY <3>1, <1>15, <1>0, <1>p, <2>0, <2>1 DEF DrainPipes, Bounded, NodeTyped
    <2>6. Len(nlog) <= Len(nlog') /\ ndrop <= ndrop'
      BY <2>1, <1>15, <1>0, <1>p DEF DrainPipes, nodeVars
    <2> QED
      BY <2>0, <2>4, <2>5, <2>6
  <1>16. ASSUME NEW w \in Launches, EndRecording(w) PROVE Goal
    <2>0. UNCHANGED <<scene, gateVars>>
      BY <1>16 DEF EndRecording
    <2>1. UNCHANGED nlog
      BY <1>16 DEF EndRecording
    <2>2. node' \in Nodes
      BY <1>16, <1>e, PhaseOps, PhaseType DEF EndRecording
    <2>3. sink' \in [Launches -> Sinks] /\ pipe' \in [Launches -> Nat]
      BY <1>16, <1>0, <1>p DEF EndRecording, Phase, NodeTyped, Sinks
    <2>4. NodeTyped'
      BY <1>16, <1>0, <1>n, <2>0, <2>1, <2>2, <2>3 DEF EndRecording, NodeTyped, LPCs, WPCs, Cmds
    <2>5. Bounded'
      BY <1>16, <1>0, <1>p, <2>0, <2>1 DEF EndRecording, Phase, NodeTyped, Bounded, Load, nodeVars
    <2>6. Len(nlog) <= Len(nlog') /\ ndrop <= ndrop'
      BY <2>1, <1>16, <1>0, <1>p DEF EndRecording, nodeVars
    <2> QED
      BY <2>0, <2>4, <2>5, <2>6
  <1>17. ASSUME NEW w \in Launches, WorkerDies(w) PROVE Goal
    <2>0. UNCHANGED <<scene, gateVars>>
      BY <1>17 DEF WorkerDies
    <2>1. UNCHANGED nlog
      BY <1>17 DEF WorkerDies
    <2>2. UNCHANGED node
      BY <1>17 DEF WorkerDies, nodeVars
    <2>3. sink' \in [Launches -> Sinks] /\ pipe' \in [Launches -> Nat]
      BY <1>17, <1>0, <1>p DEF WorkerDies, NodeTyped, Sinks
    <2>4. NodeTyped'
      BY <1>17, <1>0, <1>n, <2>0, <2>1, <2>2, <2>3 DEF WorkerDies, NodeTyped, LPCs, WPCs, Cmds
    <2>5. Bounded'
      <3>1. Load' <= scene.records
        <4>0. PICK k \in Nat, p \in Nat, h \in Nat : k = Len(nlog) /\ p = pipe[w] /\ h = sink[w].held
          BY <1>0, <1>p
        <4>1. /\ \A v \in Launches \ {w} : pipe'[v] = pipe[v] /\ sink'[v].held = sink[v].held
              /\ pipe'[w] = 0 /\ sink'[w].held = h
          BY <1>17, <4>0, <1>0, <1>p DEF WorkerDies, NodeTyped, Sinks
        <4>2. Len(nlog') = k
          BY <2>1, <4>0
        <4>3. k + 0 + h <= k + p + h
          OBVIOUS
        <4>4. Share(w)' <= Share(w)
          BY <4>0, <4>1, <4>2, <4>3 DEF Share
        <4>5. Len(nlog') \in Nat
          BY <4>2
        <4> QED
          BY <4>1, <4>2, <4>4, <4>5, <2>3, <1>0, Loads DEF Bounded
      <3> QED
        BY <3>1, <1>17, <1>0, <1>p, <2>0, <2>1 DEF WorkerDies, Bounded, NodeTyped
    <2>6. Len(nlog) <= Len(nlog') /\ ndrop <= ndrop'
      BY <2>1, <1>17, <1>0, <1>p DEF WorkerDies, nodeVars
    <2> QED
      BY <2>0, <2>4, <2>5, <2>6
  <1>18. ASSUME NEW w \in Launches, EngineStarts(w) PROVE Goal
    <2>0. UNCHANGED <<scene, gateVars>>
      BY <1>18 DEF EngineStarts
    <2>1. UNCHANGED nlog
      BY <1>18 DEF EngineStarts
    <2>2. UNCHANGED node
      BY <1>18 DEF EngineStarts, nodeVars
    <2>3. sink' \in [Launches -> Sinks] /\ pipe' \in [Launches -> Nat]
      BY <1>18, <1>0, <1>p DEF EngineStarts, Sink, NodeTyped, Sinks
    <2>4. NodeTyped'
      BY <1>18, <1>0, <1>n, <2>0, <2>1, <2>2, <2>3 DEF EngineStarts, Sink, NodeTyped, LPCs, WPCs,
         Cmds
    <2>5. Bounded'
      <3>1. Load' <= scene.records
        <4>0. PICK k \in Nat, p \in Nat, h \in Nat : k = Len(nlog) /\ p = pipe[w] /\ h = sink[w].held
          BY <1>0, <1>p
        <4>1. /\ \A v \in Launches \ {w} : pipe'[v] = pipe[v] /\ sink'[v].held = sink[v].held
              /\ pipe'[w] = p /\ sink'[w].held = 0
          BY <1>18, <4>0, <1>0, <1>p DEF EngineStarts, Sink, NodeTyped, Sinks
        <4>2. Len(nlog') = k
          BY <2>1, <4>0
        <4>3. k + p + 0 <= k + p + h
          OBVIOUS
        <4>4. Share(w)' <= Share(w)
          BY <4>0, <4>1, <4>2, <4>3 DEF Share
        <4>5. Len(nlog') \in Nat
          BY <4>2
        <4> QED
          BY <4>1, <4>2, <4>4, <4>5, <2>3, <1>0, Loads DEF Bounded
      <3> QED
        BY <3>1, <1>18, <1>0, <1>p, <2>0, <2>1 DEF EngineStarts, Bounded, NodeTyped
    <2>6. Len(nlog) <= Len(nlog') /\ ndrop <= ndrop'
      BY <2>1, <1>18, <1>0, <1>p DEF EngineStarts, nodeVars
    <2> QED
      BY <2>0, <2>4, <2>5, <2>6
  <1>19. ASSUME NEW w \in Launches, SinkReads(w) PROVE Goal
    <2>0. UNCHANGED <<scene, gateVars>>
      BY <1>19 DEF SinkReads
    <2>1. UNCHANGED nlog
      BY <1>19 DEF SinkReads
    <2>2. UNCHANGED node
      BY <1>19 DEF SinkReads, nodeVars
    <2>3. sink' \in [Launches -> Sinks] /\ pipe' \in [Launches -> Nat]
      BY <1>19, <1>0, <1>p DEF SinkReads, Sink, Room, NodeTyped, Sinks
    <2>4. NodeTyped'
      BY <1>19, <1>0, <1>n, <2>0, <2>1, <2>2, <2>3 DEF SinkReads, Sink, Room, NodeTyped, LPCs,
         WPCs, Cmds
    <2>5. Bounded'
      <3>1. Load' <= scene.records
        <4>0. PICK k \in Nat, p \in Nat, h \in Nat : k = Len(nlog) /\ p = pipe[w] /\ h = sink[w].held
          BY <1>0, <1>p
        <4>1. /\ \A v \in Launches \ {w} : pipe'[v] = pipe[v] /\ sink'[v].held = sink[v].held
              /\ pipe'[w] = p /\ sink'[w].held = (h + 1)
          BY <1>19, <4>0, <1>0, <1>p DEF SinkReads, Sink, NodeTyped, Sinks
        <4>2. Len(nlog') = k /\ Room
          BY <2>1, <4>0, <1>19 DEF SinkReads
        <4>3. k + p + (h + 1) <= k + p + h + 1
          OBVIOUS
        <4>4. Share(w)' <= Share(w) + 1
          BY <4>0, <4>1, <4>2, <4>3 DEF Share
        <4>5. Len(nlog') \in Nat
          BY <4>2
        <4> QED
          BY <4>1, <4>2, <4>4, <4>5, <2>3, <1>0, Loads DEF Bounded
      <3> QED
        BY <3>1, <1>19, <1>0, <1>p, <2>0, <2>1 DEF SinkReads, Bounded, NodeTyped
    <2>6. Len(nlog) <= Len(nlog') /\ ndrop <= ndrop'
      BY <2>1, <1>19, <1>0, <1>p DEF SinkReads, nodeVars
    <2> QED
      BY <2>0, <2>4, <2>5, <2>6
  <1>20. ASSUME NEW w \in Launches, SinkFlush(w) PROVE Goal
    <2>0. UNCHANGED <<scene, gateVars>>
      BY <1>20 DEF SinkFlush
    <2>1. nlog' \in Seq(Kinds) /\ Len(nlog') = Len(nlog) + sink[w].held
      <3>1. /\ nlog' = nlog \o EngineLines(sink[w].held) /\ EngineLines(sink[w].held) \in Seq(Kinds)
            /\ Len(EngineLines(sink[w].held)) = sink[w].held
        BY <1>20, <1>l, <1>p DEF SinkFlush
      <3>2. PICK L : L = EngineLines(sink[w].held) /\ L \in Seq(Kinds) /\ nlog' = nlog \o L
        BY <3>1
      <3>3. nlog \in Seq(Kinds)
        BY <1>0 DEF NodeTyped
      <3>4. nlog' \in Seq(Kinds) /\ Len(nlog') = Len(nlog) + Len(L)
        BY <3>2, <3>3, ConcatProperties
      <3> QED
        BY <3>1, <3>2, <3>4
    <2>2. UNCHANGED node
      BY <1>20 DEF SinkFlush, nodeVars
    <2>3. sink' \in [Launches -> Sinks] /\ pipe' \in [Launches -> Nat]
      BY <1>20, <1>0, <1>p DEF SinkFlush, Sink, EngineLines, NodeTyped, Sinks
    <2>4. NodeTyped'
      BY <1>20, <1>0, <1>n, <2>0, <2>1, <2>2, <2>3 DEF SinkFlush, Sink, EngineLines, NodeTyped,
         LPCs, WPCs, Cmds
    <2>5. Bounded'
      <3>1. Load' <= scene.records
        <4>0. PICK k \in Nat, p \in Nat, h \in Nat : k = Len(nlog) /\ p = pipe[w] /\ h = sink[w].held
          BY <1>0, <1>p
        <4>1. /\ \A v \in Launches \ {w} : pipe'[v] = pipe[v] /\ sink'[v].held = sink[v].held
              /\ pipe'[w] = p /\ sink'[w].held = 0
          BY SMTT(30), <1>20, <4>0, <1>0, <1>p DEF SinkFlush, Sink, EngineLines, NodeTyped, Sinks
        <4>2. Len(nlog') = k + h
          BY <2>1, <4>0
        <4>3. (k + h) + p + 0 <= k + p + h
          OBVIOUS
        <4>4. Share(w)' <= Share(w)
          BY <4>0, <4>1, <4>2, <4>3 DEF Share
        <4>5. Len(nlog') \in Nat
          BY <4>2
        <4> QED
          BY <4>1, <4>2, <4>4, <4>5, <2>3, <1>0, Loads DEF Bounded
      <3> QED
        BY <3>1, <1>20, <1>0, <1>p, <2>0, <2>1 DEF SinkFlush, Bounded, NodeTyped
    <2>6. Len(nlog) <= Len(nlog') /\ ndrop <= ndrop'
      BY <2>1, <1>20, <1>0, <1>p DEF SinkFlush, nodeVars
    <2> QED
      BY <2>0, <2>4, <2>5, <2>6
  <1>21. ASSUME NEW w \in Launches, SinkFails(w) PROVE Goal
    <2>0. UNCHANGED <<scene, gateVars>>
      BY <1>21 DEF SinkFails
    <2>1. UNCHANGED nlog
      BY <1>21 DEF SinkFails
    <2>2. UNCHANGED node
      BY <1>21 DEF SinkFails, nodeVars
    <2>3. sink' \in [Launches -> Sinks] /\ pipe' \in [Launches -> Nat]
      BY <1>21, <1>0, <1>p DEF SinkFails, Sink, NodeTyped, Sinks
    <2>4. NodeTyped'
      BY <1>21, <1>0, <1>n, <2>0, <2>1, <2>2, <2>3 DEF SinkFails, Sink, NodeTyped, LPCs, WPCs, Cmds
    <2>5. Bounded'
      <3>1. Load' <= scene.records
        <4>0. PICK k \in Nat, p \in Nat, h \in Nat : k = Len(nlog) /\ p = pipe[w] /\ h = sink[w].held
          BY <1>0, <1>p
        <4>1. /\ \A v \in Launches \ {w} : pipe'[v] = pipe[v] /\ sink'[v].held = sink[v].held
              /\ pipe'[w] = p /\ sink'[w].held = 0
          BY <1>21, <4>0, <1>0, <1>p DEF SinkFails, Sink, NodeTyped, Sinks
        <4>2. Len(nlog') = k
          BY <2>1, <4>0
        <4>3. k + p + 0 <= k + p + h
          OBVIOUS
        <4>4. Share(w)' <= Share(w)
          BY <4>0, <4>1, <4>2, <4>3 DEF Share
        <4>5. Len(nlog') \in Nat
          BY <4>2
        <4> QED
          BY <4>1, <4>2, <4>4, <4>5, <2>3, <1>0, Loads DEF Bounded
      <3> QED
        BY <3>1, <1>21, <1>0, <1>p, <2>0, <2>1 DEF SinkFails, Bounded, NodeTyped
    <2>6. Len(nlog) <= Len(nlog') /\ ndrop <= ndrop'
      BY <2>1, <1>21, <1>0, <1>p DEF SinkFails, nodeVars
    <2> QED
      BY <2>0, <2>4, <2>5, <2>6
  <1>22. ASSUME NEW w \in Launches, SinkCloses(w) PROVE Goal
    <2>0. UNCHANGED <<scene, gateVars>>
      BY <1>22 DEF SinkCloses
    <2>1. UNCHANGED nlog
      BY <1>22 DEF SinkCloses
    <2>2. node' \in Nodes
      BY <1>22, <1>e, PhaseOps, PhaseType DEF SinkCloses, Sink
    <2>3. sink' \in [Launches -> Sinks] /\ pipe' \in [Launches -> Nat]
      BY <1>22, <1>0, <1>p DEF SinkCloses, Sink, Phase, NodeTyped, Sinks
    <2>4. NodeTyped'
      BY <1>22, <1>0, <1>n, <2>0, <2>1, <2>2, <2>3 DEF SinkCloses, Sink, NodeTyped, LPCs, WPCs, Cmds
    <2>5. Bounded'
      <3>1. Load' <= scene.records
        <4>0. PICK k \in Nat, p \in Nat, h \in Nat : k = Len(nlog) /\ p = pipe[w] /\ h = sink[w].held
          BY <1>0, <1>p
        <4>1. /\ \A v \in Launches \ {w} : pipe'[v] = pipe[v] /\ sink'[v].held = sink[v].held
              /\ pipe'[w] = p /\ sink'[w].held = 0
          BY <1>22, <4>0, <1>0, <1>p DEF SinkCloses, Sink, Phase, NodeTyped, Sinks
        <4>2. Len(nlog') = k
          BY <2>1, <4>0
        <4>3. k + p + 0 <= k + p + h
          OBVIOUS
        <4>4. Share(w)' <= Share(w)
          BY <4>0, <4>1, <4>2, <4>3 DEF Share
        <4>5. Len(nlog') \in Nat
          BY <4>2
        <4> QED
          BY <4>1, <4>2, <4>4, <4>5, <2>3, <1>0, Loads DEF Bounded
      <3> QED
        BY <3>1, <1>22, <1>0, <1>p, <2>0, <2>1 DEF SinkCloses, Bounded, NodeTyped
    <2>6. Len(nlog) <= Len(nlog') /\ ndrop <= ndrop'
      BY <2>1, <1>22, <1>0, <1>p DEF SinkCloses, nodeVars
    <2> QED
      BY <2>0, <2>4, <2>5, <2>6
  <1>23. ASSUME NEW w \in Launches, EngineEnds(w) PROVE Goal
    <2>0. UNCHANGED <<scene, gateVars>>
      BY <1>23 DEF EngineEnds
    <2>1. UNCHANGED nlog
      BY <1>23 DEF EngineEnds
    <2>2. UNCHANGED node
      BY <1>23 DEF EngineEnds, nodeVars
    <2>3. sink' \in [Launches -> Sinks] /\ pipe' \in [Launches -> Nat]
      BY <1>23, <1>0, <1>p DEF EngineEnds, Killed, NodeTyped, Sinks
    <2>4. NodeTyped'
      BY <1>23, <1>0, <1>n, <2>0, <2>1, <2>2, <2>3 DEF EngineEnds, Killed, NodeTyped, LPCs, WPCs,
         Cmds
    <2>5. Bounded'
      <3>1. Load' <= scene.records
        <4>0. PICK k \in Nat, p \in Nat, h \in Nat : k = Len(nlog) /\ p = pipe[w] /\ h = sink[w].held
          BY <1>0, <1>p
        <4>1. /\ \A v \in Launches \ {w} : pipe'[v] = pipe[v] /\ sink'[v].held = sink[v].held
              /\ pipe'[w] = p /\ sink'[w].held = 0
          BY <1>23, <4>0, <1>0, <1>p DEF EngineEnds, Killed, NodeTyped, Sinks
        <4>2. Len(nlog') = k
          BY <2>1, <4>0
        <4>3. k + p + 0 <= k + p + h
          OBVIOUS
        <4>4. Share(w)' <= Share(w)
          BY <4>0, <4>1, <4>2, <4>3 DEF Share
        <4>5. Len(nlog') \in Nat
          BY <4>2
        <4> QED
          BY <4>1, <4>2, <4>4, <4>5, <2>3, <1>0, Loads DEF Bounded
      <3> QED
        BY <3>1, <1>23, <1>0, <1>p, <2>0, <2>1 DEF EngineEnds, Bounded, NodeTyped
    <2>6. Len(nlog) <= Len(nlog') /\ ndrop <= ndrop'
      BY <2>1, <1>23, <1>0, <1>p DEF EngineEnds, nodeVars
    <2> QED
      BY <2>0, <2>4, <2>5, <2>6
  <1>24. CASE Reboot
    <2>0. UNCHANGED <<scene, gateVars>>
      BY <1>24 DEF Reboot
    <2>1. UNCHANGED nlog
      BY <1>24 DEF Reboot
    <2>2. UNCHANGED node
      BY <1>24 DEF Reboot, nodeVars
    <2>3. sink' \in [Launches -> Sinks] /\ pipe' \in [Launches -> Nat]
      BY <1>24, <1>0, <1>p DEF Reboot, NoSink, Killed, NodeTyped, Sinks
    <2>4. NodeTyped'
      BY <1>24, <1>0, <1>n, <2>0, <2>1, <2>2, <2>3 DEF Reboot, NoSink, Killed, NodeTyped, LPCs,
         WPCs, Cmds
    <2>5. Bounded'
      BY SMTT(30), <1>24, <1>0, <1>p, <2>0, <2>1 DEF Reboot, NoSink, Killed, NodeTyped, Bounded,
         Load, nodeVars
    <2>6. Len(nlog) <= Len(nlog') /\ ndrop <= ndrop'
      BY <2>1, <1>24, <1>0, <1>p DEF Reboot, nodeVars
    <2> QED
      BY <2>0, <2>4, <2>5, <2>6
  <1>25. CASE Rotate
    <2>0. UNCHANGED <<scene, gateVars>>
      BY <1>25 DEF Rotate
    <2>1. UNCHANGED nlog
      BY <1>25 DEF Rotate
    <2>2. UNCHANGED node
      BY <1>25 DEF Rotate, nodeVars
    <2>3. sink' \in [Launches -> Sinks] /\ pipe' \in [Launches -> Nat]
      BY <1>25, <1>0, <1>p DEF Rotate, Smaller, NodeTyped, Sinks
    <2>4. NodeTyped'
      BY <1>25, <1>0, <1>n, <2>0, <2>1, <2>2, <2>3 DEF Rotate, Smaller, NodeTyped, LPCs, WPCs, Cmds
    <2>5. Bounded'
      BY SMTT(30), <1>25, <1>0, <1>p, <2>0, <2>1 DEF Rotate, Smaller, NodeTyped, Bounded, Load,
         nodeVars
    <2>6. Len(nlog) <= Len(nlog') /\ ndrop <= ndrop'
      BY <2>1, <1>25, <1>0, <1>p DEF Rotate, nodeVars
    <2> QED
      BY <2>0, <2>4, <2>5, <2>6
  <1>26. CASE ProbeReads
    <2>0. UNCHANGED <<scene, gateVars>>
      BY <1>26 DEF ProbeReads
    <2>1. UNCHANGED nlog
      BY <1>26 DEF ProbeReads, nodeVars
    <2>2. UNCHANGED node
      BY <1>26 DEF ProbeReads, nodeVars
    <2>3. sink' \in [Launches -> Sinks] /\ pipe' \in [Launches -> Nat]
      BY <1>26, <1>0, <1>p DEF ProbeReads, nodeVars, NodeTyped, Sinks
    <2>4. NodeTyped'
      BY <1>26, <1>0, <1>n, <2>0, <2>1, <2>2, <2>3 DEF ProbeReads, nodeVars, Phases, Nodes,
         NodeTyped, LPCs, WPCs, Cmds
    <2>5. Bounded'
      BY <1>26, <1>0, <1>p, <2>0, <2>1 DEF ProbeReads, nodeVars, NodeTyped, Bounded, Load, nodeVars
    <2>6. Len(nlog) <= Len(nlog') /\ ndrop <= ndrop'
      BY <2>1, <1>26, <1>0, <1>p DEF ProbeReads, nodeVars
    <2> QED
      BY <2>0, <2>4, <2>5, <2>6
  <1>27. CASE ProbeCloses
    <2>0. UNCHANGED <<scene, gateVars>>
      BY <1>27 DEF ProbeCloses
    <2>1. UNCHANGED nlog
      BY <1>27 DEF ProbeCloses
    <2>2. node' \in Nodes
      BY <1>27, <1>e, PhaseOps, PhaseType DEF ProbeCloses
    <2>3. sink' \in [Launches -> Sinks] /\ pipe' \in [Launches -> Nat]
      BY <1>27, <1>0, <1>p DEF ProbeCloses, Phase, NodeTyped, Sinks
    <2>4. NodeTyped'
      BY <1>27, <1>0, <1>n, <2>0, <2>1, <2>2, <2>3 DEF ProbeCloses, NodeTyped, LPCs, WPCs, Cmds
    <2>5. Bounded'
      BY <1>27, <1>0, <1>p, <2>0, <2>1 DEF ProbeCloses, Phase, NodeTyped, Bounded, Load, nodeVars
    <2>6. Len(nlog) <= Len(nlog') /\ ndrop <= ndrop'
      BY <2>1, <1>27, <1>0, <1>p DEF ProbeCloses, nodeVars
    <2> QED
      BY <2>0, <2>4, <2>5, <2>6
  <1> QED
    BY <1>1, <1>2, <1>3, <1>4, <1>5, <1>6, <1>7, <1>8, <1>9, <1>10, <1>11, <1>12, <1>13, <1>14,
       <1>15, <1>16, <1>17, <1>18, <1>19, <1>20, <1>21, <1>22, <1>23, <1>24, <1>25, <1>26, <1>27
       DEF NodeStep, LaunchStep, WorkerStep, SinkStep

\* A step of the gateway that stores no page keeps what it has stored, if what it asks for
\* next begins at or below the cursor.
LEMMA AskFrame ==
    ASSUME Inv, UNCHANGED <<scene, nlog, ndrop, wpc, cmd, pipe, sink, probe, gate>>,
           lpc' \in [Launches -> LPCs], node' \in Nodes, faults' \in Nat, faults' <= scene.faults,
           \A c \in Collectors : \/ col'[c] = col[c]
                                 \/ col'[c].pc \notin Ingesting /\ col'[c].page.lo <= gate.cursor,
           run'.off <= Len(gate.log), run'.pc = "decide" => col'[Own].pc = "idle",
           GateTyped'
    PROVE  Inv'
  <1>1. NodeTyped'
    BY DEF Inv, NodeTyped
  <1>2. Bounded'
    BY DEF Inv, Bounded, Load
  <1>3. Paged'
    BY DEF Inv, Paged, PageOK, Ingesting
  <1>4. LogOK'
    BY DEF Inv, LogOK
  <1> QED
    BY <1>1, <1>2, <1>3, <1>4 DEF Inv

\* A page that is asked for is well typed, and begins at the cursor.
LEMMA AskType ==
    ASSUME NEW n \in Nat
    PROVE  /\ Ask(n) \in Pages /\ Ask(n).lo = n
           /\ NoPage \in Pages /\ NoPage.lo = 0
  <1>1. None \in Phases
    BY DEF None, Phases, Statuses, Launches
  <1>2. Seen(None) \in Copies
    BY <1>1 DEF Copies
  <1> QED
    BY <1>2 DEF Ask, NoPage, Pages

\* A step of the gateway that stores no page, and takes none
GateStep ==
    \/ \E c \in Collectors : Acquire(c) \/ Fails(c) \/ Collected(c) \/ Deadline(c)
    \/ ApiCollect \/ AskToStop
    \/ Begin \/ LaunchLost \/ Unanswered \/ CollectFailed \/ Parse \/ Decide \/ Cancel \/ Crash

\* ... keeps the invariant.
LEMMA GateStepOK == ASSUME Inv, GateStep PROVE Inv'
  <1>0. /\ gate \in Gates /\ gate.cursor \in Nat /\ Len(gate.log) \in Nat /\ run \in Runs
        /\ run.off \in Nat /\ run.off <= Len(gate.log)
        /\ col \in [Collectors -> [pc : CPCs, page : Pages]]
        /\ lock \in Collectors \cup {"free"}
        /\ lpc \in [Launches -> LPCs] /\ node \in Nodes
        /\ faults \in Nat /\ scene.faults \in Nat /\ faults <= scene.faults
    BY DEF Inv, GateTyped, NodeTyped, Gates, Runs, Paged, Bounded, Scenario
  <1>1. /\ \A c \in Collectors : col[c].pc \notin Ingesting => col[c].page.lo <= gate.cursor
        /\ run.pc = "decide" => col[Own].pc = "idle"
    BY DEF Inv, Paged, PageOK
  <1>2. /\ Ask(gate.cursor) \in Pages /\ Ask(gate.cursor).lo = gate.cursor
        /\ NoPage \in Pages /\ NoPage.lo = 0
    BY <1>0, AskType
  <1> USE DEF Collectors, Own, Api, Closing
  <1>3. ASSUME NEW c \in Collectors, Acquire(c) PROVE Inv'
    <2>1. UNCHANGED <<scene, nlog, ndrop, wpc, cmd, pipe, sink, probe, gate>>
      BY <1>3 DEF Acquire, nodeVars
    <2>2. lpc' \in [Launches -> LPCs] /\ node' \in Nodes /\ faults' \in Nat /\ faults' <= scene.faults
      BY <1>3, <1>0 DEF Acquire, nodeVars, LPCs, Launches, Nodes
    <2>3. GateTyped'
      BY <1>3, <1>0, <1>2, <2>1 DEF Acquire, GateTyped, CPCs, Ingesting, Runs, RPCs, Results,
         Launches
    <2>4. \A k \in Collectors : col'[k] = col[k] \/ (col'[k].pc \notin Ingesting /\ col'[k].page.lo <= gate.cursor)
      BY <1>3, <1>0, <1>1, <1>2 DEF Acquire, Ingesting
    <2>5. run'.off <= Len(gate.log) /\ (run'.pc = "decide" => col'[Own].pc = "idle")
      BY <1>3, <1>0, <1>1 DEF Acquire, Runs
    <2> QED
      BY <2>1, <2>2, <2>3, <2>4, <2>5, AskFrame
  <1>4. ASSUME NEW c \in Collectors, Fails(c) PROVE Inv'
    <2>1. UNCHANGED <<scene, nlog, ndrop, wpc, cmd, pipe, sink, probe, gate>>
      BY <1>4 DEF Fails, nodeVars
    <2>2. lpc' \in [Launches -> LPCs] /\ node' \in Nodes /\ faults' \in Nat /\ faults' <= scene.faults
      BY <1>4, <1>0 DEF Fails, nodeVars, LPCs, Launches, Nodes
    <2>3. GateTyped'
      BY <1>4, <1>0, <1>2, <2>1 DEF Fails, Move, Free, GateTyped, CPCs, Ingesting, Runs, RPCs,
         Results, Launches
    <2>4. \A k \in Collectors : col'[k] = col[k] \/ (col'[k].pc \notin Ingesting /\ col'[k].page.lo <= gate.cursor)
      BY <1>4, <1>0, <1>1, <1>2 DEF Fails, Move, Free, Ingesting
    <2>5. run'.off <= Len(gate.log) /\ (run'.pc = "decide" => col'[Own].pc = "idle")
      BY <1>4, <1>0, <1>1 DEF Fails, Move, Free, Runs
    <2> QED
      BY <2>1, <2>2, <2>3, <2>4, <2>5, AskFrame
  <1>5. ASSUME NEW c \in Collectors, Collected(c) PROVE Inv'
    <2>1. UNCHANGED <<scene, nlog, ndrop, wpc, cmd, pipe, sink, probe, gate>>
      BY <1>5 DEF Collected, nodeVars
    <2>2. lpc' \in [Launches -> LPCs] /\ node' \in Nodes /\ faults' \in Nat /\ faults' <= scene.faults
      BY <1>5, <1>0 DEF Collected, nodeVars, LPCs, Launches, Nodes
    <2>3. GateTyped'
      BY <1>5, <1>0, <1>2, <2>1 DEF Collected, Move, GateTyped, CPCs, Ingesting, Runs, RPCs,
         Results, Launches
    <2>4. \A k \in Collectors : col'[k] = col[k] \/ (col'[k].pc \notin Ingesting /\ col'[k].page.lo <= gate.cursor)
      BY <1>5, <1>0, <1>1, <1>2 DEF Collected, Move, Ingesting
    <2>5. run'.off <= Len(gate.log) /\ (run'.pc = "decide" => col'[Own].pc = "idle")
      BY <1>5, <1>0, <1>1 DEF Collected, Move, Runs
    <2> QED
      BY <2>1, <2>2, <2>3, <2>4, <2>5, AskFrame
  <1>6. ASSUME NEW c \in Collectors, Deadline(c) PROVE Inv'
    <2>1. UNCHANGED <<scene, nlog, ndrop, wpc, cmd, pipe, sink, probe, gate>>
      BY <1>6 DEF Deadline, nodeVars
    <2>2. lpc' \in [Launches -> LPCs] /\ node' \in Nodes /\ faults' \in Nat /\ faults' <= scene.faults
      BY <1>6, <1>0 DEF Deadline, nodeVars, LPCs, Launches, Nodes
    <2>3. GateTyped'
      BY <1>6, <1>0, <1>2, <2>1 DEF Deadline, Move, Free, GateTyped, CPCs, Ingesting, Runs, RPCs,
         Results, Launches
    <2>4. \A k \in Collectors : col'[k] = col[k] \/ (col'[k].pc \notin Ingesting /\ col'[k].page.lo <= gate.cursor)
      BY <1>6, <1>0, <1>1, <1>2 DEF Deadline, Move, Free, Ingesting
    <2>5. run'.off <= Len(gate.log) /\ (run'.pc = "decide" => col'[Own].pc = "idle")
      BY <1>6, <1>0, <1>1 DEF Deadline, Move, Free, Runs
    <2> QED
      BY <2>1, <2>2, <2>3, <2>4, <2>5, AskFrame
  <1>7. CASE ApiCollect
    <2>1. UNCHANGED <<scene, nlog, ndrop, wpc, cmd, pipe, sink, probe, gate>>
      BY <1>7 DEF ApiCollect, nodeVars
    <2>2. lpc' \in [Launches -> LPCs] /\ node' \in Nodes /\ faults' \in Nat /\ faults' <= scene.faults
      BY <1>7, <1>0 DEF ApiCollect, nodeVars, LPCs, Launches, Nodes
    <2>3. GateTyped'
      BY <1>7, <1>0, <1>2, <2>1 DEF ApiCollect, Move, GateTyped, CPCs, Ingesting, Runs, RPCs,
         Results, Launches
    <2>4. \A k \in Collectors : col'[k] = col[k] \/ (col'[k].pc \notin Ingesting /\ col'[k].page.lo <= gate.cursor)
      BY <1>7, <1>0, <1>1, <1>2 DEF ApiCollect, Move, Ingesting
    <2>5. run'.off <= Len(gate.log) /\ (run'.pc = "decide" => col'[Own].pc = "idle")
      BY <1>7, <1>0, <1>1 DEF ApiCollect, Move, Runs
    <2> QED
      BY <2>1, <2>2, <2>3, <2>4, <2>5, AskFrame
  <1>8. CASE AskToStop
    <2>1. UNCHANGED <<scene, nlog, ndrop, wpc, cmd, pipe, sink, probe, gate>>
      BY <1>8 DEF AskToStop, nodeVars
    <2>2. lpc' \in [Launches -> LPCs] /\ node' \in Nodes /\ faults' \in Nat /\ faults' <= scene.faults
      BY <1>8, <1>0 DEF AskToStop, nodeVars, LPCs, Launches, Nodes
    <2>3. GateTyped'
      BY <1>8, <1>0, <1>2, <2>1 DEF AskToStop, Move, GateTyped, CPCs, Ingesting, Runs, RPCs,
         Results, Launches
    <2>4. \A k \in Collectors : col'[k] = col[k] \/ (col'[k].pc \notin Ingesting /\ col'[k].page.lo <= gate.cursor)
      BY <1>8, <1>0, <1>1, <1>2 DEF AskToStop, Move, Ingesting
    <2>5. run'.off <= Len(gate.log) /\ (run'.pc = "decide" => col'[Own].pc = "idle")
      BY <1>8, <1>0, <1>1 DEF AskToStop, Move, Runs
    <2> QED
      BY <2>1, <2>2, <2>3, <2>4, <2>5, AskFrame
  <1>9. CASE Begin
    <2>1. UNCHANGED <<scene, nlog, ndrop, wpc, cmd, pipe, sink, probe, gate>>
      BY <1>9 DEF Begin, nodeVars
    <2>2. lpc' \in [Launches -> LPCs] /\ node' \in Nodes /\ faults' \in Nat /\ faults' <= scene.faults
      BY <1>9, <1>0 DEF Begin, nodeVars, LPCs, Launches, Nodes
    <2>3. GateTyped'
      BY <1>9, <1>0, <1>2, <2>1 DEF Begin, GateTyped, CPCs, Ingesting, Runs, RPCs, Results, Launches
    <2>4. \A k \in Collectors : col'[k] = col[k] \/ (col'[k].pc \notin Ingesting /\ col'[k].page.lo <= gate.cursor)
      BY <1>9, <1>0, <1>1, <1>2 DEF Begin, Ingesting
    <2>5. run'.off <= Len(gate.log) /\ (run'.pc = "decide" => col'[Own].pc = "idle")
      BY <1>9, <1>0, <1>1 DEF Begin, Runs
    <2> QED
      BY <2>1, <2>2, <2>3, <2>4, <2>5, AskFrame
  <1>10. CASE LaunchLost
    <2>1. UNCHANGED <<scene, nlog, ndrop, wpc, cmd, pipe, sink, probe, gate>>
      BY <1>10 DEF LaunchLost, nodeVars
    <2>2. lpc' \in [Launches -> LPCs] /\ node' \in Nodes /\ faults' \in Nat /\ faults' <= scene.faults
      BY <1>10, <1>0 DEF LaunchLost, nodeVars, LPCs, Launches, Nodes
    <2>3. GateTyped'
      BY <1>10, <1>0, <1>2, <2>1 DEF LaunchLost, Move, GateTyped, CPCs, Ingesting, Runs, RPCs,
         Results, Launches
    <2>4. \A k \in Collectors : col'[k] = col[k] \/ (col'[k].pc \notin Ingesting /\ col'[k].page.lo <= gate.cursor)
      BY <1>10, <1>0, <1>1, <1>2 DEF LaunchLost, Move, Ingesting
    <2>5. run'.off <= Len(gate.log) /\ (run'.pc = "decide" => col'[Own].pc = "idle")
      BY <1>10, <1>0, <1>1 DEF LaunchLost, Move, Runs
    <2> QED
      BY <2>1, <2>2, <2>3, <2>4, <2>5, AskFrame
  <1>11. CASE Unanswered
    <2>1. UNCHANGED <<scene, nlog, ndrop, wpc, cmd, pipe, sink, probe, gate>>
      BY <1>11 DEF Unanswered, nodeVars
    <2>2. lpc' \in [Launches -> LPCs] /\ node' \in Nodes /\ faults' \in Nat /\ faults' <= scene.faults
      BY <1>11, <1>0 DEF Unanswered, nodeVars, LPCs, Launches, Nodes
    <2>3. GateTyped'
      BY ZenonT(60), <1>11, <1>0, <1>2, <2>1 DEF Unanswered, Move, GateTyped, CPCs, Ingesting,
         Runs, RPCs, Results, Launches
    <2>4. \A k \in Collectors : col'[k] = col[k] \/ (col'[k].pc \notin Ingesting /\ col'[k].page.lo <= gate.cursor)
      BY <1>11, <1>0, <1>1, <1>2 DEF Unanswered, Move, Ingesting
    <2>5. run'.off <= Len(gate.log) /\ (run'.pc = "decide" => col'[Own].pc = "idle")
      BY <1>11, <1>0, <1>1 DEF Unanswered, Move, Runs
    <2> QED
      BY <2>1, <2>2, <2>3, <2>4, <2>5, AskFrame
  <1>12. ASSUME Resend PROVE Inv'
    <2>1. UNCHANGED <<scene, nlog, ndrop, wpc, cmd, pipe, sink, probe, gate>>
      BY <1>12 DEF Resend, nodeVars
    <2>2. lpc' \in [Launches -> LPCs] /\ node' \in Nodes /\ faults' \in Nat /\ faults' <= scene.faults
      BY <1>12, <1>0 DEF Resend, nodeVars, LPCs, Launches, Nodes
    <2>3. GateTyped'
      BY <1>12, <1>0, <1>2, <2>1 DEF Resend, GateTyped, CPCs, Ingesting, Runs, RPCs, Results,
         Launches
    <2>4. \A k \in Collectors : col'[k] = col[k] \/ (col'[k].pc \notin Ingesting /\ col'[k].page.lo <= gate.cursor)
      BY <1>12, <1>0, <1>1, <1>2 DEF Resend, Ingesting
    <2>5. run'.off <= Len(gate.log) /\ (run'.pc = "decide" => col'[Own].pc = "idle")
      BY <1>12, <1>0, <1>1 DEF Resend, Runs
    <2> QED
      BY <2>1, <2>2, <2>3, <2>4, <2>5, AskFrame
  <1>13. ASSUME Collect, col[Own].pc \notin Ingesting PROVE Inv'
    <2>1. UNCHANGED <<scene, nlog, ndrop, wpc, cmd, pipe, sink, probe, gate>>
      BY <1>13 DEF Collect, nodeVars
    <2>2. lpc' \in [Launches -> LPCs] /\ node' \in Nodes /\ faults' \in Nat /\ faults' <= scene.faults
      BY <1>13, <1>0 DEF Collect, nodeVars, LPCs, Launches, Nodes
    <2>3. GateTyped'
      BY <1>13, <1>0, <1>2, <2>1 DEF Collect, Move, GateTyped, CPCs, Ingesting, Runs, RPCs,
         Results, Launches
    <2>4. \A k \in Collectors : col'[k] = col[k] \/ (col'[k].pc \notin Ingesting /\ col'[k].page.lo <= gate.cursor)
      BY <1>13, <1>0, <1>1, <1>2 DEF Collect, Move, Ingesting
    <2>5. run'.off <= Len(gate.log) /\ (run'.pc = "decide" => col'[Own].pc = "idle")
      BY <1>13, <1>0, <1>1 DEF Collect, Move, Runs
    <2> QED
      BY <2>1, <2>2, <2>3, <2>4, <2>5, AskFrame
  <1>14. ASSUME NEW r \in Results, Return(r) PROVE Inv'
    <2>1. UNCHANGED <<scene, nlog, ndrop, wpc, cmd, pipe, sink, probe, gate>>
      BY <1>14 DEF Return, nodeVars
    <2>2. lpc' \in [Launches -> LPCs] /\ node' \in Nodes /\ faults' \in Nat /\ faults' <= scene.faults
      BY <1>14, <1>0 DEF Return, nodeVars, LPCs, Launches, Nodes
    <2>3. GateTyped'
      BY <1>14, <1>0, <1>2, <2>1 DEF Return, Free, GateTyped, CPCs, Ingesting, Runs, RPCs,
         Results, Launches
    <2>4. \A k \in Collectors : col'[k] = col[k] \/ (col'[k].pc \notin Ingesting /\ col'[k].page.lo <= gate.cursor)
      BY <1>14, <1>0, <1>1, <1>2 DEF Return, Free, Ingesting
    <2>5. run'.off <= Len(gate.log) /\ (run'.pc = "decide" => col'[Own].pc = "idle")
      BY <1>14, <1>0, <1>1 DEF Return, Free, Runs
    <2> QED
      BY <2>1, <2>2, <2>3, <2>4, <2>5, AskFrame
  <1>15. CASE Parse
    <2>1. UNCHANGED <<scene, nlog, ndrop, wpc, cmd, pipe, sink, probe, gate>>
      BY <1>15 DEF Parse, nodeVars
    <2>2. lpc' \in [Launches -> LPCs] /\ node' \in Nodes /\ faults' \in Nat /\ faults' <= scene.faults
      BY <1>15, <1>0 DEF Parse, nodeVars, LPCs, Launches, Nodes
    <2>a. PICK last \in Nat : last = Smaller(Len(gate.log), run.off + ParseLimit) /\ last <= Len(gate.log)
      <3>1. ParseLimit \in Nat
        BY AttemptsAssumption
      <3> QED
        BY <3>1, <1>0 DEF Smaller
    <2>b. run' = [run EXCEPT !.pc = "decide", !.off = last, !.fresh = last > run.off]
      BY <1>15, <2>a DEF Parse
    <2>c. PICK fresh \in BOOLEAN : run' = [run EXCEPT !.pc = "decide", !.off = last, !.fresh = fresh]
      <3>1. CASE last > run.off
        <4>1. (last > run.off) = TRUE
          BY <3>1
        <4> QED
          BY <4>1, <2>b
      <3>2. CASE ~(last > run.off)
        <4>1. (last > run.off) = FALSE
          BY <3>2
        <4> QED
          BY <4>1, <2>b
      <3> QED
        BY <3>1, <3>2
    <2>d. run' \in Runs /\ run'.off = last
      BY <2>c, <1>0 DEF Runs, RPCs
    <2>3. GateTyped'
      BY <1>15, <1>0, <1>2, <2>1, <2>d DEF Parse, Move, GateTyped, CPCs, Ingesting
    <2>4. \A k \in Collectors : col'[k] = col[k] \/ (col'[k].pc \notin Ingesting /\ col'[k].page.lo <= gate.cursor)
      BY <1>15, <1>0, <1>1, <1>2 DEF Parse, Move, Smaller, Ingesting
    <2>5. run'.off <= Len(gate.log) /\ (run'.pc = "decide" => col'[Own].pc = "idle")
      BY <1>15, <1>0, <1>1, <2>a, <2>d DEF Parse, Move
    <2> QED
      BY <2>1, <2>2, <2>3, <2>4, <2>5, AskFrame
  <1>16. CASE Crash
    <2>1. UNCHANGED <<scene, nlog, ndrop, wpc, cmd, pipe, sink, probe, gate>>
      BY <1>16 DEF Crash, nodeVars
    <2>2. lpc' \in [Launches -> LPCs] /\ node' \in Nodes /\ faults' \in Nat /\ faults' <= scene.faults
      BY <1>16, <1>0 DEF Crash, nodeVars, LPCs, Launches, Nodes
    <2>3. GateTyped'
      BY <1>16, <1>0, <1>2, <2>1 DEF Crash, GateTyped, CPCs, Ingesting, Runs, RPCs, Results,
         Launches
    <2>4. \A k \in Collectors : col'[k] = col[k] \/ (col'[k].pc \notin Ingesting /\ col'[k].page.lo <= gate.cursor)
      BY <1>16, <1>0, <1>1, <1>2 DEF Crash, Ingesting
    <2>5. run'.off <= Len(gate.log) /\ (run'.pc = "decide" => col'[Own].pc = "idle")
      BY <1>16, <1>0, <1>1 DEF Crash, Runs
    <2> QED
      BY <2>1, <2>2, <2>3, <2>4, <2>5, AskFrame
  <1>17. CASE CollectFailed \/ Decide \/ Cancel
    BY <1>17, <1>1, <1>12, <1>13, <1>14 DEF CollectFailed, Decide, Cancel, Results, Ingesting
  <1> QED
    BY <1>3, <1>4, <1>5, <1>6, <1>7, <1>8, <1>9, <1>10, <1>11, <1>15, <1>16, <1>17 DEF GateStep

\* Another collector's pages stay right while the cursor and the dropped records grow.
LEMMA OtherPages ==
    ASSUME Inv, NEW c \in Collectors,
           \A k \in Collectors \ {c} : col'[k] = col[k],
           gate' \in Gates, gate.cursor <= gate'.cursor, gate'.cursor <= Len(nlog'),
           Len(gate.log) <= Len(gate'.log),
           nlog' = nlog, ndrop' \in Nat, ndrop <= ndrop', run' = run,
           run.pc = "decide" => col'[Own].pc = "idle",
           PageOK(c)'
    PROVE  Paged'
  <1>1. /\ Len(nlog) \in Nat /\ ndrop \in Nat /\ gate.cursor \in Nat /\ gate'.cursor \in Nat
        /\ run.off \in Nat /\ Len(gate.log) \in Nat /\ Len(gate'.log) \in Nat
        /\ \A k \in Collectors : col[k].page.lo \in Nat /\ col[k].page.next \in Nat
    BY SMTT(30) DEF Inv, NodeTyped, GateTyped, Gates, Pages, Runs
  <1>2. ASSUME NEW k \in Collectors \ {c} PROVE PageOK(k)'
    <2>1. PageOK(k) /\ col'[k] = col[k]
      BY DEF Inv, Paged
    <2>2. PICK lo \in Nat, next \in Nat : lo = col[k].page.lo /\ next = col[k].page.next
      BY <1>1
    <2>3. /\ lo <= gate.cursor => lo <= gate'.cursor
          /\ next <= gate.cursor => next <= gate'.cursor
          /\ lo <= ndrop => lo <= ndrop'
          /\ next <= ndrop => next <= ndrop'
      BY <1>1
    <2> QED
      BY <2>1, <2>2, <2>3 DEF PageOK
  <1>3. \A k \in Collectors : PageOK(k)'
    BY <1>2
  <1> QED
    BY <1>1, <1>3 DEF Inv, Paged

\* An answered page continues the gateway's log, but for what the node has dropped.
LEMMA AnswerOK ==
    ASSUME Inv, NEW c \in Collectors, Answer(c)
    PROVE  Inv'
  <1>1. PICK d \in ndrop..Smaller(scene.drops, Len(nlog)) :
           LET lo == Larger(col[c].page.lo, d)
               hi == Smaller(Len(nlog), lo + PageLimit)
           IN  /\ ndrop' = d
               /\ col' = [col EXCEPT ![c] = [pc |-> "append",
                            page |-> [next |-> Len(nlog), ph |-> Seen(node.ph), lo |-> lo, hi |-> hi,
                                      more |-> hi < Len(nlog)]]]
    BY DEF Answer
  <1>2. /\ Len(nlog) \in Nat /\ ndrop \in Nat /\ ndrop <= Len(nlog) /\ scene.drops \in Nat
        /\ PageLimit \in Nat
        /\ gate \in Gates /\ gate.cursor \in Nat /\ Len(gate.log) \in Nat
        /\ gate.cursor <= Len(nlog) /\ col[c].page.lo \in Nat
        /\ node.ph \in Phases
    BY SMTT(30), AttemptsAssumption DEF Inv, NodeTyped, Nodes, GateTyped, Gates, Pages, Bounded,
       Paged, Scenario
  <1>3. UNCHANGED <<scene, node, nlog, wpc, cmd, pipe, sink, gate, lock, run, probe, faults>>
    BY DEF Answer
  <1>4. col[c].pc \in {"ask", "wait", "launch"} /\ lpc' \in [Launches -> LPCs]
    BY DEF Answer, Inv, NodeTyped, LPCs
  <1>5. PICK lo \in Nat, hi \in Nat, more \in BOOLEAN :
           /\ lo <= gate.cursor \/ lo <= d
           /\ lo <= hi /\ hi <= Len(nlog) /\ (more \/ hi = Len(nlog))
           /\ col' = [col EXCEPT ![c] = [pc |-> "append",
                        page |-> [next |-> Len(nlog), ph |-> Seen(node.ph), lo |-> lo, hi |-> hi,
                                  more |-> more]]]
    <2>1. PICK lo \in Nat : /\ lo = Larger(col[c].page.lo, d)
                            /\ lo \in {col[c].page.lo, d} /\ lo <= Len(nlog)
      <3>1. d \in Nat /\ d <= Len(nlog)
        BY <1>2 DEF Smaller
      <3>2. col[c].page.lo <= gate.cursor
        BY <1>4 DEF Inv, Paged, PageOK, Ingesting
      <3> QED
        BY <1>2, <3>1, <3>2 DEF Larger
    <2>2. PICK hi \in Nat : hi = Smaller(Len(nlog), lo + PageLimit) /\ lo <= hi /\ hi <= Len(nlog)
      BY <1>2, <2>1 DEF Smaller
    <2>3. lo <= gate.cursor \/ lo <= d
      BY <1>4, <2>1, <1>2 DEF Inv, Paged, PageOK, Ingesting
    <2>4. CASE hi < Len(nlog)
      <3>1. (hi < Len(nlog)) = TRUE
        BY <2>4
      <3> QED
        BY <1>1, <2>1, <2>2, <2>3, <3>1
    <2>5. CASE ~(hi < Len(nlog))
      <3>1. (hi < Len(nlog)) = FALSE /\ hi = Len(nlog)
        BY <2>5, <2>2, <1>2
      <3> QED
        BY <1>1, <2>1, <2>2, <2>3, <3>1
    <2> QED
      BY <2>4, <2>5
  <1>6. d \in Nat /\ ndrop <= d /\ d <= Len(nlog)
    BY <1>2 DEF Smaller
  <1>7. NodeTyped' /\ Bounded'
    BY <1>1, <1>3, <1>4, <1>6 DEF Inv, NodeTyped, Bounded, Load
  <1>8. GateTyped'
    <2>1. [next |-> Len(nlog), ph |-> Seen(node.ph), lo |-> lo, hi |-> hi, more |-> more] \in Pages
      BY <1>2, <1>5 DEF Pages, Copies
    <2> QED
      BY <2>1, <1>3, <1>5 DEF Inv, GateTyped, CPCs, Ingesting
  <1>9. Paged'
    <2>1. col'[c].pc = "append" /\ col'[c].page = [next |-> Len(nlog), ph |-> Seen(node.ph), lo |-> lo,
                                                   hi |-> hi, more |-> more]
      BY <1>5 DEF Inv, GateTyped
    <2>2. PageOK(c)'
      BY <1>1, <1>2, <1>3, <1>5, <2>1 DEF PageOK, Ingesting
    <2>3. run.pc = "decide" => col'[Own].pc = "idle"
      BY <1>4, <1>5 DEF Inv, Paged, GateTyped, Collectors
    <2>4. \A k \in Collectors \ {c} : col'[k] = col[k]
      BY <1>5 DEF Inv, GateTyped
    <2> QED
      BY <1>1, <1>2, <1>3, <1>6, <2>2, <2>3, <2>4, OtherPages
  <1>10. LogOK'
    BY <1>1, <1>2, <1>3, <1>6 DEF Inv, LogOK, Gates
  <1> QED
    BY <1>7, <1>8, <1>9, <1>10 DEF Inv

\* Storing the records of a page, old or new, keeps the log faithful.
LEMMA AppendOK ==
    ASSUME Inv, NEW c \in Collectors, AppendPage(c)
    PROVE  Inv'
  <1> DEFINE page == col[c].page
             first == Larger(page.lo, gate.cursor)
  <1>1. /\ Len(nlog) \in Nat /\ ndrop \in Nat
        /\ gate \in Gates /\ gate.cursor \in Nat /\ gate.log \in Seq(Entries) /\ gate.gaps \in SUBSET Nat
        /\ Len(gate.log) \in Nat /\ page.lo \in Nat /\ page.hi \in Nat /\ page.next \in Nat
        /\ gate.cursor <= Len(nlog)
    BY DEF Inv, NodeTyped, GateTyped, Gates, Pages, Paged
  <1>2. UNCHANGED <<scene, nodeVars, lock, run, probe, faults>> /\ col' = [col EXCEPT ![c].pc = "meta"]
    BY DEF AppendPage, Move
  <1>3. /\ first \in Nat /\ first >= gate.cursor /\ first \in {page.lo, gate.cursor}
        /\ \/ page.hi <= first /\ gate' = gate
           \/ /\ first < page.hi
              /\ gate' = [cursor |-> page.hi, log |-> gate.log \o Batch(first, page.hi),
                          gaps |-> gate.gaps \cup (gate.cursor .. (first - 1)), ph |-> gate.ph]
    BY AppendIs DEF Inv
  <1>4. /\ page.lo <= gate.cursor \/ page.lo <= ndrop
        /\ page.lo <= page.hi /\ page.hi <= page.next /\ page.next <= Len(nlog)
        /\ page.more \/ page.hi = page.next
        /\ c # Own \/ run.pc # "decide"
    BY DEF AppendPage, Inv, Paged, PageOK, Ingesting
  <1> HIDE DEF first
  <1>5. /\ gate' \in Gates /\ gate.cursor <= gate'.cursor /\ gate'.cursor <= Len(nlog)
        /\ Len(gate.log) <= Len(gate'.log)
        /\ LogOK'
        /\ ~page.more => page.next <= gate'.cursor \/ page.next <= ndrop
    <2>1. CASE page.hi <= first /\ gate' = gate
      <3>1. LogOK'
        BY <2>1, <1>2 DEF Inv, LogOK, nodeVars
      <3>2. ~page.more => page.next <= gate.cursor \/ page.next <= ndrop
        BY <2>1, <1>1, <1>3, <1>4
      <3> QED
        BY <2>1, <3>1, <3>2, <1>1
    <2>2. CASE /\ first < page.hi
               /\ gate' = [cursor |-> page.hi, log |-> gate.log \o Batch(first, page.hi),
                           gaps |-> gate.gaps \cup (gate.cursor .. (first - 1)), ph |-> gate.ph]
      <3>0. gate'.cursor = page.hi /\ gate'.log = gate.log \o Batch(first, page.hi) /\ gate'.ph = gate.ph
            /\ gate'.gaps = gate.gaps \cup (gate.cursor .. (first - 1))
        BY <2>2
      <3>1. /\ gate'.log \in Seq(Entries) /\ Len(gate.log) <= Len(gate'.log)
            /\ Faithful(gate'.log, gate'.cursor, gate'.gaps)
        BY <3>0, <2>2, <1>1, <1>3, StoreBatch DEF Inv, LogOK
      <3>2. \A k \in gate'.gaps : k \in Nat /\ k < ndrop
        BY <3>0, <1>1, <1>3, <1>4 DEF Inv, LogOK
      <3>3. gate' \in Gates
        BY <3>1, <3>2, <2>2, <1>1 DEF Gates
      <3>4. gate.cursor <= page.hi /\ page.hi <= Len(nlog)
        BY <2>2, <1>1, <1>3, <1>4
      <3> QED
        BY <3>0, <3>1, <3>2, <3>3, <3>4, <1>1, <1>2, <1>4 DEF LogOK, nodeVars
    <2> QED
      BY <1>3, <2>1, <2>2
  <1>6. NodeTyped' /\ Bounded'
    BY <1>2 DEF Inv, NodeTyped, Bounded, Load, nodeVars
  <1>7. GateTyped'
    BY <1>2, <1>5 DEF Inv, GateTyped, CPCs, Ingesting
  <1>8. Paged'
    <2>1. col'[c].pc = "meta" /\ col'[c].page = page /\ \A k \in Collectors \ {c} : col'[k] = col[k]
      BY <1>2 DEF Inv, GateTyped
    <2>2. PageOK(c)'
      <3>1. page.lo <= gate'.cursor \/ page.lo <= ndrop
        BY <1>1, <1>4, <1>5 DEF Gates
      <3>2. nlog' = nlog /\ ndrop' = ndrop
        BY <1>2 DEF nodeVars
      <3> QED
        BY <1>4, <1>5, <2>1, <3>1, <3>2 DEF PageOK, Ingesting
    <2>3. run.pc = "decide" => col'[Own].pc = "idle"
      BY <1>4, <2>1 DEF Inv, Paged, Collectors
    <2> QED
      BY <1>1, <1>2, <1>5, <2>1, <2>2, <2>3, OtherPages DEF nodeVars
  <1> QED
    BY <1>5, <1>6, <1>7, <1>8 DEF Inv

\* The end of the log is entered as unavailable only where the node has dropped it.
LEMMA MetaOK ==
    ASSUME Inv, NEW c \in Collectors, UpdateMeta(c)
    PROVE  Inv'
  <1> DEFINE page == col[c].page
  <1>1. /\ Len(nlog) \in Nat /\ ndrop \in Nat
        /\ gate \in Gates /\ gate.cursor \in Nat /\ gate.log \in Seq(Entries) /\ gate.gaps \in SUBSET Nat
        /\ Len(gate.log) \in Nat /\ page.next \in Nat /\ page.ph \in Copies
        /\ gate.cursor <= Len(nlog)
        /\ col \in [Collectors -> [pc : CPCs, page : Pages]]
    BY SMTT(30) DEF Inv, NodeTyped, GateTyped, Gates, Pages, Paged
  <1>2. UNCHANGED <<scene, nodeVars, run, probe, faults>>
    BY DEF UpdateMeta
  <1>3. /\ page.next <= Len(nlog)
        /\ ~page.more => page.next <= gate.cursor \/ page.next <= ndrop
        /\ c # Own \/ run.pc # "decide"
    BY DEF UpdateMeta, Inv, Paged, PageOK, Ingesting
  <1>4. /\ gate' \in Gates /\ gate.cursor <= gate'.cursor /\ gate'.cursor <= Len(nlog)
        /\ Len(gate.log) <= Len(gate'.log)
        /\ LogOK'
    <2>1. CASE Missing(page) = {}
      <3>1. gate' = [gate EXCEPT !.ph = page.ph]
        BY <2>1 DEF UpdateMeta
      <3>2. /\ gate' \in Gates /\ gate'.cursor = gate.cursor /\ gate'.log = gate.log
            /\ gate'.gaps = gate.gaps
        BY <3>1, <1>1 DEF Gates
      <3> QED
        BY <3>2, <1>1, <1>2 DEF Inv, LogOK, nodeVars
    <2>2. CASE Missing(page) # {}
      <3>1. ~page.more /\ Missing(page) = gate.cursor .. (page.next - 1)
        BY <2>2 DEF Missing
      <3>2. gate.cursor < page.next
        BY <2>2, <3>1, <1>1
      <3>3. gate' = [cursor |-> page.next, log |-> Append(gate.log, [seq |-> page.next - 1, real |-> FALSE]),
                     gaps |-> gate.gaps \cup (gate.cursor .. (page.next - 1)), ph |-> page.ph]
        BY <2>2, <3>1, <1>1 DEF UpdateMeta, Gates
      <3>0. gate'.cursor = page.next /\ gate'.log = Append(gate.log, [seq |-> page.next - 1, real |-> FALSE])
            /\ gate'.ph = page.ph /\ gate'.gaps = gate.gaps \cup (gate.cursor .. (page.next - 1))
        BY <3>3
      <3>4. /\ gate'.log \in Seq(Entries) /\ Len(gate.log) <= Len(gate'.log)
            /\ Faithful(gate'.log, gate'.cursor, gate'.gaps)
        <4>1. Faithful(gate.log, gate.cursor, gate.gaps)
          BY DEF Inv, LogOK
        <4> HIDE DEF page
        <4>2. LET new == Append(gate.log, [seq |-> page.next - 1, real |-> FALSE])
              IN  /\ new \in Seq(Entries) /\ Len(gate.log) <= Len(new)
                  /\ Faithful(new, page.next, gate.gaps \cup (gate.cursor .. (page.next - 1)))
          BY <4>1, <3>2, <1>1, StoreWarning
        <4> QED
          BY <3>0, <4>2
      <3>5. \A k \in gate'.gaps : k \in Nat /\ k < ndrop
        BY <3>0, <3>1, <3>2, <1>1, <1>3 DEF Inv, LogOK
      <3>6. gate' \in Gates
        BY <3>3, <3>4, <3>5, <3>0, <1>1 DEF Gates
      <3> QED
        BY <3>0, <3>2, <3>4, <3>5, <3>6, <1>1, <1>2, <1>3 DEF LogOK, nodeVars
    <2> QED
      BY <2>1, <2>2
  <1>5. NodeTyped' /\ Bounded'
    BY <1>2 DEF Inv, NodeTyped, Bounded, Load, nodeVars
  <1>6. PICK pc \in {"ask", "done"}, p \in Pages :
           col' = [col EXCEPT ![c] = [pc |-> pc, page |-> p]] /\ p.lo <= gate'.cursor
    <2>1. gate'.cursor \in Nat
      BY <1>4 DEF Gates
    <2>2. /\ Ask(gate'.cursor) \in Pages /\ Ask(gate'.cursor).lo = gate'.cursor
          /\ NoPage \in Pages /\ NoPage.lo = 0
      BY <2>1, AskType
    <2> QED
      BY <2>1, <2>2 DEF UpdateMeta
  <1>7. GateTyped'
    <2>1. lock' \in Collectors \cup {"free"}
      BY DEF UpdateMeta, Free, Inv, GateTyped
    <2> QED
      BY <2>1, <1>1, <1>2, <1>4, <1>6 DEF Inv, GateTyped, CPCs, Ingesting
  <1>8. Paged'
    <2>1. col'[c].pc = pc /\ col'[c].page = p /\ \A k \in Collectors \ {c} : col'[k] = col[k]
      BY <1>1, <1>6
    <2>2. PageOK(c)'
      BY <1>6, <2>1 DEF PageOK, Ingesting
    <2>3. run.pc = "decide" => col'[Own].pc = "idle"
      BY <1>3, <2>1 DEF Inv, Paged, Collectors
    <2> QED
      BY <1>1, <1>2, <1>4, <2>1, <2>2, <2>3, OtherPages DEF nodeVars
  <1> QED
    BY <1>4, <1>5, <1>7, <1>8 DEF Inv

\* The invariant holds in every behaviour.
THEOREM InvHolds == Spec => []Inv
  <1>1. Inv /\ [Next]_vars => Inv'
    <2> SUFFICES ASSUME Inv, [Next]_vars PROVE Inv'
      OBVIOUS
    <2>1. CASE NodeStep
      BY <2>1, NodeStepOK, GateFrame DEF Inv
    <2>2. CASE GateStep
      BY <2>2, GateStepOK
    <2>3. ASSUME NEW c \in Collectors, Answer(c) \/ AppendPage(c) \/ UpdateMeta(c) PROVE Inv'
      BY <2>3, AnswerOK, AppendOK, MetaOK
    <2>4. CASE UNCHANGED vars
      BY <2>4 DEF vars, nodeVars, gateVars, Inv, NodeTyped, GateTyped, Bounded, Load, Paged,
         PageOK, LogOK
    <2> QED
      BY <2>1, <2>2, <2>3, <2>4 DEF Next, NodeStep, GateStep, CollectorStep
  <1> QED
    BY InitInv, <1>1, PTL DEF Spec

\* The variables keep their types, and the gateway's cursor never passes the node's log.
THEOREM TypesHold == Spec => []TypeOK
  <1>1. Inv => TypeOK
    <2> SUFFICES ASSUME Inv PROVE TypeOK
      OBVIOUS
    <2>1. /\ Len(nlog) \in Nat /\ scene.records \in Nat /\ scene.faults \in Nat
          /\ \A w \in Launches : pipe[w] \in Nat /\ sink[w].held \in Nat
      BY DEF Inv, NodeTyped, Scenario, Sinks
    <2>2. /\ Len(nlog) <= scene.records /\ \A w \in Launches : pipe[w] <= scene.records
          /\ \A w \in Launches : sink[w].held <= scene.records
      <3>1. PICK l \in Nat, p1 \in Nat, p2 \in Nat, s1 \in Nat, s2 \in Nat, max \in Nat :
               /\ l = Len(nlog) /\ p1 = pipe[1] /\ p2 = pipe[2] /\ max = scene.records
               /\ s1 = sink[1].held /\ s2 = sink[2].held
        BY <2>1 DEF Launches
      <3>2. l + p1 + p2 + s1 + s2 <= max
        BY <3>1 DEF Inv, Bounded, Load
      <3>3. l <= max /\ p1 <= max /\ p2 <= max /\ s1 <= max /\ s2 <= max
        BY <3>2
      <3> QED
        BY <3>1, <3>3 DEF Launches
    <2>3. \A k \in gate.gaps : k \in 0..scene.records
      BY <2>1, <2>2 DEF Inv, LogOK, Faithful, GateTyped, Gates, Bounded, NodeTyped
    <2>4. pipe \in [Launches -> 0..scene.records]
      BY <2>1, <2>2 DEF Inv, NodeTyped
    <2>5. sink \in [Launches -> [st : {"none", "recording", "closing", "draining", "over"},
                                 held : 0..scene.records]]
      BY <2>1, <2>2 DEF Inv, NodeTyped, Sinks
    <2>6. /\ gate.cursor \in 0..Len(nlog) /\ gate.log \in Seq(Entries) /\ gate.ph \in Copies
          /\ run.off \in 0..Len(gate.log)
          /\ \A c \in Collectors : col[c].pc \in CPCs /\ col[c].page.ph \in Copies
          /\ run.pc \in RPCs /\ run.send \in Launches \cup {0} /\ run.result \in Results
      BY <2>1 DEF Inv, GateTyped, Gates, Runs, Pages, Paged
    <2>7. ndrop \in 0..Len(nlog) /\ faults \in 0..scene.faults
      BY <2>1 DEF Inv, NodeTyped, Bounded
    <2> QED
      BY <2>2, <2>3, <2>4, <2>5, <2>6, <2>7 DEF Inv, NodeTyped, GateTyped, TypeOK, Nodes, Cmds
  <1> QED
    BY <1>1, InvHolds, PTL

\* The gateway's log holds the node's records once each and in their order, and what it
\* lacks below its cursor the node had dropped.
THEOREM LogIsFaithful == Spec => []LogFaithful
  <1>1. Inv => LogFaithful
    BY DEF Inv, LogOK, Faithful, LogFaithful
  <1> QED
    BY <1>1, InvHolds, PTL

(***************************************************************************)
(* One command, and a launch that is sent again                            *)
(***************************************************************************)
\* A launch has found no phase and goes on to start a worker, or has done so.
Starting(l) == lpc[l] \in {"phase", "spawn"} \/ wpc[l] # "none"

\* A command has a worker, a worker's launch has written the phase, which is never
\* taken back, and two launches that both go on have raced.
Launched ==
    /\ \A l \in Launches : cmd[l] # "none" => wpc[l] # "none"
    /\ \A l \in Launches : lpc[l] = "spawn" \/ wpc[l] # "none" => Stored(node.ph)
    /\ (\A l \in Launches : Starting(l)) => raced
    /\ OneCommandAtATime

\* Every step keeps that.
LEMMA LaunchedNext == NodeTyped /\ Launched /\ [Next]_vars => Launched'
  <1> SUFFICES ASSUME NodeTyped, Launched, [Next]_vars PROVE Launched'
    OBVIOUS
  <1> USE DEF Launches, Launched, Starting, OneCommandAtATime, Stored
  <1>0. /\ lpc \in [Launches -> LPCs] /\ wpc \in [Launches -> WPCs] /\ cmd \in [Launches -> Cmds]
        /\ node \in Nodes /\ node.ph \in Phases
    BY DEF NodeTyped, Nodes
  <1>f. ASSUME UNCHANGED <<wpc, cmd, raced>>, node'.ph.st = node.ph.st \/ Stored(node'.ph),
               \A l \in Launches : lpc'[l] \in {"phase", "spawn"} => lpc'[l] = lpc[l]
        PROVE  Launched'
    BY <1>f, <1>0
  <1>1. ASSUME NEW l \in Launches, LaunchArrives(l) \/ CreateRow(l) PROVE Launched'
    BY <1>1, <1>0, <1>f DEF LaunchArrives, CreateRow, Nodes
  <1>2. ASSUME NEW l \in Launches, CheckPhase(l) PROVE Launched'
    <2>1. /\ lpc[l] = "check" /\ UNCHANGED <<node, wpc, cmd>>
          /\ lpc' = [lpc EXCEPT ![l] = IF Stored(node.ph) THEN "answer" ELSE "phase"]
          /\ raced' <=> raced \/ (~Stored(node.ph) /\ \E k \in Launches : lpc[k] = "phase")
      BY <1>2 DEF CheckPhase, Known
    <2>2. CASE Stored(node.ph)
      BY <2>1, <2>2, <1>0
    <2>3. CASE ~Stored(node.ph)
      <3>1. lpc'[l] = "phase" /\ \A k \in Launches \ {l} : lpc'[k] = lpc[k]
        BY <2>1, <2>3, <1>0
      <3>2. \A k \in Launches \ {l} : Starting(k) => raced'
        BY <2>1, <2>3
      <3>3. (\A k \in Launches : Starting(k)') => raced'
        BY <3>1, <3>2, <2>1
      <3> QED
        BY <3>1, <3>3, <2>1, <2>3
    <2> QED
      BY <2>2, <2>3
  <1>3. ASSUME NEW l \in Launches, WritePhase(l) PROVE Launched'
    BY ZenonT(60), <1>3, <1>0 DEF WritePhase, Nodes, Phases
  <1>4. ASSUME NEW l \in Launches, Spawn(l) PROVE Launched'
    BY <1>4, <1>0 DEF Spawn, Phase, Nodes, Phases
  <1>5. ASSUME NEW w \in Launches, StartCommand(w) PROVE Launched'
    <2>1. CASE HostLocked
      <3>1. node'.ph.st = "complete" /\ UNCHANGED <<lpc, cmd, raced>> /\ wpc' = [wpc EXCEPT ![w] = "over"]
        <4>1. node' = [node EXCEPT !.ph = [node.ph EXCEPT !.st = "complete", !.exit = 1, !.rec = FALSE]]
          BY <1>5, <2>1 DEF StartCommand, Phase
        <4>2. node'.ph.st = "complete"
          BY <4>1, <1>0 DEF Nodes, Phases
        <4> QED
          BY <4>2, <1>5, <2>1 DEF StartCommand
      <3> QED
        BY <3>1, <1>5, <1>0 DEF StartCommand
    <2>2. CASE ~HostLocked
      BY <1>5, <2>2, <1>0 DEF StartCommand, HostLocked
    <2> QED
      BY <2>1, <2>2
  <1>6. ASSUME NEW w \in Launches, MarkRunning(w) \/ CommandDone(w) \/ EndRecording(w) PROVE Launched'
    <2>1. /\ Stored(node'.ph) /\ UNCHANGED <<lpc, cmd, raced>>
          /\ wpc[w] # "none" /\ \E to \in WPCs \ {"none"} : wpc' = [wpc EXCEPT ![w] = to]
      <3>1. CASE MarkRunning(w)
        BY <3>1, <1>0 DEF MarkRunning, Phase, Nodes, Phases, WPCs
      <3>2. CASE CommandDone(w)
        <4>1. \E e : node' = [node EXCEPT !.ph = [node.ph EXCEPT !.st = "complete", !.exit = e]]
          BY <3>2 DEF CommandDone, Phase
        <4>2. Stored(node'.ph)
          BY <4>1, <1>0 DEF Nodes, Phases
        <4> QED
          BY <4>2, <3>2, <1>0 DEF CommandDone, WPCs
      <3>3. CASE EndRecording(w)
        BY <3>3, <1>0 DEF EndRecording, Phase, Nodes, Phases, WPCs
      <3> QED
        BY <1>6, <3>1, <3>2, <3>3
    <2> QED
      BY <2>1, <1>0
  <1>7. ASSUME NEW w \in Launches, CommandWrites(w) \/ RecordOutput(w) \/ RecordJournal(w)
                                   \/ EngineStarts(w) \/ SinkReads(w) \/ SinkFlush(w) \/ SinkFails(w)
                                   \/ EngineEnds(w)
        PROVE  Launched'
    BY <1>7, <1>0, <1>f DEF CommandWrites, RecordOutput, RecordJournal, EngineStarts, SinkReads,
       SinkFlush, SinkFails, EngineEnds
  <1>8. ASSUME NEW w \in Launches, CommandExits(w) PROVE Launched'
    BY <1>8, <1>0 DEF CommandExits
  <1>9. ASSUME NEW w \in Launches, StopCommand(w) PROVE Launched'
    <2>1. /\ Stored(node'.ph)
          /\ cmd' = cmd \/ cmd' = [cmd EXCEPT ![w] = IF @ = "live" THEN "killed" ELSE @]
          /\ wpc' = [wpc EXCEPT ![w] = "end"] /\ wpc[w] # "none" /\ UNCHANGED <<lpc, raced>>
      <3>1. Stored(node'.ph)
        <4>1. \/ \E b : node' = [node EXCEPT !.ph = [node.ph EXCEPT !.st = "complete", !.exit = 1, !.eng = b]]
              \/ node' = [node EXCEPT !.ph = [node.ph EXCEPT !.st = "survivor", !.exit = 1, !.rec = FALSE]]
          BY <1>9 DEF StopCommand, Phase
        <4>2. ASSUME NEW b, node' = [node EXCEPT !.ph = [node.ph EXCEPT !.st = "complete", !.exit = 1, !.eng = b]]
              PROVE  Stored(node'.ph)
          BY <4>2, <1>0 DEF Nodes, Phases
        <4>3. ASSUME node' = [node EXCEPT !.ph = [node.ph EXCEPT !.st = "survivor", !.exit = 1, !.rec = FALSE]]
              PROVE  Stored(node'.ph)
          BY <4>3, <1>0 DEF Nodes, Phases
        <4> QED
          BY <4>1, <4>2, <4>3
      <3> QED
        BY <3>1, <1>9, <1>0 DEF StopCommand
    <2> QED
      BY <2>1, <1>0
  <1>10. ASSUME NEW w \in Launches, StopTail(w) \/ DrainPipes(w) \/ WorkerDies(w) PROVE Launched'
    BY <1>10, <1>0 DEF StopTail, DrainPipes, WorkerDies, Nodes
  <1>11. ASSUME NEW w \in Launches, SinkCloses(w) PROVE Launched'
    BY <1>11, <1>0, <1>f DEF SinkCloses, Phase, Nodes, Phases
  <1>12. CASE Reboot
    BY <1>12, <1>0 DEF Reboot
  <1>13. CASE Rotate \/ ProbeReads
    BY <1>13, <1>f DEF Rotate, ProbeReads, nodeVars
  <1>14. CASE ProbeCloses
    BY <1>14, <1>0, <1>f DEF ProbeCloses, Phase, Nodes, Phases
  <1>15. ASSUME NEW c \in Collectors, CollectorStep(c) \/ Collected(c) \/ Deadline(c) PROVE Launched'
    BY <1>15, <1>0, <1>f DEF CollectorStep, Acquire, Answer, Fails, AppendPage, UpdateMeta,
       Collected, Deadline, nodeVars
  <1>16. CASE ApiCollect \/ AskToStop \/ LaunchLost \/ Unanswered \/ Parse \/ Crash
    BY <1>16, <1>0, <1>f DEF ApiCollect, AskToStop, LaunchLost, Unanswered, Parse, Crash,
       nodeVars, Nodes
  <1>17. CASE Begin \/ Resend
    BY <1>17, <1>0, <1>f DEF Begin, Resend
  <1>18. CASE CollectFailed \/ Decide \/ Cancel
    <2>1. Resend \/ Collect \/ \E r \in Results : Return(r)
      BY <1>18 DEF CollectFailed, Decide, Cancel, Results
    <2>2. CASE Collect \/ \E r \in Results : Return(r)
      BY <2>2, <1>f DEF Collect, Return, nodeVars
    <2> QED
      BY <2>1, <2>2, <1>17
  <1>19. CASE UNCHANGED vars
    BY <1>19, <1>f DEF vars, nodeVars
  <1> QED
    BY <1>1, <1>2, <1>3, <1>4, <1>5, <1>6, <1>7, <1>8, <1>9, <1>10, <1>11, <1>12, <1>13, <1>14,
       <1>15, <1>16, <1>17, <1>18, <1>19 DEF Next, LaunchStep, WorkerStep, SinkStep

\* The launch invariant holds in every behaviour.
THEOREM LaunchedHolds == Spec => []Launched
  <1>1. Init => Launched
    BY DEF Init, Launched, OneCommandAtATime, Starting, Launches
  <1>2. Inv => NodeTyped
    BY DEF Inv
  <1> QED
    BY <1>1, <1>2, LaunchedNext, InvHolds, PTL DEF Spec

\* Two commands of the gateway are never alive together, whoever dies and whatever is sent
\* again: a command holds the host's lock after its worker.
THEOREM OneCommand == Spec => []OneCommandAtATime
  <1>1. Launched => OneCommandAtATime
    BY DEF Launched
  <1> QED
    BY <1>1, LaunchedHolds, PTL

\* A launch that is sent again runs its command a second time only if the node handled both
\* at once.
THEOREM ResendRunsOnce == Spec => []ResendIdempotent
  <1>1. Launched => ResendIdempotent
    BY DEF Launched, ResendIdempotent, Starting
  <1> QED
    BY <1>1, LaunchedHolds, PTL

(***************************************************************************)
(* What the gateway is told is complete, is                                *)
(***************************************************************************)
\* A command has ended well and all its output is recorded.
OutOver == \E w \in Launches : cmd[w] = "ok" /\ pipe[w] = 0

\* Nothing more of an engine is recorded.
EngineOver == scene.engine => \E w \in Launches : sink[w].st \in {"draining", "over"}

\* A phase that tells of either end is right about it, wherever it has been copied to.
Ends(ph) ==
    /\ ph.exit = 0 => OutOver
    /\ ph.st # "none" /\ ~ph.eng => EngineOver

Ending == Ends(node.ph) /\ Ends(gate.ph) /\ \A c \in Collectors : Ends(col[c].page.ph)

\* The order of a launch's stages; what is under way belongs to a command or an engine's sink.
Stages ==
    \A l \in Launches :
        /\ lpc[l] \notin {"answer", "over"} => wpc[l] = "none"
        /\ wpc[l] \in {"none", "start"} => cmd[l] = "none"
        /\ cmd[l] = "none" => pipe[l] = 0 /\ sink[l].st = "none"
        /\ sink[l].st # "recording" => sink[l].held = 0

\* A launch is sent once, and its repetition only after it was lost.
Sends ==
    /\ run.pc = "idle" => run.send = 0
    /\ run.send = 0 => lpc[1] = "none"
    /\ run.send < 2 => lpc[2] = "none"
    /\ run.lost => run.send = 1

\* Records of a kind end before a position of the node's log.
NoMore(kind, n) == \A k \in 1..Len(nlog) : nlog[k] = kind => k <= n

\* What a probe has read is still recorded; only an engine's command has a sink.
Sourced ==
    /\ Stored(probe) => Stored(node.ph)
    /\ ~scene.engine => (\A w \in Launches : sink[w].st = "none") /\ NoMore("engine", 0)

\* The stages are kept by every step.
LEMMA StagesNext ==
    ASSUME NodeTyped, Launched, Sends, Stages, [Next]_vars
    PROVE  Stages'
  <1>0. /\ lpc \in [Launches -> LPCs] /\ wpc \in [Launches -> WPCs] /\ cmd \in [Launches -> Cmds]
        /\ pipe \in [Launches -> Nat] /\ sink \in [Launches -> Sinks]
    BY DEF NodeTyped
  <1> USE DEF Launches, Stages
  <1>f. ASSUME UNCHANGED <<lpc, wpc, cmd, pipe, sink>> PROVE Stages'
    BY <1>f
  <1>1. ASSUME NEW l \in Launches, LaunchArrives(l) \/ CreateRow(l) \/ CheckPhase(l) \/ WritePhase(l)
        PROVE  Stages'
    BY <1>1, <1>0 DEF LaunchArrives, CreateRow, CheckPhase, WritePhase
  <1>2. ASSUME NEW l \in Launches, Spawn(l) PROVE Stages'
    BY <1>2, <1>0 DEF Spawn
  <1>3. ASSUME NEW w \in Launches, StartCommand(w) PROVE Stages'
    <2>1. CASE HostLocked
      BY <1>3, <2>1, <1>0 DEF StartCommand
    <2>2. CASE ~HostLocked
      BY <1>3, <2>2, <1>0 DEF StartCommand
    <2> QED
      BY <2>1, <2>2
  <1>4. ASSUME NEW w \in Launches, MarkRunning(w) \/ CommandDone(w) \/ StopTail(w) \/ EndRecording(w)
        PROVE  Stages'
    BY <1>4, <1>0 DEF MarkRunning, CommandDone, StopTail, EndRecording
  <1>5. ASSUME NEW w \in Launches, CommandWrites(w) \/ CommandExits(w) \/ RecordOutput(w) \/ RecordJournal(w)
        PROVE  Stages'
    BY <1>5, <1>0 DEF CommandWrites, CommandExits, RecordOutput, RecordJournal
  <1>6. ASSUME NEW w \in Launches, StopCommand(w) PROVE Stages'
    <2>1. /\ wpc' = [wpc EXCEPT ![w] = "end"] /\ wpc[w] \in {"mark", "loop", "tail"}
          /\ UNCHANGED <<lpc, pipe>>
          /\ cmd' = cmd \/ cmd' = [cmd EXCEPT ![w] = IF @ = "live" THEN "killed" ELSE @]
          /\ sink' = sink \/ sink' = [sink EXCEPT ![w] = IF @.st = "none" THEN @ ELSE Killed]
      BY <1>6 DEF StopCommand
    <2>2. /\ cmd' \in [Launches -> Cmds] /\ \A l \in Launches : cmd'[l] = "none" <=> cmd[l] = "none"
      BY <2>1, <1>0 DEF Cmds
    <2>3. \A l \in Launches : /\ sink'[l].st = "none" <=> sink[l].st = "none"
                              /\ sink'[l] = sink[l] \/ sink'[l].held = 0
      BY <2>1, <1>0 DEF Killed, Sinks
    <2> QED
      BY <2>1, <2>2, <2>3, <1>0
  <1>7. ASSUME NEW w \in Launches, DrainPipes(w) \/ WorkerDies(w) PROVE Stages'
    BY <1>7, <1>0 DEF DrainPipes, WorkerDies
  <1>8. ASSUME NEW w \in Launches, EngineStarts(w) \/ SinkReads(w) \/ SinkFlush(w) \/ SinkFails(w)
                                   \/ SinkCloses(w) \/ EngineEnds(w)
        PROVE  Stages'
    BY <1>8, <1>0 DEF EngineStarts, SinkReads, SinkFlush, SinkFails, SinkCloses, EngineEnds, Sink,
       Killed, Sinks
  <1>9. CASE Reboot
    BY <1>9, <1>0 DEF Reboot, Killed, NoSink
  <1>10. CASE Rotate \/ ProbeReads \/ ProbeCloses
    BY <1>10, <1>f DEF Rotate, ProbeReads, ProbeCloses, nodeVars
  <1>11. ASSUME NEW c \in Collectors, Answer(c) PROVE Stages'
    BY <1>11, <1>0 DEF Answer
  <1>12. ASSUME NEW c \in Collectors, \/ Acquire(c) \/ Fails(c) \/ AppendPage(c) \/ UpdateMeta(c)
                                      \/ Collected(c) \/ Deadline(c)
         PROVE  Stages'
    BY <1>12, <1>f DEF Acquire, Fails, AppendPage, UpdateMeta, Collected, Deadline, nodeVars
  <1>13. CASE ApiCollect \/ AskToStop \/ LaunchLost \/ Unanswered \/ Parse \/ Crash
    BY <1>13, <1>f DEF ApiCollect, AskToStop, LaunchLost, Unanswered, Parse, Crash, nodeVars
  <1>14. CASE Begin
    BY <1>14, <1>0 DEF Begin, Sends
  <1>15. CASE Resend /\ run.lost
    BY <1>15, <1>0 DEF Resend, Sends
  <1>16. CASE CollectFailed \/ Decide \/ Cancel
    <2>1. (Resend /\ run.lost) \/ Collect \/ \E r \in Results : Return(r)
      BY <1>16 DEF CollectFailed, Decide, Cancel, Results
    <2>2. CASE Collect \/ \E r \in Results : Return(r)
      BY <2>2, <1>f DEF Collect, Return, nodeVars
    <2> QED
      BY <2>1, <2>2, <1>15
  <1>17. CASE UNCHANGED vars
    BY <1>17, <1>f DEF vars, nodeVars
  <1> QED
    BY <1>1, <1>2, <1>3, <1>4, <1>5, <1>6, <1>7, <1>8, <1>9, <1>10, <1>11, <1>12, <1>13, <1>14,
       <1>16, <1>17 DEF Next, LaunchStep, WorkerStep, SinkStep, CollectorStep

\* So is the order of the launch requests.
LEMMA SendsNext ==
    ASSUME NodeTyped, GateTyped, Sends, [Next]_vars
    PROVE  Sends'
  <1>0. lpc \in [Launches -> LPCs] /\ run \in Runs
    BY DEF NodeTyped, GateTyped
  <1> USE DEF Launches, Sends, Runs
  <1>1. ASSUME NEW l \in Launches, LaunchStep(l) PROVE Sends'
    BY <1>1, <1>0 DEF LaunchStep, LaunchArrives, CreateRow, CheckPhase, WritePhase, Spawn, gateVars
  <1>2. ASSUME NEW w \in Launches, WorkerStep(w) PROVE Sends'
    BY <1>2 DEF WorkerStep, StartCommand, MarkRunning, CommandWrites, CommandExits, RecordOutput,
       RecordJournal, CommandDone, StopCommand, StopTail, DrainPipes, EndRecording, WorkerDies,
       gateVars
  <1>3. ASSUME NEW w \in Launches, SinkStep(w) PROVE Sends'
    BY <1>3 DEF SinkStep, EngineStarts, SinkReads, SinkFlush, SinkFails, SinkCloses, EngineEnds,
       gateVars
  <1>4. CASE Reboot \/ Rotate \/ ProbeReads \/ ProbeCloses
    BY <1>4, <1>0 DEF Reboot, Rotate, ProbeReads, ProbeCloses, nodeVars, gateVars
  <1>5. ASSUME NEW c \in Collectors, CollectorStep(c) \/ Collected(c) \/ Deadline(c) PROVE Sends'
    <2>1. CASE Answer(c)
      <3>1. run' = run /\ (lpc' = lpc \/ (lpc[run.send] = "answer" /\ lpc' = [lpc EXCEPT ![run.send] = "over"]))
        BY <2>1 DEF Answer
      <3> QED
        BY <3>1, <1>0
    <2> QED
      BY <1>5, <2>1 DEF CollectorStep, Acquire, Fails, AppendPage, UpdateMeta, Collected,
         Deadline, nodeVars
  <1>6. CASE ApiCollect \/ AskToStop \/ LaunchLost
    BY <1>6 DEF ApiCollect, AskToStop, LaunchLost, nodeVars
  <1>7. CASE Unanswered
    BY <1>7, <1>0 DEF Unanswered, nodeVars
  <1>8. CASE Begin
    BY <1>8, <1>0 DEF Begin
  <1>9. CASE Resend
    BY <1>9, <1>0 DEF Resend
  <1>10. CASE Parse
    <2>1. run'.pc = "decide" /\ run'.send = run.send /\ run'.lost = run.lost /\ lpc' = lpc
      BY <1>10, <1>0 DEF Parse, nodeVars
    <2> QED
      BY <2>1
  <1>11. CASE Crash
    BY <1>11, <1>0 DEF Crash, nodeVars
  <1>12. CASE CollectFailed \/ Decide \/ Cancel
    <2>1. Resend \/ (Collect /\ run.pc # "idle") \/ (run.pc # "idle" /\ \E r \in Results : Return(r))
      BY <1>12 DEF CollectFailed, Decide, Cancel, Results
    <2>2. CASE Collect /\ run.pc # "idle"
      BY <2>2, <1>0 DEF Collect, nodeVars
    <2>3. ASSUME NEW r \in Results, run.pc # "idle", Return(r) PROVE Sends'
      BY <2>3, <1>0 DEF Return, nodeVars
    <2> QED
      BY <2>1, <2>2, <2>3, <1>9
  <1>13. CASE UNCHANGED vars
    BY <1>13 DEF vars, nodeVars, gateVars
  <1> QED
    BY <1>1, <1>2, <1>3, <1>4, <1>5, <1>6, <1>7, <1>8, <1>10, <1>11, <1>12, <1>13 DEF Next

\* What has ended stays so.
LEMMA OverStays ==
    ASSUME NodeTyped, Stages, [Next]_vars
    PROVE  /\ scene' = scene
           /\ OutOver => OutOver'
           /\ EngineOver => EngineOver'
           /\ raced => raced'
  <1> DEFINE Stays == /\ scene' = scene /\ (raced => raced')
                      /\ \A w \in Launches : cmd[w] = "ok" => cmd'[w] = "ok" /\ (pipe[w] = 0 => pipe'[w] = 0)
                      /\ \A w \in Launches : sink[w].st \in {"draining", "over"} =>
                                             sink'[w].st \in {"draining", "over"}
  <1> SUFFICES Stays
    BY DEF OutOver, EngineOver
  <1>0. /\ cmd \in [Launches -> Cmds] /\ pipe \in [Launches -> Nat] /\ sink \in [Launches -> Sinks]
    BY DEF NodeTyped
  <1>1. ASSUME NEW l \in Launches, LaunchStep(l) PROVE Stays
    <2>1. UNCHANGED <<scene, cmd, pipe, sink>>
      BY <1>1 DEF LaunchStep, LaunchArrives, CreateRow, CheckPhase, WritePhase, Spawn
    <2>2. raced => raced'
      BY Zenon, <1>1 DEF LaunchStep, LaunchArrives, CreateRow, CheckPhase, WritePhase, Spawn
    <2> QED
      BY <2>1, <2>2
  <1>2. ASSUME NEW w \in Launches, StartCommand(w) PROVE Stays
    BY <1>2, <1>0 DEF StartCommand, Stages
  <1>3. ASSUME NEW w \in Launches, CommandWrites(w) \/ CommandExits(w) \/ RecordOutput(w) \/ DrainPipes(w)
                                   \/ WorkerDies(w)
        PROVE  Stays
    BY <1>3, <1>0 DEF CommandWrites, CommandExits, RecordOutput, DrainPipes, WorkerDies
  <1>4. ASSUME NEW w \in Launches, MarkRunning(w) \/ RecordJournal(w) \/ CommandDone(w) \/ StopTail(w)
                                   \/ EndRecording(w)
        PROVE  Stays
    BY <1>4 DEF MarkRunning, RecordJournal, CommandDone, StopTail, EndRecording
  <1>5. ASSUME NEW w \in Launches, StopCommand(w) PROVE Stays
    <2>1. /\ scene' = scene /\ raced' = raced /\ pipe' = pipe
          /\ cmd' = cmd \/ cmd' = [cmd EXCEPT ![w] = IF @ = "live" THEN "killed" ELSE @]
          /\ sink' = sink \/ sink' = [sink EXCEPT ![w] = IF @.st = "none" THEN @ ELSE Killed]
      BY <1>5 DEF StopCommand
    <2> QED
      BY <2>1, <1>0 DEF Killed
  <1>6. ASSUME NEW w \in Launches, SinkStep(w) PROVE Stays
    BY <1>6, <1>0 DEF SinkStep, EngineStarts, SinkReads, SinkFlush, SinkFails, SinkCloses,
       EngineEnds, Sink, Killed
  <1>7. CASE Reboot
    BY <1>7, <1>0 DEF Reboot, Killed, NoSink
  <1>8. CASE Rotate \/ ProbeReads \/ ProbeCloses
    BY <1>8 DEF Rotate, ProbeReads, ProbeCloses, nodeVars
  <1>9. ASSUME NEW c \in Collectors, CollectorStep(c) \/ Collected(c) \/ Deadline(c) PROVE Stays
    BY <1>9 DEF CollectorStep, Acquire, Answer, Fails, AppendPage, UpdateMeta, Collected,
       Deadline, nodeVars
  <1>10. CASE ApiCollect \/ AskToStop \/ LaunchLost \/ Unanswered \/ Parse \/ Crash \/ Begin
    BY <1>10 DEF ApiCollect, AskToStop, LaunchLost, Unanswered, Parse, Crash, Begin, nodeVars
  <1>11. CASE CollectFailed \/ Decide \/ Cancel
    <2>1. Resend \/ Collect \/ \E r \in Results : Return(r)
      BY <1>11 DEF CollectFailed, Decide, Cancel, Results
    <2>2. UNCHANGED <<scene, cmd, pipe, sink, raced>>
      BY <2>1 DEF Resend, Collect, Return, nodeVars
    <2> QED
      BY <2>2
  <1>12. CASE UNCHANGED vars
    BY <1>12 DEF vars, nodeVars
  <1> QED
    BY <1>1, <1>2, <1>3, <1>4, <1>5, <1>6, <1>7, <1>8, <1>9, <1>10, <1>11, <1>12 DEF Next,
       WorkerStep

\* A phase that is stored tells of an end only when it has come.
LEMMA NodeEnds ==
    ASSUME NodeTyped, Launched, Stages, Sourced, Ends(node.ph), [Next]_vars
    PROVE  Ends(node.ph)'
  <1>0. /\ node \in Nodes /\ node.ph \in Phases /\ cmd \in [Launches -> Cmds] /\ sink \in [Launches -> Sinks]
        /\ pipe \in [Launches -> Nat] /\ scene.engine \in BOOLEAN
    BY DEF NodeTyped, Nodes, Scenario
  <1>o. /\ scene' = scene /\ (OutOver => OutOver') /\ (EngineOver => EngineOver')
    BY OverStays
  <1>f. ASSUME node'.ph.exit \in {1, node.ph.exit} \/ OutOver',
               \/ node'.ph.eng = node.ph.eng /\ (Stored(node.ph) \/ node'.ph.st = node.ph.st)
               \/ node'.ph.eng \/ EngineOver'
        PROVE  Ends(node.ph)'
    BY <1>f, <1>o DEF Ends, Stored
  <1>u. ASSUME node'.ph = node.ph PROVE Ends(node.ph)'
    BY <1>u, <1>f
  <1> USE DEF Phase
  <1>1. ASSUME NEW l \in Launches, LaunchArrives(l) \/ CreateRow(l) \/ CheckPhase(l) PROVE Ends(node.ph)'
    BY <1>1, <1>0, <1>u DEF LaunchArrives, CreateRow, CheckPhase, Nodes
  <1>2. ASSUME NEW l \in Launches, WritePhase(l) PROVE Ends(node.ph)'
    <2>1. node'.ph.exit = node.ph.exit /\ node'.ph.eng = scene.engine
      BY <1>2, <1>0 DEF WritePhase, Nodes, Phases
    <2>2. scene.engine \/ EngineOver'
      BY <1>o DEF EngineOver
    <2> QED
      BY <2>1, <2>2, <1>f
  <1>3. ASSUME NEW l \in Launches, Spawn(l) PROVE Ends(node.ph)'
    <2>1. node'.ph = [node.ph EXCEPT !.launcher = l]
      BY <1>3, <1>0 DEF Spawn, Nodes
    <2>2. node'.ph.exit = node.ph.exit /\ node'.ph.eng = node.ph.eng /\ node'.ph.st = node.ph.st
      BY <2>1, <1>0 DEF Phases
    <2> QED
      BY <2>2, <1>f
  <1>4. ASSUME NEW w \in Launches, StartCommand(w) PROVE Ends(node.ph)'
    <2>1. node' = node \/ node'.ph = [node.ph EXCEPT !.st = "complete", !.exit = 1, !.rec = FALSE]
      BY <1>4, <1>0 DEF StartCommand, Nodes
    <2>2. node' = node \/ (node'.ph.exit = 1 /\ node'.ph.eng = node.ph.eng)
      BY <2>1, <1>0 DEF Phases
    <2>3. Stored(node.ph)
      BY <1>4 DEF StartCommand, Launched
    <2> QED
      BY <2>2, <2>3, <1>f, <1>u
  <1>5. ASSUME NEW w \in Launches, MarkRunning(w) PROVE Ends(node.ph)'
    <2>1. node'.ph = [node.ph EXCEPT !.st = "running", !.pid = w]
      BY <1>5, <1>0 DEF MarkRunning, Nodes
    <2>2. node'.ph.exit = node.ph.exit /\ node'.ph.eng = node.ph.eng
      BY <2>1, <1>0 DEF Phases
    <2>3. Stored(node.ph)
      BY <1>5 DEF MarkRunning, Launched
    <2> QED
      BY <2>2, <2>3, <1>f
  <1>6. ASSUME NEW w \in Launches, CommandDone(w) PROVE Ends(node.ph)'
    <2>1. node'.ph = [node.ph EXCEPT !.st = "complete", !.exit = IF cmd[w] = "ok" THEN 0 ELSE 1]
      BY <1>6, <1>0 DEF CommandDone, Nodes
    <2>2. node'.ph.exit = (IF cmd[w] = "ok" THEN 0 ELSE 1) /\ node'.ph.eng = node.ph.eng
      BY <2>1, <1>0 DEF Phases
    <2>3. Stored(node.ph)
      BY <1>6 DEF CommandDone, Launched
    <2>4. cmd[w] = "ok" => OutOver'
      BY <1>6, <1>o DEF CommandDone, Ended, OutOver
    <2> QED
      BY <2>2, <2>3, <2>4, <1>f
  <1>7. ASSUME NEW w \in Launches, StopCommand(w) PROVE Ends(node.ph)'
    <2>3. Stored(node.ph)
      BY <1>7 DEF StopCommand, Launched
    <2>4. CASE node' = [node EXCEPT !.ph = [node.ph EXCEPT !.st = "survivor", !.exit = 1, !.rec = FALSE]]
      <3>1. node'.ph.exit = 1 /\ node'.ph.eng = node.ph.eng
        BY <2>4, <1>0 DEF Nodes, Phases
      <3> QED
        BY <2>3, <3>1, <1>f
    <2>5. ASSUME NEW told \in BOOLEAN,
                 sink' = [sink EXCEPT ![w] = IF @.st = "none" THEN @ ELSE Killed],
                 Phase([node.ph EXCEPT !.st = "complete", !.exit = 1,
                                       !.eng = @ /\ ~(told /\ sink[w].st = "recording")])
          PROVE  Ends(node.ph)'
      <3>1. node'.ph.exit = 1 /\ (node'.ph.eng <=> node.ph.eng /\ ~(told /\ sink[w].st = "recording"))
        BY <2>5, <1>0 DEF Nodes, Phases
      <3>2. sink[w].st = "recording" => EngineOver'
        BY <2>5, <1>0 DEF EngineOver, Killed
      <3>3. ~node'.ph.eng => ~node.ph.eng \/ EngineOver'
        BY <3>1, <3>2
      <3> QED
        BY <2>3, <3>1, <3>3, <1>o DEF Ends, Stored
    <2> QED
      BY <1>7, <2>4, <2>5 DEF StopCommand
  <1>8. ASSUME NEW w \in Launches, EndRecording(w) PROVE Ends(node.ph)'
    <2>1. node'.ph = [node.ph EXCEPT !.rec = FALSE]
      BY <1>8, <1>0 DEF EndRecording, Nodes
    <2>2. node'.ph.exit = node.ph.exit /\ node'.ph.eng = node.ph.eng /\ node'.ph.st = node.ph.st
      BY <2>1, <1>0 DEF Phases
    <2> QED
      BY <2>2, <1>f
  <1>9. ASSUME NEW w \in Launches, DrainPipes(w) PROVE Ends(node.ph)'
    BY <1>9, <1>0, <1>u DEF DrainPipes, Nodes
  <1>10. ASSUME NEW w \in Launches, SinkCloses(w) PROVE Ends(node.ph)'
    <2>1. node'.ph = [node.ph EXCEPT !.eng = FALSE]
      BY <1>10, <1>0 DEF SinkCloses, Nodes
    <2>2. node'.ph.exit = node.ph.exit
      BY <2>1, <1>0 DEF Phases
    <2>3. EngineOver'
      BY <1>10, <1>0 DEF SinkCloses, Sink, EngineOver
    <2> QED
      BY <2>2, <2>3, <1>f
  <1>11. CASE ProbeCloses
    <2>1. \/ node'.ph = node.ph
          \/ node'.ph = [node.ph EXCEPT !.st = "complete", !.exit = 1, !.rec = FALSE]
      BY <1>11, <1>0 DEF ProbeCloses, Nodes
    <2>2. node'.ph = node.ph \/ (node'.ph.exit = 1 /\ node'.ph.eng = node.ph.eng)
      BY <2>1, <1>0 DEF Phases
    <2>3. Stored(node.ph)
      BY <1>11 DEF ProbeCloses, Sourced
    <2> QED
      BY <2>2, <2>3, <1>f, <1>u
  <1>12. CASE AskToStop
    BY <1>12, <1>0, <1>u DEF AskToStop, Nodes
  <1>13. ASSUME NEW w \in Launches, CommandWrites(w) \/ CommandExits(w) \/ RecordOutput(w) \/ RecordJournal(w)
                                    \/ StopTail(w) \/ WorkerDies(w) \/ EngineStarts(w) \/ SinkReads(w)
                                    \/ SinkFlush(w) \/ SinkFails(w) \/ EngineEnds(w)
         PROVE  Ends(node.ph)'
    BY <1>13, <1>u DEF CommandWrites, CommandExits, RecordOutput, RecordJournal, StopTail,
       WorkerDies, EngineStarts, SinkReads, SinkFlush, SinkFails, EngineEnds
  <1>14. CASE Reboot \/ Rotate \/ ProbeReads
    BY <1>14, <1>u DEF Reboot, Rotate, ProbeReads, nodeVars
  <1>15. ASSUME NEW c \in Collectors, CollectorStep(c) \/ Collected(c) \/ Deadline(c) PROVE Ends(node.ph)'
    BY <1>15, <1>u DEF CollectorStep, Acquire, Answer, Fails, AppendPage, UpdateMeta, Collected,
       Deadline, nodeVars
  <1>16. CASE ApiCollect \/ LaunchLost \/ Unanswered \/ Parse \/ Crash \/ Begin
    BY <1>16, <1>u DEF ApiCollect, LaunchLost, Unanswered, Parse, Crash, Begin, nodeVars
  <1>17. CASE CollectFailed \/ Decide \/ Cancel
    <2>1. Resend \/ Collect \/ \E r \in Results : Return(r)
      BY <1>17 DEF CollectFailed, Decide, Cancel, Results
    <2> QED
      BY <2>1, <1>u DEF Resend, Collect, Return, nodeVars
  <1>18. CASE UNCHANGED vars
    BY <1>18, <1>u DEF vars, nodeVars
  <1> QED
    BY <1>1, <1>2, <1>3, <1>4, <1>5, <1>6, <1>7, <1>8, <1>9, <1>10, <1>11, <1>12, <1>13, <1>14,
       <1>15, <1>16, <1>17, <1>18 DEF Next, LaunchStep, WorkerStep, SinkStep

\* Two positions' worth of facts about an appended log.
LEMMA Appended ==
    ASSUME NEW s \in Seq(Kinds), NEW t \in Seq(Kinds)
    PROVE  /\ s \o t \in Seq(Kinds) /\ Len(s) <= Len(s \o t)
           /\ \A k \in 1..Len(s) : (s \o t)[k] = s[k]
           /\ \A k \in 1..Len(s \o t) : Len(s) < k => (s \o t)[k] = t[k - Len(s)] /\ k - Len(s) \in 1..Len(t)
  <1>1. /\ s \o t \in Seq(Kinds) /\ Len(s \o t) = Len(s) + Len(t)
        /\ \A i \in 1 .. Len(s) + Len(t) : (s \o t)[i] = IF i <= Len(s) THEN s[i] ELSE t[i - Len(s)]
    BY ConcatProperties
  <1>2. Len(s) \in Nat /\ Len(t) \in Nat
    OBVIOUS
  <1> QED
    BY <1>1, <1>2

\* The node's log only grows, by output of a command whose pipe is not empty, by records that an
\* engine's sink holds, and by the journal's.
LogGrows ==
    /\ Len(nlog) <= Len(nlog')
    /\ \A k \in 1..Len(nlog) : nlog'[k] = nlog[k]
    /\ \A k \in 1..Len(nlog') : Len(nlog) < k =>
          /\ nlog'[k] = "out" => \E w \in Launches : pipe[w] > 0
          /\ nlog'[k] = "engine" => \E w \in Launches : sink[w].held > 0

\* Every step only appends to the log, and only what a command or a sink still holds.
LEMMA LinesGrow ==
    ASSUME NodeTyped, [Next]_vars
    PROVE  LogGrows
  <1>0. nlog \in Seq(Kinds) /\ Len(nlog) \in Nat /\ pipe \in [Launches -> Nat] /\ sink \in [Launches -> Sinks]
    BY DEF NodeTyped
  <1>u. ASSUME nlog' = nlog PROVE LogGrows
    BY <1>u, <1>0 DEF LogGrows
  <1>o. ASSUME NEW n \in Nat
        PROVE  /\ Outs(n) \in Seq(Kinds) /\ Len(Outs(n)) = n /\ \A k \in 1..n : Outs(n)[k] = "out"
               /\ EngineLines(n) \in Seq(Kinds) /\ Len(EngineLines(n)) = n
               /\ \A k \in 1..n : EngineLines(n)[k] = "engine"
    BY DEF Outs, EngineLines, Kinds
  <1>1. ASSUME NEW w \in Launches, RecordOutput(w) \/ DrainPipes(w) PROVE LogGrows
    <2>1. PICK n \in Nat, t \in Seq(Kinds) :
             /\ n = pipe[w] /\ nlog' = nlog \o t /\ Len(t) = n /\ \A k \in 1..n : t[k] = "out"
      <3>1. nlog' = nlog \o Outs(pipe[w]) /\ pipe[w] \in Nat
        BY <1>1, <1>0 DEF RecordOutput, DrainPipes
      <3>2. /\ Outs(pipe[w]) \in Seq(Kinds) /\ Len(Outs(pipe[w])) = pipe[w]
            /\ \A k \in 1..pipe[w] : Outs(pipe[w])[k] = "out"
        BY <3>1, <1>o
      <3> QED
        BY <3>1, <3>2
    <2>2. /\ Len(nlog) <= Len(nlog')
          /\ \A k \in 1..Len(nlog) : nlog'[k] = nlog[k]
          /\ \A k \in 1..Len(nlog') : Len(nlog) < k => nlog'[k] = t[k - Len(nlog)] /\ k - Len(nlog) \in 1..n
      BY <2>1, <1>0, Appended
    <2>3. \A k \in 1..Len(nlog') : Len(nlog) < k => nlog'[k] = "out" /\ pipe[w] > 0
      BY <2>1, <2>2
    <2> QED
      BY <2>2, <2>3 DEF LogGrows
  <1>2. ASSUME NEW w \in Launches, SinkFlush(w) PROVE LogGrows
    <2>1. PICK n \in Nat, t \in Seq(Kinds) :
             /\ n = sink[w].held /\ nlog' = nlog \o t /\ Len(t) = n /\ \A k \in 1..n : t[k] = "engine"
      <3>1. nlog' = nlog \o EngineLines(sink[w].held)
        BY <1>2 DEF SinkFlush
      <3>2. sink[w].held \in Nat
        BY <1>0 DEF Sinks
      <3>3. /\ EngineLines(sink[w].held) \in Seq(Kinds)
            /\ Len(EngineLines(sink[w].held)) = sink[w].held
            /\ \A k \in 1..sink[w].held : EngineLines(sink[w].held)[k] = "engine"
        BY <3>2, <1>o
      <3> QED
        BY <3>1, <3>2, <3>3
    <2>2. /\ Len(nlog) <= Len(nlog')
          /\ \A k \in 1..Len(nlog) : nlog'[k] = nlog[k]
          /\ \A k \in 1..Len(nlog') : Len(nlog) < k => nlog'[k] = t[k - Len(nlog)] /\ k - Len(nlog) \in 1..n
      BY <2>1, <1>0, Appended
    <2>3. \A k \in 1..Len(nlog') : Len(nlog) < k => nlog'[k] = "engine" /\ sink[w].held > 0
      BY <2>1, <2>2
    <2> QED
      BY <2>2, <2>3 DEF LogGrows
  <1>3. ASSUME NEW w \in Launches, RecordJournal(w) PROVE LogGrows
    <2>1. nlog' = Append(nlog, "other") /\ "other" \in Kinds
      BY <1>3 DEF RecordJournal, Kinds
    <2>2. Len(nlog') = Len(nlog) + 1 /\ nlog'[Len(nlog) + 1] = "other"
          /\ \A k \in 1..Len(nlog) : nlog'[k] = nlog[k]
      BY <2>1, <1>0, AppendProperties
    <2> QED
      BY <2>2, <1>0 DEF LogGrows
  <1>4. ASSUME NEW l \in Launches, LaunchStep(l) PROVE LogGrows
    BY <1>4, <1>u DEF LaunchStep, LaunchArrives, CreateRow, CheckPhase, WritePhase, Spawn
  <1>5. ASSUME NEW w \in Launches, \/ StartCommand(w) \/ MarkRunning(w) \/ CommandWrites(w) \/ CommandExits(w)
                                   \/ CommandDone(w) \/ StopCommand(w) \/ StopTail(w) \/ EndRecording(w)
                                   \/ WorkerDies(w)
        PROVE  LogGrows
    BY <1>5, <1>u DEF StartCommand, MarkRunning, CommandWrites, CommandExits, CommandDone,
       StopCommand, StopTail, EndRecording, WorkerDies
  <1>6. ASSUME NEW w \in Launches, EngineStarts(w) \/ SinkReads(w) \/ SinkFails(w) \/ SinkCloses(w) \/ EngineEnds(w)
        PROVE  LogGrows
    BY <1>6, <1>u DEF EngineStarts, SinkReads, SinkFails, SinkCloses, EngineEnds
  <1>7. CASE Reboot \/ Rotate \/ ProbeReads \/ ProbeCloses
    BY <1>7, <1>u DEF Reboot, Rotate, ProbeReads, ProbeCloses, nodeVars
  <1>8. ASSUME NEW c \in Collectors, CollectorStep(c) \/ Collected(c) \/ Deadline(c) PROVE LogGrows
    BY <1>8, <1>u DEF CollectorStep, Acquire, Answer, Fails, AppendPage, UpdateMeta, Collected,
       Deadline, nodeVars
  <1>9. CASE ApiCollect \/ AskToStop \/ LaunchLost \/ Unanswered \/ Parse \/ Crash \/ Begin
    BY <1>9, <1>u DEF ApiCollect, AskToStop, LaunchLost, Unanswered, Parse, Crash, Begin, nodeVars
  <1>10. CASE CollectFailed \/ Decide \/ Cancel
    <2>1. Resend \/ Collect \/ \E r \in Results : Return(r)
      BY <1>10 DEF CollectFailed, Decide, Cancel, Results
    <2> QED
      BY <2>1, <1>u DEF Resend, Collect, Return, nodeVars
  <1>11. CASE UNCHANGED vars
    BY <1>11, <1>u DEF vars, nodeVars
  <1> QED
    BY <1>1, <1>2, <1>3, <1>4, <1>5, <1>6, <1>7, <1>8, <1>9, <1>10, <1>11 DEF Next, WorkerStep,
       SinkStep

\* Only one launch has a command, if no two have raced: once it has ended, no pipe has output
\* left, and once its engine's recording has ended, no sink holds anything.
LEMMA NothingLeft ==
    ASSUME NodeTyped, Launched, Stages, Sourced, ~raced
    PROVE  /\ OutOver => \A w \in Launches : pipe[w] = 0
           /\ EngineOver => \A w \in Launches : sink[w].held = 0
  <1>1. cmd[1] = "none" \/ cmd[2] = "none"
    BY DEF Launched, Starting, Launches
  <1>2. ASSUME OutOver, NEW w \in Launches PROVE pipe[w] = 0
    BY <1>1, <1>2 DEF OutOver, Launches, Stages
  <1>3. ASSUME EngineOver, NEW w \in Launches PROVE sink[w].held = 0
    <2>1. CASE ~scene.engine
      BY <2>1 DEF Sourced, Stages
    <2>2. CASE scene.engine
      BY <1>1, <1>3, <2>2 DEF EngineOver, Launches, Stages
    <2> QED
      BY <2>1, <2>2
  <1> QED
    BY <1>2, <1>3

\* ... so that the node's log has no more of either.
LEMMA NoMoreStays ==
    ASSUME NodeTyped, Launched, Stages, Sourced, [Next]_vars, ~raced'
    PROVE  /\ ~raced
           /\ \A n \in Nat : OutOver /\ NoMore("out", n) => NoMore("out", n)'
           /\ \A n \in Nat : EngineOver /\ NoMore("engine", n) => NoMore("engine", n)'
           /\ OutOver => \A k \in 1..Len(nlog') : nlog'[k] = "out" => k \in 1..Len(nlog) /\ nlog[k] = "out"
  <1>1. ~raced
    BY OverStays
  <1>2. /\ OutOver => \A w \in Launches : pipe[w] = 0
        /\ EngineOver => \A w \in Launches : sink[w].held = 0
    BY <1>1, NothingLeft
  <1>3. LogGrows
    BY LinesGrow
  <1>0. Len(nlog) \in Nat
    BY DEF NodeTyped
  <1>4. ASSUME OutOver, NEW k \in 1..Len(nlog'), nlog'[k] = "out"
        PROVE  k \in 1..Len(nlog) /\ nlog[k] = "out"
    BY <1>0, <1>2, <1>3, <1>4 DEF LogGrows
  <1>5. ASSUME EngineOver, NEW k \in 1..Len(nlog'), nlog'[k] = "engine"
        PROVE  k \in 1..Len(nlog) /\ nlog[k] = "engine"
    BY <1>0, <1>2, <1>3, <1>5 DEF LogGrows
  <1> QED
    BY <1>1, <1>4, <1>5 DEF NoMore


\* A phase that is stored is never taken back.
LEMMA StoredStays ==
    ASSUME NodeTyped, Launched, Stored(node.ph), [Next]_vars
    PROVE  Stored(node'.ph)
  <1>0. node \in Nodes /\ node.ph \in Phases
    BY DEF NodeTyped, Nodes
  <1> USE DEF Stored
  <1>1. ASSUME NEW l \in Launches, LaunchStep(l) PROVE Stored(node'.ph)
    <2>1. CASE WritePhase(l)
      BY ZenonT(60), <2>1, <1>0 DEF WritePhase, Nodes, Phases
    <2>2. CASE Spawn(l)
      BY <2>2, <1>0 DEF Spawn, Phase, Nodes, Phases
    <2> QED
      BY <1>1, <2>1, <2>2, <1>0 DEF LaunchStep, LaunchArrives, CreateRow, CheckPhase, Nodes
  <1>2. ASSUME NEW w \in Launches, \/ StartCommand(w) \/ MarkRunning(w) \/ EndRecording(w) \/ DrainPipes(w)
                                   \/ SinkCloses(w)
        PROVE  Stored(node'.ph)
    <2>1. CASE StartCommand(w)
      <3>1. node' = node \/ node' = [node EXCEPT !.ph = [node.ph EXCEPT !.st = "complete", !.exit = 1, !.rec = FALSE]]
        BY <2>1 DEF StartCommand, Phase
      <3>2. ASSUME node' = [node EXCEPT !.ph = [node.ph EXCEPT !.st = "complete", !.exit = 1, !.rec = FALSE]]
            PROVE  Stored(node'.ph)
        BY <3>2, <1>0 DEF Nodes, Phases
      <3> QED
        BY <3>1, <3>2
    <2>2. CASE MarkRunning(w)
      BY <2>2, <1>0 DEF MarkRunning, Phase, Nodes, Phases
    <2>3. CASE EndRecording(w)
      BY <2>3, <1>0 DEF EndRecording, Phase, Nodes, Phases
    <2>4. CASE DrainPipes(w)
      BY <2>4, <1>0 DEF DrainPipes, Nodes
    <2>5. CASE SinkCloses(w)
      BY <2>5, <1>0 DEF SinkCloses, Phase, Nodes, Phases
    <2> QED
      BY <1>2, <2>1, <2>2, <2>3, <2>4, <2>5
  <1>3. ASSUME NEW w \in Launches, CommandDone(w) \/ StopCommand(w) PROVE Stored(node'.ph)
    <2>1. ASSUME NEW e, NEW b, Phase([node.ph EXCEPT !.st = "complete", !.exit = e, !.eng = b])
          PROVE  Stored(node'.ph)
      BY <2>1, <1>0 DEF Phase, Nodes, Phases
    <2>2. ASSUME NEW e, Phase([node.ph EXCEPT !.st = "complete", !.exit = e]) PROVE Stored(node'.ph)
      BY <2>2, <1>0 DEF Phase, Nodes, Phases
    <2>3. ASSUME Phase([node.ph EXCEPT !.st = "survivor", !.exit = 1, !.rec = FALSE]) PROVE Stored(node'.ph)
      BY <2>3, <1>0 DEF Phase, Nodes, Phases
    <2> QED
      BY <1>3, <2>1, <2>2, <2>3 DEF CommandDone, StopCommand
  <1>4. CASE ProbeCloses
    BY <1>4, <1>0 DEF ProbeCloses, Phase, Nodes, Phases
  <1>5. CASE AskToStop
    BY <1>5, <1>0 DEF AskToStop, Nodes
  <1>6. ASSUME NEW w \in Launches, CommandWrites(w) \/ CommandExits(w) \/ RecordOutput(w) \/ RecordJournal(w)
                                   \/ StopTail(w) \/ WorkerDies(w) \/ EngineStarts(w) \/ SinkReads(w)
                                   \/ SinkFlush(w) \/ SinkFails(w) \/ EngineEnds(w)
        PROVE  Stored(node'.ph)
    BY <1>6 DEF CommandWrites, CommandExits, RecordOutput, RecordJournal, StopTail, WorkerDies,
       EngineStarts, SinkReads, SinkFlush, SinkFails, EngineEnds
  <1>7. CASE Reboot \/ Rotate \/ ProbeReads
    BY <1>7 DEF Reboot, Rotate, ProbeReads, nodeVars
  <1>8. ASSUME NEW c \in Collectors, CollectorStep(c) \/ Collected(c) \/ Deadline(c) PROVE Stored(node'.ph)
    BY <1>8 DEF CollectorStep, Acquire, Answer, Fails, AppendPage, UpdateMeta, Collected,
       Deadline, nodeVars
  <1>9. CASE ApiCollect \/ LaunchLost \/ Unanswered \/ Parse \/ Crash \/ Begin
    BY <1>9 DEF ApiCollect, LaunchLost, Unanswered, Parse, Crash, Begin, nodeVars
  <1>10. CASE CollectFailed \/ Decide \/ Cancel
    <2>1. Resend \/ Collect \/ \E r \in Results : Return(r)
      BY <1>10 DEF CollectFailed, Decide, Cancel, Results
    <2> QED
      BY <2>1 DEF Resend, Collect, Return, nodeVars
  <1>11. CASE UNCHANGED vars
    BY <1>11 DEF vars, nodeVars
  <1> QED
    BY <1>1, <1>2, <1>3, <1>4, <1>5, <1>6, <1>7, <1>8, <1>9, <1>10, <1>11 DEF Next, WorkerStep,
       SinkStep

\* The probe's source and the absence of a sink are kept.
LEMMA SourcedNext ==
    ASSUME NodeTyped, Launched, Stages, Sourced, [Next]_vars, NodeTyped'
    PROVE  Sourced'
  <1>1. scene' = scene
    BY OverStays
  <1>2. LogGrows
    BY LinesGrow
  <1>0. /\ node \in Nodes /\ node.ph \in Phases /\ sink \in [Launches -> Sinks] /\ Len(nlog) \in Nat
        /\ scene.engine \in BOOLEAN
    BY DEF NodeTyped, Nodes, Scenario
  <1>3. ASSUME ~scene.engine PROVE (\A w \in Launches : sink'[w].st = "none") /\ NoMore("engine", 0)'
    <2>0. (\A w \in Launches : sink[w].st = "none" /\ sink[w].held = 0) /\ NoMore("engine", 0)
      BY <1>3 DEF Sourced, Stages
    <2>1. \A w \in Launches : ~SinkStep(w)
      BY <1>3, <2>0 DEF SinkStep, EngineStarts, SinkReads, SinkFlush, SinkFails, SinkCloses,
         EngineEnds
    <2>2. ASSUME NEW w \in Launches, StopCommand(w) PROVE \A v \in Launches : sink'[v].st = "none"
      BY <2>2, <2>0, <1>0 DEF StopCommand
    <2>3. ASSUME Reboot PROVE \A v \in Launches : sink'[v].st = "none"
      BY <2>3, <2>0, <1>0 DEF Reboot, NoSink
    <2>4. ASSUME sink' = sink PROVE \A v \in Launches : sink'[v].st = "none"
      BY <2>4, <2>0
    <2>5. \A v \in Launches : sink'[v].st = "none"
      <3>1. ASSUME NEW l \in Launches, LaunchStep(l) PROVE sink' = sink
        BY <3>1 DEF LaunchStep, LaunchArrives, CreateRow, CheckPhase, WritePhase, Spawn
      <3>2. ASSUME NEW w \in Launches, WorkerStep(w) PROVE sink' = sink \/ StopCommand(w)
        BY <3>2 DEF WorkerStep, StartCommand, MarkRunning, CommandWrites, CommandExits,
           RecordOutput, RecordJournal, CommandDone, StopTail, DrainPipes, EndRecording,
           WorkerDies
      <3>3. ASSUME Rotate \/ ProbeReads \/ ProbeCloses PROVE sink' = sink
        BY <3>3 DEF Rotate, ProbeReads, ProbeCloses, nodeVars
      <3>4. ASSUME NEW c \in Collectors, CollectorStep(c) \/ Collected(c) \/ Deadline(c) PROVE sink' = sink
        BY <3>4 DEF CollectorStep, Acquire, Answer, Fails, AppendPage, UpdateMeta, Collected,
           Deadline, nodeVars
      <3>5. ASSUME ApiCollect \/ AskToStop \/ LaunchLost \/ Unanswered \/ Parse \/ Crash \/ Begin PROVE sink' = sink
        BY <3>5 DEF ApiCollect, AskToStop, LaunchLost, Unanswered, Parse, Crash, Begin, nodeVars
      <3>6. ASSUME CollectFailed \/ Decide \/ Cancel PROVE sink' = sink
        <4>1. Resend \/ Collect \/ \E r \in Results : Return(r)
          BY <3>6 DEF CollectFailed, Decide, Cancel, Results
        <4> QED
          BY <4>1 DEF Resend, Collect, Return, nodeVars
      <3>7. ASSUME UNCHANGED vars PROVE sink' = sink
        BY <3>7 DEF vars, nodeVars
      <3> QED
        BY <2>1, <2>2, <2>3, <2>4, <3>1, <3>2, <3>3, <3>4, <3>5, <3>6, <3>7 DEF Next
    <2>6. \A k \in 1..Len(nlog') : nlog'[k] # "engine"
      BY <1>0, <1>2, <2>0 DEF LogGrows, NoMore
    <2> QED
      BY <2>5, <2>6 DEF NoMore
  <1>4. Stored(probe') => Stored(node'.ph)
    <2>1. ASSUME Stored(node.ph) PROVE Stored(node'.ph)
      BY <2>1, StoredStays
    <2>2. Stored(probe') => probe' = probe \/ Stored(node.ph)
      <3>1. ASSUME NEW l \in Launches, LaunchStep(l) \/ WorkerStep(l) \/ SinkStep(l) PROVE probe' = probe
        BY <3>1 DEF LaunchStep, LaunchArrives, CreateRow, CheckPhase, WritePhase, Spawn,
           WorkerStep, StartCommand, MarkRunning, CommandWrites, CommandExits, RecordOutput,
           RecordJournal, CommandDone, StopCommand, StopTail, DrainPipes, EndRecording,
           WorkerDies, SinkStep, EngineStarts, SinkReads, SinkFlush, SinkFails, SinkCloses,
           EngineEnds
      <3>2. ASSUME Reboot \/ Rotate PROVE probe' = probe
        BY <3>2 DEF Reboot, Rotate
      <3>3. CASE ProbeReads
        BY <3>3 DEF ProbeReads, Stored
      <3>4. CASE ProbeCloses
        BY <3>4 DEF ProbeCloses, Stored, None
      <3>5. ASSUME NEW c \in Collectors, CollectorStep(c) \/ Collected(c) \/ Deadline(c) PROVE probe' = probe
        BY <3>5 DEF CollectorStep, Acquire, Answer, Fails, AppendPage, UpdateMeta, Collected,
           Deadline
      <3>6. ASSUME ApiCollect \/ AskToStop \/ LaunchLost \/ Unanswered \/ Parse \/ Crash \/ Begin PROVE probe' = probe
        BY <3>6 DEF ApiCollect, AskToStop, LaunchLost, Unanswered, Parse, Crash, Begin
      <3>7. ASSUME CollectFailed \/ Decide \/ Cancel PROVE probe' = probe
        <4>1. Resend \/ Collect \/ \E r \in Results : Return(r)
          BY <3>7 DEF CollectFailed, Decide, Cancel, Results
        <4> QED
          BY <4>1 DEF Resend, Collect, Return
      <3>8. ASSUME UNCHANGED vars PROVE probe' = probe
        BY <3>8 DEF vars
      <3> QED
        BY <3>1, <3>2, <3>3, <3>4, <3>5, <3>6, <3>7, <3>8 DEF Next
    <2> QED
      BY <2>1, <2>2 DEF Sourced
  <1> QED
    BY <1>1, <1>3, <1>4 DEF Sourced

\* The node's steps leave what the gateway has.
LEMMA NodeStepGate == NodeStep => UNCHANGED gateVars
  <1>1. ASSUME NEW l \in Launches, LaunchStep(l) PROVE UNCHANGED gateVars
    BY <1>1 DEF LaunchStep, LaunchArrives, CreateRow, CheckPhase, WritePhase, Spawn
  <1>2. ASSUME NEW l \in Launches, WorkerStep(l) PROVE UNCHANGED gateVars
    BY <1>2 DEF WorkerStep, StartCommand, MarkRunning, CommandWrites, CommandExits, RecordOutput,
       RecordJournal, CommandDone, StopCommand, StopTail, DrainPipes, EndRecording, WorkerDies
  <1>3. ASSUME NEW l \in Launches, SinkStep(l) PROVE UNCHANGED gateVars
    BY <1>3 DEF SinkStep, EngineStarts, SinkReads, SinkFlush, SinkFails, SinkCloses, EngineEnds
  <1>4. ASSUME Reboot \/ Rotate \/ ProbeReads \/ ProbeCloses PROVE UNCHANGED gateVars
    BY <1>4 DEF Reboot, Rotate, ProbeReads, ProbeCloses
  <1> QED
    BY <1>1, <1>2, <1>3, <1>4 DEF NodeStep

(***************************************************************************)
(* Who collects when                                                       *)
(***************************************************************************)
\* The lock of the attempt: a collector that asks has it; the one of run() keeps it to its
\* last record, but for a launch's answer, which needs none.  The operation's end is
\* collected after run() has returned.
Locking ==
    /\ col[Own].pc # "wait" /\ col[Api].pc # "wait"
    /\ \A c \in {Api, Closing} : col[c].pc \notin {"launch", "unanswered"}
    /\ \A c \in {Api, Closing} : col[c].pc \in {"ask", "wait"} => lock = c
    /\ lock = Own <=> run.pc = "collect" /\ col[Own].pc \in {"ask", "append", "meta"}
    /\ col[Own].pc \in {"launch", "unanswered"} => run.pc = "launch"
    /\ col[Own].pc \in {"want", "ask", "failed", "missing"} => run.pc = "collect"
    /\ col[Closing].pc # "idle" => run.pc = "over"
    /\ run.pc = "idle" => \A c \in Collectors : col[c].pc = "idle"
    /\ run.lost => run.pc \in {"collect", "decide"}

\* Every step keeps that.
LEMMA LockingNext ==
    ASSUME NodeTyped, GateTyped, Paged, Locking, [Next]_vars
    PROVE  Locking'
  <1>0. /\ col \in [Collectors -> [pc : CPCs, page : Pages]] /\ run \in Runs
        /\ lock \in Collectors \cup {"free"}
        /\ run.pc = "decide" => col[Own].pc = "idle"
    BY DEF GateTyped, Paged
  <1> USE DEF Locking, Collectors, Own, Api, Closing
  <1>u. ASSUME UNCHANGED <<col, run, lock>> PROVE Locking'
    BY <1>u
  <1>1. CASE NodeStep
    BY <1>1, <1>u, NodeStepGate DEF gateVars
  <1>2. ASSUME NEW c \in Collectors, Acquire(c) PROVE Locking'
    BY <1>2, <1>0 DEF Acquire
  <1>3. ASSUME NEW c \in Collectors, Answer(c) PROVE Locking'
    <2>1. PICK page : col' = [col EXCEPT ![c] = [pc |-> "append", page |-> page]]
      BY <1>3 DEF Answer
    <2>2. UNCHANGED <<lock, run>> /\ col[c].pc \in {"ask", "wait", "launch"}
      BY <1>3 DEF Answer
    <2> QED
      BY <2>1, <2>2, <1>0
  <1>4. ASSUME NEW c \in Collectors, Fails(c) PROVE Locking'
    <2>1. PICK pc \in {"failed", "missing"} : col' = [col EXCEPT ![c].pc = pc]
      BY <1>4 DEF Fails, Move
    <2>2. run' = run /\ lock' = (IF lock = c THEN "free" ELSE lock) /\ col[c].pc \in {"ask", "wait"}
      BY <1>4 DEF Fails, Free
    <2> QED
      BY <2>1, <2>2, <1>0
  <1>5. ASSUME NEW c \in Collectors, AppendPage(c) PROVE Locking'
    <2>1. col' = [col EXCEPT ![c].pc = "meta"] /\ UNCHANGED <<lock, run>> /\ col[c].pc = "append"
      BY <1>5 DEF AppendPage, Move
    <2> QED
      BY <2>1, <1>0
  <1>6. ASSUME NEW c \in Collectors, UpdateMeta(c) PROVE Locking'
    <2>1. PICK page : \/ lock' = lock /\ lock = c /\ col' = [col EXCEPT ![c] = [pc |-> "ask", page |-> page]]
                      \/ /\ col' = [col EXCEPT ![c] = [pc |-> "done", page |-> page]]
                         /\ lock' = (IF lock = c THEN "free" ELSE lock)
      BY <1>6 DEF UpdateMeta, Free
    <2>2. run' = run /\ col[c].pc = "meta"
      BY <1>6 DEF UpdateMeta
    <2> QED
      BY <2>1, <2>2, <1>0
  <1>7. ASSUME NEW c \in Collectors, Collected(c) PROVE Locking'
    BY <1>7, <1>0 DEF Collected, Move
  <1>8. ASSUME NEW c \in Collectors, Deadline(c) PROVE Locking'
    <2>1. /\ c # Own /\ run' = run /\ lock' = (IF lock = c THEN "free" ELSE lock)
          /\ \/ col[c].pc \in {"want", "ask", "wait"} /\ col' = [col EXCEPT ![c].pc = "idle"]
             \/ col[c].pc \in {"append", "meta"} /\ col' = col
      BY <1>8 DEF Deadline, Move, Free, Ingesting
    <2> QED
      BY <2>1, <1>0
  <1>9. CASE ApiCollect
    BY <1>9, <1>0 DEF ApiCollect, Move
  <1>10. CASE AskToStop
    BY <1>10, <1>0 DEF AskToStop, Move
  <1>11. CASE Begin
    BY <1>11, <1>0 DEF Begin, Runs
  <1>12. CASE LaunchLost
    BY <1>12, <1>0 DEF LaunchLost, Move
  <1>13. CASE Unanswered
    BY <1>13, <1>0 DEF Unanswered, Move, Runs
  <1>14. CASE Resend /\ run.pc \in {"collect", "decide"} /\ col[Own].pc \in {"idle", "failed", "missing"}
    BY <1>14, <1>0 DEF Resend, Runs
  <1>15. CASE Collect /\ run.pc \in {"collect", "decide"} /\ col[Own].pc \in {"idle", "failed", "missing"}
    BY <1>15, <1>0 DEF Collect, Move, Runs
  <1>16. ASSUME NEW r \in Results, Return(r), run.pc \in {"launch", "collect", "decide"} PROVE Locking'
    <2>1. /\ run'.pc = "over" /\ run'.lost = FALSE
      BY <1>16, <1>0 DEF Return, Runs
    <2>2. /\ lock' = (IF lock = Own THEN "free" ELSE lock)
          /\ col'[Api] = col[Api]
          /\ col'[Own].pc = "idle" \/ (col'[Own] = col[Own] /\ col[Own].pc \in {"append", "meta"})
          /\ col'[Closing].pc = "want" \/ col'[Closing] = col[Closing]
      BY <1>16, <1>0 DEF Return, Free, Ingesting
    <2> QED
      BY <2>1, <2>2, <1>16
  <1>17. CASE Parse
    <2>1. /\ run'.pc = "decide" /\ run'.lost = run.lost /\ run.pc \in {"launch", "collect"}
          /\ lock' = lock /\ col[Own].pc = "done" /\ col' = [col EXCEPT ![Own].pc = "idle"]
      BY <1>17, <1>0 DEF Parse, Move, Runs
    <2> QED
      BY <2>1, <1>0
  <1>18. CASE CollectFailed \/ Decide \/ Cancel
    BY <1>18, <1>14, <1>15, <1>16, <1>0 DEF CollectFailed, Decide, Cancel, Results
  <1>19. CASE Crash
    BY <1>19, <1>0 DEF Crash, Runs
  <1>20. CASE UNCHANGED vars
    BY <1>20, <1>u DEF vars, gateVars
  <1> QED
    BY <1>1, <1>2, <1>3, <1>4, <1>5, <1>6, <1>7, <1>8, <1>9, <1>10, <1>11, <1>12, <1>13, <1>17,
       <1>18, <1>19, <1>20 DEF Next, NodeStep, CollectorStep

\* What the gateway has stored stays; its cursor moves only when an entry is stored.
GateGrows ==
    /\ gate.cursor <= gate'.cursor /\ Len(gate.log) <= Len(gate'.log)
    /\ gate'.cursor # gate.cursor => Len(gate.log) < Len(gate'.log)
    /\ \A i \in 1..Len(gate.log) : gate'.log[i] = gate.log[i]
    /\ gate.gaps \subseteq gate'.gaps

\* Storing the records of a page: what was new of them has moved the cursor.
LEMMA AppendEffect ==
    ASSUME Inv, NEW c \in Collectors, AppendPage(c)
    PROVE  LET page == col[c].page IN
           /\ GateGrows /\ gate'.ph = gate.ph
           /\ page.more /\ page.lo < page.hi => gate'.cursor # gate.cursor \/ page.hi <= gate.cursor
           /\ col[c].pc = "append" /\ col' = [col EXCEPT ![c].pc = "meta"]
           /\ UNCHANGED <<scene, nodeVars, lock, run, crossed, probe, raced>>
  <1> DEFINE page == col[c].page
             first == Larger(page.lo, gate.cursor)
  <1>1. /\ gate.cursor \in Nat /\ gate.log \in Seq(Entries) /\ Len(gate.log) \in Nat
        /\ page.lo \in Nat /\ page.hi \in Nat
    BY DEF Inv, GateTyped, Gates, Pages
  <1>2. /\ first \in Nat /\ first >= gate.cursor /\ first \in {page.lo, gate.cursor}
        /\ \/ page.hi <= first /\ gate' = gate
           \/ /\ first < page.hi
              /\ gate' = [cursor |-> page.hi, log |-> gate.log \o Batch(first, page.hi),
                          gaps |-> gate.gaps \cup (gate.cursor .. (first - 1)), ph |-> gate.ph]
    BY AppendIs DEF Inv
  <1>3. /\ col[c].pc = "append" /\ col' = [col EXCEPT ![c].pc = "meta"]
        /\ UNCHANGED <<scene, nodeVars, lock, run, crossed, probe, raced>>
    BY DEF AppendPage, Move
  <1> HIDE DEF first
  <1>4. CASE page.hi <= first /\ gate' = gate
    <2>1. GateGrows /\ gate'.ph = gate.ph
      BY <1>1, <1>4 DEF GateGrows
    <2>2. page.lo < page.hi => page.hi <= gate.cursor
      BY <1>1, <1>2, <1>4
    <2> QED
      BY <1>3, <2>1, <2>2
  <1>5. CASE /\ first < page.hi
             /\ gate' = [cursor |-> page.hi, log |-> gate.log \o Batch(first, page.hi),
                         gaps |-> gate.gaps \cup (gate.cursor .. (first - 1)), ph |-> gate.ph]
    <2>1. PICK t \in Seq(Entries) : Len(t) = page.hi - first /\ t = Batch(first, page.hi)
      BY <1>1, <1>2, <1>5, BatchType
    <2>2. /\ gate'.cursor = page.hi /\ gate'.log = gate.log \o t /\ gate'.ph = gate.ph
          /\ gate.gaps \subseteq gate'.gaps
      BY <1>5, <2>1
    <2>3. /\ Len(gate'.log) = Len(gate.log) + Len(t)
          /\ \A i \in 1..(Len(gate.log) + Len(t)) : i <= Len(gate.log) => gate'.log[i] = gate.log[i]
      BY <2>2, <1>1, ConcatProperties
    <2>4. Len(t) \in Nat /\ Len(t) > 0
      BY <2>1, <1>1, <1>2, <1>5
    <2>5. gate.cursor < gate'.cursor /\ Len(gate.log) < Len(gate'.log)
      <3>1. first < page.hi
        BY <1>5
      <3>2. gate.cursor < page.hi
        BY <1>1, <1>2, <3>1
      <3> QED
        BY <1>1, <2>2, <2>3, <2>4, <3>2
    <2>6. \A i \in 1..Len(gate.log) : gate'.log[i] = gate.log[i]
      BY <1>1, <2>3, <2>4
    <2>7. GateGrows /\ gate'.cursor # gate.cursor
      BY <1>1, <2>2, <2>5, <2>6 DEF GateGrows
    <2> QED
      BY <1>3, <2>2, <2>7
  <1> QED
    BY <1>2, <1>4, <1>5

\* Storing a page's metadata: the last page leaves the cursor at the end of what it knew.
LEMMA MetaEffect ==
    ASSUME Inv, NEW c \in Collectors, UpdateMeta(c)
    PROVE  LET page == col[c].page IN
           /\ GateGrows /\ gate'.ph = page.ph
           /\ ~page.more => page.next <= gate'.cursor
           /\ crossed' = (crossed \/ (c # Own /\ run.pc = "decide"))
           /\ \/ /\ page.more /\ lock = c /\ lock' = lock
                 /\ col' = [col EXCEPT ![c] = [pc |-> "ask", page |-> Ask(gate'.cursor)]]
              \/ col' = [col EXCEPT ![c] = [pc |-> "done", page |-> NoPage]]
           /\ col[c].pc = "meta"
           /\ UNCHANGED <<scene, nodeVars, run, probe, raced>>
  <1> DEFINE page == col[c].page
  <1>1. /\ gate \in Gates /\ gate.cursor \in Nat /\ gate.log \in Seq(Entries) /\ Len(gate.log) \in Nat
        /\ page.next \in Nat
    BY DEF Inv, GateTyped, Gates, Pages
  <1>2. /\ crossed' = (crossed \/ (c # Own /\ run.pc = "decide")) /\ col[c].pc = "meta"
        /\ \/ /\ page.more /\ lock = c /\ lock' = lock
              /\ col' = [col EXCEPT ![c] = [pc |-> "ask", page |-> Ask(gate'.cursor)]]
           \/ col' = [col EXCEPT ![c] = [pc |-> "done", page |-> NoPage]]
        /\ UNCHANGED <<scene, nodeVars, run, probe, raced>>
    BY DEF UpdateMeta
  <1>3. CASE Missing(page) = {}
    <2>1. gate' = [gate EXCEPT !.ph = page.ph]
      BY <1>3 DEF UpdateMeta
    <2>2. /\ gate'.cursor = gate.cursor /\ gate'.log = gate.log /\ gate'.gaps = gate.gaps /\ gate'.ph = page.ph
      BY <2>1, <1>1 DEF Gates
    <2>3. ~page.more => page.next <= gate.cursor
      BY <1>1, <1>3 DEF Missing
    <2> QED
      BY <1>1, <1>2, <2>2, <2>3 DEF GateGrows
  <1>4. CASE Missing(page) # {}
    <2>1. ~page.more /\ gate.cursor < page.next
      BY <1>1, <1>4 DEF Missing
    <2>2. gate' = [gate EXCEPT !.ph = page.ph,
                               !.log = Append(@, [seq |-> page.next - 1, real |-> FALSE]),
                               !.gaps = @ \cup Missing(page),
                               !.cursor = page.next]
      BY <1>4 DEF UpdateMeta
    <2>3. PICK e : gate'.log = Append(gate.log, e) /\ e \in Entries
      <3>1. gate'.log = Append(gate.log, [seq |-> page.next - 1, real |-> FALSE])
        BY <2>2, <1>1 DEF Gates
      <3>2. [seq |-> page.next - 1, real |-> FALSE] \in Entries
        BY <2>1, <1>1 DEF Entries
      <3> QED
        BY <3>1, <3>2
    <2>4. gate'.cursor = page.next /\ gate'.ph = page.ph /\ gate'.gaps = gate.gaps \cup Missing(page)
      BY <2>2, <1>1 DEF Gates
    <2>5. /\ Len(gate'.log) = Len(gate.log) + 1
          /\ \A i \in 1..Len(gate.log) : gate'.log[i] = gate.log[i]
      BY <2>3, <1>1, AppendProperties
    <2> QED
      BY <1>1, <1>2, <2>1, <2>4, <2>5 DEF GateGrows
  <1> QED
    BY <1>3, <1>4

\* An answered page: what it tells is what the node had.
LEMMA AnswerEffect ==
    ASSUME Inv, NEW c \in Collectors, Answer(c)
    PROVE  /\ col[c].pc \in {"ask", "wait", "launch"}
           /\ \E page \in Pages :
                /\ col' = [col EXCEPT ![c] = [pc |-> "append", page |-> page]]
                /\ page.next = Len(nlog) /\ page.ph = Seen(node.ph)
                /\ col[c].page.lo <= page.lo
                /\ page.more => page.lo < page.hi
           /\ UNCHANGED <<scene, node, nlog, wpc, cmd, pipe, sink, gate, lock, run, crossed, probe, raced>>
  <1>1. PICK d \in ndrop..Smaller(scene.drops, Len(nlog)) :
           LET lo == Larger(col[c].page.lo, d)
               hi == Smaller(Len(nlog), lo + PageLimit)
           IN  col' = [col EXCEPT ![c] = [pc |-> "append",
                          page |-> [next |-> Len(nlog), ph |-> Seen(node.ph), lo |-> lo, hi |-> hi,
                                    more |-> hi < Len(nlog)]]]
    BY DEF Answer
  <1>2. /\ Len(nlog) \in Nat /\ ndrop \in Nat /\ PageLimit \in Nat /\ PageLimit > 0
        /\ col[c].page.lo \in Nat /\ node.ph \in Phases /\ d \in Nat
    BY AttemptsAssumption DEF Inv, NodeTyped, Nodes, GateTyped, Pages
  <1>3. PICK lo \in Nat : lo = Larger(col[c].page.lo, d) /\ col[c].page.lo <= lo
    BY <1>2 DEF Larger
  <1>4. PICK hi \in Nat : hi = Smaller(Len(nlog), lo + PageLimit) /\ (hi < Len(nlog) => lo < hi)
    BY <1>2 DEF Smaller
  <1>5. PICK more \in BOOLEAN : more = (hi < Len(nlog)) /\ (more <=> hi < Len(nlog))
    <2>1. CASE hi < Len(nlog)
      <3>1. (hi < Len(nlog)) = TRUE
        BY <2>1
      <3> QED
        BY <3>1
    <2>2. CASE ~(hi < Len(nlog))
      <3>1. (hi < Len(nlog)) = FALSE
        BY <2>2
      <3> QED
        BY <3>1
    <2> QED
      BY <2>1, <2>2
  <1>6. [next |-> Len(nlog), ph |-> Seen(node.ph), lo |-> lo, hi |-> hi, more |-> more] \in Pages
    BY <1>2 DEF Pages, Copies
  <1>7. col' = [col EXCEPT ![c] = [pc |-> "append", page |-> [next |-> Len(nlog), ph |-> Seen(node.ph),
                                   lo |-> lo, hi |-> hi, more |-> more]]]
    BY <1>1, <1>3, <1>4, <1>5
  <1>8. /\ col[c].pc \in {"ask", "wait", "launch"}
        /\ UNCHANGED <<scene, node, nlog, wpc, cmd, pipe, sink, gate, lock, run, crossed, probe, raced>>
    BY DEF Answer
  <1> QED
    BY <1>3, <1>4, <1>5, <1>6, <1>7, <1>8

(***************************************************************************)
(* What the cursor tells                                                   *)
(***************************************************************************)
\* run() has not returned, and has something to collect.
Active == run.pc \in {"launch", "collect"}

\* The gateway has entries that run() has not parsed.
Grown == Len(gate.log) > run.off

\* A page with more to follow is not empty.
Begun ==
    \A c \in Collectors : col[c].pc \in Ingesting /\ col[c].page.more => col[c].page.lo < col[c].page.hi

\* run() has asked from the end of what it had parsed: if the cursor is beyond that, there
\* is more to parse, and so there is when a page of its own has more to follow.
OwnAsks ==
    Active =>
      /\ col[Own].pc \in {"launch", "ask", "append"} /\ gate.cursor > col[Own].page.lo => Grown
      /\ col[Own].pc = "meta" /\ col[Own].page.more => Grown

\* While another collector asks, only a launch's answer moves the cursor, and the launch
\* is then not repeated.
ApiAsks ==
    col[Api].pc = "ask" /\ gate.cursor > col[Api].page.lo =>
      /\ ~run.lost
      /\ run.pc = "launch" => Grown /\ col[Own].pc \notin {"launch", "unanswered"}
      /\ run.pc = "collect" => col[Own].pc # "done"

\* Its page with more to follow is late: either what it told is still to be parsed, or
\* run() has yet to ask the node, or has asked it after that page and got as far.
Overtaken ==
    LET own == col[Own]
        api == col[Api]
    IN  /\ Active /\ api.pc \in Ingesting /\ api.page.more
        /\ api.pc = "append" => api.page.hi <= gate.cursor
        =>
        \/ Grown
        \/ own.pc \notin {"append", "meta", "done"}
        \/ own.pc \in Ingesting /\ api.page.next <= own.page.next
        \/ own.pc = "done" /\ api.page.next <= gate.cursor

\* How far the collectors, the cursor and the parse offset are from each other
Order == Begun /\ OwnAsks /\ ApiAsks /\ Overtaken

\* Every step keeps that.
LEMMA OrderNext ==
    ASSUME Inv, Locking, Order, [Next]_vars, Locking'
    PROVE  Order'
  <1>0. /\ col \in [Collectors -> [pc : CPCs, page : Pages]] /\ run \in Runs
        /\ gate.cursor \in Nat /\ Len(gate.log) \in Nat /\ run.off \in Nat /\ run.off <= Len(gate.log)
        /\ run.pc = "decide" => col[Own].pc = "idle"
        /\ \A c \in Collectors : /\ col[c].page.lo \in Nat /\ col[c].page.hi \in Nat /\ col[c].page.next \in Nat
                                 /\ col[c].pc \in Ingesting => col[c].page.next <= Len(nlog)
    BY DEF Inv, GateTyped, Gates, Runs, Pages, Paged, PageOK
  <1>n. Len(nlog) \in Nat
    BY DEF Inv, NodeTyped
  <1>a. /\ Ask(gate.cursor).lo = gate.cursor /\ Ask(0).lo = 0
    BY DEF Ask
  <1> USE DEF Collectors, Own, Api, Closing
  <1>u. ASSUME UNCHANGED <<gate, col, run>> PROVE Order'
    BY <1>u DEF Order, Begun, OwnAsks, ApiAsks, Overtaken, Active, Grown
  <1>1. CASE NodeStep
    BY <1>1, <1>u, NodeStepGate DEF gateVars
  <1>2. ASSUME NEW c \in Collectors, Acquire(c) PROVE Order'
    <2>1. /\ UNCHANGED <<gate, run>> /\ col[c].pc = "want" /\ lock = "free" /\ lock' = c
          /\ col' = [col EXCEPT ![c] = [pc |-> "ask", page |-> Ask(gate.cursor)]]
      BY <1>2 DEF Acquire
    <2> QED
      BY <2>1, <1>0, <1>a DEF Order, Begun, OwnAsks, ApiAsks, Overtaken, Active, Grown, Ingesting,
         Locking
  <1>3. ASSUME NEW c \in Collectors, Answer(c) PROVE Order'
    <2>1. PICK page \in Pages :
             /\ col' = [col EXCEPT ![c] = [pc |-> "append", page |-> page]]
             /\ page.next = Len(nlog) /\ col[c].page.lo <= page.lo /\ (page.more => page.lo < page.hi)
      BY <1>3, AnswerEffect
    <2>2. UNCHANGED <<gate, run, lock>> /\ col[c].pc \in {"ask", "wait", "launch"}
      BY <1>3, AnswerEffect
    <2>3. page.next \in Nat /\ page.lo \in Nat /\ page.hi \in Nat
      BY DEF Pages
    <2>4. Begun'
      BY <2>1, <2>2, <1>0 DEF Order, Begun, Ingesting
    <2>5. OwnAsks'
      BY SMTT(30), <2>1, <2>2, <2>3, <1>0 DEF Order, OwnAsks, Active, Grown, Locking
    <2>6. ApiAsks'
      BY <2>1, <2>2, <2>3, <1>0 DEF Order, ApiAsks, Active, Grown, Locking
    <2>7. Overtaken'
      <3>1. CASE c = Own
        BY <3>1, <2>1, <2>2, <2>3, <1>0, <1>n DEF Order, Overtaken, Active, Grown, Ingesting
      <3>2. CASE c = Api
        <4>1. col[Api].pc = "ask" /\ lock = Api
          BY <3>2, <2>2 DEF Locking
        <4>2. /\ page.more /\ page.hi <= gate.cursor => gate.cursor > col[Api].page.lo
          BY SMTT(30), <3>2, <2>1, <2>3, <1>0
        <4> QED
          BY <3>2, <4>1, <4>2, <2>1, <2>2, <1>0 DEF Order, Overtaken, ApiAsks, Active, Grown,
             Ingesting, Locking
      <3>3. CASE c = Closing
        BY <3>3, <2>1, <2>2, <1>0 DEF Overtaken, Active, Locking
      <3> QED
        BY <3>1, <3>2, <3>3
    <2> QED
      BY <2>4, <2>5, <2>6, <2>7 DEF Order
  <1>4. ASSUME NEW c \in Collectors, Fails(c) PROVE Order'
    <2>1. PICK pc \in {"failed", "missing"} : col' = [col EXCEPT ![c].pc = pc]
      BY <1>4 DEF Fails, Move
    <2>2. UNCHANGED <<gate, run>> /\ col[c].pc \in {"ask", "wait"}
      BY <1>4 DEF Fails
    <2> QED
      BY <2>1, <2>2, <1>0 DEF Order, Begun, OwnAsks, ApiAsks, Overtaken, Active, Grown, Ingesting,
         Locking
  <1>5. ASSUME NEW c \in Collectors, AppendPage(c) PROVE Order'
    <2>1. /\ GateGrows /\ gate'.ph = gate.ph /\ UNCHANGED <<lock, run>>
          /\ col[c].page.more /\ col[c].page.lo < col[c].page.hi =>
                gate'.cursor # gate.cursor \/ col[c].page.hi <= gate.cursor
          /\ col[c].pc = "append" /\ col' = [col EXCEPT ![c].pc = "meta"]
      BY <1>5, AppendEffect
    <2>2. gate'.cursor \in Nat /\ Len(gate'.log) \in Nat
      BY AppendOK, <1>5 DEF Inv, GateTyped, Gates
    <2>3. /\ Grown => Grown' /\ gate.cursor <= gate'.cursor
          /\ gate'.cursor # gate.cursor => Grown'
      BY <2>1, <2>2, <1>0 DEF GateGrows, Grown
    <2>4. Begun'
      BY <2>1, <1>0 DEF Order, Begun, Ingesting
    <2>5. OwnAsks'
      <3>1. c = Own /\ col[Own].page.more => gate.cursor > col[Own].page.lo \/ gate'.cursor # gate.cursor
        BY <2>1, <1>0 DEF Order, Begun, Ingesting
      <3> QED
        BY <2>1, <2>3, <3>1, <1>0 DEF Order, OwnAsks, Active
    <2>6. ApiAsks'
      BY <2>1, <2>2, <2>3, <1>0 DEF Order, ApiAsks, Locking
    <2>7. Overtaken'
      <3>1. c = Api /\ col[Api].page.more => gate'.cursor # gate.cursor \/ col[Api].page.hi <= gate.cursor
        BY <2>1, <1>0 DEF Order, Begun, Ingesting
      <3> QED
        BY <2>1, <2>2, <2>3, <3>1, <1>0 DEF Order, Overtaken, Active, Ingesting
    <2> QED
      BY <2>4, <2>5, <2>6, <2>7 DEF Order
  <1>6. ASSUME NEW c \in Collectors, UpdateMeta(c) PROVE Order'
    <2>1. /\ GateGrows /\ run' = run /\ col[c].pc = "meta"
          /\ ~col[c].page.more => col[c].page.next <= gate'.cursor
          /\ \/ /\ lock = c
                /\ col' = [col EXCEPT ![c] = [pc |-> "ask", page |-> Ask(gate'.cursor)]]
             \/ col' = [col EXCEPT ![c] = [pc |-> "done", page |-> NoPage]]
      BY <1>6, MetaEffect
    <2>2. gate'.cursor \in Nat /\ Len(gate'.log) \in Nat
      BY MetaOK, <1>6 DEF Inv, GateTyped, Gates
    <2>3. /\ Grown => Grown' /\ gate.cursor <= gate'.cursor
          /\ gate'.cursor # gate.cursor => Grown'
      BY <2>1, <2>2, <1>0 DEF GateGrows, Grown
    <2>a. Ask(gate'.cursor).lo = gate'.cursor
      BY DEF Ask
    <2>b. /\ \A d \in Collectors : d # c => col'[d] = col[d]
          /\ \/ col'[c].pc = "ask" /\ col'[c].page.lo = gate'.cursor /\ lock = c
             \/ col'[c].pc = "done"
      BY SMTT(30), <2>1, <2>a, <1>0
    <2>4. Begun'
      BY <2>b DEF Order, Begun, Ingesting
    <2>5. OwnAsks'
      BY SMTT(30), <2>1, <2>2, <2>3, <2>b, <1>0 DEF Order, OwnAsks, Active
    <2>6. ApiAsks'
      BY SMTT(30), <2>1, <2>2, <2>3, <2>b, <1>0 DEF Order, ApiAsks, Locking
    <2>7. Overtaken'
      BY SMTT(30), <2>1, <2>2, <2>3, <2>b, <1>0 DEF Order, Overtaken, OwnAsks, Active, Ingesting
    <2> QED
      BY <2>4, <2>5, <2>6, <2>7 DEF Order
  <1>7. ASSUME NEW c \in {Api, Closing}, UNCHANGED <<gate, run>>,
               \/ col' = col
               \/ \E pc \in {"idle", "want", "wait"} : col' = [col EXCEPT ![c].pc = pc]
        PROVE  Order'
    BY SMTT(30), <1>7, <1>u, <1>0 DEF Order, Begun, OwnAsks, ApiAsks, Overtaken, Active, Grown,
       Ingesting
  <1>8. ASSUME NEW c \in Collectors, Collected(c) \/ Deadline(c) PROVE Order'
    BY <1>8, <1>7 DEF Collected, Deadline, Move
  <1>9. CASE ApiCollect \/ AskToStop
    BY <1>9, <1>7 DEF ApiCollect, AskToStop, Move
  <1>10. CASE Begin
    <2>1. /\ run.pc = "idle" /\ gate' = gate /\ run'.off = Len(gate.log)
          /\ col' = [col EXCEPT ![Own] = [pc |-> "launch", page |-> Ask(gate.cursor)]]
      BY <1>10, <1>0 DEF Begin, Runs
    <2>2. col[Api].pc = "idle"
      BY <2>1 DEF Locking
    <2> QED
      BY <2>1, <2>2, <1>0, <1>a DEF Order, Begun, OwnAsks, ApiAsks, Overtaken, Ingesting
  <1>11. CASE LaunchLost
    <2>1. UNCHANGED <<gate, run>> /\ col[Own].pc = "launch" /\ col' = [col EXCEPT ![Own].pc = "unanswered"]
      BY <1>11 DEF LaunchLost, Move
    <2> QED
      BY <2>1, <1>0 DEF Order, Begun, OwnAsks, ApiAsks, Overtaken, Active, Grown, Ingesting, Locking
  <1>12. CASE Unanswered
    <2>1. /\ gate' = gate /\ run.pc = "launch" /\ col[Own].pc = "unanswered"
          /\ run'.pc = "collect" /\ run'.off = run.off
          /\ col' = [col EXCEPT ![Own].pc = "want"]
      BY <1>12, <1>0 DEF Unanswered, Move, Runs
    <2> QED
      BY <2>1, <1>0 DEF Order, Begun, OwnAsks, ApiAsks, Overtaken, Active, Grown, Ingesting
  <1>13. CASE Resend /\ run.lost
    <2>1. /\ gate' = gate /\ run'.pc = "launch" /\ run'.off = run.off /\ run'.lost = FALSE
          /\ col' = [col EXCEPT ![Own] = [pc |-> "launch", page |-> Ask(gate.cursor)]]
      BY <1>13, <1>0 DEF Resend, Runs
    <2> QED
      BY <2>1, <1>13, <1>0, <1>a DEF Order, Begun, OwnAsks, ApiAsks, Overtaken, Active, Grown,
         Ingesting
  <1>14. CASE Collect
    <2>1. /\ gate' = gate /\ run'.pc = "collect" /\ run'.off = run.off /\ run'.lost = run.lost
          /\ col' = [col EXCEPT ![Own].pc = "want"]
      BY <1>14, <1>0 DEF Collect, Move, Runs
    <2> QED
      BY <2>1, <1>0 DEF Order, Begun, OwnAsks, ApiAsks, Overtaken, Active, Grown, Ingesting
  <1>15. ASSUME run'.pc \in {"over", "crashed"}, ~run'.lost, gate' = gate,
                \A c \in Collectors : col'[c] = col[c] \/ col'[c].pc \notin Ingesting
         PROVE  Order'
    BY <1>15 DEF Order, Begun, OwnAsks, ApiAsks, Overtaken, Active
  <1>16. ASSUME NEW r \in Results, Return(r) PROVE Order'
    <2>1. run'.pc = "over" /\ run'.lost = FALSE /\ gate' = gate
      BY <1>16, <1>0 DEF Return, Runs
    <2>2. \A c \in Collectors : col'[c] = col[c] \/ col'[c].pc \in {"idle", "want"}
      BY <1>16 DEF Return
    <2> QED
      BY <2>1, <2>2, <1>15 DEF Ingesting
  <1>17. CASE Crash
    <2>1. run'.pc = "crashed" /\ run'.lost = FALSE /\ gate' = gate
      BY <1>17, <1>0 DEF Crash, Runs
    <2>2. \A c \in Collectors : col'[c].pc = "idle"
      BY <1>17 DEF Crash
    <2> QED
      BY <2>1, <2>2, <1>15 DEF Ingesting
  <1>18. CASE Parse
    <2>1. /\ gate' = gate /\ run'.pc = "decide" /\ run'.lost = run.lost
          /\ col' = [col EXCEPT ![Own].pc = "idle"]
      BY <1>18, <1>0 DEF Parse, Move, Runs
    <2> QED
      BY <2>1, <1>0 DEF Order, Begun, OwnAsks, ApiAsks, Overtaken, Active, Ingesting
  <1>19. CASE CollectFailed \/ Decide \/ Cancel
    BY <1>19, <1>13, <1>14, <1>16 DEF CollectFailed, Decide, Cancel, Results
  <1>20. CASE UNCHANGED vars
    BY <1>20, <1>u DEF vars, gateVars
  <1> QED
    BY <1>1, <1>2, <1>3, <1>4, <1>5, <1>6, <1>8, <1>9, <1>10, <1>11, <1>12, <1>17, <1>18, <1>19,
       <1>20 DEF Next, NodeStep, CollectorStep

(***************************************************************************)
(* What has been fetched and handed over                                   *)
(***************************************************************************)
\* A page whose phase tells of an end knows of every record of what has ended.
Tails ==
    ~raced => \A c \in Collectors :
        LET page == col[c].page IN
        col[c].pc \in Ingesting =>
          /\ page.ph.exit = 0 => NoMore("out", page.next)
          /\ page.ph.st # "none" /\ ~page.ph.eng => NoMore("engine", page.next)

\* When run() has collected and the command has ended well, there is more to parse or
\* all output has been stored.
Fetched ==
    Active /\ col[Own].pc = "done" /\ gate.ph.exit = 0 /\ ~raced => Grown \/ NoMore("out", gate.cursor)

\* When a parse has found nothing new after that, all output has been handed over.
Handed ==
    run.pc = "decide" /\ ~run.fresh /\ ~crossed /\ gate.ph.exit = 0 /\ ~raced =>
        \A k \in 1..Len(nlog) : nlog[k] = "out" => k - 1 \in Parsed \cup gate.gaps

\* Where a page and the gateway's copy of the phase come from.
LEMMA Sources ==
    ASSUME Inv, [Next]_vars
    PROVE  /\ gate'.ph = gate.ph \/ \E c \in Collectors : gate'.ph = col[c].page.ph
           /\ \A c \in Collectors :
                 \/ col'[c].page = col[c].page /\ (col'[c].pc \in Ingesting => col[c].pc \in Ingesting)
                 \/ col'[c].page.ph = Seen(None) /\ col'[c].pc \notin Ingesting
                 \/ /\ col'[c].page.ph = Seen(node.ph) /\ col'[c].page.next = Len(nlog)
                    /\ nlog' = nlog
  <1> DEFINE From == /\ gate'.ph = gate.ph \/ \E c \in Collectors : gate'.ph = col[c].page.ph
                     /\ \A c \in Collectors :
                         \/ col'[c].page = col[c].page /\ (col'[c].pc \in Ingesting => col[c].pc \in Ingesting)
                         \/ col'[c].page.ph = Seen(None) /\ col'[c].pc \notin Ingesting
                         \/ /\ col'[c].page.ph = Seen(node.ph) /\ col'[c].page.next = Len(nlog)
                            /\ nlog' = nlog
  <1> SUFFICES From
    OBVIOUS
  <1>0. col \in [Collectors -> [pc : CPCs, page : Pages]]
    BY DEF Inv, GateTyped
  <1>a. NoPage.ph = Seen(None) /\ \A n : Ask(n).ph = Seen(None)
    BY DEF NoPage, Ask
  <1> USE DEF Collectors, Own, Api, Closing, Ingesting
  <1>u. ASSUME UNCHANGED <<gate, col>> PROVE From
    BY <1>u
  <1>p. ASSUME gate' = gate, NEW c \in Collectors, NEW pc \in CPCs \ Ingesting, col' = [col EXCEPT ![c].pc = pc]
        PROVE  From
    BY <1>p, <1>0
  <1>q. ASSUME gate' = gate, NEW c \in Collectors, NEW pc \in CPCs \ Ingesting,
               \E n : col' = [col EXCEPT ![c] = [pc |-> pc, page |-> Ask(n)]]
        PROVE  From
    BY <1>q, <1>0, <1>a
  <1> USE DEF CPCs
  <1>1. CASE NodeStep
    BY <1>1, <1>u, NodeStepGate DEF gateVars
  <1>2. ASSUME NEW c \in Collectors, Acquire(c) PROVE From
    BY <1>2, <1>q DEF Acquire
  <1>3. ASSUME NEW c \in Collectors, Answer(c) PROVE From
    <2>1. PICK page : /\ col' = [col EXCEPT ![c] = [pc |-> "append", page |-> page]]
                      /\ page.next = Len(nlog) /\ page.ph = Seen(node.ph)
      BY <1>3, AnswerEffect
    <2>2. UNCHANGED <<gate, nlog>>
      BY <1>3, AnswerEffect
    <2> QED
      BY <2>1, <2>2, <1>0
  <1>4. ASSUME NEW c \in Collectors, Fails(c) PROVE From
    BY <1>4, <1>p DEF Fails, Move
  <1>5. ASSUME NEW c \in Collectors, AppendPage(c) PROVE From
    <2>1. gate'.ph = gate.ph /\ col[c].pc = "append" /\ col' = [col EXCEPT ![c].pc = "meta"]
      BY <1>5, AppendEffect
    <2> QED
      BY <2>1, <1>0
  <1>6. ASSUME NEW c \in Collectors, UpdateMeta(c) PROVE From
    <2>1. /\ gate'.ph = col[c].page.ph
          /\ \E n : \/ col' = [col EXCEPT ![c] = [pc |-> "ask", page |-> Ask(n)]]
                    \/ col' = [col EXCEPT ![c] = [pc |-> "done", page |-> NoPage]]
      BY <1>6, MetaEffect
    <2> QED
      BY <2>1, <1>0, <1>a
  <1>7. ASSUME NEW c \in Collectors, Collected(c) \/ Deadline(c) PROVE From
    BY <1>7, <1>p, <1>u DEF Collected, Deadline, Move
  <1>8. CASE ApiCollect \/ AskToStop \/ LaunchLost \/ Unanswered \/ Parse
    BY <1>8, <1>p DEF ApiCollect, AskToStop, LaunchLost, Unanswered, Parse, Move
  <1>9. CASE Begin \/ Resend
    BY <1>9, <1>q DEF Begin, Resend
  <1>10. CASE Collect
    BY <1>10, <1>p DEF Collect, Move
  <1>11. ASSUME NEW r \in Results, Return(r) PROVE From
    <2>1. /\ gate' = gate
          /\ \A c \in Collectors : \/ col'[c] = col[c]
                                   \/ col'[c].pc \in {"idle", "want"} /\ col'[c].page = NoPage
      BY <1>11, <1>0 DEF Return
    <2> QED
      BY <2>1, <1>a
  <1>12. CASE Crash
    <2>1. gate' = gate /\ \A c \in Collectors : col'[c].pc = "idle" /\ col'[c].page = NoPage
      BY <1>12 DEF Crash
    <2> QED
      BY <2>1, <1>a
  <1>13. CASE CollectFailed \/ Decide \/ Cancel
    BY <1>13, <1>9, <1>10, <1>11 DEF CollectFailed, Decide, Cancel, Results
  <1>14. CASE UNCHANGED vars
    BY <1>14, <1>u DEF vars, gateVars
  <1> QED
    BY <1>1, <1>2, <1>3, <1>4, <1>5, <1>6, <1>7, <1>8, <1>9, <1>12, <1>13, <1>14
       DEF Next, NodeStep, CollectorStep

\* Every copy of a phase is right about the ends it tells of.
LEMMA EndingNext ==
    ASSUME Inv, Launched, Stages, Sourced, Ending, [Next]_vars
    PROVE  Ending'
  <1>1. NodeTyped /\ node.ph \in Phases
    BY DEF Inv, NodeTyped, Nodes
  <1>2. (OutOver => OutOver') /\ (EngineOver => EngineOver')
    BY <1>1, OverStays
  <1>3. Ends(node.ph)'
    BY <1>1, NodeEnds DEF Ending
  <1>4. /\ Ends(Seen(node.ph))
        /\ Seen(None).exit = 1 /\ Seen(None).st = "none"
    BY <1>1 DEF Ending, Ends, Seen, None, Phases
  <1>5. ASSUME NEW ph, Ends(ph)
        PROVE  (ph.exit = 0 => OutOver') /\ (ph.st # "none" /\ ~ph.eng => EngineOver')
    BY <1>2, <1>5 DEF Ends
  <1>6. /\ gate'.ph = gate.ph \/ \E c \in Collectors : gate'.ph = col[c].page.ph
        /\ \A c \in Collectors : \/ col'[c].page = col[c].page
                                 \/ col'[c].page.ph = Seen(None) \/ col'[c].page.ph = Seen(node.ph)
    BY Sources
  <1>7. Ends(gate.ph)'
    <2>1. Ends(gate'.ph)
      BY <1>6 DEF Ending
    <2> QED
      BY <2>1, <1>5 DEF Ends
  <1>8. ASSUME NEW c \in Collectors PROVE Ends(col[c].page.ph)'
    <2>1. Ends(col'[c].page.ph)
      BY <1>4, <1>6 DEF Ending, Ends
    <2> QED
      BY <2>1, <1>5 DEF Ends
  <1> QED
    BY <1>3, <1>7, <1>8 DEF Ending

\* ... and its page knows of all that has ended.
LEMMA TailsNext ==
    ASSUME Inv, Launched, Stages, Sourced, Ending, Tails, [Next]_vars
    PROVE  Tails'
  <1> SUFFICES ASSUME ~raced', NEW c \in Collectors, col'[c].pc \in Ingesting,
                      NEW page, page = col'[c].page
               PROVE  /\ page.ph.exit = 0 => NoMore("out", page.next)'
                      /\ page.ph.st # "none" /\ ~page.ph.eng => NoMore("engine", page.next)'
    BY DEF Tails
  <1>0. NodeTyped /\ Len(nlog) \in Nat
    BY DEF Inv, NodeTyped
  <1>1. /\ ~raced
        /\ \A n \in Nat : OutOver /\ NoMore("out", n) => NoMore("out", n)'
        /\ \A n \in Nat : EngineOver /\ NoMore("engine", n) => NoMore("engine", n)'
    BY <1>0, NoMoreStays
  <1>2. CASE col'[c].page = col[c].page /\ col[c].pc \in Ingesting
    <2>1. page = col[c].page /\ page.next \in Nat
      BY <1>2 DEF Inv, GateTyped, Pages
    <2>2. page.ph.exit = 0 => OutOver /\ NoMore("out", page.next)
      BY <1>1, <1>2, <2>1 DEF Ending, Ends, Tails
    <2>3. page.ph.st # "none" /\ ~page.ph.eng => EngineOver /\ NoMore("engine", page.next)
      BY <1>1, <1>2, <2>1 DEF Ending, Ends, Tails
    <2> QED
      BY <1>1, <2>1, <2>2, <2>3
  <1>3. CASE col'[c].page.next = Len(nlog) /\ nlog' = nlog
    BY <1>0, <1>3 DEF NoMore
  <1> QED
    BY <1>2, <1>3, Sources

\* What is stored of the log's output is fetched, unless there is more to parse.
LEMMA FetchedNext ==
    ASSUME Inv, Launched, Stages, Sourced, Ending, Tails, Locking, Order, Fetched, [Next]_vars, Inv'
    PROVE  Fetched'
  <1> SUFFICES ASSUME Active', col'[Own].pc = "done", gate'.ph.exit = 0, ~raced'
               PROVE  Grown' \/ NoMore("out", gate.cursor)'
    BY DEF Fetched
  <1>0. /\ col \in [Collectors -> [pc : CPCs, page : Pages]] /\ run \in Runs /\ NodeTyped
        /\ gate.cursor \in Nat /\ Len(gate.log) \in Nat /\ run.off \in Nat
        /\ gate'.cursor \in Nat /\ Len(gate'.log) \in Nat
        /\ \A c \in Collectors : col[c].page.next \in Nat
        /\ run.pc = "decide" => col[Own].pc = "idle"
    <2>1. /\ col \in [Collectors -> [pc : CPCs, page : Pages]] /\ run \in Runs /\ NodeTyped
          /\ gate \in Gates /\ gate' \in Gates
          /\ run.pc = "decide" => col[Own].pc = "idle"
      BY DEF Inv, GateTyped, Paged
    <2>2. gate.cursor \in Nat /\ Len(gate.log) \in Nat
      BY <2>1 DEF Gates
    <2>3. gate'.cursor \in Nat /\ Len(gate'.log) \in Nat
      BY <2>1 DEF Gates
    <2>4. run.off \in Nat
      BY <2>1 DEF Runs
    <2>5. ASSUME NEW c \in Collectors PROVE col[c].page.next \in Nat
      BY <2>1 DEF Pages
    <2> QED
      BY <2>1, <2>2, <2>3, <2>4, <2>5
  <1>1. /\ ~raced
        /\ \A n \in Nat : OutOver /\ NoMore("out", n) => NoMore("out", n)'
    BY <1>0, NoMoreStays
  <1> USE DEF Collectors, Own, Api, Closing
  <1>u. ASSUME gate' = gate, run' = run, col[Own].pc = "done" PROVE Grown' \/ NoMore("out", gate.cursor)'
    <2>1. Grown \/ (OutOver /\ NoMore("out", gate.cursor))
      BY <1>u, <1>1 DEF Fetched, Active, Ending, Ends
    <2>2. CASE Grown
      BY <2>2, <1>u DEF Grown
    <2>3. CASE OutOver /\ NoMore("out", gate.cursor)
      BY <2>3, <1>0, <1>1, <1>u DEF NoMore
    <2> QED
      BY <2>1, <2>2, <2>3
  <1>g. ASSUME GateGrows, run' = run, Grown PROVE Grown'
    BY <1>g, <1>0 DEF GateGrows, Grown
  <1>h. ASSUME nlog' = nlog, NEW n \in Nat, NoMore("out", n), n <= gate'.cursor PROVE NoMore("out", gate.cursor)'
    <2>1. Len(nlog) \in Nat
      BY <1>0 DEF NodeTyped
    <2> QED
      BY <1>0, <1>h, <2>1 DEF NoMore
  <1>2. CASE NodeStep
    BY <1>2, <1>u, NodeStepGate DEF gateVars
  <1>3. ASSUME NEW c \in Collectors, AppendPage(c) PROVE Grown' \/ NoMore("out", gate.cursor)'
    <2>1. /\ GateGrows /\ gate'.ph = gate.ph /\ run' = run /\ nlog' = nlog
          /\ col' = [col EXCEPT ![c].pc = "meta"]
      BY <1>3, AppendEffect DEF nodeVars
    <2>2. col[Own].pc = "done" /\ Active
      BY <2>1, <1>0 DEF Active
    <2>3. Grown \/ NoMore("out", gate.cursor)
      BY <2>1, <2>2, <1>1 DEF Fetched
    <2> QED
      BY <2>1, <2>3, <1>0, <1>g, <1>h DEF GateGrows
  <1>4. ASSUME NEW c \in Collectors, UpdateMeta(c) PROVE Grown' \/ NoMore("out", gate.cursor)'
    <2>1. /\ GateGrows /\ gate'.ph = col[c].page.ph /\ run' = run /\ nlog' = nlog
          /\ ~col[c].page.more => col[c].page.next <= gate'.cursor
          /\ \A k \in Collectors \ {c} : col'[k] = col[k]
          /\ col[c].pc = "meta"
      BY <1>4, <1>0, MetaEffect DEF nodeVars
    <2>2. Active /\ c # Closing
      BY <2>1 DEF Active, Locking
    <2>3. NoMore("out", col[c].page.next)
      BY <2>1, <1>1 DEF Tails, Ingesting
    <2>4. CASE ~col[c].page.more
      BY <2>1, <2>3, <2>4, <1>0, <1>h
    <2>5. CASE c = Own /\ col[c].page.more
      BY <2>1, <2>2, <2>5, <1>g DEF Order, OwnAsks
    <2>6. CASE c = Api /\ col[c].page.more
      <3>1. col[Own].pc = "done"
        BY <2>1, <2>6
      <3>2. Grown \/ col[Api].page.next <= gate.cursor
        BY <2>1, <2>2, <2>6, <3>1 DEF Order, Overtaken, Ingesting
      <3>3. ASSUME col[Api].page.next <= gate.cursor PROVE col[c].page.next <= gate'.cursor
        BY <2>1, <2>6, <3>3, <1>0 DEF GateGrows
      <3> QED
        BY <2>1, <2>3, <3>2, <3>3, <1>0, <1>g, <1>h
    <2> QED
      BY <2>2, <2>4, <2>5, <2>6
  <1>5. ASSUME NEW c \in Collectors, Answer(c) PROVE Grown' \/ NoMore("out", gate.cursor)'
    <2>1. /\ gate' = gate /\ run' = run /\ \E p : col' = [col EXCEPT ![c] = [pc |-> "append", page |-> p]]
      BY <1>5, AnswerEffect
    <2> QED
      BY <2>1, <1>0, <1>u
  <1>6. ASSUME NEW c \in Collectors, Acquire(c) \/ Fails(c) \/ Collected(c) \/ Deadline(c)
        PROVE  Grown' \/ NoMore("out", gate.cursor)'
    <2>1. gate' = gate /\ run' = run
      BY <1>6 DEF Acquire, Fails, Collected, Deadline
    <2>2. \/ col' = col
          \/ \E p : col' = [col EXCEPT ![c] = [pc |-> "ask", page |-> p]]
          \/ \E pc \in {"failed", "missing", "idle"} : col' = [col EXCEPT ![c].pc = pc]
      BY <1>6 DEF Acquire, Fails, Collected, Deadline, Move
    <2> QED
      BY <2>1, <2>2, <1>0, <1>u
  <1>7. CASE ApiCollect \/ AskToStop \/ LaunchLost
    <2>1. gate' = gate /\ run' = run
      BY <1>7 DEF ApiCollect, AskToStop, LaunchLost
    <2>2. \E c \in Collectors, pc \in {"want", "wait", "unanswered"} : col' = [col EXCEPT ![c].pc = pc]
      BY <1>7 DEF ApiCollect, AskToStop, LaunchLost, Move
    <2> QED
      BY <2>1, <2>2, <1>0, <1>u
  <1>8. CASE Begin \/ Resend \/ Unanswered \/ Collect
    <2>1. col'[Own].pc \in {"launch", "want"}
      BY <1>8, <1>0 DEF Begin, Resend, Unanswered, Collect, Move
    <2> QED
      BY <2>1
  <1>9. ASSUME NEW r \in Results, Return(r) PROVE FALSE
    BY <1>9, <1>0 DEF Return, Runs, Active
  <1>10. ASSUME Parse \/ Crash PROVE FALSE
    <2>1. run'.pc \in {"decide", "crashed"}
      BY <1>10, <1>0 DEF Parse, Crash, Runs
    <2> QED
      BY <2>1 DEF Active
  <1>11. CASE CollectFailed \/ Decide \/ Cancel
    BY <1>11, <1>8, <1>9 DEF CollectFailed, Decide, Cancel, Results
  <1>12. CASE UNCHANGED vars
    BY <1>12, <1>u DEF vars, gateVars
  <1> QED
    BY <1>2, <1>3, <1>4, <1>5, <1>6, <1>7, <1>8, <1>10, <1>11, <1>12 DEF Next, NodeStep,
       CollectorStep

\* What has been handed over stays so.
LEMMA HandedNext ==
    ASSUME Inv, Launched, Stages, Sourced, Ending, Locking, Fetched, Handed, [Next]_vars, Inv'
    PROVE  Handed'
  <1> SUFFICES ASSUME run'.pc = "decide", ~run'.fresh, ~crossed', gate'.ph.exit = 0, ~raced',
                      NEW k \in 1..Len(nlog'), nlog'[k] = "out"
               PROVE  k - 1 \in (Parsed \cup gate.gaps)'
    BY DEF Handed
  <1>0. /\ col \in [Collectors -> [pc : CPCs, page : Pages]] /\ run \in Runs /\ NodeTyped
        /\ gate.cursor \in Nat /\ Len(gate.log) \in Nat /\ run.off \in Nat /\ run.off <= Len(gate.log)
        /\ run.pc = "decide" => col[Own].pc = "idle"
        /\ Len(nlog) \in Nat
    <2>1. /\ col \in [Collectors -> [pc : CPCs, page : Pages]] /\ run \in Runs /\ NodeTyped
          /\ gate \in Gates /\ run.off <= Len(gate.log)
          /\ run.pc = "decide" => col[Own].pc = "idle"
      BY DEF Inv, GateTyped, Paged
    <2>2. gate.cursor \in Nat /\ Len(gate.log) \in Nat
      BY <2>1 DEF Gates
    <2>3. run.off \in Nat
      BY <2>1 DEF Runs
    <2>4. Len(nlog) \in Nat
      BY <2>1 DEF NodeTyped
    <2> QED
      BY <2>1, <2>2, <2>3, <2>4
  <1>1. /\ ~raced
        /\ OutOver => \A j \in 1..Len(nlog') : nlog'[j] = "out" => j \in 1..Len(nlog) /\ nlog[j] = "out"
    BY <1>0, NoMoreStays
  <1> USE DEF Collectors, Own, Api, Closing
  <1>g. ASSUME GateGrows, run' = run, crossed' = crossed, gate'.ph = gate.ph PROVE k - 1 \in (Parsed \cup gate.gaps)'
    <2>1. OutOver
      BY <1>g DEF Ending, Ends
    <2>2. k \in 1..Len(nlog) /\ nlog[k] = "out"
      BY <1>1, <2>1
    <2>3. k - 1 \in Parsed \cup gate.gaps
      BY <1>1, <1>g, <2>2 DEF Handed
    <2>4. \A i \in 1..run.off : i \in 1..Len(gate.log) /\ gate'.log[i] = gate.log[i]
      BY <1>0, <1>g DEF GateGrows
    <2>5. Parsed \subseteq Parsed'
      BY <1>g, <2>4 DEF Parsed
    <2> QED
      BY <1>g, <2>3, <2>5 DEF GateGrows
  <1>u. ASSUME gate' = gate, run' = run, crossed' = crossed PROVE k - 1 \in (Parsed \cup gate.gaps)'
    <2>1. GateGrows
      BY <1>0, <1>u DEF GateGrows
    <2> QED
      BY <2>1, <1>g, <1>u
  <1>2. CASE NodeStep
    BY <1>2, <1>u, NodeStepGate DEF gateVars
  <1>3. ASSUME NEW c \in Collectors, AppendPage(c) PROVE k - 1 \in (Parsed \cup gate.gaps)'
    BY <1>3, <1>g, AppendEffect
  <1>4. ASSUME NEW c \in Collectors, UpdateMeta(c) PROVE FALSE
    <2>1. run' = run /\ col[c].pc = "meta" /\ crossed' = (crossed \/ (c # Own /\ run.pc = "decide"))
      BY <1>4, MetaEffect
    <2> QED
      BY <2>1, <1>0
  <1>5. ASSUME NEW c \in Collectors, Acquire(c) \/ Answer(c) \/ Fails(c) \/ Collected(c) \/ Deadline(c)
        PROVE  k - 1 \in (Parsed \cup gate.gaps)'
    BY <1>5, <1>u DEF Acquire, Answer, Fails, Collected, Deadline
  <1>6. CASE ApiCollect \/ AskToStop \/ LaunchLost
    BY <1>6, <1>u DEF ApiCollect, AskToStop, LaunchLost
  <1>7. CASE Parse
    <2>1. PICK last \in Nat : last = Smaller(Len(gate.log), run.off + ParseLimit)
      BY <1>0, AttemptsAssumption DEF Smaller
    <2>2. /\ run' = [run EXCEPT !.pc = "decide", !.off = last, !.fresh = last > run.off]
          /\ gate' = gate /\ nlog' = nlog
          /\ run.pc \in {"launch", "collect"} /\ col[Own].pc = "done"
      BY <1>7, <2>1 DEF Parse, nodeVars
    <2>3. run'.off = last /\ ~(last > run.off)
      BY <2>2, <1>0 DEF Runs
    <2>4. Len(gate.log) <= run.off /\ last = Len(gate.log)
      <3>1. ParseLimit \in Nat /\ ParseLimit > 0
        BY AttemptsAssumption
      <3> QED
        BY <2>1, <2>3, <3>1, <1>0 DEF Smaller
    <2>5. NoMore("out", gate.cursor)
      BY <2>2, <2>4, <1>0, <1>1 DEF Fetched, Active, Grown
    <2>6. k - 1 \in Nat /\ k - 1 < gate'.cursor
      BY <2>2, <2>5, <1>0 DEF NoMore
    <2>7. run'.off = Len(gate'.log) /\ LogOK'
      BY <2>2, <2>3, <2>4 DEF Inv
    <2>8. k - 1 \in 0..(gate'.cursor - 1)
      BY <2>6, <2>2, <1>0
    <2>9. (\E i \in 1..Len(gate'.log) : gate'.log[i].seq = k - 1 /\ gate'.log[i].real) <=> k - 1 \notin gate'.gaps
      BY <2>7, <2>8 DEF LogOK, Faithful
    <2> QED
      BY <2>7, <2>9 DEF Parsed
  <1>8. ASSUME Begin \/ Resend \/ Unanswered \/ Collect \/ Crash PROVE FALSE
    <2>1. run'.pc \in {"launch", "collect", "crashed"}
      BY <1>8, <1>0 DEF Begin, Resend, Unanswered, Collect, Crash, Runs
    <2> QED
      BY <2>1
  <1>9. ASSUME NEW r \in Results, Return(r) PROVE FALSE
    BY <1>9, <1>0 DEF Return, Runs
  <1>10. CASE CollectFailed \/ Decide \/ Cancel
    BY <1>10, <1>8, <1>9 DEF CollectFailed, Decide, Cancel, Results
  <1>11. CASE UNCHANGED vars
    BY <1>11, <1>u DEF vars, gateVars
  <1> QED
    BY <1>2, <1>3, <1>4, <1>5, <1>6, <1>7, <1>8, <1>10, <1>11 DEF Next, NodeStep, CollectorStep

\* run() returns normally only from its check of a complete phase, with nothing new parsed.
LEMMA ReturnsOk ==
    ASSUME Inv, [Next]_vars, run.result = "none", run'.result = "ok"
    PROVE  gate.ph.exit = 0 /\ run.pc = "decide" /\ ~run.fresh
  <1>0. run \in Runs
    BY DEF Inv, GateTyped
  <1>u. ASSUME run'.result = run.result PROVE FALSE
    BY <1>u
  <1>r. ASSUME NEW r \in Results, Return(r) PROVE r = "ok"
    BY <1>r, <1>0 DEF Return, Runs
  <1>1. CASE NodeStep
    BY <1>1, <1>u, NodeStepGate DEF gateVars
  <1>2. ASSUME NEW c \in Collectors, CollectorStep(c) \/ Collected(c) \/ Deadline(c) PROVE FALSE
    BY <1>2, <1>u DEF CollectorStep, Acquire, Answer, Fails, AppendPage, UpdateMeta, Collected,
       Deadline
  <1>3. ASSUME ApiCollect \/ AskToStop \/ LaunchLost PROVE FALSE
    BY <1>3, <1>u DEF ApiCollect, AskToStop, LaunchLost
  <1>4. ASSUME Begin \/ Unanswered \/ Resend \/ Collect \/ Crash PROVE FALSE
    BY <1>4, <1>0, <1>u DEF Begin, Unanswered, Resend, Collect, Crash, Runs
  <1>5. ASSUME Parse PROVE FALSE
    <2>1. run'.result = run.result
      BY <1>5, <1>0 DEF Parse, Runs
    <2> QED
      BY <2>1, <1>u
  <1>6. ASSUME CollectFailed \/ Cancel PROVE FALSE
    BY <1>6, <1>4, <1>r DEF CollectFailed, Cancel, Results
  <1>7. CASE Decide
    BY <1>7, <1>4, <1>r DEF Decide, Results
  <1>8. CASE UNCHANGED vars
    BY <1>8, <1>u DEF vars, gateVars
  <1> QED
    BY <1>1, <1>2, <1>3, <1>4, <1>5, <1>6, <1>7, <1>8 DEF Next, NodeStep

\* A collection that is done has stored its last page.
LEMMA OnlyMeta ==
    ASSUME Inv, [Next]_vars, NEW c \in Collectors, col[c].pc = "meta", col'[c].pc = "done"
    PROVE  UpdateMeta(c)
  <1>0. col \in [Collectors -> [pc : CPCs, page : Pages]]
    BY DEF Inv, GateTyped
  <1> USE DEF Collectors, Own, Api, Closing
  <1>u. ASSUME NEW d \in Collectors, NEW pc \in {"idle", "want", "ask", "wait", "failed", "missing", "meta",
                                                 "append", "launch", "unanswered"},
               \/ col' = col
               \/ col' = [col EXCEPT ![d].pc = pc]
               \/ \E p : col' = [col EXCEPT ![d] = [pc |-> pc, page |-> p]]
        PROVE  FALSE
    BY <1>u, <1>0
  <1>v. ASSUME \A d \in Collectors : col'[d] = col[d] \/ col'[d].pc \in {"idle", "want"} PROVE FALSE
    BY <1>v, <1>0
  <1>1. ASSUME NodeStep \/ UNCHANGED vars PROVE FALSE
    BY <1>1, <1>u, NodeStepGate DEF gateVars, vars
  <1>2. ASSUME NEW d \in Collectors, Acquire(d) \/ Answer(d) \/ Fails(d) \/ AppendPage(d) \/ Collected(d) \/ Deadline(d)
        PROVE  FALSE
    <2>1. CASE Answer(d)
      <3>1. \E p : col' = [col EXCEPT ![d] = [pc |-> "append", page |-> p]]
        BY <2>1, AnswerEffect
      <3> QED
        BY <3>1, <1>u
    <2> QED
      BY <1>2, <2>1, <1>u DEF Acquire, Fails, AppendPage, Collected, Deadline, Move
  <1>3. ASSUME NEW d \in Collectors, UpdateMeta(d) PROVE d = c
    <2>1. \E p, pc : col' = [col EXCEPT ![d] = [pc |-> pc, page |-> p]]
      BY <1>3, MetaEffect
    <2> QED
      BY <2>1, <1>0
  <1>4. ASSUME ApiCollect \/ AskToStop \/ LaunchLost \/ Unanswered \/ Parse \/ Begin \/ Resend \/ Collect PROVE FALSE
    BY <1>4, <1>u DEF ApiCollect, AskToStop, LaunchLost, Unanswered, Parse, Begin, Resend,
       Collect, Move
  <1>5. ASSUME NEW r \in Results, Return(r) PROVE FALSE
    <2>1. \A d \in Collectors : col'[d] = col[d] \/ col'[d].pc \in {"idle", "want"}
      BY <1>5, <1>0 DEF Return
    <2> QED
      BY <2>1, <1>v
  <1>6. ASSUME Crash PROVE FALSE
    BY <1>6, <1>v DEF Crash
  <1>7. ASSUME CollectFailed \/ Decide \/ Cancel PROVE FALSE
    BY <1>7, <1>4, <1>5 DEF CollectFailed, Decide, Cancel, Results
  <1> QED
    BY <1>1, <1>2, <1>3, <1>4, <1>6, <1>7 DEF Next, NodeStep, CollectorStep

\* The parts together
Wholeness ==
    /\ Launched /\ Stages /\ Sends /\ Sourced /\ Ending /\ Tails
    /\ Locking /\ Order /\ Fetched /\ Handed

\* What the gateway is told is complete, is: a normal return of run() has handed over all the
\* output that the node retained, and the end of a log whose engine is no longer recorded
\* leaves nothing of the engine behind.
THEOREM WhatIsCompleteIsWhole == Spec => CompleteIsWhole
  <1>1. Init => Wholeness
    <2> SUFFICES ASSUME Init PROVE Wholeness
      OBVIOUS
    <2>1. Launched /\ Stages /\ Sends
      BY DEF Init, Launched, OneCommandAtATime, Starting, Stages, Sends, NoSink, Launches
    <2>2. Sourced /\ Fetched /\ Handed
      BY DEF Init, Sourced, NoMore, NoSink, Fetched, Handed, Active
    <2>3. Ending /\ Tails
      BY DEF Init, Ending, Ends, Seen, None, NoPage, Ask, Tails, Ingesting
    <2>4. Locking /\ Order
      BY DEF Init, Locking, Order, Begun, OwnAsks, ApiAsks, Overtaken, Active, Ingesting,
         Collectors, Own, Api, Closing
    <2> QED
      BY <2>1, <2>2, <2>3, <2>4 DEF Wholeness
  <1>2. Inv /\ Inv' /\ Wholeness /\ [Next]_vars => Wholeness'
    <2> SUFFICES ASSUME Inv, Inv', Wholeness, [Next]_vars PROVE Wholeness'
      OBVIOUS
    <2>0. NodeTyped /\ GateTyped /\ Paged /\ NodeTyped'
      BY DEF Inv
    <2>1. Launched' /\ Stages' /\ Sends' /\ Sourced'
      BY <2>0, LaunchedNext, StagesNext, SendsNext, SourcedNext DEF Wholeness
    <2>2. Ending' /\ Tails'
      BY EndingNext, TailsNext DEF Wholeness
    <2>3. Locking'
      BY <2>0, LockingNext DEF Wholeness
    <2>4. Order'
      BY <2>3, OrderNext DEF Wholeness
    <2>5. Fetched' /\ Handed'
      BY FetchedNext, HandedNext DEF Wholeness
    <2> QED
      BY <2>1, <2>2, <2>3, <2>4, <2>5 DEF Wholeness
  <1>3. Inv /\ Inv' /\ Wholeness /\ [Next]_vars =>
          /\ run.result = "none" /\ run'.result = "ok" =>
               /\ \E w \in Launches : cmd[w] = "ok"
               /\ ~crossed /\ ~raced => \A k \in 1..Len(nlog) :
                     nlog[k] = "out" => k - 1 \in Parsed \cup gate.gaps
          /\ \A c \in Collectors :
               col[c].pc = "meta" /\ col'[c].pc = "done" /\ EndOfLog(col[c].page) /\ ~raced =>
                     /\ \A k \in 1..Len(nlog) :
                           nlog[k] = "engine" => k - 1 \in Retrieved(gate') \cup gate'.gaps
                     /\ \A w \in Launches : sink[w].held = 0
    <2> SUFFICES ASSUME Inv, Inv', Wholeness, [Next]_vars
                 PROVE  /\ run.result = "none" /\ run'.result = "ok" =>
                             /\ \E w \in Launches : cmd[w] = "ok"
                             /\ ~crossed /\ ~raced => \A k \in 1..Len(nlog) :
                                   nlog[k] = "out" => k - 1 \in Parsed \cup gate.gaps
                        /\ \A c \in Collectors :
                             col[c].pc = "meta" /\ col'[c].pc = "done" /\ EndOfLog(col[c].page) /\ ~raced =>
                                   /\ \A k \in 1..Len(nlog) :
                                         nlog[k] = "engine" => k - 1 \in Retrieved(gate') \cup gate'.gaps
                                   /\ \A w \in Launches : sink[w].held = 0
      OBVIOUS
    <2>1. ASSUME run.result = "none", run'.result = "ok"
          PROVE  gate.ph.exit = 0 /\ run.pc = "decide" /\ ~run.fresh
      BY <2>1, ReturnsOk
    <2>2. ASSUME NEW c \in Collectors, col[c].pc = "meta", col'[c].pc = "done", EndOfLog(col[c].page), ~raced
          PROVE  /\ \A k \in 1..Len(nlog) :
                       nlog[k] = "engine" => k - 1 \in Retrieved(gate') \cup gate'.gaps
                 /\ \A w \in Launches : sink[w].held = 0
      <3>1. UpdateMeta(c)
        BY <2>2, OnlyMeta
      <3>2. /\ ~col[c].page.more /\ col[c].page.next <= gate'.cursor
            /\ NoMore("engine", col[c].page.next) /\ EngineOver
        BY <2>2, <3>1, MetaEffect DEF EndOfLog, Wholeness, Tails, Ending, Ends, Ingesting
      <3>3. \A w \in Launches : sink[w].held = 0
        BY <2>2, <3>2, NothingLeft DEF Inv, Wholeness
      <3>4. ASSUME NEW k \in 1..Len(nlog), nlog[k] = "engine"
            PROVE  k - 1 \in Retrieved(gate') \cup gate'.gaps
        <4>1. gate'.cursor \in Nat /\ col[c].page.next \in Nat /\ Len(nlog) \in Nat
          <5>1. gate' \in Gates /\ col \in [Collectors -> [pc : CPCs, page : Pages]] /\ nlog \in Seq(Kinds)
            BY DEF Inv, GateTyped, NodeTyped
          <5>2. gate'.cursor \in Nat
            BY <5>1 DEF Gates
          <5>3. col[c].page.next \in Nat
            BY <2>2, <5>1 DEF Pages
          <5> QED
            BY <5>1, <5>2, <5>3
        <4>2. k - 1 \in 0..(gate'.cursor - 1)
          BY <3>2, <3>4, <4>1 DEF NoMore
        <4>3. (\E i \in 1..Len(gate'.log) : gate'.log[i].seq = k - 1 /\ gate'.log[i].real) <=> k - 1 \notin gate'.gaps
          BY <4>2 DEF Inv, LogOK, Faithful
        <4> QED
          BY <4>3 DEF Retrieved
      <3> QED
        BY <3>3, <3>4
    <2>3. run.result = "none" /\ run'.result = "ok" =>
            /\ \E w \in Launches : cmd[w] = "ok"
            /\ ~crossed /\ ~raced => \A k \in 1..Len(nlog) :
                  nlog[k] = "out" => k - 1 \in Parsed \cup gate.gaps
      BY <2>1 DEF Wholeness, Ending, Ends, OutOver, Handed
    <2> QED
      BY <2>2, <2>3
  <1> QED
    BY <1>1, <1>2, <1>3, InvHolds, PTL DEF Spec, CompleteIsWhole
=============================================================================
