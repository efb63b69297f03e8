---------------------- MODULE PositionLifecycle_proofs ----------------------
(***************************************************************************)
(* Proofs about the writers of trading_signals, for any positions and      *)
(* prices: what a row, a check and a Java job may hold, that the columns   *)
(* agree, that a position is closed once, and that the rows live as        *)
(* PositionLedger says.                                                    *)
(***************************************************************************)
EXTENDS PositionLifecycle, TLAPS

----------------------------------------------------------------------------
(* The operators the actions are built from.                               *)

\* What a check awaits next is a well-formed task.
LEMMA PlannedType ==
    ASSUME NEW t \in Tasks, NEW x \in Triggers
    PROVE  Planned(t, x) \in Tasks
<1>1. IdleTask \in Tasks
  BY DEF IdleTask, Tasks, Checks, OpenStates, Triggers, Order
<1>2. /\ Awaits(x) \in {"idle", "peak", "mark", "close", "judge"}
      /\ x # "none" /\ Awaits(x) \in {"close", "judge"} => ExitType(x) \in Exits
  BY DEF Awaits, ExitType, Exits, Triggers, Order
<1>. QED BY <1>1, <1>2 DEF Planned, Tasks, Checks

\* The trigger a check finds is one of the list.
LEMMA FirstTriggerType ==
    ASSUME NEW i \in Nat, i >= 1, NEW t, NEW pct, NEW late, NEW weak,
           NEW x \in FirstTrigger(i, t, pct, late, weak)
    PROVE  x \in Triggers
BY DEF FirstTrigger, Triggers

\* Closing a row keeps its type.
LEMMA ClosedRowType ==
    ASSUME NEW r \in Rows, NEW e \in Exits, NEW c
    PROVE  ClosedRow(r, e, c) \in Rows
BY DEF ClosedRow, Rows, Statuses

\* A field written in a task keeps its type; only a judged trigger is closed.
LEMMA TaskUpdates ==
    ASSUME NEW t \in Tasks, NEW c \in Prices \cup {0}
    PROVE  /\ [t EXCEPT !.price = c] \in Tasks
           /\ [t EXCEPT !.peak = c] \in Tasks
           /\ [t EXCEPT !.pc = "publish"] \in Tasks
           /\ t.pc = "judge" => [t EXCEPT !.pc = "close"] \in Tasks
<1>1. t \in Checks
  BY DEF Tasks
<1>2. /\ [t EXCEPT !.price = c] \in Checks
      /\ [t EXCEPT !.peak = c] \in Checks
      /\ [t EXCEPT !.pc = "publish"] \in Checks
      /\ [t EXCEPT !.pc = "close"] \in Checks
  BY <1>1 DEF Checks
<1>3. /\ [t EXCEPT !.price = c].pc = t.pc /\ [t EXCEPT !.price = c].trigger = t.trigger
      /\ [t EXCEPT !.peak = c].pc = t.pc /\ [t EXCEPT !.peak = c].trigger = t.trigger
      /\ [t EXCEPT !.pc = "publish"].pc = "publish"
      /\ [t EXCEPT !.pc = "close"].trigger = t.trigger
  BY <1>1 DEF Checks
<1>. QED BY <1>2, <1>3 DEF Tasks

\* The entity evaluateSignal leaves is a row.
LEMMA EvaluatedType ==
    ASSUME NEW r \in Rows, NEW c \in Prices
    PROVE  Evaluated(r, c) \in Rows
<1>1. Prices \subseteq Nat
  BY LifecycleAssumption
<1>. DEFINE peak == Higher(r.peak, c)
<1>2. peak \in Prices \cup {0}
  BY DEF Higher, Rows
<1>3. [r EXCEPT !.peak = peak] \in Rows
  BY <1>2 DEF Rows
<1>4. /\ ClosedRow(r, "TP_HIT", c) \in Rows
      /\ ClosedRow(r, "SL_HIT", c) \in Rows
      /\ ClosedRow([r EXCEPT !.peak = peak], "TRAILING_STOP", c) \in Rows
  BY <1>3, ClosedRowType DEF Exits
<1>. HIDE DEF peak
<1>. QED BY <1>3, <1>4 DEF Evaluated, peak

----------------------------------------------------------------------------
(* Types.                                                                  *)

\* Every variable starts in its type.
LEMMA InitType == Init => TypeOK
<1>1. Saved \in Rows
  BY DEF Saved, Rows, Statuses, OpenStates, Exits
<1>2. IdleTask \in Tasks
  BY DEF IdleTask, Tasks, Checks, OpenStates, Triggers, Order
<1>3. NoEntities \in [{} -> Rows]
  BY DEF NoEntities
<1>4. NoEntities \in UNION {[D -> Rows] : D \in SUBSET Positions}
  BY <1>3
<1>. QED BY <1>1, <1>2, <1>4 DEF Init, TypeOK

\* The pipeline, the market and the broker keep the types.
LEMMA SettlementType == TypeOK /\ (Settlement \/ World) => TypeOK'
<1>. SUFFICES ASSUME TypeOK, Settlement \/ World PROVE TypeOK'
  OBVIOUS
<1>1. ASSUME NEW p \in Positions, Confirm(p) PROVE TypeOK'
  <2>0. row[p] \in Rows /\ "ACTIVE" \in OpenStates
    BY DEF TypeOK, OpenStates
  <2>1. [row[p] EXCEPT !.position = "ACTIVE", !.tp1 = FALSE, !.peak = 0] \in Rows
    BY <2>0 DEF Rows
  <2>2. row' \in [Positions -> Rows]
    BY <1>1, <2>1 DEF Confirm, TypeOK
  <2>. QED BY <1>1, <2>2 DEF Confirm, TypeOK
<1>2. ASSUME NEW p \in Positions, Cancel(p) PROVE TypeOK'
  <2>0. row[p] \in Rows /\ "CANCELLED" \in Statuses
    BY DEF TypeOK, Statuses
  <2>1. [row[p] EXCEPT !.status = "CANCELLED", !.position = "CLOSED"] \in Rows
    BY <2>0 DEF Rows
  <2>2. row' \in [Positions -> Rows]
    BY <1>2, <2>1 DEF Cancel, TypeOK
  <2>. QED BY <1>2, <2>2 DEF Cancel, TypeOK
<1>3. ASSUME NEW p \in Positions, Fill(p) PROVE TypeOK'
  <2>0. row[p] \in Rows
    BY DEF TypeOK
  <2>1. [row[p] EXCEPT !.filled = TRUE] \in Rows
    BY <2>0 DEF Rows
  <2>2. row' \in [Positions -> Rows]
    BY <1>3, <2>1 DEF Fill, TypeOK
  <2>. QED BY <1>3, <2>2 DEF Fill, TypeOK
<1>4. ASSUME NEW p \in Positions, PriceMoves(p) PROVE TypeOK'
  BY <1>4 DEF PriceMoves, TypeOK
<1>. QED BY <1>1, <1>2, <1>3, <1>4 DEF Settlement, World

\* A round of the monitor, and each step of a check, keeps the types.
LEMMA MonitorType ==
    ASSUME TypeOK, Scan \/ \E p \in Positions : CheckStep(p)
    PROVE  TypeOK'
<1>0. IdleTask \in Tasks
  BY DEF IdleTask, Tasks, Checks, OpenStates, Triggers, Order
<1>1. CASE Scan
  <2>1. \A p \in Positions :
            Open(row[p]) => [IdleTask EXCEPT !.pc = "check",
                                             !.position = row[p].position,
                                             !.peak = row[p].peak] \in Tasks
    BY <1>0 DEF TypeOK, Rows, Open, Tasks, Checks, IdleTask
  <2>. QED BY <1>0, <1>1, <2>1 DEF Scan, TypeOK
<1>2. ASSUME NEW p \in Positions, Check(p) PROVE TypeOK'
  <2>1. CASE \E late, weak \in BOOLEAN, pct \in {TrailingPct} \cup ReassessedPcts :
                LET t == [task[p] EXCEPT !.price = price[p]]
                IN \E x \in FirstTrigger(1, t, pct, late, weak) :
                      task' = [task EXCEPT ![p] = Planned(t, x)]
    <3>. DEFINE t == [task[p] EXCEPT !.price = price[p]]
    <3>1. PICK late, weak \in BOOLEAN, pct \in {TrailingPct} \cup ReassessedPcts :
             \E x \in FirstTrigger(1, t, pct, late, weak) :
                 task' = [task EXCEPT ![p] = Planned(t, x)]
      BY <2>1
    <3>2. t \in Tasks
      BY TaskUpdates DEF TypeOK
    <3>. HIDE DEF t
    <3>3. task' \in [Positions -> Tasks]
      BY <3>1, <3>2, PlannedType, FirstTriggerType DEF TypeOK
    <3>. QED BY <1>2, <3>3 DEF Check, TypeOK
  <2>2. CASE task' = [task EXCEPT ![p] = IdleTask]
    BY <1>0, <1>2, <2>2 DEF Check, TypeOK
  <2>. QED BY <1>2, <2>1, <2>2 DEF Check
<1>3. ASSUME NEW p \in Positions, UpdatePeak(p) PROVE TypeOK'
  <2>. DEFINE t == [task[p] EXCEPT !.peak = task[p].price]
  <2>0. task[p] \in Tasks /\ task[p].price \in Prices \cup {0}
    BY DEF TypeOK, Tasks, Checks
  <2>1. t \in Tasks
    BY <2>0, TaskUpdates
  <2>2. t.price \in Prices \cup {0}
    BY <2>1 DEF Tasks, Checks
  <2>3. PICK weak \in BOOLEAN, i \in 1..9 :
           \E x \in FirstTrigger(i + 1, t, TrailingPct, FALSE, weak) :
               task' = [task EXCEPT ![p] = Planned(t, x)]
    BY <1>3 DEF UpdatePeak
  <2>4. row' \in [Positions -> Rows]
    <3>1. CASE row' = [row EXCEPT ![p].peak = t.price]
      <4>. HIDE DEF t
      <4>0. row[p] \in Rows
        BY DEF TypeOK
      <4>1. [row[p] EXCEPT !.peak = t.price] \in Rows
        BY <2>2, <4>0 DEF Rows
      <4>. QED BY <3>1, <4>1 DEF TypeOK
    <3>2. CASE UNCHANGED row
      BY <3>2 DEF TypeOK
    <3>. QED BY <1>3, <3>1, <3>2 DEF UpdatePeak
  <2>. HIDE DEF t
  <2>5. task' \in [Positions -> Tasks]
    <3>0. PICK x \in FirstTrigger(i + 1, t, TrailingPct, FALSE, weak) :
              task' = [task EXCEPT ![p] = Planned(t, x)]
      BY <2>3
    <3>1. i + 1 \in Nat /\ i + 1 >= 1
      OBVIOUS
    <3>2. x \in Triggers
      BY <3>1, FirstTriggerType
    <3>3. Planned(t, x) \in Tasks
      BY <2>1, <3>2, PlannedType
    <3>. QED BY <3>0, <3>3 DEF TypeOK
  <2>. QED BY <1>3, <2>4, <2>5 DEF UpdatePeak, TypeOK
<1>4. ASSUME NEW p \in Positions, Judge(p) PROVE TypeOK'
  <2>0. task[p] \in Tasks /\ task[p].pc = "judge"
    BY <1>4 DEF Judge, TypeOK
  <2>1. [task[p] EXCEPT !.pc = "close"] \in Tasks
    BY <2>0, TaskUpdates
  <2>2. task' \in [Positions -> Tasks]
    BY <1>0, <1>4, <2>1 DEF Judge, TypeOK
  <2>. QED BY <1>4, <2>2 DEF Judge, TypeOK
<1>5. ASSUME NEW p \in Positions, ClosePosition(p) PROVE TypeOK'
  <2>t. task[p] \in Tasks
    BY DEF TypeOK
  <2>0. [task[p] EXCEPT !.pc = "publish"] \in Tasks
    BY <2>t, TaskUpdates
  <2>1. task' \in [Positions -> Tasks]
    BY <1>0, <1>5, <2>0 DEF ClosePosition, TypeOK
  <2>2. closes' \in [Positions -> Nat]
    BY <1>5 DEF ClosePosition, TypeOK
  <2>3. row' \in [Positions -> Rows]
    <3>1. ExitType(task[p].trigger) \in Exits
      BY <1>5 DEF TypeOK, Tasks, ClosePosition
    <3>2. CASE row' = [row EXCEPT ![p] = ClosedRow(@, ExitType(task[p].trigger), task[p].price)]
      BY <3>1, <3>2, ClosedRowType DEF TypeOK
    <3>3. CASE UNCHANGED row
      BY <3>3 DEF TypeOK
    <3>. QED BY <1>5, <3>2, <3>3 DEF ClosePosition
  <2>. QED BY <1>5, <2>1, <2>2, <2>3 DEF ClosePosition, TypeOK
<1>6. ASSUME NEW p \in Positions, MarkTp1(p) PROVE TypeOK'
  <2>0. task[p] \in Tasks /\ row[p] \in Rows /\ "PARTIAL_TP" \in OpenStates
    BY DEF TypeOK, OpenStates
  <2>1. [task[p] EXCEPT !.pc = "publish"] \in Tasks
    BY <2>0, TaskUpdates
  <2>p. task[p].price \in Prices \cup {0}
    BY <2>0 DEF Tasks, Checks
  <2>2. [row[p] EXCEPT !.position = "PARTIAL_TP", !.tp1 = TRUE, !.peak = task[p].price] \in Rows
    BY <2>0, <2>p DEF Rows
  <2>3. row' \in [Positions -> Rows]
    <3>1. CASE row' = [row EXCEPT ![p].position = "PARTIAL_TP", ![p].tp1 = TRUE,
                                  ![p].peak = task[p].price]
      BY <2>2, <3>1 DEF TypeOK
    <3>2. CASE UNCHANGED row
      BY <3>2 DEF TypeOK
    <3>. QED BY <1>6, <3>1, <3>2 DEF MarkTp1
  <2>4. task' \in [Positions -> Tasks]
    BY <1>0, <1>6, <2>1 DEF MarkTp1, TypeOK
  <2>. QED BY <1>6, <2>3, <2>4 DEF MarkTp1, TypeOK
<1>7. ASSUME NEW p \in Positions, Publish(p) PROVE TypeOK'
  BY <1>0, <1>7 DEF Publish, TypeOK
<1>. QED BY <1>1, <1>2, <1>3, <1>4, <1>5, <1>6, <1>7 DEF CheckStep

\* The overnight worker's evaluation and record keep the types.
LEMMA OvernightType == TypeOK /\ Overnight => TypeOK'
<1>. SUFFICES ASSUME TypeOK, Overnight PROVE TypeOK'
  OBVIOUS
<1>1. ASSUME NEW p \in Positions, OvernightEvaluate(p) PROVE TypeOK'
  BY <1>1 DEF OvernightEvaluate, TypeOK
<1>2. CASE OvernightRecord
  <2>. DEFINE p == verdict[1]
  <2>1. p \in Positions
    BY <1>2 DEF OvernightRecord, TypeOK
  <2>0. row[p] \in Rows /\ "OVERNIGHT" \in OpenStates /\ "OVERNIGHT_HOLD" \in Statuses
    BY <2>1 DEF TypeOK, OpenStates, Statuses
  <2>2. [row[p] EXCEPT !.status = "OVERNIGHT_HOLD", !.position = "OVERNIGHT"] \in Rows
    BY <2>0 DEF Rows
  <2>3. row' \in [Positions -> Rows]
    BY <1>2, <2>1, <2>2 DEF OvernightRecord, TypeOK
  <2>. QED BY <1>2, <2>3 DEF OvernightRecord, TypeOK
<1>. QED BY <1>1, <1>2 DEF Overnight

\* A Java job holds rows, and what it commits are rows.
LEMMA JavaType == TypeOK /\ Java => TypeOK'
<1>. SUFFICES ASSUME TypeOK, Java PROVE TypeOK'
  OBVIOUS
<1>. DEFINE Entities == UNION {[D -> Rows] : D \in SUBSET Positions}
<1>1. CASE LoadPaper
  <2>1. PICK D \in SUBSET Positions :
           job' = [job EXCEPT !["updatePerformance"] =
                     [p \in D |-> Evaluated(row[p], price[p])]]
    BY <1>1 DEF LoadPaper, PaperPositions
  <2>2. [p \in D |-> Evaluated(row[p], price[p])] \in [D -> Rows]
    BY EvaluatedType DEF TypeOK
  <2>3. job' \in [JavaJobs -> Entities]
    BY <2>1, <2>2 DEF TypeOK, JavaJobs
  <2>. QED BY <1>1, <2>3 DEF LoadPaper, TypeOK
<1>2. CASE LoadUnopened
  <2>1. Unopened \in SUBSET Positions
    BY DEF Unopened
  <2>2. ASSUME NEW p \in Unopened PROVE [row[p] EXCEPT !.status = "EXPIRED"] \in Rows
    <3>1. row[p] \in Rows /\ "EXPIRED" \in Statuses
      BY <2>1 DEF TypeOK, Statuses
    <3>. QED BY <3>1 DEF Rows
  <2>3. job' \in [JavaJobs -> Entities]
    BY <1>2, <2>1, <2>2 DEF LoadUnopened, TypeOK, JavaJobs
  <2>. QED BY <1>2, <2>3 DEF LoadUnopened, TypeOK
<1>3. ASSUME NEW j \in JavaJobs, CommitJob(j) PROVE TypeOK'
  <2>1. PICK D \in SUBSET Positions : job[j] \in [D -> Rows]
    BY DEF TypeOK
  <2>2. row' \in [Positions -> Rows]
    BY <1>3, <2>1 DEF CommitJob, TypeOK
  <2>3. NoEntities \in Entities
    BY DEF NoEntities
  <2>4. job' \in [JavaJobs -> Entities]
    BY <1>3, <2>3 DEF CommitJob, TypeOK
  <2>. QED BY <1>3, <2>2, <2>4 DEF CommitJob, TypeOK
<1>. QED BY <1>1, <1>2, <1>3 DEF Java

\* Whoever writes, every variable stays in its type.
LEMMA NextType == TypeOK /\ [Next]_vars => TypeOK'
<1>1. TypeOK /\ UNCHANGED vars => TypeOK'
  BY DEF TypeOK, vars
<1>. QED BY <1>1, SettlementType, MonitorType, OvernightType, JavaType DEF Next

\* Type correctness: of the row (the states trading_signals may be in), of
\* the checks in flight and of the entities the Java jobs hold.
THEOREM TypeCorrect == Spec => []TypeOK
BY InitType, NextType, PTL DEF Spec

----------------------------------------------------------------------------
(***************************************************************************)
(* What the writers of trading_signals keep, for any positions and prices: *)
(* the columns of a row agree and the monitor closes a position once,      *)
(* whatever overlaps and fails; and where no fill and no confirmation      *)
(* falls inside a Java transaction, the rows live as PositionLedger says.  *)
(***************************************************************************)

(* The inductive invariant.                                                *)

\* What the columns of a row say together.
Shape(r) ==
    /\ r.status = "SENT" => r.exit = "none" /\ (Open(r) \/ r.position = "NULL")
    /\ r.status = "OVERNIGHT_HOLD" => r.exit = "none" /\ Open(r)
    /\ r.status = "EXPIRED" => r.exit = "none" /\ r.position = "NULL"
    /\ r.status = "CANCELLED" => r.exit = "none" /\ r.position = "CLOSED"
    /\ r.status \in {"WIN", "LOSS"} => r.exit # "none" /\ r.position = "CLOSED"
    /\ r.filled => Open(r) \/ r.status \in {"WIN", "LOSS"}

\* A row the queue worker has not settled yet was never opened nor closed.
RowInv ==
    \A p \in Positions :
        /\ Shape(row[p])
        /\ row[p].filled => p \in executed
        /\ settled[p] = "no" => row[p].position = "NULL"

Paper == job["updatePerformance"]
Expiring == job["expireSentSignals"]

\* What the Java jobs are about to write are rows of these shapes.
JobInv ==
    /\ \A p \in DOMAIN Paper :
          Shape(Paper[p]) /\ ~Paper[p].filled /\ settled[p] # "no"
    /\ \A p \in DOMAIN Expiring :
          Shape(Expiring[p]) /\ Expiring[p].status = "EXPIRED"

\* A trigger goes the way it awaits: the first target is marked, not closed.
Routed(t) ==
    /\ t.pc = "mark" => Awaits(t.trigger) = "mark"
    /\ t.pc \in {"close", "judge"} => Awaits(t.trigger) # "mark"

TaskInv == \A p \in Positions : Routed(task[p])

\* The check has closed its position and has not said so yet.
Selling(t) == t.pc = "publish" /\ Awaits(t.trigger) # "mark"

\* The monitor closes what is filled and open, and no row it closed becomes
\* that again: a paper row carries no fill and an expired row is not open.
CloseInv ==
    \A p \in Positions :
        /\ closes[p] <= 1 /\ sells[p] <= closes[p]
        /\ closes[p] = 1 => p \in executed /\ ~(Open(row[p]) /\ row[p].filled)
        /\ Selling(task[p]) => closes[p] = 1 /\ sells[p] = 0

\* Without an overlap, what a job has loaded is still in the table.
ApartInv == ~Overlap =>
    /\ \A p \in DOMAIN Paper :
          /\ row[p].status = "SENT" /\ Open(row[p]) /\ ~row[p].filled
          /\ Stage(Paper[p]) \in {Stage(row[p]), "closed"}
    /\ \A p \in DOMAIN Expiring : row[p].status = "SENT" /\ ~Open(row[p])

\* Without an overlap, what was closed is closed until it is announced.
SoldInv == ~Overlap =>
    \A p \in Positions :
        Selling(task[p]) => row[p].status \in {"WIN", "LOSS"}

IInv == /\ TypeOK /\ RowInv /\ JobInv /\ TaskInv
        /\ CloseInv /\ ApartInv /\ SoldInv

----------------------------------------------------------------------------
(* The operators the actions are built from.                               *)

\* What the jobs hold are rows of positions.
LEMMA Entities ==
    ASSUME TypeOK
    PROVE  /\ DOMAIN Paper \subseteq Positions
           /\ DOMAIN Expiring \subseteq Positions
           /\ \A p \in DOMAIN Paper : Paper[p] \in Rows
           /\ \A p \in DOMAIN Expiring : Expiring[p] \in Rows
<1>1. ASSUME NEW j \in JavaJobs
      PROVE  DOMAIN job[j] \subseteq Positions /\ \A p \in DOMAIN job[j] : job[j][p] \in Rows
  <2>1. PICK D \in SUBSET Positions : job[j] \in [D -> Rows]
    BY DEF TypeOK
  <2>. QED BY <2>1
<1>. QED BY <1>1 DEF Paper, Expiring, JavaJobs

\* A closed row has the shape of one.
LEMMA ClosedShape ==
    ASSUME NEW r \in Rows, NEW e \in Exits, NEW c
    PROVE  LET d == ClosedRow(r, e, c)
           IN  /\ Shape(d) /\ d.status \in {"WIN", "LOSS"} /\ ~Open(d)
               /\ d.filled = r.filled /\ Stage(d) = "closed"
<1>. DEFINE d == ClosedRow(r, e, c)
<1>1. /\ d.status \in {"WIN", "LOSS"} /\ d.exit = e /\ d.position = "CLOSED"
      /\ d.filled = r.filled
  BY DEF ClosedRow, Rows
<1>2. e # "none" /\ ~Open(d)
  BY <1>1 DEF Exits, Open, OpenStates
<1>. HIDE DEF d
<1>3. Shape(d) /\ Stage(d) = "closed"
  BY <1>1, <1>2 DEF Shape, Stage
<1>. QED BY <1>1, <1>2, <1>3 DEF d

\* evaluateSignal leaves the row as it is or closes it.
LEMMA EvaluatedShape ==
    ASSUME NEW r \in Rows, NEW c \in Prices,
           Shape(r), r.status = "SENT", Open(r), ~r.filled
    PROVE  LET d == Evaluated(r, c)
           IN  Shape(d) /\ ~d.filled /\ Stage(d) \in {Stage(r), "closed"}
<1>. DEFINE peak == Higher(r.peak, c)
            k == [r EXCEPT !.peak = peak]
<1>0. peak \in Prices \cup {0}
  BY DEF Higher, Rows
<1>1. k \in Rows
  BY <1>0 DEF Rows
<1>2. /\ k.status = r.status /\ k.exit = r.exit /\ k.position = r.position
      /\ k.filled = r.filled /\ k.tp1 = r.tp1
  BY DEF Rows
<1>. HIDE DEF k
<1>3. Shape(k) /\ Stage(k) = Stage(r)
  BY <1>2 DEF Shape, Stage, Open
<1>4. Evaluated(r, c) \in {ClosedRow(r, "TP_HIT", c), ClosedRow(r, "SL_HIT", c),
                           ClosedRow(k, "TRAILING_STOP", c), k}
  BY LifecycleAssumption DEF Evaluated, k
<1>5. /\ "TP_HIT" \in Exits /\ "SL_HIT" \in Exits /\ "TRAILING_STOP" \in Exits
  BY DEF Exits
<1>. QED BY <1>1, <1>2, <1>3, <1>4, <1>5, ClosedShape

\* What the monitor may write: filled, open, and neither paper nor terminal.
LEMMA MonitorableShape ==
    ASSUME NEW r \in Rows, Shape(r), Monitorable(r)
    PROVE  /\ r.filled /\ Open(r) /\ r.exit = "none"
           /\ r.status \in {"SENT", "OVERNIGHT_HOLD"}
BY DEF Monitorable, Shape, Open, OpenStates

\* A planned check is routed and has nothing to announce.
LEMMA PlannedRouted ==
    ASSUME NEW t \in Tasks, NEW x \in Triggers
    PROVE  Routed(Planned(t, x)) /\ ~Selling(Planned(t, x))
<1>1. CASE x = "none"
  BY <1>1 DEF Planned, Routed, Selling, IdleTask
<1>2. CASE x # "none"
  <2>1. Planned(t, x).pc = Awaits(x) /\ Planned(t, x).trigger = x
    BY <1>2 DEF Planned, Tasks, Checks
  <2>2. Awaits(x) \in {"idle", "peak", "mark", "close", "judge"}
    BY DEF Awaits, Triggers, Order
  <2>. QED BY <2>1, <2>2 DEF Routed, Selling
<1>. QED BY <1>1, <1>2

\* A task without work is routed and has nothing to announce.
LEMMA IdleRouted == IdleTask \in Tasks /\ Routed(IdleTask) /\ ~Selling(IdleTask)
BY DEF IdleTask, Tasks, Checks, OpenStates, Triggers, Order, Routed, Selling

----------------------------------------------------------------------------
(* What a step may touch without disturbing the invariant.                 *)

\* A step that writes neither rows nor jobs.
LEMMA Unwritten ==
    ASSUME RowInv, JobInv, ApartInv, UNCHANGED <<row, settled, executed, job>>
    PROVE  RowInv' /\ JobInv' /\ ApartInv'
BY DEF RowInv, JobInv, ApartInv, Paper, Expiring

\* The row of a monitorable position is written: no job has loaded it.
LEMMA OwnedWrite ==
    ASSUME TypeOK, RowInv, JobInv, ApartInv,
           NEW p \in Positions, Monitorable(row[p]),
           NEW r \in Rows, Shape(r), r.filled,
           row' = [row EXCEPT ![p] = r], UNCHANGED <<settled, executed, job>>
    PROVE  RowInv' /\ JobInv' /\ ApartInv'
<1>1. row[p].filled /\ Open(row[p])
  BY MonitorableShape DEF RowInv, TypeOK
<1>2. row[p].position # "NULL"
  BY <1>1 DEF Open, OpenStates
<1>3. row'[p] = r /\ \A q \in Positions : q # p => row'[q] = row[q]
  BY DEF TypeOK
<1>4. RowInv'
  BY <1>1, <1>2, <1>3 DEF RowInv
<1>5. JobInv'
  BY DEF JobInv, Paper, Expiring
<1>6. ApartInv'
  <2>. SUFFICES ASSUME ~Overlap PROVE ApartInv'
    BY DEF ApartInv
  <2>1. \A q \in DOMAIN Paper : q # p
    BY <1>1 DEF ApartInv
  <2>2. \A q \in DOMAIN Expiring : q # p
    BY <1>1 DEF ApartInv
  <2>. QED BY <1>3, <2>1, <2>2, Entities DEF ApartInv, Paper, Expiring
<1>. QED BY <1>4, <1>5, <1>6

\* Nothing is closed and no check comes to announce a sale.
LEMMA NothingClosed ==
    ASSUME CloseInv, SoldInv, UNCHANGED <<closes, sells>>,
           executed \subseteq executed',
           \A q \in Positions : Selling(task'[q]) => Selling(task[q]),
           \A q \in Positions : closes[q] = 1 => ~(Open(row'[q]) /\ row'[q].filled),
           ~Overlap => \A q \in Positions :
               Selling(task[q]) => row'[q].status \in {"WIN", "LOSS"}
    PROVE  CloseInv' /\ SoldInv'
<1>1. CloseInv'
  BY DEF CloseInv, Selling, Open
<1>2. SoldInv'
  BY DEF SoldInv, Selling
<1>. QED BY <1>1, <1>2

\* A task is planned anew, and no row is written.
LEMMA Replanned ==
    ASSUME IInv, NEW p \in Positions, NEW t \in Tasks, Routed(t), ~Selling(t),
           task' = [task EXCEPT ![p] = t],
           UNCHANGED <<row, settled, executed, job, closes, sells>>
    PROVE  RowInv' /\ JobInv' /\ ApartInv' /\ TaskInv' /\ CloseInv' /\ SoldInv'
<1>1. RowInv' /\ JobInv' /\ ApartInv'
  BY Unwritten DEF IInv
<1>2. task'[p] = t /\ \A q \in Positions : q # p => task'[q] = task[q]
  BY DEF IInv, TypeOK
<1>3. TaskInv'
  <2>1. \A q \in Positions : Routed(task'[q])
    BY <1>2 DEF IInv, TaskInv
  <2>. QED BY <2>1 DEF TaskInv, Routed
<1>4. \A q \in Positions : Selling(task'[q]) => Selling(task[q])
  BY <1>2
<1>5. CloseInv' /\ SoldInv'
  BY <1>4, NothingClosed DEF IInv, CloseInv, SoldInv
<1>. QED BY <1>1, <1>3, <1>5

----------------------------------------------------------------------------
(* Every step keeps the invariant.                                         *)

\* Nothing has happened yet.
LEMMA InitInv == Init => IInv
<1>. SUFFICES ASSUME Init PROVE IInv
  OBVIOUS
<1>1. Shape(Saved) /\ Saved.position = "NULL" /\ ~Saved.filled
  BY DEF Saved, Shape, Open, OpenStates
<1>2. DOMAIN Paper = {} /\ DOMAIN Expiring = {}
  BY DEF Init, Paper, Expiring, JavaJobs, NoEntities
<1>3. RowInv /\ JobInv /\ ApartInv
  BY <1>1, <1>2 DEF Init, RowInv, JobInv, ApartInv
<1>4. TaskInv /\ CloseInv /\ SoldInv
  BY IdleRouted DEF Init, TaskInv, CloseInv, SoldInv
<1>. QED BY <1>3, <1>4, InitType DEF IInv

\* The queue worker's decision, the market and the broker.
LEMMA SettlementInv == IInv /\ (Settlement \/ World) => IInv'
<1>. SUFFICES ASSUME IInv, Settlement \/ World PROVE IInv'
  OBVIOUS
<1>0. TypeOK'
  BY SettlementType DEF IInv
<1>1. ASSUME NEW p \in Positions, Confirm(p) PROVE IInv'
  <2>. DEFINE r == [row[p] EXCEPT !.position = "ACTIVE", !.tp1 = FALSE, !.peak = 0]
  <2>0. row[p] \in Rows /\ row[p].position = "NULL" /\ Shape(row[p])
    BY <1>1 DEF IInv, TypeOK, RowInv, Confirm
  <2>1. ~Open(row[p]) /\ row[p].status \notin {"WIN", "LOSS", "OVERNIGHT_HOLD"}
    BY <2>0 DEF Open, OpenStates, Shape
  <2>2. ~row[p].filled
    BY <2>0, <2>1 DEF Shape
  <2>3. /\ r.status = row[p].status /\ r.exit = row[p].exit
        /\ r.filled = row[p].filled /\ r.position = "ACTIVE"
    BY <2>0 DEF Rows
  <2>4. row[p].status = "SENT" => Shape(r)
    BY <2>0, <2>1, <2>2, <2>3 DEF Shape, Open, OpenStates
  <2>. HIDE DEF r
  <2>5. /\ row'[p] \in {row[p], r} /\ Shape(row'[p]) /\ ~row'[p].filled
        /\ \A q \in Positions : q # p => row'[q] = row[q]
    BY <1>1, <2>0, <2>1, <2>2, <2>3, <2>4 DEF Confirm, r, IInv, TypeOK
  <2>6. settled'[p] = "confirmed" /\ \A q \in Positions : q # p => settled'[q] = settled[q]
    BY <1>1 DEF Confirm, IInv, TypeOK
  <2>7. UNCHANGED <<executed, task, job, closes, sells>>
    BY <1>1 DEF Confirm
  <2>8. RowInv'
    BY <2>5, <2>6, <2>7 DEF IInv, RowInv
  <2>9. JobInv'
    BY <2>6, <2>7, Entities DEF IInv, JobInv, Paper, Expiring
  <2>10. ApartInv'
    <3>. SUFFICES ASSUME ~Overlap PROVE ApartInv'
      BY DEF ApartInv
    <3>1. \A q \in DOMAIN Paper \cup DOMAIN Expiring : q # p
      BY <1>1 DEF Confirm, Undisturbed, Loaded, Paper, Expiring, JavaJobs
    <3>2. /\ \A q \in DOMAIN Paper : row'[q] = row[q]
          /\ \A q \in DOMAIN Expiring : row'[q] = row[q]
      BY <2>5, <3>1, Entities DEF IInv
    <3>. QED BY <2>7, <3>2 DEF IInv, ApartInv, Paper, Expiring
  <2>11. CloseInv' /\ SoldInv'
    BY <2>0, <2>1, <2>5, <2>7, NothingClosed DEF IInv, CloseInv, SoldInv
  <2>. QED BY <1>0, <2>7, <2>8, <2>9, <2>10, <2>11 DEF IInv, TaskInv
<1>2. ASSUME NEW p \in Positions, Cancel(p) PROVE IInv'
  <2>. DEFINE r == [row[p] EXCEPT !.status = "CANCELLED", !.position = "CLOSED"]
  <2>0. row[p] \in Rows /\ row[p].position = "NULL" /\ Shape(row[p])
    BY <1>2 DEF IInv, TypeOK, RowInv, Cancel
  <2>1. ~Open(row[p]) /\ row[p].status \in {"SENT", "EXPIRED"}
    BY <2>0 DEF Open, OpenStates, Shape, Rows, Statuses
  <2>2. ~row[p].filled /\ row[p].exit = "none"
    BY <2>0, <2>1 DEF Shape
  <2>3. /\ r.status = "CANCELLED" /\ r.exit = row[p].exit
        /\ r.filled = row[p].filled /\ r.position = "CLOSED"
    BY <2>0 DEF Rows
  <2>4. Shape(r)
    BY <2>2, <2>3 DEF Shape
  <2>. HIDE DEF r
  <2>5. /\ row'[p] \in {row[p], r} /\ Shape(row'[p]) /\ ~row'[p].filled
        /\ \A q \in Positions : q # p => row'[q] = row[q]
    BY <1>2, <2>0, <2>2, <2>3, <2>4 DEF Cancel, r, IInv, TypeOK
  <2>6. settled'[p] = "cancelled" /\ \A q \in Positions : q # p => settled'[q] = settled[q]
    BY <1>2 DEF Cancel, IInv, TypeOK
  <2>7. UNCHANGED <<executed, task, job, closes, sells>>
    BY <1>2 DEF Cancel
  <2>8. RowInv'
    BY <2>5, <2>6, <2>7 DEF IInv, RowInv
  <2>9. JobInv'
    BY <2>6, <2>7, Entities DEF IInv, JobInv, Paper, Expiring
  <2>10. ApartInv'
    <3>. SUFFICES ASSUME ~Overlap PROVE ApartInv'
      BY DEF ApartInv
    <3>1. \A q \in DOMAIN Paper \cup DOMAIN Expiring : q # p
      BY <1>2 DEF Cancel, Undisturbed, Loaded, Paper, Expiring, JavaJobs
    <3>2. /\ \A q \in DOMAIN Paper : row'[q] = row[q]
          /\ \A q \in DOMAIN Expiring : row'[q] = row[q]
      BY <2>5, <3>1, Entities DEF IInv
    <3>. QED BY <2>7, <3>2 DEF IInv, ApartInv, Paper, Expiring
  <2>11. CloseInv' /\ SoldInv'
    BY <2>0, <2>1, <2>5, <2>7, NothingClosed DEF IInv, CloseInv, SoldInv
  <2>. QED BY <1>0, <2>7, <2>8, <2>9, <2>10, <2>11 DEF IInv, TaskInv
<1>3. ASSUME NEW p \in Positions, Fill(p) PROVE IInv'
  <2>. DEFINE r == [row[p] EXCEPT !.filled = TRUE]
  <2>0. row[p] \in Rows /\ Open(row[p]) /\ Shape(row[p])
    BY <1>3 DEF IInv, TypeOK, RowInv, Fill
  <2>1. /\ r.status = row[p].status /\ r.exit = row[p].exit
        /\ r.filled /\ r.position = row[p].position
    BY <2>0 DEF Rows
  <2>2. Shape(r) /\ r.position # "NULL"
    BY <2>0, <2>1 DEF Shape, Open, OpenStates
  <2>. HIDE DEF r
  <2>3. row'[p] = r /\ \A q \in Positions : q # p => row'[q] = row[q]
    BY <1>3 DEF Fill, r, IInv, TypeOK
  <2>4. executed' = executed \cup {p} /\ p \notin executed
    BY <1>3 DEF Fill
  <2>5. UNCHANGED <<settled, task, job, closes, sells>>
    BY <1>3 DEF Fill
  <2>6. RowInv'
    BY <2>0, <2>1, <2>2, <2>3, <2>4, <2>5 DEF IInv, RowInv
  <2>7. JobInv'
    BY <2>5 DEF IInv, JobInv, Paper, Expiring
  <2>8. ApartInv'
    <3>. SUFFICES ASSUME ~Overlap PROVE ApartInv'
      BY DEF ApartInv
    <3>1. \A q \in DOMAIN Paper \cup DOMAIN Expiring : q # p
      BY <1>3 DEF Fill, Undisturbed, Loaded, Paper, Expiring, JavaJobs
    <3>2. /\ \A q \in DOMAIN Paper : row'[q] = row[q]
          /\ \A q \in DOMAIN Expiring : row'[q] = row[q]
      BY <2>3, <3>1, Entities DEF IInv
    <3>. QED BY <2>5, <3>2 DEF IInv, ApartInv, Paper, Expiring
  <2>9. CloseInv' /\ SoldInv'
    <3>1. \A q \in Positions : closes[q] = 1 => ~(Open(row'[q]) /\ row'[q].filled)
      BY <2>3, <2>4 DEF IInv, CloseInv
    <3>2. ~Overlap => \A q \in Positions :
             Selling(task[q]) => row'[q].status \in {"WIN", "LOSS"}
      BY <2>1, <2>3 DEF IInv, SoldInv
    <3>. QED BY <2>4, <2>5, <3>1, <3>2, NothingClosed DEF IInv
  <2>. QED BY <1>0, <2>5, <2>6, <2>7, <2>8, <2>9 DEF IInv, TaskInv
<1>4. ASSUME NEW p \in Positions, PriceMoves(p) PROVE IInv'
  <2>1. UNCHANGED <<row, settled, executed, task, job, closes, sells>>
    BY <1>4 DEF PriceMoves
  <2>2. RowInv' /\ JobInv' /\ ApartInv'
    BY <2>1, Unwritten DEF IInv
  <2>3. TaskInv' /\ CloseInv' /\ SoldInv'
    BY <2>1 DEF IInv, TaskInv, CloseInv, SoldInv
  <2>. QED BY <1>0, <2>2, <2>3 DEF IInv
<1>. QED BY <1>1, <1>2, <1>3, <1>4 DEF Settlement, World

\* A round of the monitor and each step of a check.
LEMMA MonitorInv ==
    ASSUME IInv, Scan \/ \E p \in Positions : CheckStep(p)
    PROVE  IInv'
<1>0. TypeOK'
  BY MonitorType DEF IInv
<1>t. \A p \in Positions : task[p] \in Tasks /\ row[p] \in Rows /\ Shape(row[p])
  BY DEF IInv, TypeOK, RowInv
<1>1. CASE Scan
  <2>1. UNCHANGED <<row, settled, executed, job, closes, sells>>
    BY <1>1 DEF Scan
  <2>2. \A p \in Positions : task'[p].pc \in {"check", "idle"}
    BY <1>1, <1>t DEF Scan, IdleTask
  <2>3. \A p \in Positions : Routed(task'[p]) /\ ~Selling(task'[p])
    BY <2>2 DEF Routed, Selling
  <2>4. RowInv' /\ JobInv' /\ ApartInv'
    BY <2>1, Unwritten DEF IInv
  <2>5. TaskInv'
    BY <2>3 DEF TaskInv, Routed
  <2>6. CloseInv' /\ SoldInv'
    BY <2>1, <2>3, NothingClosed DEF IInv, CloseInv, SoldInv
  <2>. QED BY <1>0, <2>4, <2>5, <2>6 DEF IInv
<1>2. ASSUME NEW p \in Positions, Check(p) PROVE IInv'
  <2>1. UNCHANGED <<row, settled, executed, job, closes, sells>>
    BY <1>2 DEF Check
  <2>2. CASE \E late, weak \in BOOLEAN, pct \in {TrailingPct} \cup ReassessedPcts :
                LET t == [task[p] EXCEPT !.price = price[p]]
                IN \E x \in FirstTrigger(1, t, pct, late, weak) :
                      task' = [task EXCEPT ![p] = Planned(t, x)]
    <3>. DEFINE t == [task[p] EXCEPT !.price = price[p]]
    <3>1. PICK late, weak \in BOOLEAN, pct \in {TrailingPct} \cup ReassessedPcts :
             \E x \in FirstTrigger(1, t, pct, late, weak) :
                 task' = [task EXCEPT ![p] = Planned(t, x)]
      BY <2>2
    <3>2. t \in Tasks
      BY TaskUpdates DEF IInv, TypeOK
    <3>. HIDE DEF t
    <3>3. PICK x \in FirstTrigger(1, t, pct, late, weak) :
             task' = [task EXCEPT ![p] = Planned(t, x)]
      BY <3>1
    <3>4. x \in Triggers
      BY FirstTriggerType
    <3>5. Planned(t, x) \in Tasks /\ Routed(Planned(t, x)) /\ ~Selling(Planned(t, x))
      BY <3>2, <3>4, PlannedType, PlannedRouted
    <3>. QED BY <1>0, <2>1, <3>3, <3>5, Replanned DEF IInv
  <2>3. CASE task' = [task EXCEPT ![p] = IdleTask]
    BY <1>0, <2>1, <2>3, IdleRouted, Replanned DEF IInv
  <2>. QED BY <1>2, <2>2, <2>3 DEF Check
<1>3. ASSUME NEW p \in Positions, UpdatePeak(p) PROVE IInv'
  <2>. DEFINE t == [task[p] EXCEPT !.peak = task[p].price]
              r == [row[p] EXCEPT !.peak = t.price]
  <2>0. task[p].price \in Prices \cup {0}
    BY <1>t DEF Tasks, Checks
  <2>1. t \in Tasks
    BY <1>t, <2>0, TaskUpdates
  <2>2. t.price \in Prices \cup {0}
    BY <2>1 DEF Tasks, Checks
  <2>3. PICK weak \in BOOLEAN, i \in 1..9 :
           \E x \in FirstTrigger(i + 1, t, TrailingPct, FALSE, weak) :
               task' = [task EXCEPT ![p] = Planned(t, x)]
    BY <1>3 DEF UpdatePeak
  <2>4. UNCHANGED <<settled, executed, job, closes, sells>>
    BY <1>3 DEF UpdatePeak
  <2>5. \/ Monitorable(row[p]) /\ row' = [row EXCEPT ![p] = r]
        \/ UNCHANGED row
    BY <1>3, <1>t DEF UpdatePeak, IInv, TypeOK
  <2>. HIDE DEF t
  <2>6. PICK x \in Triggers : task' = [task EXCEPT ![p] = Planned(t, x)]
    <3>1. i + 1 \in Nat /\ i + 1 >= 1
      OBVIOUS
    <3>. QED BY <2>3, <3>1, FirstTriggerType
  <2>7. Planned(t, x) \in Tasks /\ Routed(Planned(t, x)) /\ ~Selling(Planned(t, x))
    BY <2>1, PlannedType, PlannedRouted
  <2>8. CASE UNCHANGED row
    BY <1>0, <2>4, <2>6, <2>7, <2>8, Replanned DEF IInv
  <2>9. CASE Monitorable(row[p]) /\ row' = [row EXCEPT ![p] = r]
    <3>1. r \in Rows /\ r.status = row[p].status /\ r.exit = row[p].exit
          /\ r.position = row[p].position /\ r.filled = row[p].filled
      BY <1>t, <2>2 DEF Rows
    <3>. HIDE DEF r
    <3>2. Shape(r) /\ r.filled
      BY <1>t, <2>9, <3>1, MonitorableShape DEF Shape, Open
    <3>3. RowInv' /\ JobInv' /\ ApartInv'
      BY <2>4, <2>9, <3>1, <3>2, OwnedWrite DEF IInv
    <3>4. task'[p] = Planned(t, x) /\ \A q \in Positions : q # p => task'[q] = task[q]
      BY <2>6 DEF IInv, TypeOK
    <3>5. TaskInv'
      <4>1. \A q \in Positions : Routed(task'[q])
        BY <2>7, <3>4 DEF IInv, TaskInv
      <4>. QED BY <4>1 DEF TaskInv, Routed
    <3>6. \A q \in Positions : /\ Open(row'[q]) = Open(row[q])
                               /\ row'[q].filled = row[q].filled
                               /\ row'[q].status = row[q].status
      BY <1>t, <2>9, <3>1 DEF Open, IInv, TypeOK
    <3>7. \A q \in Positions : Selling(task'[q]) => Selling(task[q])
      BY <2>7, <3>4
    <3>8. CloseInv' /\ SoldInv'
      BY <2>4, <3>6, <3>7, NothingClosed DEF IInv, CloseInv, SoldInv
    <3>. QED BY <1>0, <3>3, <3>5, <3>8 DEF IInv
  <2>. QED BY <2>5, <2>8, <2>9
<1>4. ASSUME NEW p \in Positions, Judge(p) PROVE IInv'
  <2>. DEFINE t == [task[p] EXCEPT !.pc = "close"]
  <2>0. task[p].pc = "judge" /\ UNCHANGED <<row, settled, executed, job, closes, sells>>
    BY <1>4 DEF Judge
  <2>1. t \in Tasks /\ t.pc = "close" /\ t.trigger = task[p].trigger
    BY <1>t, <2>0, TaskUpdates DEF Tasks, Checks
  <2>2. Routed(t) /\ ~Selling(t)
    BY <2>0, <2>1 DEF IInv, TaskInv, Routed, Selling
  <2>3. task' \in {[task EXCEPT ![p] = t], [task EXCEPT ![p] = IdleTask]}
    BY <1>4 DEF Judge, IInv, TypeOK
  <2>. HIDE DEF t
  <2>. QED BY <1>0, <2>0, <2>1, <2>2, <2>3, IdleRouted, Replanned DEF IInv
<1>5. ASSUME NEW p \in Positions, ClosePosition(p) PROVE IInv'
  <2>. DEFINE e == ExitType(task[p].trigger)
              r == ClosedRow(row[p], e, task[p].price)
  <2>0. task[p].pc = "close" /\ UNCHANGED <<settled, executed, job, sells>>
    BY <1>5 DEF ClosePosition
  <2>1. e \in Exits
    BY <1>t, <2>0 DEF Tasks
  <2>2. CASE Monitorable(row[p]) /\ row' = [row EXCEPT ![p] = r]
             /\ closes' = [closes EXCEPT ![p] = @ + 1]
             /\ task' = [task EXCEPT ![p].pc = "publish"]
    <3>. HIDE DEF e
    <3>1. r \in Rows /\ Shape(r) /\ r.status \in {"WIN", "LOSS"} /\ ~Open(r)
          /\ r.filled = row[p].filled
      BY <1>t, <2>1, ClosedRowType, ClosedShape
    <3>. HIDE DEF r
    <3>2. row[p].filled /\ Open(row[p])
      BY <1>t, <2>2, MonitorableShape
    <3>3. RowInv' /\ JobInv' /\ ApartInv'
      BY <2>0, <2>2, <3>1, <3>2, OwnedWrite DEF IInv
    <3>4. /\ task'[p].pc = "publish" /\ task'[p].trigger = task[p].trigger
          /\ \A q \in Positions : q # p => task'[q] = task[q]
      BY <1>t, <2>2 DEF IInv, TypeOK, Tasks, Checks
    <3>5. TaskInv'
      <4>1. \A q \in Positions : Routed(task'[q])
        BY <3>4 DEF IInv, TaskInv, Routed
      <4>. QED BY <4>1 DEF TaskInv, Routed
    <3>6. row'[p] = r /\ \A q \in Positions : q # p => row'[q] = row[q]
      BY <2>2 DEF IInv, TypeOK
    <3>7. closes[p] = 0 /\ sells[p] = 0
      <4>1. closes[p] \in Nat /\ sells[p] \in Nat
        BY DEF IInv, TypeOK
      <4>2. closes[p] # 1 /\ closes[p] <= 1 /\ sells[p] <= closes[p]
        BY <3>2 DEF IInv, CloseInv
      <4>. QED BY <4>1, <4>2
    <3>8. closes'[p] = 1 /\ \A q \in Positions : q # p => closes'[q] = closes[q]
      BY <2>2, <3>7 DEF IInv, TypeOK
    <3>9. CloseInv'
      <4>1. p \in executed
        BY <3>2 DEF IInv, RowInv
      <4>2. \A q \in Positions :
              /\ closes'[q] <= 1 /\ sells'[q] <= closes'[q]
              /\ closes'[q] = 1 => q \in executed' /\ ~(Open(row'[q]) /\ row'[q].filled)
              /\ Selling(task'[q]) => closes'[q] = 1 /\ sells'[q] = 0
        BY <2>0, <3>1, <3>4, <3>6, <3>7, <3>8, <4>1 DEF IInv, CloseInv
      <4>. QED BY <4>2 DEF CloseInv, Selling, Open
    <3>10. SoldInv'
      <4>1. ~Overlap => \A q \in Positions :
               Selling(task'[q]) => row'[q].status \in {"WIN", "LOSS"}
        BY <3>1, <3>4, <3>6 DEF IInv, SoldInv
      <4>. QED BY <4>1 DEF SoldInv, Selling
    <3>. QED BY <1>0, <3>3, <3>5, <3>9, <3>10 DEF IInv
  <2>3. CASE task' = [task EXCEPT ![p] = IdleTask] /\ UNCHANGED <<row, closes>>
    BY <1>0, <2>0, <2>3, IdleRouted, Replanned DEF IInv
  <2>. QED BY <1>5, <2>2, <2>3 DEF ClosePosition, IInv, TypeOK
<1>6. ASSUME NEW p \in Positions, MarkTp1(p) PROVE IInv'
  <2>. DEFINE r == [row[p] EXCEPT !.position = "PARTIAL_TP", !.tp1 = TRUE,
                                  !.peak = task[p].price]
              t == [task[p] EXCEPT !.pc = "publish"]
  <2>0. task[p].pc = "mark" /\ UNCHANGED <<settled, executed, job, closes, sells>>
    BY <1>6 DEF MarkTp1
  <2>1. t.trigger = task[p].trigger /\ t.pc = "publish"
    BY <1>t DEF Tasks, Checks
  <2>2. t \in Tasks /\ Routed(t) /\ ~Selling(t)
    BY <1>t, <2>0, <2>1, TaskUpdates DEF IInv, TaskInv, Routed, Selling
  <2>3. CASE Monitorable(row[p]) /\ row' = [row EXCEPT ![p] = r]
             /\ task' = [task EXCEPT ![p] = t]
    <3>0. "PARTIAL_TP" \in OpenStates /\ task[p].price \in Prices \cup {0}
      BY <1>t DEF OpenStates, Tasks, Checks
    <3>1. /\ r \in Rows /\ r.status = row[p].status /\ r.exit = row[p].exit
          /\ r.filled = row[p].filled /\ r.position = "PARTIAL_TP"
      BY <1>t, <3>0 DEF Rows
    <3>. HIDE DEF r, t
    <3>2. /\ row[p].filled /\ Open(row[p]) /\ row[p].exit = "none"
          /\ row[p].status \in {"SENT", "OVERNIGHT_HOLD"}
      BY <1>t, <2>3, MonitorableShape
    <3>3. Shape(r) /\ r.filled
      BY <3>0, <3>1, <3>2 DEF Shape, Open
    <3>4. RowInv' /\ JobInv' /\ ApartInv'
      BY <2>0, <2>3, <3>1, <3>3, OwnedWrite DEF IInv
    <3>5. task'[p] = t /\ \A q \in Positions : q # p => task'[q] = task[q]
      BY <2>3 DEF IInv, TypeOK
    <3>6. TaskInv'
      <4>1. \A q \in Positions : Routed(task'[q])
        BY <2>2, <3>5 DEF IInv, TaskInv
      <4>. QED BY <4>1 DEF TaskInv, Routed
    <3>7. row'[p] = r /\ \A q \in Positions : q # p => row'[q] = row[q]
      BY <2>3 DEF IInv, TypeOK
    <3>8. \A q \in Positions : Selling(task'[q]) => Selling(task[q])
      BY <2>2, <3>5
    <3>9. closes[p] # 1
      BY <3>2 DEF IInv, CloseInv
    <3>10. CloseInv' /\ SoldInv'
      BY <2>0, <3>1, <3>7, <3>8, <3>9, NothingClosed DEF IInv, CloseInv, SoldInv
    <3>. QED BY <1>0, <3>4, <3>6, <3>10 DEF IInv
  <2>4. CASE task' = [task EXCEPT ![p] = IdleTask] /\ UNCHANGED row
    BY <1>0, <2>0, <2>4, IdleRouted, Replanned DEF IInv
  <2>5. \/ Monitorable(row[p]) /\ row' = [row EXCEPT ![p] = r]
           /\ task' = [task EXCEPT ![p] = t]
        \/ task' = [task EXCEPT ![p] = IdleTask] /\ UNCHANGED row
    BY <1>6 DEF MarkTp1, IInv, TypeOK
  <2>. QED BY <2>3, <2>4, <2>5
<1>7. ASSUME NEW p \in Positions, Publish(p) PROVE IInv'
  <2>0. /\ task[p].pc = "publish" /\ task' = [task EXCEPT ![p] = IdleTask]
        /\ UNCHANGED <<row, settled, executed, job, closes>>
    BY <1>7 DEF Publish
  <2>1. CASE UNCHANGED sells
    BY <1>0, <2>0, <2>1, IdleRouted, Replanned DEF IInv
  <2>2. CASE Selling(task[p]) /\ sells' = [sells EXCEPT ![p] = @ + 1]
    <3>1. closes[p] = 1 /\ sells[p] = 0
      BY <2>2 DEF IInv, CloseInv
    <3>2. sells'[p] = 1 /\ \A q \in Positions : q # p => sells'[q] = sells[q]
      BY <2>2, <3>1 DEF IInv, TypeOK
    <3>3. task'[p] = IdleTask /\ \A q \in Positions : q # p => task'[q] = task[q]
      BY <2>0 DEF IInv, TypeOK
    <3>4. RowInv' /\ JobInv' /\ ApartInv'
      BY <2>0, Unwritten DEF IInv
    <3>5. TaskInv'
      <4>1. \A q \in Positions : Routed(task'[q])
        BY <3>3, IdleRouted DEF IInv, TaskInv
      <4>. QED BY <4>1 DEF TaskInv, Routed
    <3>6. CloseInv'
      <4>1. \A q \in Positions :
              /\ closes'[q] <= 1 /\ sells'[q] <= closes'[q]
              /\ closes'[q] = 1 => q \in executed' /\ ~(Open(row'[q]) /\ row'[q].filled)
              /\ Selling(task'[q]) => closes'[q] = 1 /\ sells'[q] = 0
        BY <2>0, <3>1, <3>2, <3>3, IdleRouted DEF IInv, CloseInv
      <4>. QED BY <4>1 DEF CloseInv, Selling, Open
    <3>7. SoldInv'
      <4>1. ~Overlap => \A q \in Positions :
               Selling(task'[q]) => row'[q].status \in {"WIN", "LOSS"}
        BY <2>0, <3>3, IdleRouted DEF IInv, SoldInv
      <4>. QED BY <4>1 DEF SoldInv, Selling
    <3>. QED BY <1>0, <3>4, <3>5, <3>6, <3>7 DEF IInv
  <2>. QED BY <1>7, <2>1, <2>2 DEF Publish, Selling
<1>. QED BY <1>1, <1>2, <1>3, <1>4, <1>5, <1>6, <1>7 DEF CheckStep

\* The overnight worker's evaluation and record.
LEMMA OvernightInv == IInv /\ Overnight => IInv'
<1>. SUFFICES ASSUME IInv, Overnight PROVE IInv'
  OBVIOUS
<1>0. TypeOK'
  BY OvernightType DEF IInv
<1>1. UNCHANGED <<settled, executed, task, job, closes, sells>>
  BY DEF Overnight, OvernightRecord, OvernightEvaluate
<1>2. CASE UNCHANGED row
  <2>1. RowInv' /\ JobInv' /\ ApartInv'
    BY <1>1, <1>2, Unwritten DEF IInv
  <2>2. TaskInv' /\ CloseInv' /\ SoldInv'
    BY <1>1, <1>2 DEF IInv, TaskInv, CloseInv, SoldInv
  <2>. QED BY <1>0, <2>1, <2>2 DEF IInv
<1>3. CASE OvernightRecord /\ ~UNCHANGED row
  <2>. DEFINE p == verdict[1]
              r == [row[p] EXCEPT !.status = "OVERNIGHT_HOLD", !.position = "OVERNIGHT"]
  <2>1. p \in Positions
    BY <1>3 DEF OvernightRecord, IInv, TypeOK
  <2>2. row[p] \in Rows /\ Shape(row[p])
    BY <2>1 DEF IInv, TypeOK, RowInv
  <2>3. Monitorable(row[p]) /\ row' = [row EXCEPT ![p] = r]
    BY <1>3, <2>1 DEF OvernightRecord, IInv, TypeOK
  <2>. HIDE DEF p
  <2>4. row[p].filled /\ Open(row[p]) /\ row[p].exit = "none"
    BY <2>2, <2>3, MonitorableShape
  <2>0. "OVERNIGHT" \in OpenStates /\ "OVERNIGHT_HOLD" \in Statuses
    BY DEF OpenStates, Statuses
  <2>5. /\ r \in Rows /\ r.status = "OVERNIGHT_HOLD" /\ r.exit = row[p].exit
        /\ r.filled = row[p].filled /\ r.position = "OVERNIGHT"
    BY <2>0, <2>2 DEF Rows
  <2>. HIDE DEF r
  <2>6. Shape(r) /\ r.filled
    BY <2>0, <2>4, <2>5 DEF Shape, Open
  <2>7. RowInv' /\ JobInv' /\ ApartInv'
    BY <1>1, <2>1, <2>3, <2>5, <2>6, OwnedWrite DEF IInv
  <2>8. row'[p] = r /\ \A q \in Positions : q # p => row'[q] = row[q]
    BY <2>1, <2>3 DEF IInv, TypeOK
  <2>9. closes[p] # 1
    BY <2>1, <2>4 DEF IInv, CloseInv
  <2>10. ~Overlap => ~Selling(task[p])
    BY <2>1, <2>9 DEF IInv, CloseInv
  <2>11. CloseInv' /\ SoldInv'
    BY <1>1, <2>8, <2>9, <2>10, NothingClosed DEF IInv, CloseInv, SoldInv
  <2>. QED BY <1>0, <1>1, <2>7, <2>11 DEF IInv, TaskInv
<1>. QED BY <1>2, <1>3 DEF Overnight, OvernightEvaluate

\* The Java jobs: what they load has the shape they are to write, and what
\* they commit has no fill in an open row.
LEMMA JavaInv == IInv /\ Java => IInv'
<1>. SUFFICES ASSUME IInv, Java PROVE IInv'
  OBVIOUS
<1>0. TypeOK'
  BY JavaType DEF IInv
<1>t. \A p \in Positions : row[p] \in Rows /\ Shape(row[p]) /\ price[p] \in Prices
  BY DEF IInv, TypeOK, RowInv
<1>j. DOMAIN job = JavaJobs
  BY DEF IInv, TypeOK
<1>1. CASE LoadPaper
  <2>0. UNCHANGED <<row, settled, executed, task, closes, sells>>
    BY <1>1 DEF LoadPaper
  <2>1. PICK D \in SUBSET PaperPositions :
           job' = [job EXCEPT !["updatePerformance"] =
                     [p \in D |-> Evaluated(row[p], price[p])]]
    BY <1>1 DEF LoadPaper
  <2>2. Paper' = [p \in D |-> Evaluated(row[p], price[p])] /\ Expiring' = Expiring
    BY <1>j, <2>1 DEF Paper, Expiring, JavaJobs
  <2>3. ASSUME NEW p \in D
        PROVE  /\ row[p].status = "SENT" /\ Open(row[p]) /\ ~row[p].filled
               /\ settled[p] # "no"
               /\ Shape(Paper'[p]) /\ ~Paper'[p].filled
               /\ Stage(Paper'[p]) \in {Stage(row[p]), "closed"}
    <3>1. p \in Positions /\ row[p].status = "SENT" /\ Open(row[p]) /\ ~row[p].filled
      BY <2>3 DEF PaperPositions
    <3>2. settled[p] # "no"
      BY <3>1 DEF IInv, RowInv, Open, OpenStates
    <3>3. Paper'[p] = Evaluated(row[p], price[p])
      BY <2>2, <2>3
    <3>. QED BY <1>t, <3>1, <3>2, <3>3, EvaluatedShape
  <2>4. DOMAIN Paper' = D
    BY <2>2
  <2>5. JobInv'
    <3>1. /\ \A p \in DOMAIN Paper' :
                Shape(Paper'[p]) /\ ~Paper'[p].filled /\ settled'[p] # "no"
          /\ \A p \in DOMAIN Expiring' :
                Shape(Expiring'[p]) /\ Expiring'[p].status = "EXPIRED"
      BY <2>0, <2>2, <2>3, <2>4 DEF IInv, JobInv
    <3>. QED BY <3>1 DEF JobInv, Shape, Open
  <2>6. ApartInv'
    <3>1. ~Overlap =>
            /\ \A p \in DOMAIN Paper' :
                  /\ row'[p].status = "SENT" /\ Open(row'[p]) /\ ~row'[p].filled
                  /\ Stage(Paper'[p]) \in {Stage(row'[p]), "closed"}
            /\ \A p \in DOMAIN Expiring' : row'[p].status = "SENT" /\ ~Open(row'[p])
      BY <2>0, <2>2, <2>3, <2>4 DEF IInv, ApartInv
    <3>. QED BY <3>1 DEF ApartInv, Stage, Open
  <2>7. RowInv' /\ TaskInv' /\ CloseInv' /\ SoldInv'
    BY <2>0 DEF IInv, RowInv, TaskInv, CloseInv, SoldInv
  <2>. QED BY <1>0, <2>5, <2>6, <2>7 DEF IInv
<1>2. CASE LoadUnopened
  <2>0. UNCHANGED <<row, settled, executed, task, closes, sells>>
    BY <1>2 DEF LoadUnopened
  <2>1. /\ Expiring' = [p \in Unopened |-> [row[p] EXCEPT !.status = "EXPIRED"]]
        /\ Paper' = Paper
    BY <1>2, <1>j DEF LoadUnopened, Paper, Expiring, JavaJobs
  <2>2. ASSUME NEW p \in Unopened
        PROVE  /\ row[p].status = "SENT" /\ ~Open(row[p])
               /\ Shape(Expiring'[p]) /\ Expiring'[p].status = "EXPIRED"
    <3>1. p \in Positions /\ row[p].status = "SENT" /\ ~Open(row[p])
      BY <2>2 DEF Unopened
    <3>2. /\ row[p].exit = "none" /\ row[p].position = "NULL" /\ ~row[p].filled
      BY <1>t, <3>1 DEF Shape
    <3>3. Expiring'[p] = [row[p] EXCEPT !.status = "EXPIRED"]
      BY <2>1, <2>2
    <3>4. /\ Expiring'[p].status = "EXPIRED" /\ Expiring'[p].exit = "none"
          /\ Expiring'[p].position = "NULL" /\ ~Expiring'[p].filled
      BY <1>t, <3>1, <3>2, <3>3 DEF Rows
    <3>. QED BY <3>1, <3>4 DEF Shape
  <2>3. DOMAIN Expiring' = Unopened
    BY <2>1
  <2>4. JobInv'
    <3>1. /\ \A p \in DOMAIN Paper' :
                Shape(Paper'[p]) /\ ~Paper'[p].filled /\ settled'[p] # "no"
          /\ \A p \in DOMAIN Expiring' :
                Shape(Expiring'[p]) /\ Expiring'[p].status = "EXPIRED"
      BY <2>0, <2>1, <2>2, <2>3 DEF IInv, JobInv
    <3>. QED BY <3>1 DEF JobInv, Shape, Open
  <2>5. ApartInv'
    <3>1. ~Overlap =>
            /\ \A p \in DOMAIN Paper' :
                  /\ row'[p].status = "SENT" /\ Open(row'[p]) /\ ~row'[p].filled
                  /\ Stage(Paper'[p]) \in {Stage(row'[p]), "closed"}
            /\ \A p \in DOMAIN Expiring' : row'[p].status = "SENT" /\ ~Open(row'[p])
      BY <2>0, <2>1, <2>2, <2>3 DEF IInv, ApartInv
    <3>. QED BY <3>1 DEF ApartInv, Stage, Open
  <2>6. RowInv' /\ TaskInv' /\ CloseInv' /\ SoldInv'
    BY <2>0 DEF IInv, RowInv, TaskInv, CloseInv, SoldInv
  <2>. QED BY <1>0, <2>4, <2>5, <2>6 DEF IInv
<1>3. ASSUME NEW j \in JavaJobs, CommitJob(j) PROVE IInv'
  <2>0. UNCHANGED <<settled, executed, task, closes, sells>>
    BY <1>3 DEF CommitJob
  <2>1. job' = [job EXCEPT ![j] = NoEntities] /\ DOMAIN NoEntities = {}
    BY <1>3 DEF CommitJob, NoEntities
  <2>2. /\ DOMAIN Paper' = {} \/ (Paper' = Paper /\ j = "expireSentSignals")
        /\ DOMAIN Expiring' = {} \/ (Expiring' = Expiring /\ j = "updatePerformance")
    <3>1. job'[j] = NoEntities /\ \A i \in JavaJobs : i # j => job'[i] = job[i]
      BY <1>j, <1>3, <2>1
    <3>2. CASE j = "updatePerformance"
      <4>1. Paper' = NoEntities /\ Expiring' = Expiring
        BY <3>1, <3>2 DEF Paper, Expiring, JavaJobs
      <4>. QED BY <2>1, <3>2, <4>1
    <3>3. CASE j = "expireSentSignals"
      <4>1. Expiring' = NoEntities /\ Paper' = Paper
        BY <3>1, <3>3 DEF Paper, Expiring, JavaJobs
      <4>. QED BY <2>1, <3>3, <4>1
    <3>. QED BY <1>3, <3>2, <3>3 DEF JavaJobs
  <2>3. /\ \A p \in DOMAIN Paper : Shape(Paper[p]) /\ ~Paper[p].filled /\ settled[p] # "no"
        /\ \A p \in DOMAIN Expiring :
              /\ Shape(Expiring[p]) /\ Expiring[p].status = "EXPIRED"
              /\ ~Expiring[p].filled /\ Expiring[p].position = "NULL"
    <3>1. \A p \in DOMAIN Expiring : Shape(Expiring[p]) /\ Expiring[p].status = "EXPIRED"
      BY DEF IInv, JobInv
    <3>2. \A p \in DOMAIN Expiring : Expiring[p].position = "NULL"
      BY <3>1 DEF Shape
    <3>3. \A p \in DOMAIN Expiring : ~Expiring[p].filled
      BY <3>1, <3>2 DEF Shape, Open, OpenStates
    <3>. QED BY <3>1, <3>2, <3>3 DEF IInv, JobInv
  <2>4. \A p \in Positions : \/ row'[p] = row[p]
                             \/ p \in DOMAIN job[j] /\ row'[p] = job[j][p]
    BY <1>3 DEF CommitJob
  <2>5. \A p \in Positions :
           \/ row'[p] = row[p]
           \/ p \in DOMAIN job[j] /\ Shape(row'[p]) /\ ~row'[p].filled
              /\ (settled[p] = "no" => row'[p].position = "NULL")
    BY <2>3, <2>4 DEF JavaJobs, Paper, Expiring
  <2>6. RowInv'
    BY <2>0, <2>5 DEF IInv, RowInv
  <2>7. JobInv'
    <3>1. /\ \A p \in DOMAIN Paper' :
                Shape(Paper'[p]) /\ ~Paper'[p].filled /\ settled'[p] # "no"
          /\ \A p \in DOMAIN Expiring' :
                Shape(Expiring'[p]) /\ Expiring'[p].status = "EXPIRED"
      BY <2>0, <2>2, <2>3
    <3>. QED BY <3>1 DEF JobInv, Shape, Open
  <2>8. ApartInv'
    <3>. SUFFICES ASSUME ~Overlap PROVE ApartInv'
      BY DEF ApartInv
    <3>1. /\ \A p \in DOMAIN Paper' : p \in Positions /\ p \notin DOMAIN job[j]
          /\ \A p \in DOMAIN Expiring' : p \in Positions /\ p \notin DOMAIN job[j]
      BY <2>2, Entities DEF IInv, ApartInv, Paper, Expiring
    <3>2. /\ \A p \in DOMAIN Paper' : row'[p] = row[p]
          /\ \A p \in DOMAIN Expiring' : row'[p] = row[p]
      BY <2>4, <3>1
    <3>3. /\ \A p \in DOMAIN Paper' :
                /\ row'[p].status = "SENT" /\ Open(row'[p]) /\ ~row'[p].filled
                /\ Stage(Paper'[p]) \in {Stage(row'[p]), "closed"}
          /\ \A p \in DOMAIN Expiring' : row'[p].status = "SENT" /\ ~Open(row'[p])
      BY <2>2, <3>2 DEF IInv, ApartInv
    <3>. QED BY <3>3 DEF ApartInv, Stage, Open
  <2>9. CloseInv' /\ SoldInv'
    <3>1. \A p \in Positions : closes[p] = 1 => ~(Open(row'[p]) /\ row'[p].filled)
      BY <2>5 DEF IInv, CloseInv
    <3>2. ~Overlap => \A p \in Positions :
             Selling(task[p]) => row'[p].status \in {"WIN", "LOSS"}
      <4>. SUFFICES ASSUME ~Overlap, NEW p \in Positions, Selling(task[p])
                    PROVE  row'[p].status \in {"WIN", "LOSS"}
        OBVIOUS
      <4>1. row[p].status \in {"WIN", "LOSS"}
        BY DEF IInv, SoldInv
      <4>2. p \notin DOMAIN Paper /\ p \notin DOMAIN Expiring
        BY <4>1 DEF IInv, ApartInv
      <4>3. row'[p] = row[p]
        BY <2>4, <4>2 DEF JavaJobs, Paper, Expiring
      <4>. QED BY <4>1, <4>3
    <3>. QED BY <2>0, <3>1, <3>2, NothingClosed DEF IInv
  <2>. QED BY <1>0, <2>0, <2>6, <2>7, <2>8, <2>9 DEF IInv, TaskInv
<1>. QED BY <1>1, <1>2, <1>3 DEF Java

\* Whoever writes, the invariant is kept.
LEMMA NextInv == IInv /\ [Next]_vars => IInv'
<1>1. ASSUME IInv, UNCHANGED vars PROVE IInv'
  <2>1. TypeOK'
    BY <1>1, NextType DEF IInv
  <2>2. UNCHANGED <<row, settled, executed, task, job, closes, sells>>
    BY <1>1 DEF vars
  <2>3. RowInv' /\ JobInv' /\ ApartInv'
    BY <1>1, <2>2, Unwritten DEF IInv
  <2>4. TaskInv' /\ CloseInv' /\ SoldInv'
    BY <1>1, <2>2 DEF IInv, TaskInv, CloseInv, SoldInv
  <2>. QED BY <2>1, <2>3, <2>4 DEF IInv
<1>. QED BY <1>1, SettlementInv, MonitorInv, OvernightInv, JavaInv DEF Next

LEMMA InvAlways == Spec => []IInv
BY InitInv, NextInv, PTL DEF Spec

----------------------------------------------------------------------------
(* The theorems.                                                           *)

\* Although a Java commit replaces every column and anything may fail, the
\* columns of a row agree: it has an exit exactly when it is a WIN or a LOSS,
\* such a row is closed, and an expired or cancelled one is not open.
THEOREM RowsAgreeAlways == Spec => []RowsAgree
<1>1. IInv => RowsAgree
  <2>. SUFFICES ASSUME IInv, NEW p \in Positions
                PROVE  /\ row[p].exit # "none" <=> row[p].status \in {"WIN", "LOSS"}
                       /\ row[p].status \in {"WIN", "LOSS"} => row[p].position = "CLOSED"
                       /\ row[p].status \in {"EXPIRED", "CANCELLED"} => ~Open(row[p])
    BY DEF RowsAgree
  <2>1. Shape(row[p]) /\ row[p].status \in Statuses
    BY DEF IInv, RowInv, TypeOK, Rows
  <2>. QED BY <2>1 DEF Shape, Statuses, Open, OpenStates
<1>. QED BY <1>1, InvAlways, PTL

\* Whatever overlaps and fails, the monitor closes a position at most once, and
\* announces the sale of no position it did not close.
THEOREM ClosedOnceAlways == Spec => []ClosedOnce
<1>1. IInv => ClosedOnce
  BY DEF IInv, CloseInv, ClosedOnce
<1>. QED BY <1>1, InvAlways, PTL

----------------------------------------------------------------------------
(* The refinement of PositionLedger.                                       *)

\* The row of p moves as the ledger allows, or stays in its stage.
Lawful(p) == \/ Stage(row'[p]) = Stage(row[p])
             \/ <<Stage(row[p]), Stage(row'[p])>> \in Ledger!Moves

LEMMA StageType == ASSUME NEW r PROVE Stage(r) \in Ledger!Stages
BY DEF Stage, Ledger!Stages

\* An open row has taken its partial profit or has not.
LEMMA OpenStage ==
    ASSUME NEW r \in Rows, Shape(r), Open(r)
    PROVE  Stage(r) = IF r.tp1 THEN "partial" ELSE "open"
<1>1. r.status \notin {"WIN", "LOSS"} /\ r.tp1 \in BOOLEAN
  BY DEF Shape, Open, OpenStates, Rows
<1>. QED BY <1>1 DEF Stage

\* The queue worker opens or drops what waits; a fill moves nothing.
LEMMA SettlementLawful ==
    ASSUME IInv, Settlement \/ World
    PROVE  \A p \in Positions : Lawful(p)
<1>1. ASSUME NEW p \in Positions, Confirm(p) \/ Cancel(p)
      PROVE  \A q \in Positions : Lawful(q)
  <2>1. row[p] \in Rows /\ row[p].position = "NULL" /\ Shape(row[p])
    BY <1>1 DEF IInv, TypeOK, RowInv, Confirm, Cancel
  <2>2. ~Open(row[p]) /\ row[p].status \in {"SENT", "EXPIRED"}
    BY <2>1 DEF Open, OpenStates, Shape, Rows, Statuses
  <2>3. Stage(row[p]) = IF row[p].status = "SENT" THEN "waiting" ELSE "dropped"
    BY <2>2 DEF Stage
  <2>4. \A q \in Positions : q # p => row'[q] = row[q]
    BY <1>1 DEF Confirm, Cancel, IInv, TypeOK
  <2>5. Lawful(p)
    <3>1. CASE row'[p] = row[p]
      BY <3>1 DEF Lawful
    <3>2. CASE /\ row[p].status = "SENT" /\ row'[p].status = "SENT"
               /\ row'[p].position = "ACTIVE" /\ ~row'[p].tp1
      <4>1. Open(row'[p])
        BY <3>2 DEF Open, OpenStates
      <4>2. Stage(row'[p]) = "open"
        BY <3>2, <4>1 DEF Stage
      <4>. QED BY <2>3, <3>2, <4>2 DEF Lawful, Ledger!Moves
    <3>3. CASE row'[p].status = "CANCELLED" /\ row'[p].position = "CLOSED"
      <4>1. ~Open(row'[p])
        BY <3>3 DEF Open, OpenStates
      <4>2. Stage(row'[p]) = "dropped"
        BY <3>3, <4>1 DEF Stage
      <4>. QED BY <2>3, <4>2 DEF Lawful, Ledger!Moves
    <3>4. CASE Confirm(p)
      <4>1. \/ row'[p] = row[p]
            \/ /\ row'[p] = [row[p] EXCEPT !.position = "ACTIVE", !.tp1 = FALSE, !.peak = 0]
               /\ row[p].status = "SENT"
        BY <2>2, <3>4 DEF Confirm, IInv, TypeOK
      <4>. QED BY <2>1, <3>1, <3>2, <4>1 DEF Rows
    <3>5. CASE Cancel(p)
      <4>1. \/ row'[p] = row[p]
            \/ row'[p] = [row[p] EXCEPT !.status = "CANCELLED", !.position = "CLOSED"]
        BY <3>5 DEF Cancel, IInv, TypeOK
      <4>. QED BY <2>1, <3>1, <3>3, <4>1 DEF Rows
    <3>. QED BY <1>1, <3>4, <3>5
  <2>. QED BY <2>4, <2>5 DEF Lawful
<1>2. ASSUME NEW p \in Positions, Fill(p) PROVE \A q \in Positions : Lawful(q)
  <2>1. row[p] \in Rows
    BY DEF IInv, TypeOK
  <2>2. /\ row'[p] = [row[p] EXCEPT !.filled = TRUE]
        /\ \A q \in Positions : q # p => row'[q] = row[q]
    BY <1>2 DEF Fill, IInv, TypeOK
  <2>3. /\ row'[p].status = row[p].status /\ row'[p].position = row[p].position
        /\ row'[p].tp1 = row[p].tp1
    BY <2>1, <2>2 DEF Rows
  <2>4. Stage(row'[p]) = Stage(row[p])
    BY <2>3 DEF Stage, Open
  <2>. QED BY <2>2, <2>4 DEF Lawful
<1>3. ASSUME NEW p \in Positions, PriceMoves(p) PROVE \A q \in Positions : Lawful(q)
  BY <1>3 DEF PriceMoves, Lawful
<1>. QED BY <1>1, <1>2, <1>3 DEF Settlement, World

\* A monitorable row that is written, closed or not, moves lawfully.
LEMMA OwnedLawful ==
    ASSUME IInv, NEW p \in Positions, Monitorable(row[p]), NEW r \in Rows, Shape(r),
           row' = [row EXCEPT ![p] = r],
           \/ Stage(r) = "closed"
           \/ Open(r) /\ r.tp1 = row[p].tp1
           \/ Open(r) /\ r.tp1
    PROVE  \A q \in Positions : Lawful(q)
<1>1. Open(row[p]) /\ row[p] \in Rows /\ Shape(row[p])
  BY MonitorableShape DEF IInv, TypeOK, RowInv
<1>2. row'[p] = r /\ \A q \in Positions : q # p => row'[q] = row[q]
  BY DEF IInv, TypeOK
<1>3. Stage(row[p]) = IF row[p].tp1 THEN "partial" ELSE "open"
  BY <1>1, OpenStage
<1>4. Open(r) => Stage(r) = IF r.tp1 THEN "partial" ELSE "open"
  BY OpenStage
<1>5. row[p].tp1 \in BOOLEAN /\ r.tp1 \in BOOLEAN
  BY <1>1 DEF Rows
<1>6. Lawful(p)
  BY <1>2, <1>3, <1>4, <1>5 DEF Lawful, Ledger!Moves
<1>. QED BY <1>2, <1>6 DEF Lawful

\* The monitor takes partial profits and closes.
LEMMA MonitorLawful ==
    ASSUME IInv, Scan \/ \E p \in Positions : CheckStep(p)
    PROVE  \A p \in Positions : Lawful(p)
<1>0. \A p \in Positions : task[p] \in Tasks /\ row[p] \in Rows
  BY DEF IInv, TypeOK
<1>1. CASE UNCHANGED row
  BY <1>1 DEF Lawful
<1>2. ASSUME NEW p \in Positions, UpdatePeak(p), ~UNCHANGED row
      PROVE  \A q \in Positions : Lawful(q)
  <2>. DEFINE c == [task[p] EXCEPT !.peak = task[p].price].price
              r == [row[p] EXCEPT !.peak = c]
  <2>1. Monitorable(row[p]) /\ row' = [row EXCEPT ![p] = r]
    BY <1>2 DEF UpdatePeak, IInv, TypeOK
  <2>2. c = task[p].price /\ c \in Prices \cup {0}
    BY <1>0 DEF Tasks, Checks
  <2>3. /\ r \in Rows /\ r.status = row[p].status /\ r.exit = row[p].exit
        /\ r.position = row[p].position /\ r.filled = row[p].filled
        /\ r.tp1 = row[p].tp1
    BY <1>0, <2>2 DEF Rows
  <2>4. Open(row[p]) /\ Shape(row[p])
    BY <1>0, <2>1, MonitorableShape DEF IInv, RowInv
  <2>. HIDE DEF r
  <2>5. Open(r) /\ Shape(r)
    BY <2>3, <2>4 DEF Open, Shape
  <2>. QED BY <2>1, <2>3, <2>5, OwnedLawful
<1>3. ASSUME NEW p \in Positions, ClosePosition(p), ~UNCHANGED row
      PROVE  \A q \in Positions : Lawful(q)
  <2>. DEFINE e == ExitType(task[p].trigger)
              r == ClosedRow(row[p], e, task[p].price)
  <2>1. Monitorable(row[p]) /\ row' = [row EXCEPT ![p] = r] /\ task[p].pc = "close"
    BY <1>3 DEF ClosePosition, IInv, TypeOK
  <2>2. e \in Exits
    BY <1>0, <2>1 DEF Tasks
  <2>. HIDE DEF e
  <2>3. r \in Rows /\ Shape(r) /\ Stage(r) = "closed"
    BY <1>0, <2>2, ClosedRowType, ClosedShape
  <2>. QED BY <2>1, <2>3, OwnedLawful
<1>4. ASSUME NEW p \in Positions, MarkTp1(p), ~UNCHANGED row
      PROVE  \A q \in Positions : Lawful(q)
  <2>. DEFINE r == [row[p] EXCEPT !.position = "PARTIAL_TP", !.tp1 = TRUE,
                                  !.peak = task[p].price]
  <2>1. Monitorable(row[p]) /\ row' = [row EXCEPT ![p] = r]
    BY <1>4 DEF MarkTp1, IInv, TypeOK
  <2>2. "PARTIAL_TP" \in OpenStates /\ task[p].price \in Prices \cup {0}
    BY <1>0 DEF OpenStates, Tasks, Checks
  <2>3. /\ r \in Rows /\ r.status = row[p].status /\ r.exit = row[p].exit
        /\ r.position = "PARTIAL_TP" /\ r.tp1
    BY <1>0, <2>2 DEF Rows
  <2>4. row[p].exit = "none" /\ row[p].status \in {"SENT", "OVERNIGHT_HOLD"}
    BY <1>0, <2>1, MonitorableShape DEF IInv, RowInv
  <2>. HIDE DEF r
  <2>5. Open(r) /\ Shape(r)
    BY <2>2, <2>3, <2>4 DEF Open, Shape
  <2>. QED BY <2>1, <2>3, <2>5, OwnedLawful
<1>. QED BY <1>1, <1>2, <1>3, <1>4 DEF CheckStep, Scan, Check, Judge, Publish

\* A night turns no stage.
LEMMA OvernightLawful ==
    ASSUME IInv, Overnight
    PROVE  \A p \in Positions : Lawful(p)
<1>1. CASE UNCHANGED row
  BY <1>1 DEF Lawful
<1>2. CASE OvernightRecord /\ ~UNCHANGED row
  <2>. DEFINE p == verdict[1]
              r == [row[p] EXCEPT !.status = "OVERNIGHT_HOLD", !.position = "OVERNIGHT"]
  <2>1. p \in Positions
    BY <1>2 DEF OvernightRecord, IInv, TypeOK
  <2>2. Monitorable(row[p]) /\ row' = [row EXCEPT ![p] = r]
    BY <1>2, <2>1 DEF OvernightRecord, IInv, TypeOK
  <2>. HIDE DEF p
  <2>3. row[p] \in Rows /\ "OVERNIGHT" \in OpenStates /\ "OVERNIGHT_HOLD" \in Statuses
    BY <2>1 DEF IInv, TypeOK, OpenStates, Statuses
  <2>4. /\ r \in Rows /\ r.status = "OVERNIGHT_HOLD" /\ r.exit = row[p].exit
        /\ r.position = "OVERNIGHT" /\ r.tp1 = row[p].tp1
    BY <2>3 DEF Rows
  <2>5. row[p].exit = "none"
    BY <2>1, <2>2, <2>3, MonitorableShape DEF IInv, RowInv
  <2>. HIDE DEF r
  <2>6. Open(r) /\ Shape(r)
    BY <2>3, <2>4, <2>5 DEF Open, Shape
  <2>. QED BY <2>1, <2>2, <2>4, <2>6, OwnedLawful
<1>. QED BY <1>1, <1>2 DEF Overnight, OvernightEvaluate

\* A job that nothing overlaps commits lawful moves.
LEMMA JavaLawful ==
    ASSUME ~Overlap, IInv, Java
    PROVE  \A p \in Positions : Lawful(p)
<1>1. CASE UNCHANGED row
  BY <1>1 DEF Lawful
<1>2. ASSUME NEW j \in JavaJobs, CommitJob(j), NEW p \in Positions
      PROVE  Lawful(p)
  <2>1. CASE row'[p] = row[p]
    BY <2>1 DEF Lawful
  <2>2. CASE p \in DOMAIN Paper /\ row'[p] = Paper[p]
    <3>1. /\ Open(row[p]) /\ Stage(Paper[p]) \in {Stage(row[p]), "closed"}
      BY <2>2 DEF IInv, ApartInv
    <3>2. Stage(row[p]) \in {"open", "partial"}
      BY <1>2, <3>1, OpenStage DEF IInv, TypeOK, RowInv
    <3>. QED BY <2>2, <3>1, <3>2 DEF Lawful, Ledger!Moves
  <2>3. CASE p \in DOMAIN Expiring /\ row'[p] = Expiring[p]
    <3>1. /\ row[p].status = "SENT" /\ ~Open(row[p])
          /\ Shape(Expiring[p]) /\ Expiring[p].status = "EXPIRED"
      BY <2>3 DEF IInv, ApartInv, JobInv
    <3>2. Stage(row[p]) = "waiting"
      BY <3>1 DEF Stage
    <3>3. ~Open(Expiring[p])
      BY <3>1 DEF Shape, Open, OpenStates
    <3>4. Stage(Expiring[p]) = "dropped"
      BY <3>1, <3>3 DEF Stage
    <3>. QED BY <2>3, <3>2, <3>4 DEF Lawful, Ledger!Moves
  <2>. QED BY <1>2, <2>1, <2>2, <2>3 DEF CommitJob, JavaJobs, Paper, Expiring
<1>. QED BY <1>1, <1>2 DEF Java, LoadPaper, LoadUnopened

\* A step of the system is a commit of the ledger, an announcement or none.
LEMMA LedgerStep ==
    ASSUME ~Overlap, IInv, [Next]_vars
    PROVE  [Ledger!Next]_(Ledger!vars)
<1>. DEFINE stage == [p \in Positions |-> Stage(row[p])]
<1>1. ASSUME UNCHANGED vars PROVE UNCHANGED Ledger!vars
  BY <1>1 DEF vars, Ledger!vars
<1>2. ASSUME \A p \in Positions : Lawful(p), UNCHANGED sells PROVE Ledger!Next
  <2>1. stage' = [p \in Positions |-> Stage(row'[p])]
    BY DEF Stage, Open
  <2>2. stage' \in [Positions -> Ledger!Stages]
    BY <2>1, StageType
  <2>3. \A p \in Positions : \/ stage'[p] = stage[p]
                             \/ <<stage[p], stage'[p]>> \in Ledger!Moves
    BY <1>2, <2>1 DEF Lawful
  <2>. QED BY <1>2, <2>2, <2>3 DEF Ledger!Next, Ledger!Commit
<1>3. ASSUME NEW p \in Positions, Publish(p), ~UNCHANGED sells PROVE Ledger!Next
  <2>1. /\ Selling(task[p]) /\ sells' = [sells EXCEPT ![p] = @ + 1] /\ UNCHANGED row
    BY <1>3 DEF Publish, Selling
  <2>2. sells[p] = 0 /\ row[p].status \in {"WIN", "LOSS"} /\ Shape(row[p])
    BY <2>1 DEF IInv, CloseInv, SoldInv, RowInv
  <2>3. ~Open(row[p])
    BY <2>2 DEF Shape, Open, OpenStates
  <2>4. stage[p] = "closed"
    BY <2>2, <2>3 DEF Stage
  <2>5. sells' = [sells EXCEPT ![p] = 1] /\ UNCHANGED stage
    BY <2>1, <2>2 DEF Stage, Open
  <2>6. Ledger!Announce(p)
    BY <2>2, <2>4, <2>5 DEF Ledger!Announce
  <2>. QED BY <2>6 DEF Ledger!Next
<1>4. ASSUME Next PROVE \A p \in Positions : Lawful(p)
  BY <1>4, SettlementLawful, MonitorLawful, OvernightLawful, JavaLawful DEF Next
<1>5. ASSUME Next PROVE UNCHANGED sells \/ \E p \in Positions : Publish(p)
  BY <1>5 DEF Next, Settlement, World, Confirm, Cancel, Fill, PriceMoves, Scan,
              CheckStep, Check, UpdatePeak, Judge, ClosePosition, MarkTp1,
              Overnight, OvernightRecord, OvernightEvaluate, Java, LoadPaper,
              LoadUnopened, CommitJob
<1>. QED BY <1>1, <1>2, <1>3, <1>4, <1>5

\* Where no fill and no confirmation falls between a job's query and its
\* commit, four writers that lock nothing in common give every row the life
\* PositionLedger promises: opened once or dropped, closed once, and sold once.
THEOREM LifecycleImplementsLedger == ASSUME ~Overlap PROVE Spec => LedgerSpec
<1>1. Init => Ledger!Init
  <2>. SUFFICES ASSUME Init PROVE Ledger!Init
    OBVIOUS
  <2>1. ~Open(Saved) /\ Saved.status = "SENT"
    BY DEF Saved, Open, OpenStates
  <2>2. Stage(Saved) = "waiting"
    BY <2>1 DEF Stage
  <2>. QED BY <2>2 DEF Init, Ledger!Init
<1>. QED BY <1>1, LedgerStep, InvAlways, PTL DEF Spec, LedgerSpec, Ledger!Spec
===========================================================================
