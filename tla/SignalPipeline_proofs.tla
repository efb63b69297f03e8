----------------------- MODULE SignalPipeline_proofs -----------------------
(***************************************************************************)
(* Proofs about the pipeline of SignalPipeline for any number of signals,  *)
(* stocks and rechecks.                                                    *)
(***************************************************************************)
EXTENDS SignalPipeline, TLAPS

----------------------------------------------------------------------------
(* Type correctness.                                                       *)

Rows == [status : Statuses, position : Positions]
Workers == [pc : WorkerSteps, sig : Signals \cup {NoSignal},
            recheck : BOOLEAN, decision : Decisions]
Monitors == [pc : {"idle", "next", "evaluate", "remove"},
             sig : Signals \cup {NoSignal}, due : SUBSET Signals]

\* A well-typed row table is a function into the records of Rows.
LEMMA RowsType == TypeOK => row \in [Signals -> Rows]
BY DEF TypeOK, Rows

\* An LPUSH on telegram_queue, sent once or twice, leaves a queue of messages.
LEMMA PushedType ==
    ASSUME queue \in Seq(Messages), NEW m \in Messages
    PROVE  Pushed(m) \subseteq Seq(Messages)
<1>1. Append(queue, m) \in Seq(Messages)
  OBVIOUS
<1>2. Append(Append(queue, m), m) \in Seq(Messages)
  BY <1>1
<1>. QED BY <1>1, <1>2 DEF Pushed

\* The parts of the state the producers and the environment may change keep
\* their types: strategy_runner._push_signals, SignalService.processSignal,
\* the expiry of the Redis keys and the position's own life.
LEMMA ProduceType == TypeOK /\ Produce => TypeOK'
<1>. SUFFICES ASSUME TypeOK, NEW s \in Signals,
                     ScanDedup(s) \/ ScanPublish(s) \/ JavaPush(s) \/ JavaCommit(s)
              PROVE  TypeOK'
  BY DEF Produce
<1>1. [sig |-> s, recheck |-> FALSE] \in Messages
  BY DEF Messages
<1>2. Pushed([sig |-> s, recheck |-> FALSE]) \subseteq Seq(Messages)
  BY <1>1, PushedType DEF TypeOK
<1>3. CASE ScanDedup(s)
  <2>1. <<StrategyOf[s], StockOf[s]>> \in Strategies \X Stocks
    BY ConstantsAssumption
  <2>2. scanKey' \subseteq Strategies \X Stocks
    BY <1>3, <2>1 DEF ScanDedup, TypeOK
  <2>3. produced' \in [Signals -> {"no", "checking", "pushed", "done"}]
    BY <1>3 DEF ScanDedup, TypeOK
  <2>. QED BY <1>3, <2>2, <2>3 DEF ScanDedup, TypeOK
<1>4. CASE ScanPublish(s)
  BY <1>4, <1>2 DEF ScanPublish, TypeOK
<1>5. CASE JavaPush(s)
  BY <1>5, <1>2 DEF JavaPush, TypeOK
<1>6. CASE JavaCommit(s)
  <2>1. row' \in [Signals -> Rows]
    <3>1. [status |-> "SENT", position |-> "NULL"] \in Rows
      BY DEF Rows, Statuses, Positions
    <3>. QED BY <1>6, <3>1, RowsType DEF JavaCommit
  <2>. QED BY <1>6, <2>1 DEF JavaCommit, TypeOK, Rows
<1>. QED BY <1>3, <1>4, <1>5, <1>6

\* After arbitration the worker's record is well formed.
LEMMA AfterArbitrationType ==
    ASSUME TypeOK, worker.pc # "idle", NEW d \in Decisions
    PROVE  /\ AfterArbitration(worker, d).sig = worker.sig
           /\ AfterArbitration(worker, d).recheck = worker.recheck
           /\ AfterArbitration(worker, d).decision = d
           /\ AfterArbitration(worker, d).pc \in {"settle", "route", "insert"}
           /\ AfterArbitration(worker, d).pc = "route" => d # "ENTER"
           /\ worker.sig \in JavaSignals => AfterArbitration(worker, d).pc = "settle"
           /\ worker.sig \notin JavaSignals => AfterArbitration(worker, d).pc # "settle"
           /\ AfterArbitration(worker, d) \in Workers
BY DEF TypeOK, AfterArbitration, Workers, WorkerSteps

\* A step of queue_worker.process_one leaves every variable in its type.
LEMMA WorkerStepType == TypeOK /\ WorkerStep => TypeOK'
<1>. SUFFICES ASSUME TypeOK, WorkerStep PROVE TypeOK'
  OBVIOUS
<1>. USE DEF Workers
<1>1. CASE Pop
  <2>1. /\ Head(queue) \in Messages
        /\ Tail(queue) \in Seq(Messages)
    BY <1>1 DEF Pop, TypeOK
  <2>2. \/ worker' \in Workers /\ worker'.sig \in Signals
        \/ UNCHANGED worker
    BY <1>1, <2>1 DEF Pop, Messages, WorkerSteps, Decisions
  <2>. QED BY <1>1, <2>1, <2>2 DEF Pop, TypeOK
<1>2. CASE Decide
  <2>1. worker' \in Workers /\ worker'.sig \in Signals
    <3>1. ASSUME NEW d \in {"WATCH", "BLOCK"}, worker' = AfterArbitration(worker, d)
          PROVE  worker' \in Workers /\ worker'.sig \in Signals
      BY <1>2, <3>1, AfterArbitrationType DEF Decide, TypeOK, Decisions
    <3>2. CASE worker' = [worker EXCEPT !.decision = "ENTER",
                            !.pc = IF FamilyRouting THEN "family" ELSE "stock"]
      BY <1>2, <3>2 DEF Decide, TypeOK, Decisions, WorkerSteps
    <3>3. CASE worker' = [worker EXCEPT !.pc = "fail"]
      BY <1>2, <3>3 DEF Decide, TypeOK, WorkerSteps
    <3>. QED BY <1>2, <3>1, <3>2, <3>3 DEF Decide
  <2>. QED BY <1>2, <2>1 DEF Decide, TypeOK
<1>3. CASE ReserveFamily
  <2>1. worker' \in Workers /\ worker'.sig \in Signals
    <3>1. CASE worker' = AfterArbitration(worker, "BLOCK")
      BY <1>3, <3>1, AfterArbitrationType DEF ReserveFamily, TypeOK, Decisions
    <3>2. CASE \E p \in {"stock", "fail"} : worker' = [worker EXCEPT !.pc = p]
      BY <1>3, <3>2 DEF ReserveFamily, TypeOK, WorkerSteps
    <3>. QED BY <1>3, <3>1, <3>2 DEF ReserveFamily
  <2>2. FamilyKey(worker.sig) \in Families \X Stocks
    BY <1>3, ConstantsAssumption DEF ReserveFamily, FamilyKey, TypeOK
  <2>3. famKey' \subseteq Families \X Stocks
    BY <1>3, <2>2 DEF ReserveFamily, TypeOK
  <2>. QED BY <1>3, <2>1, <2>3 DEF ReserveFamily, TypeOK
<1>4. CASE ReserveStock
  <2>1. worker' \in Workers /\ worker'.sig \in Signals
    BY <1>4, AfterArbitrationType DEF ReserveStock, TypeOK, Decisions
  <2>2. /\ stkKey' \in [Stocks -> Signals \cup {NoSignal}]
        /\ window' \in [Stocks -> SUBSET Signals]
    <3>. DEFINE k == StockOf[worker.sig]
    <3>1. k \in Stocks /\ worker.sig \in Signals
      BY <1>4, ConstantsAssumption DEF ReserveStock, TypeOK
    <3>2. [stkKey EXCEPT ![k] = worker.sig] \in [Stocks -> Signals \cup {NoSignal}]
      BY <3>1 DEF TypeOK
    <3>3. [window EXCEPT ![k] = @ \cup {worker.sig}] \in [Stocks -> SUBSET Signals]
      BY <3>1 DEF TypeOK
    <3>. QED BY <1>4, <3>2, <3>3 DEF ReserveStock, TypeOK
  <2>. QED BY <1>4, <2>1, <2>2 DEF ReserveStock, TypeOK
<1>5. CASE Insert
  <2>1. worker' \in Workers /\ worker'.sig \in Signals
    BY <1>5 DEF Insert, TypeOK, WorkerSteps
  <2>2. InsertedStatus(worker.decision) \in Statuses
    BY DEF InsertedStatus, TypeOK, Decisions, Statuses
  <2>3. row' \in [Signals -> Rows]
    <3>1. [status |-> InsertedStatus(worker.decision), position |-> "NULL"] \in Rows
      BY <2>2 DEF Rows, Positions
    <3>. QED BY <1>5, <3>1, RowsType DEF Insert
  <2>. QED BY <1>5, <2>1, <2>3 DEF Insert, TypeOK, Rows
<1>6. CASE Settle
  <2>1. worker' \in Workers /\ worker'.sig \in Signals
    BY <1>6 DEF Settle, TypeOK, WorkerSteps
  <2>2. row' \in [Signals -> Rows]
    BY <1>6 DEF Settle, TypeOK, Rows, Positions, Statuses
  <2>. QED BY <1>6, <2>1, <2>2 DEF Settle, TypeOK, Rows
<1>7. IdleWorker \in Workers /\ IdleWorker.pc = "idle"
  BY DEF IdleWorker, WorkerSteps, Decisions
<1>8. \A w \in AfterFault : w \in Workers /\ w.sig = worker.sig
  BY DEF AfterFault, TypeOK, WorkerSteps
<1>9. CASE RouteEnter
  <2>1. worker' \in Workers /\ (worker'.pc # "idle" => worker'.sig \in Signals)
    BY <1>9, <1>7, <1>8 DEF RouteEnter, TypeOK
  <2>2. entered' \in [Signals -> Nat]
    <3>1. worker.sig \in Signals /\ entered[worker.sig] + 1 \in Nat
      BY <1>9 DEF RouteEnter, TypeOK
    <3>2. [entered EXCEPT ![worker.sig] = @ + 1] \in [Signals -> Nat]
      BY <3>1 DEF TypeOK
    <3>. QED BY <1>9, <3>2 DEF RouteEnter, TypeOK
  <2>. QED BY <1>9, <2>1, <2>2 DEF RouteEnter, TypeOK
<1>10. CASE RouteWatch
  <2>1. worker' \in Workers /\ (worker'.pc # "idle" => worker'.sig \in Signals)
    <3>1. [worker EXCEPT !.pc = "notice"] \in Workers
      BY DEF TypeOK, WorkerSteps
    <3>. QED BY <1>10, <1>7, <1>8, <3>1 DEF RouteWatch, TypeOK
  <2>2. hold' \subseteq Signals
    BY <1>10 DEF RouteWatch, WithoutKey, TypeOK
  <2>. QED BY <1>10, <2>1, <2>2 DEF RouteWatch, TypeOK
<1>11. CASE RouteBlock
  BY <1>11, <1>7 DEF RouteBlock, TypeOK
<1>12. CASE WatchNotice
  <2>1. worker' \in Workers /\ (worker'.pc # "idle" => worker'.sig \in Signals)
    BY <1>12, <1>7, <1>8 DEF WatchNotice, TypeOK
  <2>. QED BY <1>12, <2>1 DEF WatchNotice, TypeOK
<1>13. CASE Fail
  BY <1>13, <1>7 DEF Fail, TypeOK
<1>. QED
  BY <1>1, <1>2, <1>3, <1>4, <1>5, <1>6, <1>9, <1>10, <1>11, <1>12, <1>13
  DEF WorkerStep

\* A step of hold_monitor_worker.process_due_items leaves every variable in
\* its type; the budget guard is what bounds the recheck counter.
LEMMA MonitorStepType == TypeOK /\ MonitorStep => TypeOK'
<1>. SUFFICES ASSUME TypeOK, MonitorStep PROVE TypeOK'
  OBVIOUS
<1>. USE DEF Monitors
<1>1. ItemDone \in Monitors /\ ItemDone.pc \notin {"evaluate", "remove"}
  BY DEF ItemDone, TypeOK
<1>2. ASSUME NEW s \in Signals, HoldPop(s) PROVE TypeOK'
  BY <1>2 DEF HoldPop, TypeOK
<1>3. ASSUME NEW s \in Signals, HoldNext(s) \/ HoldPopFails(s) PROVE TypeOK'
  BY <1>3 DEF HoldNext, HoldPopFails, IdleMonitor, TypeOK
<1>4. CASE HoldRecheck
  <2>1. [sig |-> hm.sig, recheck |-> TRUE] \in Messages
    BY <1>4 DEF HoldRecheck, TypeOK, Messages
  <2>2. queue' \in Seq(Messages)
    BY <1>4, <2>1, PushedType DEF HoldRecheck, TypeOK
  <2>3. rechecks' \in [Signals -> 0..MaxRechecks]
    BY <1>4, ConstantsAssumption DEF HoldRecheck, TypeOK
  <2>4. hm' \in Monitors /\ hm'.sig \in Signals
    BY <1>4 DEF HoldRecheck, TypeOK
  <2>. QED BY <1>4, <2>2, <2>3, <2>4 DEF HoldRecheck, TypeOK
<1>5. CASE HoldRemove
  BY <1>5, <1>1 DEF HoldRemove, WithoutKey, TypeOK
<1>6. CASE HoldRequeue
  BY <1>6, <1>1 DEF HoldRequeue, WithoutKey, TypeOK
<1>7. CASE HoldRelease
  BY <1>7, <1>1 DEF HoldRelease, WithoutKey, TypeOK
<1>. QED BY <1>2, <1>3, <1>4, <1>5, <1>6, <1>7 DEF MonitorStep

\* Key expiry, the position's own life and a crash keep the types.
LEMMA EnvironmentType == TypeOK /\ Environment => TypeOK'
<1>. SUFFICES ASSUME TypeOK, Environment PROVE TypeOK'
  OBVIOUS
<1>1. ASSUME NEW x, ScanKeyLapse(x) \/ FamilyKeyLapse(x) PROVE TypeOK'
  BY <1>1 DEF ScanKeyLapse, FamilyKeyLapse, TypeOK
<1>2. ASSUME NEW k \in Stocks, StockKeyLapse(k) PROVE TypeOK'
  BY <1>2 DEF StockKeyLapse, TypeOK
<1>3. ASSUME NEW s \in Signals, PositionStep(s) PROVE TypeOK'
  <2>1. row' \in [Signals -> Rows]
    <3>1. [status |-> "DONE", position |-> "CLOSED"] \in Rows
      BY DEF Rows, Statuses, Positions
    <3>2. [row[s] EXCEPT !.position = "FILLED"] \in Rows
      <4>1. row[s] \in Rows
        BY RowsType
      <4>. QED BY <4>1 DEF Rows, Positions
    <3>. QED BY <1>3, <3>1, <3>2, RowsType DEF PositionStep
  <2>. QED BY <1>3, <2>1 DEF PositionStep, TypeOK, Rows
<1>4. CASE Crash
  BY <1>4 DEF Crash, TypeOK, IdleWorker, IdleMonitor, WorkerSteps, Decisions
<1>. QED BY <1>1, <1>2, <1>3, <1>4 DEF Environment, Lapse

\* Everything the engine starts from is in its type.
LEMMA InitType == Init => TypeOK
BY ConstantsAssumption
DEF Init, TypeOK, NoRow, IdleWorker, IdleMonitor, WorkerSteps, Decisions,
    Statuses, Positions, Messages

\* A step of the pipeline, whoever takes it, keeps every variable in its type.
LEMMA NextType == TypeOK /\ [Next]_vars => TypeOK'
<1>. SUFFICES ASSUME TypeOK, [Next]_vars PROVE TypeOK'
  OBVIOUS
<1>1. CASE UNCHANGED vars
  BY <1>1 DEF vars, TypeOK
<1>. QED
  BY <1>1, ProduceType, WorkerStepType, MonitorStepType, EnvironmentType DEF Next

\* Every variable of the pipeline keeps its type; in particular no payload's
\* recheck counter passes HOLD_MONITOR_MAX_AI_RECHECKS (hold_monitor_worker,
\* evaluate_hold_item).
THEOREM TypeCorrect == Spec => []TypeOK
BY InitType, NextType, PTL DEF Spec

----------------------------------------------------------------------------
(* The stock lease.                                                        *)

\* Only the second reservation of _apply_cross_strategy_arbitration and the
\* expiry of its key touch the lease.
LEMMA LeaseIsTouchedTwice ==
    ASSUME Next, ~ReserveStock, \A k \in Stocks : ~StockKeyLapse(k)
    PROVE  UNCHANGED <<stkKey, window>>
<1>1. CASE Produce
  BY <1>1 DEF Produce, ScanDedup, ScanPublish, JavaPush, JavaCommit
<1>2. CASE WorkerStep
  BY <1>2 DEF WorkerStep, Pop, Decide, ReserveFamily, Insert, Settle,
              RouteEnter, RouteWatch, RouteBlock, WatchNotice, Fail
<1>3. CASE MonitorStep
  BY <1>3 DEF MonitorStep, HoldPop, HoldPopFails, HoldNext, HoldRecheck, HoldRemove,
              HoldRequeue, HoldRelease
<1>4. CASE Environment
  BY <1>4 DEF Environment, Lapse, ScanKeyLapse, FamilyKeyLapse, PositionStep, Crash
<1>. QED BY <1>1, <1>2, <1>3, <1>4 DEF Next

\* A stock without a lease has let nobody through.
LeaseInv == \A k \in Stocks : stkKey[k] = NoSignal => window[k] = {}

\* Every step of the pipeline is, seen through holder and admitted, an Admit, a
\* Forfeit, a Lapse or no step of the lease.
LEMMA LeaseStep ==
    ASSUME FamilyRouting \/ ~Faults, TypeOK, LeaseInv, [Next]_vars
    PROVE  LeaseInv' /\ [Lease!Next]_(Lease!vars)
<1>1. CASE UNCHANGED <<stkKey, window>>
  BY <1>1 DEF LeaseInv, Lease!vars
<1>2. CASE ReserveStock
  <2>. DEFINE k == StockOf[worker.sig]
  <2>1. worker.sig \in Signals /\ k \in Stocks
    BY <1>2, ConstantsAssumption DEF ReserveStock, TypeOK
  <2>2. CASE UNCHANGED <<stkKey, window>>
    BY <2>2, <1>1
  <2>3. CASE /\ stkKey[k] = NoSignal
             /\ stkKey' = [stkKey EXCEPT ![k] = worker.sig]
             /\ window' = [window EXCEPT ![k] = @ \cup {worker.sig}]
    <3>1. window[k] = {}
      BY <2>1, <2>3 DEF LeaseInv
    <3>2. window' = [window EXCEPT ![k] = {worker.sig}]
      BY <3>1, <2>3
    <3>3. Lease!Admit(worker.sig)
      BY <3>2, <2>3 DEF Lease!Admit
    <3>4. LeaseInv'
      BY <2>1, <2>3, <3>2, ConstantsAssumption DEF LeaseInv, TypeOK
    <3>. QED BY <3>3, <3>4, <2>1 DEF Lease!Next
  <2>4. CASE /\ stkKey[k] = NoSignal
             /\ stkKey' = [stkKey EXCEPT ![k] = worker.sig]
             /\ UNCHANGED window
    <3>1. Lease!Forfeit(worker.sig)
      BY <2>4 DEF Lease!Forfeit
    <3>2. LeaseInv'
      BY <2>1, <2>4, ConstantsAssumption DEF LeaseInv, TypeOK
    <3>. QED BY <3>1, <3>2, <2>1 DEF Lease!Next
  <2>. QED BY <1>2, <2>2, <2>3, <2>4 DEF ReserveStock
<1>3. ASSUME NEW k \in Stocks, StockKeyLapse(k)
      PROVE  LeaseInv' /\ [Lease!Next]_(Lease!vars)
  <2>1. Lease!Lapse(k)
    BY <1>3 DEF StockKeyLapse, Lease!Lapse
  <2>2. LeaseInv'
    BY <1>3 DEF StockKeyLapse, LeaseInv, TypeOK
  <2>. QED BY <2>1, <2>2 DEF Lease!Next
<1>4. CASE UNCHANGED vars
  BY <1>4, <1>1 DEF vars
<1>. QED BY <1>1, <1>2, <1>3, <1>4, LeaseIsTouchedTwice

\* Where arbitration fails closed (family routing on), or where Redis does not
\* fail, the pipeline implements the reservation lease: while a stock's key
\* exists, only the signal that set it can have been let through.
THEOREM PipelineImplementsLease ==
    ASSUME FamilyRouting \/ ~Faults
    PROVE  Spec => LeaseSpec
<1>1. Init => Lease!Init /\ LeaseInv
  BY DEF Init, Lease!Init, LeaseInv
<1>2. TypeOK /\ LeaseInv /\ [Next]_vars => LeaseInv' /\ [Lease!Next]_(Lease!vars)
  BY LeaseStep
<1>. QED BY <1>1, <1>2, InitType, NextType, PTL DEF Spec, LeaseSpec, Lease!Spec

----------------------------------------------------------------------------
(* Python signals: the row decides.                                        *)

\* What keeps the second pass of a Python payload from doing anything, however
\* often faults duplicate it: before its row exists it has not been announced
\* and has no position, and only the pass that inserted the row goes on to
\* settle or announce it.
Unopened(s) == entered[s] = 0 /\ row[s].position = "NULL"

Settling(s) == worker.pc = "settle" /\ worker.sig = s

Announcing(s) == worker.pc = "route" /\ worker.decision = "ENTER" /\ worker.sig = s

RowGuards(s) ==
    /\ produced[s] # "pushed"
    /\ row[s].status = "none" => Unopened(s)
    /\ Settling(s) => /\ row[s].status # "none"
                      /\ Unopened(s)
                      /\ worker.decision = "ENTER" => row[s].status = "SENT"
    /\ Announcing(s) => Backed(s) /\ row[s].status # "none" /\ entered[s] = 0
    /\ entered[s] <= 1
    /\ entered[s] > 0 => Backed(s)

RowInv == \A s \in Signals \ JavaSignals : RowGuards(s)

\* No row exists and the worker is idle when the engine starts.
LEMMA InitRow == Init => RowInv
BY DEF Init, RowInv, RowGuards, Unopened, Settling, Announcing, NoRow, IdleWorker

\* The producers only ever commit a row of a Java signal.
LEMMA ProduceRow ==
    ASSUME TypeOK, NEW s \in Signals \ JavaSignals, RowGuards(s), Produce
    PROVE  RowGuards(s)'
<1>. USE DEF RowGuards, Unopened, Settling, Announcing, Backed
<1>1. PICK t \in Signals : ScanDedup(t) \/ ScanPublish(t) \/ JavaPush(t) \/ JavaCommit(t)
  BY DEF Produce
<1>2. CASE ScanDedup(t) \/ ScanPublish(t)
  BY <1>2 DEF ScanDedup, ScanPublish, TypeOK
<1>3. CASE JavaPush(t)
  BY <1>3 DEF JavaPush, TypeOK
<1>4. CASE JavaCommit(t)
  <2>1. t # s
    BY <1>4 DEF JavaCommit
  <2>2. row'[s] = row[s]
    BY <1>4, <2>1 DEF JavaCommit, TypeOK
  <2>. QED BY <1>4, <2>2, <2>1 DEF JavaCommit, TypeOK
<1>. QED BY <1>1, <1>2, <1>3, <1>4

\* The step that needs the unique index: an insert that finds a row goes to
\* the failure handler, so a settling payload is always the first one.
LEMMA WorkerStepRow ==
    ASSUME TypeOK, NEW s \in Signals \ JavaSignals, RowGuards(s), WorkerStep
    PROVE  RowGuards(s)'
<1>. USE DEF RowGuards, Unopened, Settling, Announcing, Backed
<1>1. CASE Pop
  BY <1>1 DEF Pop
<1>2. CASE Decide
  <2>1. ~Settling(s)' /\ ~Announcing(s)'
    <3>1. ASSUME NEW d \in {"WATCH", "BLOCK"}, worker' = AfterArbitration(worker, d)
          PROVE  ~Settling(s)' /\ ~Announcing(s)'
      <4>1. worker.pc # "idle" /\ d \in Decisions
        BY <1>2 DEF Decide, Decisions
      <4>. QED BY <3>1, <4>1, AfterArbitrationType
    <3>2. CASE worker' = [worker EXCEPT !.decision = "ENTER",
                            !.pc = IF FamilyRouting THEN "family" ELSE "stock"]
      BY <3>2 DEF TypeOK
    <3>3. CASE worker' = [worker EXCEPT !.pc = "fail"]
      BY <3>3 DEF TypeOK
    <3>. QED BY <1>2, <3>1, <3>2, <3>3 DEF Decide
  <2>. QED BY <1>2, <2>1 DEF Decide
<1>3. CASE ReserveFamily
  <2>1. ~Settling(s)' /\ ~Announcing(s)'
    BY <1>3, AfterArbitrationType DEF ReserveFamily, Decisions, TypeOK, WorkerSteps
  <2>. QED BY <1>3, <2>1 DEF ReserveFamily
<1>4. CASE ReserveStock
  <2>1. ~Settling(s)' /\ ~Announcing(s)'
    BY <1>4, AfterArbitrationType DEF ReserveStock, Decisions, TypeOK, WorkerSteps
  <2>. QED BY <1>4, <2>1 DEF ReserveStock
<1>5. CASE Insert
  <2>1. CASE worker.sig = s
    <3>1. CASE row[s].status # "none" /\ UNCHANGED row
      BY <1>5, <3>1, <2>1 DEF Insert, TypeOK
    <3>2. CASE row[s].status = "none"
      <4>1. CASE UNCHANGED row /\ worker' = [worker EXCEPT !.pc = "fail"]
        BY <1>5, <3>2, <2>1, <4>1 DEF Insert, TypeOK
      <4>2. CASE /\ row' = [row EXCEPT ![s] =
                               [status |-> InsertedStatus(worker.decision),
                                position |-> "NULL"]]
                 /\ \E q \in {"settle", "fail"} : worker' = [worker EXCEPT !.pc = q]
        <5>1. InsertedStatus(worker.decision) # "none"
          BY DEF InsertedStatus, TypeOK, Decisions
        <5>2. worker.decision = "ENTER" => InsertedStatus(worker.decision) = "SENT"
          BY DEF InsertedStatus
        <5>3. row'[s] = [status |-> InsertedStatus(worker.decision),
                         position |-> "NULL"]
          BY <4>2 DEF TypeOK
        <5>4. /\ worker'.pc \in {"settle", "fail"}
              /\ worker'.decision = worker.decision
              /\ UNCHANGED <<entered, produced>>
          BY <1>5, <4>2 DEF Insert, TypeOK
        <5>. QED BY <3>2, <5>1, <5>2, <5>3, <5>4
      <4>. QED BY <1>5, <2>1, <3>2, <4>1, <4>2 DEF Insert
    <3>. QED BY <1>5, <2>1, <3>1, <3>2 DEF Insert
  <2>2. CASE worker.sig # s
    <3>1. row'[s] = row[s] /\ worker'.sig # s
      BY <1>5, <2>2 DEF Insert, TypeOK
    <3>. QED BY <1>5, <3>1 DEF Insert
  <2>. QED BY <2>1, <2>2
<1>6. CASE Settle
  <2>0. /\ worker'.pc = "route"
        /\ worker'.sig = worker.sig
        /\ worker'.decision = worker.decision
        /\ UNCHANGED <<produced, entered>>
    BY <1>6 DEF Settle, TypeOK
  <2>1. CASE worker.sig = s
    <3>1. entered[s] = 0 /\ row[s].status # "none"
      BY <1>6, <2>1 DEF Settle
    <3>2. row'[s].status # "none"
      BY <1>6, <2>1, <3>1, RowsType DEF Settle, TypeOK, Rows
    <3>3. worker.decision = "ENTER" => Backed(s)'
      <4>1. CASE /\ worker.decision = "ENTER"
                 /\ row' = [row EXCEPT ![s].position = "ACTIVE"]
        BY <4>1, RowsType DEF Rows
      <4>2. CASE worker.decision = "ENTER" /\ Faults /\ UNCHANGED row
        BY <1>6, <2>1, <4>2 DEF Settle
      <4>. QED BY <1>6, <2>1, <4>1, <4>2 DEF Settle, Confirmable
    <3>. QED BY <2>0, <2>1, <3>1, <3>2, <3>3
  <2>2. CASE worker.sig # s
    <3>1. row'[s] = row[s] /\ worker'.sig # s
      BY <1>6, <2>2, <2>0 DEF Settle, TypeOK
    <3>. QED BY <2>0, <3>1
  <2>. QED BY <2>1, <2>2
<1>7. IdleWorker.pc = "idle" /\ (\A w \in AfterFault : w.pc = "fail")
  BY DEF IdleWorker, AfterFault, TypeOK
<1>8. CASE RouteEnter
  <2>1. worker'.pc \in {"idle", "fail"}
    BY <1>8, <1>7 DEF RouteEnter
  <2>2. CASE worker.sig = s
    BY <1>8, <2>1, <2>2 DEF RouteEnter, TypeOK
  <2>3. CASE worker.sig # s
    <3>1. entered'[s] = entered[s]
      BY <1>8, <2>3 DEF RouteEnter, TypeOK
    <3>. QED BY <1>8, <2>1, <3>1 DEF RouteEnter
  <2>. QED BY <2>2, <2>3
<1>9. CASE RouteWatch
  <2>1. worker'.pc \in {"idle", "notice", "fail"}
    BY <1>9, <1>7 DEF RouteWatch, TypeOK
  <2>. QED BY <1>9, <2>1 DEF RouteWatch
<1>10. CASE RouteBlock \/ Fail
  BY <1>10, <1>7 DEF RouteBlock, Fail
<1>11. CASE WatchNotice
  <2>1. worker'.pc \in {"idle", "fail"}
    BY <1>11, <1>7 DEF WatchNotice
  <2>. QED BY <1>11, <2>1 DEF WatchNotice
<1>. QED
  BY <1>1, <1>2, <1>3, <1>4, <1>5, <1>6, <1>8, <1>9, <1>10, <1>11 DEF WorkerStep

\* The hold monitor, the key expiries, the position's own life and a crash
\* leave an announced Python ENTER with its row.
LEMMA RestRow ==
    ASSUME TypeOK, NEW s \in Signals \ JavaSignals, RowGuards(s),
           MonitorStep \/ Environment
    PROVE  RowGuards(s)'
<1>. USE DEF RowGuards, Unopened, Settling, Announcing, Backed
<1>1. CASE MonitorStep
  BY <1>1 DEF MonitorStep, HoldPop, HoldPopFails, HoldNext, HoldRecheck, HoldRemove,
              HoldRequeue, HoldRelease
<1>2. CASE Lapse
  BY <1>2 DEF Lapse, ScanKeyLapse, FamilyKeyLapse, StockKeyLapse
<1>3. ASSUME NEW t \in Signals, PositionStep(t) PROVE RowGuards(s)'
  <2>1. CASE t = s
    <3>1. CASE row' = [row EXCEPT ![s].position = "FILLED"] /\ row[s].position = "ACTIVE"
      BY <1>3, <2>1, <3>1, RowsType DEF PositionStep, Rows
    <3>2. CASE row' = [row EXCEPT ![s] = [status |-> "DONE", position |-> "CLOSED"]]
      BY <1>3, <2>1, <3>2, RowsType DEF PositionStep, Rows
    <3>. QED BY <1>3, <2>1, <3>1, <3>2 DEF PositionStep
  <2>2. CASE t # s
    <3>1. row'[s] = row[s]
      BY <1>3, <2>2 DEF PositionStep, TypeOK
    <3>. QED BY <1>3, <3>1 DEF PositionStep
  <2>. QED BY <2>1, <2>2
<1>4. CASE Crash
  BY <1>4 DEF Crash, IdleWorker
<1>. QED BY <1>1, <1>2, <1>3, <1>4 DEF Environment

\* Every step preserves RowInv.
LEMMA RowStep == TypeOK /\ RowInv /\ [Next]_vars => RowInv'
<1>. SUFFICES ASSUME TypeOK, RowInv, [Next]_vars, NEW s \in Signals \ JavaSignals
              PROVE  RowGuards(s)'
  BY DEF RowInv
<1>1. RowGuards(s)
  BY DEF RowInv
<1>2. CASE UNCHANGED vars
  BY <1>1, <1>2 DEF vars, RowGuards, Unopened, Settling, Announcing, Backed
<1>. QED BY <1>1, <1>2, ProduceRow, WorkerStepRow, RestRow DEF Next

\* RowInv holds, with the types, in every reachable state.
LEMMA RowInvariant == Spec => [](TypeOK /\ RowInv)
BY InitType, NextType, InitRow, RowStep, PTL DEF Spec

\* A Python signal announced as an ENTER has, or had, a position to match
\* (persist_processed_signal runs before route_execution_payload), unless
\* confirming it failed.
THEOREM PythonEnterIsBackedAlways == Spec => []PythonEnterIsBacked
<1>1. RowInv => PythonEnterIsBacked
  BY DEF RowInv, RowGuards, PythonEnterIsBacked
<1>. QED BY <1>1, RowInvariant, PTL

----------------------------------------------------------------------------
(***************************************************************************)
(* Where calls do not fail, a candidate is in one place: on the queue, in  *)
(* the worker's hand, in the monitor's, or on the hold monitor's schedule. *)
(* Crashes may lose it, but nothing duplicates it; from this follow the    *)
(* safety properties of the pipeline for Java's candidates too, which no   *)
(* unique index guards.                                                    *)
(***************************************************************************)

InQueue(s) == \E i \in 1..Len(queue) : queue[i].sig = s

OnceQueued(s) == \A i, j \in 1..Len(queue) :
                    queue[i].sig = s /\ queue[j].sig = s => i = j

\* The worker still owes the candidate something: a WATCH handed to the hold
\* monitor and a failure are settled already.
WorkerHas(s) == worker.sig = s /\ worker.pc \notin {"idle", "notice", "fail"}

Evaluating(s) == hm.pc = "evaluate" /\ hm.sig = s

MonitorHas(s) == s \in hm.due \/ Evaluating(s)

Held(s) == InQueue(s) \/ WorkerHas(s) \/ MonitorHas(s) \/ s \in hold

Open(s) == row[s].position \in {"ACTIVE", "FILLED"}

TokenGuards(s) ==
    /\ OnceQueued(s)
    /\ InQueue(s) => ~WorkerHas(s) /\ ~MonitorHas(s) /\ s \notin hold
    /\ WorkerHas(s) => ~MonitorHas(s) /\ s \notin hold
    /\ s \in hold => ~MonitorHas(s)
    /\ s \in hm.due => ~Evaluating(s)
    /\ Held(s) => entered[s] = 0 /\ produced[s] \in {"pushed", "done"}
    /\ entered[s] <= 1
    /\ produced[s] \in {"no", "checking"} => entered[s] = 0 /\ ~Open(s)
    /\ Open(s) /\ Held(s) => Announcing(s)

TokenInv == \A s \in Signals : TokenGuards(s)

----------------------------------------------------------------------------
(* What LPUSH and RPOP do to the places a candidate can be in.             *)

\* An LPUSH on telegram_queue adds one copy of its signal and no copy of another.
LEMMA AppendToQueue ==
    ASSUME queue \in Seq(Messages), NEW m \in Messages, queue' = Append(queue, m),
           NEW s \in Signals, OnceQueued(s), m.sig = s => ~InQueue(s)
    PROVE  OnceQueued(s)' /\ (InQueue(s)' <=> InQueue(s) \/ m.sig = s)
<1>1. /\ Len(queue) \in Nat
      /\ Len(queue') = Len(queue) + 1
      /\ \A i \in 1..Len(queue) : queue'[i] = queue[i]
      /\ queue'[Len(queue) + 1] = m
  OBVIOUS
<1>2. 1..Len(queue') = (1..Len(queue)) \cup {Len(queue) + 1}
  BY <1>1
<1>. QED BY <1>1, <1>2 DEF OnceQueued, InQueue

\* An RPOP takes the oldest copy, of its signal only.
LEMMA PopFromQueue ==
    ASSUME queue \in Seq(Messages), queue # <<>>, queue' = Tail(queue),
           NEW s \in Signals, OnceQueued(s)
    PROVE  /\ OnceQueued(s)'
           /\ InQueue(s)' => InQueue(s) /\ Head(queue).sig # s
           /\ Head(queue).sig = s => InQueue(s)
<1>1. /\ Len(queue) \in Nat \ {0}
      /\ Len(queue') = Len(queue) - 1
      /\ \A i \in 1..Len(queue') : queue'[i] = queue[i + 1]
      /\ Head(queue) = queue[1]
  OBVIOUS
<1>2. \A i \in 1..Len(queue') : i + 1 \in 1..Len(queue) /\ i + 1 # 1
  BY <1>1
<1>. QED BY <1>1, <1>2 DEF OnceQueued, InQueue

----------------------------------------------------------------------------
(* Every step keeps the candidates in one place.                           *)

\* No signal has a copy anywhere when the engine starts.
LEMMA InitToken == Init => TokenInv
BY DEF Init, TokenInv, TokenGuards, OnceQueued, InQueue, WorkerHas, Evaluating,
       MonitorHas, Held, Open, NoRow, IdleWorker, IdleMonitor

\* A producer makes the one copy of a signal that had none.
LEMMA ProduceToken ==
    ASSUME ~Faults, TypeOK, NEW s \in Signals, TokenGuards(s), Produce
    PROVE  TokenGuards(s)'
<1>. USE DEF TokenGuards, WorkerHas, Evaluating, MonitorHas, Held, Open, Announcing
<1>1. PICK t \in Signals : ScanDedup(t) \/ ScanPublish(t) \/ JavaPush(t) \/ JavaCommit(t)
  BY DEF Produce
<1>2. DEFINE m == [sig |-> t, recheck |-> FALSE]
<1>3. m \in Messages /\ m.sig = t
  BY DEF Messages
<1>4. queue \in Seq(Messages)
  BY DEF TypeOK
<1>5. CASE ScanDedup(t)
  <2>1. (OnceQueued(s)' <=> OnceQueued(s)) /\ (InQueue(s)' <=> InQueue(s))
    BY <1>5 DEF ScanDedup, OnceQueued, InQueue
  <2>. QED BY <1>5, <2>1 DEF ScanDedup, TypeOK
<1>6. CASE ScanPublish(t) \/ JavaPush(t)
  <2>1. produced[t] \in {"no", "checking"} /\ produced'[t] \in {"pushed", "done"}
    BY <1>6 DEF ScanPublish, JavaPush, TypeOK
  <2>2. OnceQueued(s)' /\ (InQueue(s)' <=> InQueue(s) \/ (t = s /\ queue' # queue))
    <3>1. CASE UNCHANGED queue
      BY <3>1 DEF OnceQueued, InQueue
    <3>2. CASE queue' = Append(queue, m)
      <4>1. t = s => ~InQueue(s)
        BY <2>1
      <4>2. queue' # queue
        BY <3>2, <1>3, <1>4
      <4>. QED BY <3>2, <4>1, <4>2, <1>3, <1>4, AppendToQueue
    <3>. QED BY <1>6, <3>1, <3>2 DEF ScanPublish, JavaPush, Pushed
  <2>3. \A u \in Signals : u # t => produced'[u] = produced[u]
    BY <1>6 DEF ScanPublish, JavaPush, TypeOK
  <2>4. UNCHANGED <<worker, hm, hold, entered, row>>
    BY <1>6 DEF ScanPublish, JavaPush
  <2>5. CASE t = s
    BY <2>1, <2>2, <2>4, <2>5
  <2>6. CASE t # s
    BY <2>2, <2>3, <2>4, <2>6
  <2>. QED BY <2>5, <2>6
<1>7. CASE JavaCommit(t)
  <2>1. (OnceQueued(s)' <=> OnceQueued(s)) /\ (InQueue(s)' <=> InQueue(s))
    BY <1>7 DEF JavaCommit, OnceQueued, InQueue
  <2>2. /\ produced'[t] = "done" /\ ~Open(t)'
        /\ \A u \in Signals : u # t => produced'[u] = produced[u] /\ row'[u] = row[u]
    BY <1>7 DEF JavaCommit, TypeOK
  <2>3. produced[t] = "pushed" /\ UNCHANGED <<worker, hm, hold, entered>>
    BY <1>7 DEF JavaCommit
  <2>. QED BY <2>1, <2>2, <2>3
<1>. QED BY <1>1, <1>5, <1>6, <1>7

\* queue_worker moves the copy it popped to the scored queue or to the hold
\* monitor, or drops it; it never makes a second one.
LEMMA WorkerStepToken ==
    ASSUME ~Faults, TypeOK, NEW s \in Signals, TokenGuards(s), WorkerStep
    PROVE  TokenGuards(s)'
<1>. USE DEF TokenGuards, Evaluating, MonitorHas, Held, Open
<1>0. IdleWorker.pc = "idle" /\ AfterFault = {}
  BY DEF IdleWorker, AfterFault
<1>1. CASE Pop
  <2>1. /\ OnceQueued(s)'
        /\ InQueue(s)' => InQueue(s) /\ Head(queue).sig # s
        /\ Head(queue).sig = s => InQueue(s)
    BY <1>1, PopFromQueue DEF Pop, TypeOK
  <2>2. /\ worker.pc = "idle" /\ worker'.pc = "decide"
        /\ worker'.sig = Head(queue).sig
        /\ UNCHANGED <<produced, hm, hold, entered, row>>
    BY <1>1 DEF Pop
  <2>. QED BY <2>1, <2>2 DEF WorkerHas, Announcing
<1>2. ASSUME UNCHANGED queue
      PROVE  (OnceQueued(s)' <=> OnceQueued(s)) /\ (InQueue(s)' <=> InQueue(s))
  BY <1>2 DEF OnceQueued, InQueue
<1>3. CASE Decide \/ ReserveFamily \/ ReserveStock \/ Insert
  <2>1. /\ worker.pc \notin {"idle", "notice", "fail", "route"}
        /\ worker'.sig = worker.sig
    <3>1. \A d : AfterArbitration(worker, d).sig = worker.sig
      BY DEF AfterArbitration, TypeOK
    <3>2. CASE Decide
      <4>1. \/ worker' = [worker EXCEPT !.pc = "fail"]
            \/ \E d, q : worker' = [worker EXCEPT !.decision = d, !.pc = q]
            \/ \E d : worker' = AfterArbitration(worker, d)
        BY <3>2 DEF Decide
      <4>2. worker'.sig = worker.sig
        BY <3>1, <4>1 DEF TypeOK
      <4>. QED BY <3>2, <4>2 DEF Decide
    <3>3. CASE ReserveFamily
      BY <3>1, <3>3 DEF ReserveFamily, TypeOK
    <3>4. CASE ReserveStock
      BY <3>1, <3>4 DEF ReserveStock, TypeOK
    <3>5. CASE Insert
      BY <3>5 DEF Insert, TypeOK
    <3>. QED BY <1>3, <3>2, <3>3, <3>4, <3>5
  <2>2. UNCHANGED <<queue, produced, hm, hold, entered>>
    BY <1>3 DEF Decide, ReserveFamily, ReserveStock, Insert
  <2>3. Open(s)' => Open(s)
    BY <1>3 DEF Decide, ReserveFamily, ReserveStock, Insert, TypeOK
  <2>. QED BY <2>1, <2>2, <2>3, <1>2 DEF WorkerHas, Announcing
<1>4. CASE Settle
  <2>1. /\ worker.pc = "settle" /\ worker'.pc = "route"
        /\ worker'.sig = worker.sig /\ worker'.decision = worker.decision
        /\ UNCHANGED <<queue, produced, hm, hold, entered>>
    BY <1>4 DEF Settle, TypeOK
  <2>2. CASE worker.sig = s
    <3>1. worker.decision # "ENTER" => ~Open(s)'
      BY <1>4, <2>1, <2>2, RowsType DEF Settle, TypeOK, Announcing, WorkerHas, Rows
    <3>. QED BY <2>1, <2>2, <3>1, <1>2 DEF WorkerHas, Announcing
  <2>3. CASE worker.sig # s
    <3>1. row'[s] = row[s]
      BY <1>4, <2>3 DEF Settle, TypeOK
    <3>. QED BY <2>1, <2>3, <3>1, <1>2 DEF WorkerHas, Announcing
  <2>. QED BY <2>2, <2>3
<1>5. CASE RouteEnter
  <2>1. /\ worker.pc = "route" /\ worker.decision = "ENTER" /\ worker'.pc = "idle"
        /\ entered' = [entered EXCEPT ![worker.sig] = @ + 1]
        /\ UNCHANGED <<queue, produced, hm, hold, row>>
    BY <1>5, <1>0 DEF RouteEnter
  <2>2. CASE worker.sig = s
    BY <2>1, <2>2, <1>2 DEF WorkerHas, TypeOK
  <2>3. CASE worker.sig # s
    <3>1. entered'[s] = entered[s]
      BY <2>1, <2>3 DEF TypeOK
    <3>. QED BY <2>1, <2>3, <3>1, <1>2 DEF WorkerHas, Announcing
  <2>. QED BY <2>2, <2>3
<1>6. CASE RouteWatch
  <2>1. /\ worker.pc = "route" /\ worker.decision = "WATCH"
        /\ worker'.pc \in {"idle", "notice"}
        /\ \A u \in hold' : u \in hold \/ u = worker.sig
        /\ UNCHANGED <<queue, produced, hm, entered, row>>
    BY <1>6, <1>0 DEF RouteWatch, WithoutKey, TypeOK
  <2>. QED BY <2>1, <1>2 DEF WorkerHas, Announcing
<1>7. CASE RouteBlock \/ WatchNotice \/ Fail
  <2>1. /\ worker'.pc = "idle"
        /\ ~(worker.pc = "route" /\ worker.decision = "ENTER")
        /\ UNCHANGED <<queue, produced, hm, hold, entered, row>>
    BY <1>7, <1>0 DEF RouteBlock, WatchNotice, Fail
  <2>. QED BY <2>1, <1>2 DEF WorkerHas, Announcing
<1>. QED BY <1>1, <1>3, <1>4, <1>5, <1>6, <1>7 DEF WorkerStep

\* The hold monitor moves the copy it popped back to telegram_queue, or keeps
\* it scheduled, or drops it.
LEMMA MonitorStepToken ==
    ASSUME ~Faults, TypeOK, NEW s \in Signals, TokenGuards(s), MonitorStep
    PROVE  TokenGuards(s)'
<1>. USE DEF TokenGuards, WorkerHas, Evaluating, MonitorHas, Held, Open, Announcing
<1>1. UNCHANGED <<produced, worker, entered, row>>
  BY DEF MonitorStep, HoldPop, HoldPopFails, HoldNext, HoldRecheck, HoldRemove, HoldRequeue,
         HoldRelease
<1>2. ASSUME UNCHANGED queue
      PROVE  (OnceQueued(s)' <=> OnceQueued(s)) /\ (InQueue(s)' <=> InQueue(s))
  BY <1>2 DEF OnceQueued, InQueue
<1>3. ASSUME NEW t \in Signals, HoldPop(t) PROVE TokenGuards(s)'
  <2>1. /\ hold' = hold \ {t} /\ t \in hold /\ hm.pc = "idle" /\ hm'.pc = "idle"
        /\ hm'.due = hm.due \cup {t} /\ UNCHANGED queue
    BY <1>3 DEF HoldPop, TypeOK
  <2>. QED BY <1>1, <1>2, <2>1
<1>3a. ASSUME NEW t \in Signals, HoldPopFails(t) PROVE TokenGuards(s)'
  BY <1>3a DEF HoldPopFails
<1>4. ASSUME NEW t \in Signals, HoldNext(t) PROVE TokenGuards(s)'
  <2>1. /\ t \in hm.due /\ hm.pc # "evaluate" /\ hm'.pc = "evaluate" /\ hm'.sig = t
        /\ hm'.due = hm.due \ {t} /\ UNCHANGED <<queue, hold>>
    BY <1>4 DEF HoldNext
  <2>. QED BY <1>1, <1>2, <2>1
<1>5. CASE HoldRecheck
  <2>. DEFINE m == [sig |-> hm.sig, recheck |-> TRUE]
  <2>1. /\ hm.pc = "evaluate" /\ hm'.pc = "remove" /\ hm'.due = hm.due
        /\ queue' = Append(queue, m) /\ UNCHANGED hold
    BY <1>5 DEF HoldRecheck, Pushed, TypeOK
  <2>2. m \in Messages /\ m.sig = hm.sig
    BY <2>1 DEF Messages, TypeOK
  <2>3. hm.sig = s => ~InQueue(s)
    BY <2>1
  <2>4. OnceQueued(s)' /\ (InQueue(s)' <=> InQueue(s) \/ hm.sig = s)
    <3>1. queue \in Seq(Messages) /\ OnceQueued(s)
      BY DEF TypeOK
    <3>. QED BY <3>1, <2>1, <2>2, <2>3, AppendToQueue
  <2>. QED BY <1>1, <2>1, <2>4
<1>6. CASE HoldRemove \/ HoldRelease
  <2>1. /\ hm'.pc # "evaluate" /\ hm'.due = hm.due
        /\ \A u \in hold' : u \in hold
        /\ UNCHANGED queue
    BY <1>6 DEF HoldRemove, HoldRelease, WithoutKey, ItemDone
  <2>. QED BY <1>1, <1>2, <2>1
<1>7. CASE HoldRequeue
  <2>1. /\ hm.pc = "evaluate" /\ hm'.pc # "evaluate" /\ hm'.due = hm.due
        /\ \A u \in hold' : u \in hold \/ u = hm.sig
        /\ UNCHANGED queue
    BY <1>7 DEF HoldRequeue, WithoutKey, ItemDone
  <2>. QED BY <1>1, <1>2, <2>1
<1>. QED BY <1>3, <1>3a, <1>4, <1>5, <1>6, <1>7 DEF MonitorStep

\* Key expiry and the position's own life touch no copy; a crash loses some.
LEMMA EnvironmentToken ==
    ASSUME TypeOK, NEW s \in Signals, TokenGuards(s), Environment
    PROVE  TokenGuards(s)'
<1>. USE DEF TokenGuards, WorkerHas, Evaluating, MonitorHas, Held, Open, Announcing
<1>1. UNCHANGED <<queue, hold, entered>>
  BY DEF Environment, Lapse, ScanKeyLapse, FamilyKeyLapse, StockKeyLapse,
         PositionStep, Crash
<1>2. (OnceQueued(s)' <=> OnceQueued(s)) /\ (InQueue(s)' <=> InQueue(s))
  BY <1>1 DEF OnceQueued, InQueue
<1>3. CASE Lapse
  <2>1. UNCHANGED <<produced, worker, hm, row>>
    BY <1>3 DEF Lapse, ScanKeyLapse, FamilyKeyLapse, StockKeyLapse
  <2>. QED BY <1>1, <1>2, <2>1
<1>4. ASSUME NEW t \in Signals, PositionStep(t) PROVE TokenGuards(s)'
  <2>1. Open(s)' => Open(s)
    BY <1>4, RowsType DEF PositionStep, Rows
  <2>2. UNCHANGED <<produced, worker, hm>>
    BY <1>4 DEF PositionStep
  <2>. QED BY <1>1, <1>2, <2>1, <2>2
<1>5. CASE Crash
  <2>1. /\ worker'.pc = "idle" /\ hm'.pc = "idle" /\ hm'.due = {}
        /\ UNCHANGED row
        /\ produced'[s] = IF produced[s] = "checking" THEN "done" ELSE produced[s]
    BY <1>5 DEF Crash, IdleWorker, IdleMonitor
  <2>. QED BY <1>1, <1>2, <2>1
<1>. QED BY <1>3, <1>4, <1>5 DEF Environment

\* Without call failures, every step preserves TokenInv.
LEMMA TokenStep == ~Faults /\ TypeOK /\ TokenInv /\ [Next]_vars => TokenInv'
<1>. SUFFICES ASSUME ~Faults, TypeOK, TokenInv, [Next]_vars, NEW s \in Signals
              PROVE  TokenGuards(s)'
  BY DEF TokenInv
<1>1. TokenGuards(s)
  BY DEF TokenInv
<1>2. CASE UNCHANGED vars
  BY <1>1, <1>2 DEF vars, TokenGuards, OnceQueued, InQueue, WorkerHas, Evaluating,
                    MonitorHas, Held, Open, Announcing
<1>. QED BY <1>1, <1>2, ProduceToken, WorkerStepToken, MonitorStepToken,
            EnvironmentToken DEF Next

----------------------------------------------------------------------------
(* What follows.                                                           *)

\* One signal is announced as an ENTER at most once, whatever crashes and
\* rechecks happen (queue_worker.process_one, hold_monitor_worker): always
\* for a Python signal, and for every signal where calls do not fail.
THEOREM AtMostOneEnterAlways == Spec => []AtMostOneEnter
<1>1. CASE Faults
  <2>1. RowInv => AtMostOneEnter
    BY <1>1 DEF RowInv, RowGuards, AtMostOneEnter, Tracked
  <2>. QED BY <2>1, RowInvariant, PTL
<1>2. CASE ~Faults
  <2>1. TokenInv => AtMostOneEnter
    BY <1>2 DEF TokenInv, TokenGuards, AtMostOneEnter, Tracked
  <2>2. TypeOK /\ TokenInv /\ [Next]_vars => TokenInv'
    BY <1>2, TokenStep
  <2>. QED BY <2>1, <2>2, InitToken, InitType, NextType, PTL DEF Spec
<1>. QED BY <1>1, <1>2

----------------------------------------------------------------------------
(* Open positions.                                                         *)

\* Only a row in SENT is ever confirmed (confirm_open_position's early
\* return), and an open row stays in SENT until its position ends.
OpenIsSent == \A s \in Signals : Open(s) => row[s].status = "SENT"

\* What can happen to a signal's row in a step: Java's commit, the insert, a
\* confirm or cancel, or its position filled or closed.
LEMMA RowSteps ==
    ASSUME TypeOK, [Next]_vars, NEW s \in Signals
    PROVE  \/ row'[s] = row[s]
           \/ produced[s] = "pushed" /\ row'[s] = [status |-> "SENT", position |-> "NULL"]
           \/ /\ worker.pc = "insert" /\ worker.sig = s /\ row[s].status = "none"
              /\ row'[s].position = "NULL"
           \/ /\ Settling(s) /\ worker.decision = "ENTER" /\ row[s].status = "SENT"
              /\ row'[s].status = "SENT"
           \/ /\ Settling(s) /\ worker.decision # "ENTER"
              /\ row'[s].position = "CLOSED"
           \/ Open(s) /\ row'[s].status = row[s].status
           \/ Open(s) /\ row'[s] = [status |-> "DONE", position |-> "CLOSED"]
<1>1. CASE UNCHANGED row
  BY <1>1
<1>2. CASE Insert
  <2>1. CASE worker.sig = s
    BY <1>2, <2>1 DEF Insert, TypeOK
  <2>2. CASE worker.sig # s
    BY <1>2, <2>2 DEF Insert, TypeOK
  <2>. QED BY <2>1, <2>2
<1>3. CASE Settle
  <2>1. CASE worker.sig # s
    BY <1>3, <2>1 DEF Settle, TypeOK
  <2>2. CASE worker.sig = s /\ worker.decision = "ENTER"
    <3>1. CASE Confirmable(s) /\ row' = [row EXCEPT ![s].position = "ACTIVE"]
      <4>1. row'[s].status = row[s].status
        BY <3>1, RowsType DEF Rows
      <4>. QED BY <1>3, <2>2, <3>1, <4>1 DEF Settle, Settling, Confirmable
    <3>. QED BY <1>3, <1>1, <2>2, <3>1 DEF Settle
  <2>3. CASE worker.sig = s /\ worker.decision # "ENTER"
    <3>1. CASE row' = [row EXCEPT ![s] = [status |-> "CANCELLED",
                                          position |-> "CLOSED"]]
      BY <1>3, <2>3, <3>1, RowsType DEF Settle, Settling
    <3>. QED BY <1>3, <1>1, <2>3, <3>1 DEF Settle
  <2>. QED BY <2>1, <2>2, <2>3
<1>4. ASSUME NEW t \in Signals, JavaCommit(t) PROVE row'[s] = row[s] \/
              (produced[s] = "pushed" /\ row'[s] = [status |-> "SENT", position |-> "NULL"])
  BY <1>4 DEF JavaCommit, TypeOK
<1>5. ASSUME NEW t \in Signals, PositionStep(t)
      PROVE  \/ row'[s] = row[s]
             \/ Open(s) /\ row'[s].status = row[s].status
             \/ Open(s) /\ row'[s] = [status |-> "DONE", position |-> "CLOSED"]
  <2>1. CASE row' = [row EXCEPT ![t].position = "FILLED"]
    BY <1>5, <2>1, RowsType DEF PositionStep, Rows, Open
  <2>2. CASE row' = [row EXCEPT ![t] = [status |-> "DONE", position |-> "CLOSED"]]
    BY <1>5, <2>2, RowsType DEF PositionStep, Open
  <2>. QED BY <1>5, <2>1, <2>2 DEF PositionStep
<1>6. CASE Produce
  BY <1>1, <1>4, <1>6 DEF Produce, ScanDedup, ScanPublish, JavaPush
<1>7. CASE WorkerStep
  BY <1>1, <1>2, <1>3, <1>7
  DEF WorkerStep, Pop, Decide, ReserveFamily, ReserveStock, RouteEnter,
      RouteWatch, RouteBlock, WatchNotice, Fail
<1>8. CASE MonitorStep
  BY <1>1, <1>8
  DEF MonitorStep, HoldPop, HoldPopFails, HoldNext, HoldRecheck, HoldRemove, HoldRequeue, HoldRelease
<1>9. CASE Environment
  BY <1>1, <1>5, <1>9
  DEF Environment, Lapse, ScanKeyLapse, FamilyKeyLapse, StockKeyLapse, Crash
<1>10. CASE UNCHANGED vars
  BY <1>1, <1>10 DEF vars
<1>. QED BY <1>6, <1>7, <1>8, <1>9, <1>10 DEF Next

\* An open position's row is SENT in every reachable state.
LEMMA OpenIsSentAlways == Spec => []OpenIsSent
<1>1. Init => OpenIsSent
  BY DEF Init, OpenIsSent, Open, NoRow
<1>2. TypeOK /\ OpenIsSent /\ [Next]_vars => OpenIsSent'
  BY RowSteps DEF OpenIsSent, Open
<1>. QED BY <1>1, <1>2, InitType, NextType, PTL DEF Spec

\* cancel_open_position_by_signal updates the row without looking at it; no
\* open position is cancelled, because a signal whose position is open never
\* comes back to the worker as anything but an ENTER on its way out.
THEOREM OpenPositionIsNeverCancelledEver == Spec => OpenPositionIsNeverCancelled
<1>. DEFINE Keeps == \A s \in Tracked : row[s].position \in {"ACTIVE", "FILLED"}
                         => row'[s].status # "CANCELLED"
            Free == \A s \in Tracked : Open(s) /\ Settling(s) => worker.decision = "ENTER"
<1>1. TypeOK /\ OpenIsSent /\ Free /\ [Next]_vars => Keeps
  <2>. SUFFICES ASSUME TypeOK, OpenIsSent, Free, [Next]_vars,
                       NEW s \in Tracked, Open(s)
                PROVE  row'[s].status # "CANCELLED"
    BY DEF Open
  <2>1. s \in Signals
    BY DEF Tracked
  <2>2. row[s].status = "SENT" /\ (Settling(s) => worker.decision = "ENTER")
    BY <2>1 DEF OpenIsSent
  <2>. QED BY <2>1, <2>2, RowSteps
<1>2. CASE Faults
  <2>1. RowInv => Free
    BY <1>2 DEF RowInv, RowGuards, Unopened, Open, Tracked
  <2>2. TypeOK /\ RowInv /\ OpenIsSent /\ [Next]_vars => [Keeps]_vars
    BY <1>1, <2>1
  <2>. QED BY <2>2, RowInvariant, OpenIsSentAlways, PTL
           DEF Spec, OpenPositionIsNeverCancelled
<1>3. CASE ~Faults
  <2>1. TokenInv => Free
    BY <1>3 DEF TokenInv, TokenGuards, Held, WorkerHas, Settling, Announcing, Tracked
  <2>2. TypeOK /\ TokenInv /\ OpenIsSent /\ [Next]_vars => [Keeps]_vars
    BY <1>1, <2>1
  <2>3. TypeOK /\ TokenInv /\ [Next]_vars => TokenInv'
    BY <1>3, TokenStep
  <2>. QED BY <2>2, <2>3, InitToken, InitType, NextType, OpenIsSentAlways, PTL
           DEF Spec, OpenPositionIsNeverCancelled
<1>. QED BY <1>2, <1>3

\* A signal the hold monitor has scheduled, and so offers for a later entry,
\* has no open position of its own, where calls do not fail.
THEOREM WatchedIsFlatWithoutFaults ==
    ASSUME ~Faults
    PROVE  Spec => []WatchedIsFlat
<1>1. TokenInv => WatchedIsFlat
  BY DEF TokenInv, TokenGuards, WatchedIsFlat, Tracked, Held, WorkerHas, Announcing, Open
<1>2. TypeOK /\ TokenInv /\ [Next]_vars => TokenInv'
  BY TokenStep
<1>. QED BY <1>1, <1>2, InitToken, InitType, NextType, PTL DEF Spec
===========================================================================
