------------------------- MODULE PositionLifecycle -------------------------
(***************************************************************************)
(* The life of a row of trading_signals once it is saved as SENT: the      *)
(* queue worker confirms or cancels it, and then four components write it  *)
(* concurrently:                                                           *)
(*  - position_monitor (Python) closes positions with execution evidence,  *)
(*    from a snapshot it took before reading prices and asking Claude;     *)
(*  - overnight_worker (Python) turns them into overnight positions;       *)
(*  - SignalPerformanceScheduler (Java) closes "paper" positions, those    *)
(*    without execution evidence, and expires what was never opened.  Its  *)
(*    jobs load entities and write whole rows back when they commit;       *)
(*  - something outside the program records the fill (executed_at,         *)
(*    entry_qty); nothing in the repository does.                          *)
(*                                                                         *)
(* Prices are small naturals; 0 stands for a missing peak_price.           *)
(***************************************************************************)
EXTENDS Naturals, Sequences, FiniteSets

CONSTANTS
    Positions,       \* rows, one per signal
    Prices,          \* prices a tick may show
    Entry,           \* entry_price
    Stop,            \* sl_price, and Java's stop_price
    Activation,      \* trailing_activation
    Target1,         \* tp1_price, and Java's target_price
    Target2,         \* tp2_price, 0 when there is none
    TrailingPct,     \* trailing_pct
    ReassessedPcts,  \* what position_reassessment may put in its place
    QuantityLoaded,  \* does _load_signal_for_update select entry_qty?  It
                     \* does not; the tests of its callers assume it does
    MayFill,         \* is execution evidence ever recorded?
    Overlap,         \* may a confirmation or a fill be committed between
                     \* the query of a Java job and its commit?
    Faults           \* may database and Redis calls fail?

ASSUME LifecycleAssumption ==
    /\ Prices \subseteq Nat \ {0}
    /\ {Entry, Stop, Activation, Target1, Target2} \subseteq Nat
    /\ {TrailingPct} \cup ReassessedPcts \subseteq 1..99
    /\ {QuantityLoaded, MayFill, Overlap, Faults} \subseteq BOOLEAN

VARIABLES
    row,         \* trading_signals
    price,       \* ws:tick of the position's stock
    settled,     \* queue_worker's decision for the row
    executed,    \* positions whose fill was recorded, if only for a while
    task,        \* position_monitor: one _check_position per position
    verdict,     \* overnight_worker: the evaluation it is about to record
    job,         \* the Java jobs: what each is going to write back
    closes,      \* history: how often the monitor closed the row
    sells        \* history: SELL_SIGNALs for the whole position

vars == <<row, price, settled, executed, task, verdict, job, closes, sells>>

OpenStates == {"ACTIVE", "PARTIAL_TP", "OVERNIGHT"}
Statuses == {"SENT", "OVERNIGHT_HOLD", "WIN", "LOSS", "EXPIRED", "CANCELLED"}
Exits == {"SL_HIT", "TIME_STOP", "TRAILING_STOP", "TP1_HIT", "TP2_HIT", "TP_HIT",
          "TREND_REVERSAL"}

Rows == [status : Statuses, position : OpenStates \cup {"NULL", "CLOSED"},
         filled : BOOLEAN, exit : Exits \cup {"none"}, tp1 : BOOLEAN,
         peak : Prices \cup {0}]

Saved == [status |-> "SENT", position |-> "NULL", filled |-> FALSE,
          exit |-> "none", tp1 |-> FALSE, peak |-> 0]

Open(r) == r.position \in OpenStates

\* What position_monitor examines, most urgent first.  "RAISE" updates
\* peak_price and goes on with what follows it in the list; "none" ends it.
Order == <<"SL_HIT", "TIME_STOP", "RAISE", "TRAILING_STOP", "TP2_HIT",
           "TP1_HIT", "RAISE_PARTIAL", "TRAILING_PARTIAL", "TREND_REVERSAL",
           "none">>
Triggers == {Order[i] : i \in 1..10}

\* The exit_type a trigger is recorded with.
ExitType(x) == IF x = "TRAILING_PARTIAL" THEN "TRAILING_STOP" ELSE x

Checks == [pc : {"idle", "check", "peak", "close", "mark", "judge", "publish"},
           position : OpenStates, peak : Prices \cup {0}, price : Prices \cup {0},
           trigger : Triggers]

Tasks == {t \in Checks : t.pc \in {"close", "judge"} => ExitType(t.trigger) \in Exits}

IdleTask == [pc |-> "idle", position |-> "ACTIVE", peak |-> 0, price |-> 0,
             trigger |-> "none"]

JavaJobs == {"updatePerformance", "expireSentSignals"}
Verdicts == {"HOLD", "FORCE_CLOSE"}
Nothing == <<>>
NoEntities == [p \in {} |-> Saved]

TypeOK ==
    /\ row \in [Positions -> Rows]
    /\ price \in [Positions -> Prices]
    /\ settled \in [Positions -> {"no", "confirmed", "cancelled"}]
    /\ executed \subseteq Positions
    /\ task \in [Positions -> Tasks]
    /\ verdict \in {Nothing} \cup (Positions \X Verdicts)
    /\ job \in [JavaJobs -> UNION {[D -> Rows] : D \in SUBSET Positions}]
    /\ closes \in [Positions -> Nat]
    /\ sells \in [Positions -> Nat]

Init ==
    /\ row = [p \in Positions |-> Saved]
    /\ price \in [Positions -> Prices]
    /\ settled = [p \in Positions |-> "no"]
    /\ executed = {}
    /\ task = [p \in Positions |-> IdleTask]
    /\ verdict = Nothing
    /\ job = [j \in JavaJobs |-> NoEntities]
    /\ closes = [p \in Positions |-> 0]
    /\ sells = [p \in Positions |-> 0]

----------------------------------------------------------------------------
(* The pipeline, the market and the broker.                                *)

\* A Java job has read the row and not committed yet.
Loaded(p) == \E j \in JavaJobs : p \in DOMAIN job[j]

Undisturbed(p) == Overlap \/ ~Loaded(p)

PriceMoves(p) ==
    /\ \E c \in Prices \ {price[p]} : price' = [price EXCEPT ![p] = c]
    /\ UNCHANGED <<row, settled, executed, task, verdict, job, closes, sells>>

\* confirm_open_position, which SignalPipeline calls once for a signal: a
\* terminal row is left alone.
Confirm(p) ==
    /\ settled[p] = "no"
    /\ Undisturbed(p)
    /\ settled' = [settled EXCEPT ![p] = "confirmed"]
    /\ \/ /\ row[p].status \in {"SENT", "OVERNIGHT_HOLD"}
          /\ row' = [row EXCEPT ![p].position = "ACTIVE", ![p].tp1 = FALSE,
                                ![p].peak = 0]
       \/ /\ row[p].status \notin {"SENT", "OVERNIGHT_HOLD"} \/ Faults
          /\ UNCHANGED row
    /\ UNCHANGED <<price, executed, task, verdict, job, closes, sells>>

\* cancel_open_position_by_signal.
Cancel(p) ==
    /\ settled[p] = "no"
    /\ Undisturbed(p)
    /\ settled' = [settled EXCEPT ![p] = "cancelled"]
    /\ \/ row' = [row EXCEPT ![p].status = "CANCELLED", ![p].position = "CLOSED"]
       \/ Faults /\ UNCHANGED row
    /\ UNCHANGED <<price, executed, task, verdict, job, closes, sells>>

\* External: the fill of an open position is recorded, once.
Fill(p) ==
    /\ MayFill
    /\ p \notin executed
    /\ Open(row[p])
    /\ Undisturbed(p)
    /\ executed' = executed \cup {p}
    /\ row' = [row EXCEPT ![p].filled = TRUE]
    /\ UNCHANGED <<price, settled, task, verdict, job, closes, sells>>

----------------------------------------------------------------------------
(* db_writer: every write of the monitor and of the overnight worker locks *)
(* the row and asks Monitorable first.                                     *)

\* (mutant) Execution evidence is enough.
MonitorableByFill(r) == r.filled /\ QuantityLoaded

Monitorable(r) ==
    /\ r.exit = "none"
    /\ r.filled /\ QuantityLoaded
    /\ Open(r)
    /\ r.status \in {"SENT", "OVERNIGHT_HOLD", "EXPIRED"}

\* (mutant) The exit is written, the position is left as it is.
ClosedRowLeftOpen(r, exit, c) ==
    [r EXCEPT !.status = IF c >= Entry THEN "WIN" ELSE "LOSS", !.exit = exit]

ClosedRow(r, exit, c) ==
    [r EXCEPT !.status = IF c >= Entry THEN "WIN" ELSE "LOSS",
              !.exit = exit, !.position = "CLOSED"]

----------------------------------------------------------------------------
(* position_monitor.                                                       *)

\* _scan_all starts the next round when every check of the last one is done
\* (gather), from one query for the open positions with execution evidence.
Scan ==
    /\ \A p \in Positions : task[p].pc = "idle"
    /\ \E p \in Positions : Open(row[p]) /\ row[p].filled
    /\ task' = [p \in Positions |->
                  IF Open(row[p]) /\ row[p].filled
                  THEN [IdleTask EXCEPT !.pc = "check",
                                        !.position = row[p].position,
                                        !.peak = row[p].peak]
                  ELSE IdleTask]
    /\ UNCHANGED <<row, price, settled, executed, verdict, job, closes, sells>>

\* int(peak * (1 - pct / 100))
Threshold(peak, pct) == (peak * (100 - pct)) \div 100

\* Which triggers the snapshot t pulls at the price c: late is the time stop,
\* which depends on the clock, weak the trend reversal, which depends on
\* indicators, pct the trailing distance read with the position's context.
Fires(x, t, c, pct, late, weak) ==
    LET riding == t.position \in {"ACTIVE", "OVERNIGHT"} /\ Activation > 0
                  /\ c >= Activation
        newPeak == t.peak = 0 \/ c > t.peak
    IN CASE x = "SL_HIT" -> Stop > 0 /\ c <= Stop
         [] x = "TIME_STOP" -> late /\ t.position \in {"ACTIVE", "OVERNIGHT"}
         [] x = "RAISE" -> riding /\ newPeak
         [] x = "TRAILING_STOP" -> riding /\ c <= Threshold(t.peak, pct)
         [] x = "TP2_HIT" -> /\ t.position \in {"ACTIVE", "PARTIAL_TP"}
                             /\ Target2 > 0 /\ c >= Target2
         [] x = "TP1_HIT" -> t.position = "ACTIVE" /\ Target1 > 0 /\ c >= Target1
         [] x = "RAISE_PARTIAL" -> t.position = "PARTIAL_TP" /\ newPeak
         [] x = "TRAILING_PARTIAL" -> /\ t.position = "PARTIAL_TP"
                                      /\ c <= Threshold(t.peak, pct)
         [] x = "TREND_REVERSAL" -> weak
         [] x = "none" -> TRUE

\* The first trigger from place i of the list on, as a set of one element.
FirstTrigger(i, t, pct, late, weak) ==
    LET fires(n) == Fires(Order[n], t, t.price, pct, late, weak)
    IN {Order[n] : n \in {n \in i..10 : fires(n) /\ \A m \in i..(n - 1) : ~fires(m)}}

\* What the check awaits next.
Awaits(x) == CASE x = "none" -> "idle"
               [] x \in {"RAISE", "RAISE_PARTIAL"} -> "peak"
               [] x = "TP1_HIT" -> IF Target2 > Target1 THEN "mark" ELSE "close"
               [] x = "TREND_REVERSAL" -> "judge"
               [] OTHER -> "close"

Planned(t, x) == IF x = "none" THEN IdleTask
                 ELSE [t EXCEPT !.pc = Awaits(x), !.trigger = x]

\* _check_position reads the tick and decides; no tick, no check.
Check(p) ==
    /\ task[p].pc = "check"
    /\ \/ \E late, weak \in BOOLEAN, pct \in {TrailingPct} \cup ReassessedPcts :
             LET t == [task[p] EXCEPT !.price = price[p]]
             IN \E x \in FirstTrigger(1, t, pct, late, weak) :
                   task' = [task EXCEPT ![p] = Planned(t, x)]
       \/ Faults /\ task' = [task EXCEPT ![p] = IdleTask]
    /\ UNCHANGED <<row, price, settled, executed, verdict, job, closes, sells>>

\* update_peak_price, whose result is ignored, and the rest of the check; the
\* price is the peak now, so no trailing distance is reached.
UpdatePeak(p) ==
    LET t == [task[p] EXCEPT !.peak = task[p].price] IN
    /\ task[p].pc = "peak"
    /\ \E weak \in BOOLEAN, i \in 1..9 :
          /\ Order[i] = t.trigger
          /\ \E x \in FirstTrigger(i + 1, t, TrailingPct, FALSE, weak) :
                task' = [task EXCEPT ![p] = Planned(t, x)]
    /\ \/ /\ Monitorable(row[p]) /\ row[p].peak < t.price
          /\ row' = [row EXCEPT ![p].peak = t.price]
       \/ /\ ~Monitorable(row[p]) \/ row[p].peak >= t.price \/ Faults
          /\ UNCHANGED row
    /\ UNCHANGED <<price, settled, executed, verdict, job, closes, sells>>

\* analyze_exit: Claude is asked about the snapshot and its price.
Judge(p) ==
    /\ task[p].pc = "judge"
    /\ task' \in {[task EXCEPT ![p].pc = "close"], [task EXCEPT ![p] = IdleTask]}
    /\ UNCHANGED <<row, price, settled, executed, verdict, job, closes, sells>>

\* close_open_position.
ClosePosition(p) ==
    LET t == task[p] IN
    /\ t.pc = "close"
    /\ \/ /\ Monitorable(row[p])
          /\ row' = [row EXCEPT ![p] = ClosedRow(@, ExitType(t.trigger), t.price)]
          /\ closes' = [closes EXCEPT ![p] = @ + 1]
          /\ task' = [task EXCEPT ![p].pc = "publish"]
       \/ /\ ~Monitorable(row[p]) \/ Faults
          /\ task' = [task EXCEPT ![p] = IdleTask]
          /\ UNCHANGED <<row, closes>>
    /\ UNCHANGED <<price, settled, executed, verdict, job, sells>>

\* mark_tp1_hit, which writes the trigger's price over the peak.
MarkTp1(p) ==
    LET t == task[p] IN
    /\ t.pc = "mark"
    /\ \/ /\ Monitorable(row[p]) /\ row[p].position = "ACTIVE"
          /\ row' = [row EXCEPT ![p].position = "PARTIAL_TP", ![p].tp1 = TRUE,
                                ![p].peak = t.price]
          /\ task' = [task EXCEPT ![p].pc = "publish"]
       \/ /\ ~Monitorable(row[p]) \/ row[p].position # "ACTIVE" \/ Faults
          /\ task' = [task EXCEPT ![p] = IdleTask]
          /\ UNCHANGED row
    /\ UNCHANGED <<price, settled, executed, verdict, job, closes, sells>>

\* _publish_sell, after the commit; a failed push is only logged.
Publish(p) ==
    /\ task[p].pc = "publish"
    /\ \/ /\ sells' = IF Awaits(task[p].trigger) = "mark" THEN sells
                      ELSE [sells EXCEPT ![p] = @ + 1]
       \/ Faults /\ UNCHANGED sells
    /\ task' = [task EXCEPT ![p] = IdleTask]
    /\ UNCHANGED <<row, price, settled, executed, verdict, job, closes>>

----------------------------------------------------------------------------
(* overnight_worker.                                                       *)

\* An item of overnight_eval_queue is evaluated and the verdict announced;
\* the queue is filled outside the repository.
OvernightEvaluate(p) ==
    /\ verdict = Nothing
    /\ \E v \in Verdicts : verdict' = <<p, v>>
    /\ UNCHANGED <<row, price, settled, executed, task, job, closes, sells>>

\* (mutant) The verdict is written where the position's state belongs.
OvernightRecordVerdict ==
    /\ verdict # Nothing
    /\ verdict' = Nothing
    /\ row' = IF Monitorable(row[verdict[1]])
              THEN [row EXCEPT ![verdict[1]].position = verdict[2]] ELSE row
    /\ UNCHANGED <<price, settled, executed, task, job, closes, sells>>

\* record_overnight_eval.
OvernightRecord ==
    /\ verdict # Nothing
    /\ verdict' = Nothing
    /\ \/ /\ Monitorable(row[verdict[1]]) /\ verdict[2] = "HOLD"
          /\ row' = [row EXCEPT ![verdict[1]].status = "OVERNIGHT_HOLD",
                                ![verdict[1]].position = "OVERNIGHT"]
       \/ /\ ~Monitorable(row[verdict[1]]) \/ verdict[2] # "HOLD" \/ Faults
          /\ UNCHANGED row
    /\ UNCHANGED <<price, settled, executed, task, job, closes, sells>>

----------------------------------------------------------------------------
(* SignalPerformanceScheduler.  A job is one transaction: a query, changes *)
(* to the entities it returned, and a commit that writes every column of   *)
(* each (no @Version, no @DynamicUpdate).                                  *)

\* peak * (1 - pct / 100), rounded half up.
PaperThreshold(peak) == (2 * peak * (100 - TrailingPct) + 100) \div 200

Higher(a, b) == IF a >= b THEN a ELSE b

\* (mutant) Only a peak that armed the trailing stop has the stop looked at.
EvaluatedOnceArmed(r, c) ==
    LET peak == Higher(r.peak, c) IN
    CASE c >= Target1 -> ClosedRow(r, "TP_HIT", c)
      [] c < Target1 /\ c <= Stop /\ peak >= Activation -> ClosedRow(r, "SL_HIT", c)
      [] OTHER -> [r EXCEPT !.peak = peak]

\* evaluateSignal: the entity it leaves for the row r at price c.
Evaluated(r, c) ==
    LET peak == Higher(r.peak, c) IN
    CASE c >= Target1 -> ClosedRow(r, "TP_HIT", c)
      [] c < Target1 /\ c <= Stop -> ClosedRow(r, "SL_HIT", c)
      [] OTHER -> IF /\ Activation > 0 /\ peak >= Activation
                     /\ c <= PaperThreshold(peak)
                  THEN ClosedRow([r EXCEPT !.peak = peak], "TRAILING_STOP", c)
                  ELSE [r EXCEPT !.peak = peak]

\* findMonitorablePaperPositions, and evaluateSignal on what has a tick.
PaperPositions ==
    {p \in Positions : row[p].status = "SENT" /\ Open(row[p]) /\ ~row[p].filled}

\* Only an entity that changed is written back.
LoadPaper ==
    LET dirty == {p \in PaperPositions : Evaluated(row[p], price[p]) # row[p]} IN
    /\ job["updatePerformance"] = NoEntities
    /\ \E D \in SUBSET dirty \ {{}} :
          /\ D = dirty \/ Faults
          /\ job' = [job EXCEPT !["updatePerformance"] =
                       [p \in D |-> Evaluated(row[p], price[p])]]
    /\ UNCHANGED <<row, price, settled, executed, task, verdict, closes, sells>>

\* (mutant) Every SENT row expires, as findBySignalStatusAndCreatedAtAfter
\* would have it.
UnopenedBySent == {p \in Positions : row[p].status = "SENT"}

\* findNonActiveSignalsByStatusAfter(SENT), and updateStatus(EXPIRED).
Unopened == {p \in Positions : row[p].status = "SENT" /\ ~Open(row[p])}

LoadUnopened ==
    /\ job["expireSentSignals"] = NoEntities
    /\ Unopened # {}
    /\ job' = [job EXCEPT !["expireSentSignals"] =
                 [p \in Unopened |-> [row[p] EXCEPT !.status = "EXPIRED"]]]
    /\ UNCHANGED <<row, price, settled, executed, task, verdict, closes, sells>>

CommitJob(j) ==
    /\ job[j] # NoEntities
    /\ job' = [job EXCEPT ![j] = NoEntities]
    /\ \/ row' = [p \in Positions |-> IF p \in DOMAIN job[j] THEN job[j][p]
                                      ELSE row[p]]
       \/ Faults /\ UNCHANGED row
    /\ UNCHANGED <<price, settled, executed, task, verdict, closes, sells>>

----------------------------------------------------------------------------
Settlement == \E p \in Positions : Confirm(p) \/ Cancel(p)

World == \E p \in Positions : PriceMoves(p) \/ Fill(p)

CheckStep(p) == \/ Check(p) \/ UpdatePeak(p) \/ Judge(p)
                \/ ClosePosition(p) \/ MarkTp1(p) \/ Publish(p)

Overnight == OvernightRecord \/ \E p \in Positions : OvernightEvaluate(p)

Java == LoadPaper \/ LoadUnopened \/ \E j \in JavaJobs : CommitJob(j)

Next == \/ Settlement \/ World \/ Scan \/ Overnight \/ Java
        \/ \E p \in Positions : CheckStep(p)

Spec == Init /\ [][Next]_vars

\* The monitor's loop and Spring's scheduler run for ever; a check whose
\* awaits return goes on.
Fairness == /\ WF_vars(Scan)
            /\ \A p \in Positions : WF_vars(CheckStep(p))
            /\ WF_vars(LoadPaper)
            /\ \A j \in JavaJobs : WF_vars(CommitJob(j))

FairSpec == Spec /\ Fairness
----------------------------------------------------------------------------
(* Properties.                                                             *)

\* The life of a position as PositionLedger promises it: where no fill and no
\* confirmation falls between a Java job's query and its commit, the writers
\* share the rows by execution evidence, and no write is lost or repeated.
Stage(r) == CASE Open(r) /\ ~r.tp1 -> "open"
              [] Open(r) /\ r.tp1 -> "partial"
              [] r.status \in {"WIN", "LOSS"} -> "closed"
              [] r.status = "SENT" /\ ~Open(r) -> "waiting"
              [] OTHER -> "dropped"

Ledger == INSTANCE PositionLedger
          WITH stage <- [p \in Positions |-> Stage(row[p])], announced <- sells

LedgerSpec == Ledger!Spec

\* Whatever jobs overlap and calls fail: the monitor closes a position once,
\* so that it has one row in trade_outcomes, and announces only what it closed.
ClosedOnce == \A p \in Positions : closes[p] <= 1 /\ sells[p] <= closes[p]

\* The columns of a row agree, although a Java commit replaces them all: a row
\* has an exit exactly when it is a WIN or a LOSS, such a row is closed, and a
\* row of the other terminal states is not open.
RowsAgree ==
    \A p \in Positions :
        /\ row[p].exit # "none" <=> row[p].status \in {"WIN", "LOSS"}
        /\ row[p].status \in {"WIN", "LOSS"} => row[p].position = "CLOSED"
        /\ row[p].status \in {"EXPIRED", "CANCELLED"} => ~Open(row[p])

\* A paper position, one without execution evidence, whose price stays at or
\* below its stop is closed by SignalPerformanceScheduler, whatever whole rows
\* its two jobs and the confirmations write over each other meanwhile.
PaperStopIsTaken ==
    \A p \in Positions :
        (Open(row[p]) /\ ~row[p].filled /\ price[p] <= Stop)
            ~> (~Open(row[p]) \/ row[p].filled \/ price[p] > Stop)

\* position_monitor.py:5-13: an open position whose price stays at or below
\* its stop is closed.
StopIsTaken ==
    \A p \in Positions :
        (Open(row[p]) /\ price[p] <= Stop) ~> (~Open(row[p]) \/ price[p] > Stop)

\* ai-engine/db_writer.py:159: a position the scheduler expired remains one the
\* monitor can close, so a confirmed row stays open until it is closed.
ConfirmedStaysOpen ==
    [][\A p \in Positions :
          Open(row[p]) => Open(row'[p]) \/ row'[p].position = "CLOSED"]_vars
===========================================================================
