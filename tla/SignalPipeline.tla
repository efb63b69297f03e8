-------------------------- MODULE SignalPipeline --------------------------
(***************************************************************************)
(* The path of a candidate signal through the AI engine: the producers     *)
(* (the Python strategy scanner and Java's SignalService) push it on the   *)
(* Redis list telegram_queue; queue_worker.process_one pops it, decides,   *)
(* arbitrates between strategies with two Redis leases, persists the       *)
(* decision in trading_signals and routes it; a WATCH goes to the hold     *)
(* monitor, which may send it back for a recheck.                          *)
(*                                                                         *)
(* One engine process runs one queue worker and one hold monitor as        *)
(* asyncio tasks: each action below is the code between two awaits, so the *)
(* two tasks, the producers, the leases' expiry and a crash interleave     *)
(* where the program lets them.  A call that fails may have been carried   *)
(* out before its answer was lost; a command the client sends again after  *)
(* a time-out (retry_on_timeout) then meets its own first effect.          *)
(***************************************************************************)
EXTENDS Naturals, Sequences, FiniteSets

CONSTANTS
    Signals,        \* candidates, each one output of one scan run
    Stocks,
    Strategies,
    Families,
    StockOf,        \* [Signals -> Stocks]
    StrategyOf,     \* [Signals -> Strategies]
    FamilyOf,       \* [Strategies -> Families]
    JavaSignals,    \* saved by SignalService: their payload carries the row id
    NoSignal,
    FamilyRouting,  \* ENABLE_STRATEGY_FAMILY_LIVE_ROUTING
    Faults,         \* may Redis and PostgreSQL calls raise?
    Crashes,        \* may the engine stop and be restarted?
    MaxRechecks,    \* HOLD_MONITOR_MAX_AI_RECHECKS
    Resent          \* bound: the signals whose pushes may be sent twice

ASSUME ConstantsAssumption ==
    /\ StockOf \in [Signals -> Stocks]
    /\ StrategyOf \in [Signals -> Strategies]
    /\ FamilyOf \in [Strategies -> Families]
    /\ JavaSignals \subseteq Signals
    /\ NoSignal \notin Signals
    /\ FamilyRouting \in BOOLEAN
    /\ Faults \in BOOLEAN
    /\ Crashes \in BOOLEAN
    /\ MaxRechecks \in Nat
    /\ Resent \subseteq Signals

VARIABLES
    produced,   \* per signal: "no" | "checking" | "pushed" | "done"
    queue,      \* telegram_queue, oldest message first
    scanKey,    \* scanner:dedup:{strategy}:{stk} keys that exist
    famKey,     \* signal:family:{family}:{stk}:LONG keys that exist
    stkKey,     \* arbitration:enter:{stk}: the signal that set it
    row,        \* trading_signals, one row per signal at most
    worker,     \* queue_worker: its program counter and the item in hand
    hold,       \* signals scheduled in hold_monitor_queue
    hm,         \* hold_monitor_worker: its program counter, its item and the
                \* items of its batch that are still to come
    rechecks,   \* hold_monitor_ai_rechecks carried by the signal's payload
    entered,    \* pushes of an ENTER payload on ai_scored_queue, per signal
                \* (one the client sends twice is one push)
    notices,    \* signals another payload was pushed for: HOLD_WATCH,
                \* HOLD_RELEASED or FAILED
    window      \* history: ENTERs let through in the stock's current lease

vars == <<produced, queue, scanKey, famKey, stkKey, row, worker, hold, hm,
          rechecks, entered, notices, window>>

Decisions == {"ENTER", "WATCH", "BLOCK"}
WorkerSteps == {"idle", "decide", "family", "stock", "insert", "settle",
                "route", "notice", "fail"}
Statuses == {"none", "SENT", "WATCHING", "CANCELLED", "DONE"}
Positions == {"NULL", "ACTIVE", "FILLED", "CLOSED"}
Messages == [sig : Signals, recheck : BOOLEAN]

NoRow == [status |-> "none", position |-> "NULL"]
IdleWorker == [pc |-> "idle", sig |-> NoSignal, recheck |-> FALSE,
               decision |-> "BLOCK"]
IdleMonitor == [pc |-> "idle", sig |-> NoSignal, due |-> {}]

TypeOK ==
    /\ produced \in [Signals -> {"no", "checking", "pushed", "done"}]
    /\ queue \in Seq(Messages)
    /\ scanKey \subseteq Strategies \X Stocks
    /\ famKey \subseteq Families \X Stocks
    /\ stkKey \in [Stocks -> Signals \cup {NoSignal}]
    /\ row \in [Signals -> [status : Statuses, position : Positions]]
    /\ worker \in [pc : WorkerSteps, sig : Signals \cup {NoSignal},
                   recheck : BOOLEAN, decision : Decisions]
    /\ (worker.pc # "idle" => worker.sig \in Signals)
    /\ hold \subseteq Signals
    /\ hm \in [pc : {"idle", "next", "evaluate", "remove"},
               sig : Signals \cup {NoSignal}, due : SUBSET Signals]
    /\ (hm.pc \in {"evaluate", "remove"} => hm.sig \in Signals)
    /\ rechecks \in [Signals -> 0..MaxRechecks]
    /\ entered \in [Signals -> Nat]
    /\ notices \subseteq Signals
    /\ window \in [Stocks -> SUBSET Signals]

Init ==
    /\ produced = [s \in Signals |-> "no"]
    /\ queue = <<>>
    /\ scanKey = {}
    /\ famKey = {}
    /\ stkKey = [k \in Stocks |-> NoSignal]
    /\ row = [s \in Signals |-> NoRow]
    /\ worker = IdleWorker
    /\ hold = {}
    /\ hm = IdleMonitor
    /\ rechecks = [s \in Signals |-> 0]
    /\ entered = [s \in Signals |-> 0]
    /\ notices = {}
    /\ window = [k \in Stocks |-> {}]

----------------------------------------------------------------------------
(* Producers.                                                              *)

\* An open position that get_active_position would return: it asks for
\* execution evidence, so a position that was only confirmed is not one.
FilledPosition(k) == \E s \in Signals : StockOf[s] = k /\ row[s].position = "FILLED"

\* LPUSH on telegram_queue; when its answer is lost the client sends it again
\* (bound: for the signals of Resent).
Pushed(m) == {Append(queue, m)}
             \cup {q \in {Append(Append(queue, m), m)} :
                     Faults /\ m.sig \in Resent}

\* strategy_runner._push_signals, up to its database read: the dedup key is
\* taken (SET NX) before the position check, and stays taken; when its answer
\* is lost the second attempt is refused and the signal is skipped.
ScanDedup(s) ==
    /\ s \notin JavaSignals
    /\ produced[s] = "no"
    /\ <<StrategyOf[s], StockOf[s]>> \notin scanKey
    /\ scanKey' = scanKey \cup {<<StrategyOf[s], StockOf[s]>>}
    /\ \/ produced' = [produced EXCEPT ![s] = "checking"]
       \/ Faults /\ produced' = [produced EXCEPT ![s] = "done"]
    /\ UNCHANGED <<queue, famKey, stkKey, row, worker, hold, hm, rechecks,
                   entered, notices, window>>

\* The rest of _push_signals: skip a stock with a filled position (a failed
\* read passes), otherwise LPUSH; a failed LPUSH is only logged.
ScanPublish(s) ==
    /\ s \notin JavaSignals
    /\ produced[s] = "checking"
    /\ produced' = [produced EXCEPT ![s] = "done"]
    /\ \/ /\ FilledPosition(StockOf[s]) \/ Faults
          /\ UNCHANGED queue
       \/ /\ ~FilledPosition(StockOf[s]) \/ Faults
          /\ queue' \in Pushed([sig |-> s, recheck |-> FALSE])
    /\ UNCHANGED <<scanKey, famKey, stkKey, row, worker, hold, hm, rechecks,
                   entered, notices, window>>

\* SignalService.processSignal saves the row and pushes the payload inside
\* one transaction: the worker can see the message before the row.
JavaPush(s) ==
    /\ s \in JavaSignals
    /\ produced[s] = "no"
    /\ produced' = [produced EXCEPT ![s] = "pushed"]
    /\ \/ queue' \in Pushed([sig |-> s, recheck |-> FALSE])
       \/ Faults /\ UNCHANGED queue
    /\ UNCHANGED <<scanKey, famKey, stkKey, row, worker, hold, hm, rechecks,
                   entered, notices, window>>

JavaCommit(s) ==
    /\ produced[s] = "pushed"
    /\ produced' = [produced EXCEPT ![s] = "done"]
    /\ \/ row' = [row EXCEPT ![s] = [status |-> "SENT", position |-> "NULL"]]
       \/ Faults /\ UNCHANGED row    \* the transaction is rolled back
    /\ UNCHANGED <<queue, scanKey, famKey, stkKey, worker, hold, hm, rechecks,
                   entered, notices, window>>

----------------------------------------------------------------------------
(* queue_worker.process_one.                                               *)

\* RPOP: from here on the message exists only in the worker's memory, or
\* nowhere when the answer is lost.
Pop ==
    /\ worker.pc = "idle"
    /\ queue # <<>>
    /\ \/ worker' = [pc |-> "decide", sig |-> Head(queue).sig,
                     recheck |-> Head(queue).recheck, decision |-> "BLOCK"]
       \/ Faults /\ UNCHANGED worker
    /\ queue' = Tail(queue)
    /\ UNCHANGED <<produced, scanKey, famKey, stkKey, row, hold, hm, rechecks,
                   entered, notices, window>>

\* Where a decision goes once arbitration is over: the row is inserted first
\* when the payload carries no id, and a recheck without an id that is not an
\* ENTER is not persisted at all (persist_processed_signal, first return).
AfterArbitration(w, d) ==
    [w EXCEPT !.decision = d,
              !.pc = IF w.sig \in JavaSignals THEN "settle"
                     ELSE IF w.recheck /\ d # "ENTER" THEN "route"
                     ELSE "insert"]

\* Context, rule score, gates, AI call and guards: any canonical decision, or
\* an exception that handle_processing_failure turns into a FAILED payload.
Decide ==
    /\ worker.pc = "decide"
    /\ \/ \E d \in {"WATCH", "BLOCK"} : worker' = AfterArbitration(worker, d)
       \/ worker' = [worker EXCEPT !.decision = "ENTER",
                                   !.pc = IF FamilyRouting THEN "family" ELSE "stock"]
       \/ Faults /\ worker' = [worker EXCEPT !.pc = "fail"]
    /\ UNCHANGED <<produced, queue, scanKey, famKey, stkKey, row, hold, hm,
                   rechecks, entered, notices, window>>

FamilyKey(s) == <<FamilyOf[StrategyOf[s]], StockOf[s]>>

\* SET NX on the family key; refused or unavailable, the ENTER is a BLOCK.
\* The GET that names the holder of a refused key is outside the try.  A SET
\* whose answer is lost leaves the key to an ENTER that is turned away.
ReserveFamily ==
    /\ worker.pc = "family"
    /\ \/ /\ FamilyKey(worker.sig) \notin famKey
          /\ famKey' = famKey \cup {FamilyKey(worker.sig)}
          /\ worker' = [worker EXCEPT !.pc = "stock"]
       \/ /\ FamilyKey(worker.sig) \in famKey \/ Faults
          /\ worker' = AfterArbitration(worker, "BLOCK")
          /\ UNCHANGED famKey
       \/ /\ FamilyKey(worker.sig) \in famKey /\ Faults
          /\ worker' = [worker EXCEPT !.pc = "fail"]
          /\ UNCHANGED famKey
       \/ /\ FamilyKey(worker.sig) \notin famKey /\ Faults
          /\ famKey' = famKey \cup {FamilyKey(worker.sig)}
          /\ worker' \in {AfterArbitration(worker, "BLOCK"),
                         [worker EXCEPT !.pc = "fail"]}
    /\ UNCHANGED <<produced, queue, scanKey, stkKey, row, hold, hm, rechecks,
                   entered, notices, window>>

\* (mutant) SET without NX: the last ENTER owns the stock.
ReserveStockWithoutNX ==
    LET k == StockOf[worker.sig] IN
    /\ worker.pc = "stock"
    /\ stkKey' = [stkKey EXCEPT ![k] = worker.sig]
    /\ window' = [window EXCEPT ![k] = @ \cup {worker.sig}]
    /\ worker' = AfterArbitration(worker, "ENTER")
    /\ UNCHANGED <<produced, queue, scanKey, famKey, row, hold, hm, rechecks,
                   entered, notices>>

\* SET NX on the stock key.  A refusal is a BLOCK and leaves the family key
\* just taken; an exception is a BLOCK under family routing and a pass
\* without it ("compatibility pass").  A SET whose answer is lost leaves the
\* key to an ENTER that its second attempt, or the exception, turns away.
ReserveStock ==
    LET k == StockOf[worker.sig] IN
    /\ worker.pc = "stock"
    /\ \/ /\ stkKey[k] = NoSignal
          /\ stkKey' = [stkKey EXCEPT ![k] = worker.sig]
          /\ window' = [window EXCEPT ![k] = @ \cup {worker.sig}]
          /\ worker' = AfterArbitration(worker, "ENTER")
       \/ /\ stkKey[k] # NoSignal \/ (Faults /\ FamilyRouting)
          /\ worker' = AfterArbitration(worker, "BLOCK")
          /\ UNCHANGED <<stkKey, window>>
       \/ /\ Faults /\ ~FamilyRouting
          /\ worker' = AfterArbitration(worker, "ENTER")
          /\ window' = [window EXCEPT ![k] = @ \cup {worker.sig}]
          /\ UNCHANGED stkKey
       \/ /\ stkKey[k] = NoSignal /\ Faults
          /\ stkKey' = [stkKey EXCEPT ![k] = worker.sig]
          /\ worker' = AfterArbitration(worker, "BLOCK")
          /\ UNCHANGED window
    /\ UNCHANGED <<produced, queue, scanKey, famKey, row, hold, hm, rechecks,
                   entered, notices>>

\* insert_python_signal: INSERT ... ON CONFLICT (correlation_id, strategy,
\* stk_cd) DO NOTHING.  The payload's scan_run_id is the correlation id, so a
\* signal whose row exists gets no id back and persisting it raises; so does
\* an insert that fails, committed or not.
InsertedStatus(d) == CASE d = "ENTER" -> "SENT"
                       [] d = "WATCH" -> "WATCHING"
                       [] d = "BLOCK" -> "CANCELLED"

\* (mutant) A conflict taken for success.
InsertWithoutIdCheck ==
    LET s == worker.sig IN
    /\ worker.pc = "insert"
    /\ row' = IF row[s].status # "none" THEN row
              ELSE [row EXCEPT ![s] = [status |-> InsertedStatus(worker.decision),
                                       position |-> "NULL"]]
    /\ worker' = [worker EXCEPT !.pc = "settle"]
    /\ UNCHANGED <<produced, queue, scanKey, famKey, stkKey, hold, hm,
                   rechecks, entered, notices, window>>

Insert ==
    LET s == worker.sig IN
    /\ worker.pc = "insert"
    /\ \/ /\ row[s].status = "none"
          /\ row' = [row EXCEPT ![s] = [status |-> InsertedStatus(worker.decision),
                                        position |-> "NULL"]]
          /\ worker' = [worker EXCEPT !.pc = "settle"]
       \/ /\ row[s].status # "none" \/ Faults
          /\ worker' = [worker EXCEPT !.pc = "fail"]
          /\ UNCHANGED row
       \/ /\ row[s].status = "none" /\ Faults
          /\ worker' = [worker EXCEPT !.pc = "fail"]
          /\ row' = [row EXCEPT ![s] = [status |-> InsertedStatus(worker.decision),
                                        position |-> "NULL"]]
    /\ UNCHANGED <<produced, queue, scanKey, famKey, stkKey, hold, hm,
                   rechecks, entered, notices, window>>

\* confirm_open_position returns False on a missing or terminal row, and on
\* any exception; cancel_open_position_by_signal updates whatever row is
\* there.  Neither result changes where the payload goes next.
Confirmable(s) == row[s].status = "SENT"

\* (mutants) A WATCH confirmed like an ENTER; a cancel by stock, not by id.
SettleConfirmingWatch ==
    LET s == worker.sig IN
    /\ worker.pc = "settle"
    /\ worker' = [worker EXCEPT !.pc = "route"]
    /\ row' = IF worker.decision # "BLOCK" /\ Confirmable(s)
              THEN [row EXCEPT ![s].position = "ACTIVE"] ELSE row
    /\ UNCHANGED <<produced, queue, scanKey, famKey, stkKey, hold, hm,
                   rechecks, entered, notices, window>>

SettleByStock ==
    LET s == worker.sig
        Cancelled(t) == /\ StockOf[t] = StockOf[s]
                        /\ row[t].status # "none" IN
    /\ worker.pc = "settle"
    /\ worker' = [worker EXCEPT !.pc = "route"]
    /\ row' = IF worker.decision = "ENTER"
              THEN IF Confirmable(s) THEN [row EXCEPT ![s].position = "ACTIVE"]
                   ELSE row
              ELSE [t \in Signals |->
                      IF Cancelled(t)
                      THEN [status |-> "CANCELLED", position |-> "CLOSED"]
                      ELSE row[t]]
    /\ UNCHANGED <<produced, queue, scanKey, famKey, stkKey, hold, hm,
                   rechecks, entered, notices, window>>

Settle ==
    LET s == worker.sig IN
    /\ worker.pc = "settle"
    /\ worker' = [worker EXCEPT !.pc = "route"]
    /\ \/ /\ worker.decision = "ENTER"
          /\ row' = IF Confirmable(s)
                    THEN [row EXCEPT ![s].position = "ACTIVE"] ELSE row
       \/ /\ worker.decision # "ENTER"
          /\ row' = IF row[s].status = "none" THEN row
                    ELSE [row EXCEPT ![s] = [status |-> "CANCELLED",
                                             position |-> "CLOSED"]]
       \/ Faults /\ UNCHANGED row
    /\ UNCHANGED <<produced, queue, scanKey, famKey, stkKey, hold, hm,
                   rechecks, entered, notices, window>>

AfterFault == {w \in {[worker EXCEPT !.pc = "fail"]} : Faults}

\* hold_monitor_queue is keyed by strategy and row id, or by strategy and
\* stock for a payload without an id.
HoldKey(s) == IF s \in JavaSignals THEN <<StrategyOf[s], s>>
              ELSE <<StrategyOf[s], StockOf[s]>>

WithoutKey(s) == {h \in hold : HoldKey(h) # HoldKey(s)}

\* (mutant) An ENTER kept internal like a BLOCK.
RouteEnterSilently ==
    /\ worker.pc = "route" /\ worker.decision = "ENTER"
    /\ worker' = IdleWorker
    /\ UNCHANGED <<produced, queue, scanKey, famKey, stkKey, row, hold, hm,
                   rechecks, entered, notices, window>>

\* route_execution_payload.  A push is an LPUSH (or HSET and ZADD) followed by
\* an EXPIRE: with a fault it may have happened or not, and either way the
\* failure handler runs, whatever was persisted before.
RouteEnter ==
    /\ worker.pc = "route" /\ worker.decision = "ENTER"
    /\ \/ /\ entered' = [entered EXCEPT ![worker.sig] = @ + 1]
          /\ worker' \in {IdleWorker} \cup AfterFault
       \/ /\ worker' \in AfterFault
          /\ UNCHANGED entered
    /\ UNCHANGED <<produced, queue, scanKey, famKey, stkKey, row, hold, hm,
                   rechecks, notices, window>>

RouteWatch ==
    /\ worker.pc = "route" /\ worker.decision = "WATCH"
    /\ \/ /\ hold' = WithoutKey(worker.sig) \cup {worker.sig}
          /\ worker' \in {IF worker.recheck THEN IdleWorker
                          ELSE [worker EXCEPT !.pc = "notice"]} \cup AfterFault
       \/ /\ worker' \in AfterFault
          /\ UNCHANGED hold
    /\ UNCHANGED <<produced, queue, scanKey, famKey, stkKey, row, hm,
                   rechecks, entered, notices, window>>

RouteBlock ==
    /\ worker.pc = "route" /\ worker.decision = "BLOCK"
    /\ worker' = IdleWorker
    /\ UNCHANGED <<produced, queue, scanKey, famKey, stkKey, row, hold, hm,
                   rechecks, entered, notices, window>>

WatchNotice ==
    /\ worker.pc = "notice"
    /\ \/ /\ notices' = notices \cup {worker.sig}
          /\ worker' \in {IdleWorker} \cup AfterFault
       \/ /\ worker' \in AfterFault
          /\ UNCHANGED notices
    /\ UNCHANGED <<produced, queue, scanKey, famKey, stkKey, row, hold, hm,
                   rechecks, entered, window>>

\* handle_processing_failure: error_queue and ai_scored_queue, each push in
\* its own try; nothing already reserved or persisted is undone.
Fail ==
    /\ worker.pc = "fail"
    /\ \/ notices' = notices \cup {worker.sig}
       \/ Faults /\ UNCHANGED notices
    /\ worker' = IdleWorker
    /\ UNCHANGED <<produced, queue, scanKey, famKey, stkKey, row, hold, hm,
                   rechecks, entered, window>>

----------------------------------------------------------------------------
(* hold_monitor_worker.process_due_items.                                  *)

\* pop_due_hold_monitor_items takes the due keys out of the sorted set, one
\* ZREM each; the batch then exists only in the monitor's memory.
HoldPop(s) ==
    /\ hm.pc = "idle"
    /\ s \in hold
    /\ hold' = hold \ {s}
    /\ hm' = [hm EXCEPT !.due = @ \cup {s}]
    /\ UNCHANGED <<produced, queue, scanKey, famKey, stkKey, row, worker,
                   rechecks, entered, notices, window>>

\* The ZREM or HGET of a key fails: the exception drops the batch taken so
\* far, and a ZREM that was carried out drops its own item, alone when the
\* client's second attempt finds it gone.
HoldPopFails(s) ==
    /\ Faults
    /\ hm.pc = "idle"
    /\ s \in hold
    /\ hold' \in {hold, hold \ {s}}
    /\ hm' \in {IdleMonitor} \cup {m \in {hm} : s \notin hold'}
    /\ UNCHANGED <<produced, queue, scanKey, famKey, stkKey, row, worker,
                   rechecks, entered, notices, window>>

HoldNext(s) ==
    /\ hm.pc \in {"idle", "next"}
    /\ s \in hm.due
    /\ hm' = [pc |-> "evaluate", sig |-> s, due |-> hm.due \ {s}]
    /\ UNCHANGED <<produced, queue, scanKey, famKey, stkKey, row, worker, hold,
                   rechecks, entered, notices, window>>

ItemDone == [pc |-> IF hm.due = {} THEN "idle" ELSE "next",
             sig |-> NoSignal, due |-> hm.due]

\* (mutant) The recheck budget is not looked at.
HoldRecheckUnbounded ==
    LET s == hm.sig IN
    /\ hm.pc = "evaluate"
    /\ rechecks' = [rechecks EXCEPT ![s] = @ + 1]
    /\ queue' = Append(queue, [sig |-> s, recheck |-> TRUE])
    /\ hm' = [hm EXCEPT !.pc = "remove"]
    /\ UNCHANGED <<produced, scanKey, famKey, stkKey, row, worker, hold,
                   entered, notices, window>>

\* evaluate_hold_item: conditions improved and the AI recheck budget is not
\* spent, so the payload goes back on telegram_queue; its key is removed
\* only after that push (HoldRemove).  The budget bounds the rechecks of a
\* signal; a payload requeued by a fault would carry the older count.
HoldRecheck ==
    LET s == hm.sig IN
    /\ hm.pc = "evaluate"
    /\ rechecks[s] < MaxRechecks
    /\ rechecks' = [rechecks EXCEPT ![s] = @ + 1]
    /\ queue' \in Pushed([sig |-> s, recheck |-> TRUE])
    /\ hm' = [hm EXCEPT !.pc = "remove"]
    /\ UNCHANGED <<produced, scanKey, famKey, stkKey, row, worker, hold,
                   entered, notices, window>>

HoldRemove ==
    /\ hm.pc = "remove"
    /\ \/ hold' = WithoutKey(hm.sig)
       \/ Faults /\ hold' = WithoutKey(hm.sig) \cup {hm.sig}  \* except: _requeue
    /\ hm' = ItemDone
    /\ UNCHANGED <<produced, queue, scanKey, famKey, stkKey, row, worker,
                   rechecks, entered, notices, window>>

\* _requeue: the popped payload is scheduled again under its key.
HoldRequeue ==
    /\ hm.pc = "evaluate"
    /\ hold' = WithoutKey(hm.sig) \cup {hm.sig}
    /\ hm' = ItemDone
    /\ UNCHANGED <<produced, queue, scanKey, famKey, stkKey, row, worker,
                   rechecks, entered, notices, window>>

\* Age or attempts exhausted: the key is removed and HOLD_RELEASED pushed; a
\* failed push is only logged.
HoldRelease ==
    /\ hm.pc = "evaluate"
    /\ hold' = WithoutKey(hm.sig)
    /\ hm' = ItemDone
    /\ \/ notices' = notices \cup {hm.sig}
       \/ Faults /\ UNCHANGED notices
    /\ UNCHANGED <<produced, queue, scanKey, famKey, stkKey, row, worker,
                   rechecks, entered, window>>

----------------------------------------------------------------------------
(* The environment: key expiry, the position's own life, a crash.          *)

ScanKeyLapse(x) ==
    /\ x \in scanKey
    /\ scanKey' = scanKey \ {x}
    /\ UNCHANGED <<produced, queue, famKey, stkKey, row, worker, hold, hm,
                   rechecks, entered, notices, window>>

FamilyKeyLapse(x) ==
    /\ x \in famKey
    /\ famKey' = famKey \ {x}
    /\ UNCHANGED <<produced, queue, scanKey, stkKey, row, worker, hold, hm,
                   rechecks, entered, notices, window>>

StockKeyLapse(k) ==
    /\ stkKey[k] # NoSignal
    /\ stkKey' = [stkKey EXCEPT ![k] = NoSignal]
    /\ window' = [window EXCEPT ![k] = {}]
    /\ UNCHANGED <<produced, queue, scanKey, famKey, row, worker, hold, hm,
                   rechecks, entered, notices>>

\* The position is filled outside the program, and closed by the components
\* PositionLifecycle models.
PositionStep(s) ==
    /\ \/ /\ row[s].position = "ACTIVE"
          /\ row' = [row EXCEPT ![s].position = "FILLED"]
       \/ /\ row[s].position \in {"ACTIVE", "FILLED"}
          /\ row' = [row EXCEPT ![s] = [status |-> "DONE", position |-> "CLOSED"]]
    /\ UNCHANGED <<produced, queue, scanKey, famKey, stkKey, worker, hold, hm,
                   rechecks, entered, notices, window>>

\* Redis and PostgreSQL survive; the item in hand does not.
Crash ==
    /\ Crashes
    /\ worker # IdleWorker \/ hm # IdleMonitor
       \/ \E s \in Signals \ JavaSignals : produced[s] = "checking"
    /\ worker' = IdleWorker
    /\ hm' = IdleMonitor
    /\ produced' = [s \in Signals |->
                      IF produced[s] = "checking" THEN "done" ELSE produced[s]]
    /\ UNCHANGED <<queue, scanKey, famKey, stkKey, row, hold, rechecks,
                   entered, notices, window>>

----------------------------------------------------------------------------
Produce == \E s \in Signals :
              ScanDedup(s) \/ ScanPublish(s) \/ JavaPush(s) \/ JavaCommit(s)

WorkerStep == \/ Pop \/ Decide \/ ReserveFamily \/ ReserveStock \/ Insert
              \/ Settle \/ RouteEnter \/ RouteWatch \/ RouteBlock
              \/ WatchNotice \/ Fail

MonitorStep == \/ \E s \in Signals : HoldPop(s) \/ HoldPopFails(s) \/ HoldNext(s)
               \/ HoldRecheck \/ HoldRemove \/ HoldRequeue \/ HoldRelease

Lapse == \/ \E x \in scanKey : ScanKeyLapse(x)
         \/ \E x \in famKey : FamilyKeyLapse(x)
         \/ \E k \in Stocks : StockKeyLapse(k)

Environment == \/ Lapse
               \/ \E s \in Signals : PositionStep(s)
               \/ Crash

Next == Produce \/ WorkerStep \/ MonitorStep \/ Environment

Spec == Init /\ [][Next]_vars

\* run_worker and run_hold_monitor_worker loop for ever, and neither is ever
\* blocked by the other: each takes a step when it has one.  Producers owe
\* what they began.
Fairness == /\ WF_vars(WorkerStep)
            /\ WF_vars(MonitorStep)
            /\ \A s \in Signals : WF_vars(ScanPublish(s)) /\ WF_vars(JavaCommit(s))

FairSpec == Spec /\ Fairness

----------------------------------------------------------------------------
(* Properties.                                                             *)

\* Arbitration is a lease (EntryReservation): while a stock's key exists, only
\* the signal that set it can have been let through.  Holds where arbitration
\* fails closed, or never fails.
Lease == INSTANCE EntryReservation WITH holder <- stkKey, admitted <- window

LeaseSpec == Lease!Spec

\* The signals one pass can be relied on to settle: with faults a hold
\* monitor payload can be pushed and requeued as well, and only the unique
\* index on (correlation_id, strategy, stk_cd) stops its second pass.
Tracked == IF Faults THEN Signals \ JavaSignals ELSE Signals

\* One signal is announced as an ENTER at most once, whatever crashes and
\* rechecks happen.
AtMostOneEnter == \A s \in Tracked : entered[s] <= 1

\* cancel_open_position_by_signal updates the row without looking at it; what
\* keeps it from cancelling an open position is that a signal whose position
\* is open never comes back to the worker as anything it could persist.
OpenPositionIsNeverCancelled ==
    [][\A s \in Tracked : row[s].position \in {"ACTIVE", "FILLED"}
                              => row'[s].status # "CANCELLED"]_vars

\* A signal being watched, and so offered for a later entry, has no open
\* position of its own.
WatchedIsFlat ==
    \A s \in Tracked \cap hold : row[s].position \notin {"ACTIVE", "FILLED"}

\* A Python signal announced as an ENTER has, or had, a position to match,
\* unless confirming it failed.
Backed(s) == \/ row[s].position \in {"ACTIVE", "FILLED"}
             \/ row[s].status = "DONE"
             \/ Faults /\ row[s].status = "SENT"

PythonEnterIsBacked ==
    \A s \in Signals \ JavaSignals : entered[s] > 0 => Backed(s)

\* Every Python signal pushed on the queue gets an answer: an ENTER, a notice
\* or a cancelled row.
Answered(s) == \/ entered[s] > 0
               \/ s \in notices
               \/ row[s].status = "CANCELLED"

EverySignalIsAnswered ==
    \A s \in Signals \ JavaSignals :
        (\E i \in 1..Len(queue) : queue[i].sig = s) ~> Answered(s)

\* ai-engine/tests/test_persistence_handler.py:119: an ENTER reached by a hold
\* monitor recheck is still persisted.
RecheckEnterIsPersisted ==
    [][/\ worker.pc = "insert"
       /\ worker.recheck
       /\ worker.decision = "ENTER"
       => worker'.pc # "fail"]_vars
===========================================================================
