# TLA+ models of stockmate-ai

stockmate-ai finds trading candidates on the Korean stock market, lets an AI
decide about them, and follows the positions that result. This directory holds
three kinds of models of it. The *core* models are of the places where its
processes meet: the path of a signal from the queue to an announced entry, the
life of the row that entry leaves in `trading_signals`, and the subscriptions
that bring the prices in. The *services* are the state machines around it, each
with what may interrupt it. The *evaluation* is the rules that compute a
decision from data, as operators over inputs. TLC checks all of them on small
instances, TLAPS proves the theorems of all three for every value of the
constants.

## The system

| part | state it keeps | operations | what must hold |
|---|---|---|---|
| candidate builder (`ai-engine/candidates_builder.py`) | Redis `candidates:*`, the watchlist | build the pools of a session, rank and merge them | a pool is as young as its build, and watched |
| strategy scanner (`strategy_runner.py`, `strategy_*.py`) | running scans, Redis `scanner:dedup:*` | dispatch by window, scan under a semaphore and a time-out, take the dedup key, push on `telegram_queue` | a candidate is queued once per window, the better one first |
| VI watch (`vi_watch_worker.py`), S16 (`s16_accumulation_state.py`) | `vi_watch_queue`, leases, days of observation, triggers | watch a release, observe and trigger | one watch per release, a trigger only after its days |
| Java `SignalService` | dedup, cooldown and daily-count keys, `trading_signals` | admit a batch, save and push in one transaction | limits hold for all requests together, a pushed payload has its row |
| queue worker (`queue_worker.py`, `scoring_pipeline/`) | `telegram_queue`, arbitration keys, `trading_signals`, `ai_scored_queue` | pop, score, decide, arbitrate, persist, route, fail | one ENTER per signal and per stock's lease, nothing answered twice |
| scores, brackets, sizes (`scorer.py`, `stockScore.py`, `tp_sl_engine.py`, `position_sizing.py`, ...) | none | formulas over market data | target and stop on their sides, monotone, fail closed on missing data |
| AI gateway (`ai_gateway.py`, `analyzer.py`) | block key and budget in Redis, `ai_api_usage` | call Claude, validate the answer, fall back to rules | no entry without an answer that asks for it, an audit row that tells what happened |
| hold monitor (`hold_monitor_worker.py`, `redis_reader.py`) | `hold_monitor_queue` (ZSET and HASH) | pop due items, re-evaluate, requeue, send back, release | every watched signal is answered |
| position writers (`db_writer.py`) | `trading_signals`, `trade_outcomes`, lock per row | confirm, cancel, close, mark TP1, raise the peak, record overnight | a position opens and closes once |
| position monitor (`position_monitor.py`, `position_reassessment.py`) | a snapshot per check | scan, check, ask Claude, close, publish SELL_SIGNAL | the stop is taken, a SELL follows a close |
| overnight worker (`overnight_worker.py`) | `overnight_eval_queue` | evaluate, record | only an open, filled position turns overnight |
| `SignalPerformanceScheduler` (Java) | Hibernate entities of one transaction | evaluate paper positions, expire unopened signals | its whole-row writes lose nobody's update |
| news briefs (`news_scheduler.py`) | the cached analysis | brief by slot or on demand, fall back to rules | a fallback never passes for an analysis |
| telegram bot (`handlers/signals.js`) | `ai_scored_queue` consumer, claims, limit per minute | poll, claim, defer, send | a notice arrives once |
| websocket listener (`ws_client.py`) | `ws:subscribed:*`, pending requests, `ws:*` keys | log in, subscribe by session and candidates, match answers, reconnect, store ticks | the broker streams what the session wants and Redis says so |
| REST clients (`http_utils.py`, `ma_utils.py`, `KiwoomRateLimiter`) | requests under way, pacing keys, cached candles | merge, space, retry, page, cache | the rate of the broker holds across processes, a caller gets what it asked for |
| Java collection, status, clean-up jobs; reports | their own tables and keys | periodic queries and writes | independent of the above |

The components share Redis and PostgreSQL and nothing else. Java pushes on
`telegram_queue` inside the transaction that inserts the row; the scanner pushes
without a row. The queue worker and the hold monitor are asyncio tasks of one
process, so they interleave at awaits. The queue worker writes the row
(`insert_python_signal`, `confirm_open_position`,
`cancel_open_position_by_signal`); from then on position monitor, overnight
worker and the Java scheduler write it. Python locks a row before it writes and
sets single columns; Java loads entities without a lock and writes all columns
when the transaction commits.

What is hard here: `RPOP` delivers at most once, so a crash loses what is in
hand; a failing call between two writes leaves half of them; leases lapse while
their holder works; a check of the position monitor acts on a row it read
seconds ago; a Java commit replaces what others wrote since its query; a
time-out cancels a scan at any await while others wait for the call it started;
one call is shared by callers that wanted different things of it; a limit is
counted by several requests before any of them is done. And in the rules: a
reading that is missing, zero, stale or a default, and tables whose edges do not
meet. PROJECT.json lists these hazards with their lines and the properties that
would notice them.

## Modules

### SignalPipeline, EntryReservation

`SignalPipeline` models the producers, `queue_worker.process_one`, the hold
monitor and the arbitration keys. An action is the code between two awaits:

| action | code |
|---|---|
| `ScanDedup`, `ScanPublish` | `strategy_runner._push_signals` |
| `JavaPush`, `JavaCommit` | `SignalService.processSignal`: push, then commit |
| `Pop`, `Decide` | `pop_telegram_queue`; rules, scorer and Claude, whose verdict is a choice among ENTER, WATCH, BLOCK |
| `ReserveFamily`, `ReserveStock` | `_apply_cross_strategy_arbitration` |
| `Insert`, `Settle` | `persist_processed_signal`: `insert_python_signal`, then confirm or cancel |
| `RouteEnter`, `RouteWatch`, `RouteBlock`, `WatchNotice` | `publisher.route_execution_payload` |
| `Fail` | `handle_processing_failure` |
| `HoldPop`, `HoldNext`, `HoldRecheck`, `HoldRequeue`, `HoldRelease`, `HoldRemove` | `hold_monitor_worker` |
| `...KeyLapse`, `PositionStep`, `Crash` | expiry of the keys, the position's later life, a restart of the engine |

Payloads are reduced to the signal, whether it is a recheck, and its recheck
count. `Faults` lets every Redis and PostgreSQL call raise, carried out or not:
a key that was set although its answer was lost turns its own signal away (or
lets it pass, without family routing), and a batch that was popped although its
answer was lost is gone (`HoldPopFails`). `Resent` bounds the signals whose push
the client may send twice; only `pipeline_compat` has one. `Crashes` lets the
engine stop between any two steps, which loses the worker's item and the hold
monitor's batch and keeps Redis and PostgreSQL. `entered` counts the pushes of an
ENTER on `ai_scored_queue` that took effect.

`EntryReservation` is the abstract promise of arbitration: while a stock's
reservation exists, no signal but its holder has been let through. A reservation
that was made and not answered is the abstract `Forfeit`: its holder is not let
through either, and the stock stays reserved for nobody until the lease lapses.
`SignalPipeline` implements it with `holder <- stkKey, admitted <- window`,
where `window` is a history variable: the signals let through since the stock's
key was last free.

### PositionLifecycle, PositionLedger

`PositionLifecycle` starts with a row saved as SENT and has one action for each
writer's step: `Confirm` and `Cancel` (queue worker), `Scan`, `Check`,
`UpdatePeak`, `Judge`, `ClosePosition`, `MarkTp1`, `Publish` (position
monitor), `OvernightEvaluate`, `OvernightRecord`, and `LoadPaper`,
`LoadUnopened`, `CommitJob` (Java). `Check` reads the tick and finds the first
trigger of `Order` that `Fires`; what needs the clock or indicators (time stop,
trend reversal) is a free choice. Between `Check` and the write everything else
may happen, as in the code.

Two constants deserve a word. `QuantityLoaded` is FALSE in the code:
`_load_signal_for_update` does not select `entry_qty`, which
`_is_monitorable_position` reads, so every locked write of the monitor is
refused (`find_stop`). With it TRUE the monitor's writes are let through, as the
code's own tests assume: the passing runs use that to ask whether the writers are
safe together, which the refusal would hide. Progress is asked only of what does
not depend on it: `PaperStopIsTaken`, of the positions that Java owns. `MayFill` says whether
execution evidence (`executed_at`, `entry_qty`) is ever recorded; nothing in
the repository does it, so `Fill` is external. `Overlap` says whether a fill or
a confirmation may be committed between the query and the commit of a Java job.

`PositionLedger` is what a reader of `trading_signals` and of the channel
expects: a row is opened once or dropped, takes at most one partial profit, is
closed once, and is announced as sold at most once and only when closed.

### WsSubscriptions

`WsSubscriptions` models the protocol between the websocket listener and the
broker. An action is the code between two awaits:

| action | code |
|---|---|
| `Login`, `Drop` | `run_ws_loop`: a LOGIN that succeeded clears the tracking (`_reset_local_subscription_sets`, where a delete that raises leaves the items of its type: `Reset`); a connection that ends cancels its tasks |
| `WakePhase`, `WakeWatchlist` | the timers of `_phase_watcher` and `_watchlist_poller` |
| `Compare`, `Send`, `Finish` | `_subscribe_by_phase`: type by type, `_send_ws_control` under its lock, and what the caller notes at the end |
| `HandleAck`, `AddItems`, `RemoveItem` | `_apply_ws_control_ack`: pop and delete, then the add of `_replace_subscription_set`, or one `_remove_subscription_code` per item |
| `Expire` | `_expire_pending_ws_controls` |
| `Serve` | external: the broker answers in order and refuses what exceeds the account |
| `Tick`, `Rerank` | the clock, and the candidate keys `_get_ranked_candidates` reads |

`Wanted` is `_groups_for_session`, with its three limits as constants. The
legacy groups 6 to 9 are left out: their wanted set is empty and nothing is
registered in them. So is `ws:desired`, which is only written. The answer that
is being written is `recording`: between the delete and the add of a set both
tasks may read it. A send that raises is a `Drop`. The broker refuses for one reason, the limit.
`lost` counts what goes wrong on a connection: Redis calls that raise, answers
that never come, requests that expire. `Day` lists sessions of one day, because
a quiet night separates two.

### The services

Each of these modules has one action per await (or per Redis or PostgreSQL call,
where a failure between two of them matters). Time is a small counter; a lease
is the moment it lapses.

| module | code | what may come in between |
|---|---|---|
| `SignalAdmission` | `SignalService.processSignal`: dedup, cooldown, count, positions (where limits are stored), save, push | another request at any check, a confirmation or close by the engine |
| `ViWatch` | `redis_writer.write_vi`, `vi_watch_worker` (S2 itself refuses every release) | a new release, lapsing leases, a lost answer, the end of the window |
| `Accumulation` | `s16_accumulation_state`, the scan of S16 | the time-out of the scan between any two writes, the next day |
| `ScanCycle` | `strategy_runner`: cycle, semaphore, time-outs, the token of the cycle | the clock at any point, refreshed tokens, cycles turned away without a token or by the session filter |
| `CandidatePools` (over `CandidateRanking`) | the task of `candidates_builder`, session by session, and what the listener reads of it | failing builds, pools a refresh cannot read, a list it cannot write, `/score` adding to the watchlist |
| `RestCalls` | `coalesce_request`, local and Redis pacing, retries of `http_utils`; `KiwoomRateLimiter` | cancellation of one of several waiters, Redis down and up, calls of Java |
| `CandleStore` | daily and minute candles of `ma_utils`, their cache and their shared fetch | another caller with another length, a failing page, midnight, the time a fetch takes |
| `AiGateway` | `create_message`, its block and budget, and the advice of `analyzer` | the caller's time-out at each await, a limit error of another call |
| `NewsDesk` | the briefs of `news_scheduler` over one cached analysis | two briefs at once, lapse of the cache, no news, an AI that does not answer |
| `Notifier` | `handlers/signals.js`: poll, claim, limit, defer, send; the Java overnight warning | a crash of the bot, a failing chat, lapsing claims, a claim sent twice, a release that fails |

`Services` composes them, each with constants and variables of its own, and lets
a behaviour be a behaviour of one: `part` says which, and the variables of the
others stay 0. `MCServices` gives the constants their values. They share no
variable in the code either, except through queues that the core models; what
one of them hands to the core is a candidate, a tick or a verdict, which the core
takes as a choice. So the services are one run without being one product.

### The evaluation

These modules have constant-level operators only, named after the functions of
the code, in fixed point (each header gives the unit). A float is kept exact
where the code compares it, and `None` is a value of its own where the code tells
it from zero.

| module | code |
|---|---|
| `Scoring`, `S16Metrics` | `scorer.rule_score` with its tables, the metrics of S16 |
| `StockScore` | `stockScore.py`: the sixteen checks of `/score` and its answer |
| `TpSl`, `Zones` | `calc_tp_sl` of every strategy, its policy, and the zones of `box_zone_engine` |
| `ChartPatterns` | crosses, breakouts and clouds of `ma_utils` and `indicator_ichimoku`, the volume profile |
| `Scans`, `ExecutionQuality` | what fourteen strategies ask of a candidate and how they score it; the book behind an entry and the mode of S1 |
| `CandidateRanking` | what each pool takes from a ranking |
| `MarketData`, `Decision`, `Sizing`, `Prices` | `process_one` from the ages of its readings to the action, size and ticks |
| `AiContract` | from the JSON of Claude to the action, in live family routing |
| `PositionRules` | trailing stop, reversal and overnight verdict of an open position |

`Evaluation` has two states per behaviour: an input is chosen, then evaluated.
Where a property compares two evaluations, the input is a pair that differs in
one reading, by an amount that is part of the input. `MCEvaluation` gives the
inputs of the run. What an input must be is assumed by name (`AnswersAreRead`,
`TrailsAreRead`, `OvernightsAreRead`, `DecisionsAreRead`, `ReadingsAreRaised`,
`QualitiesAreRead`, `GapsAreRead`, `DaysAreRead`, `StocksAreRead`,
`PoolsAreRead`, `RanksAreRead`, `NoneIsApart`): the fields, their units and
widths, and in what the two of a pair differ. TLC evaluates these assumptions on every input of the run.

## Runs

| run | instance | shows |
|---|---|---|
| `pipeline_faults` | a Java and a Python candidate of one stock, family routing, faults, crashes, one recheck | `TypeOK`; the pipeline implements `EntryReservation`, lost answers of the reservations included |
| `pipeline_compat` | two Python candidates, family routing off, faults, crashes, one push sent twice | `PythonEnterIsBacked`, `AtMostOneEnter`, `OpenPositionIsNeverCancelled` |
| `pipeline_live` | a Java and a Python candidate, two rechecks, no faults | `WatchedIsFlat`, and under fairness `EverySignalIsAnswered` |
| `lifecycle_ledger` | two positions, two prices, faults, no overlap | the writers implement `PositionLedger` |
| `lifecycle_live` | one position, five prices, every overlap, a reassessed trailing distance, no faults | `TypeOK`, `ClosedOnce`, `RowsAgree`, and under fairness `PaperStopIsTaken` |
| `subscriptions` | two stocks, an account of four items, in two scenarios: a day of three sessions with one loss per connection, and one session with changing candidates and both subscribing tasks | `TypeOK`, `AckedMatchesServer`, `PlanFits`, and under fairness `Converges` |
| `services` | the ten services, one at a time | the table below |
| `evaluation` | some 340,000 inputs | the table below |
| `find_recheck` | three candidates of one stock | an ENTER reached by a recheck of a Python signal is not persisted |
| `find_stop` | one position, the code's `QuantityLoaded` | a filled position below its stop is never closed |
| `find_expired` | one position | the end-of-day expiry overwrites a confirmation |
| `find_alert` | one notice | the warning of 08:30 is scored like a signal and thrown away |

A property of `services` and of `evaluation` is a conjunction of named parts,
each defined and explained where its module defines it; its mutant in
PROJECT.json breaks one of them.

| `services` | parts |
|---|---|
| `LimitsHold` | `PublishedWithinDailyLimit`, `OneSignalPerCooldown`, `HeldStockIsRefused` |
| `WatchesHold` | `OneWatchPerRelease` |
| `TriggersHold` | `HandedAfterObservation`, `TriggersAreSpaced` |
| `NoticesHold` | `SentOncePerLease`, `DuplicateWasSent`, `BurstBounded` |
| `GrantsAreSpaced` | calls of both processes are an interval apart while Redis answers |
| `CancelledAlone` | a scan ends cancelled only by its own time-out |
| `BriefsHold` | `CachedForItsSlot`, `FreshIsFresh`, `UnmarkedIsTheAis` |
| `PoolsHold` | `PoolsAreYoung`, `PooledIsWatched`, `PooledIsListed` |
| `CycleHolds` | `NoLateEntries`, `CloseIsScanned` |
| `AdviceWasGiven` | an entry or exit rests on an answer that asks for it |
| `RecordsHold` | `BlockStopsTheRest`, `AuditTellsOutcome` |
| `CandlesHold` | `EnoughIfThere`, `CandlesAreYoung`, `NoMinuteTwice` |

| `evaluation` | parts |
|---|---|
| `BracketsHold` | `BracketHolds`, `TrailWithinTarget`, `StopWithinPolicy`, `ProfileKeepsBracket`, `BracketSurvivesTicks` |
| `ZonesHold` | `ZonesSurroundPrice`, `StopIsUnderSupports` |
| `ScoreIsMonotone` | `StrongerNeverLowers`, `OverheatedNeverGains` |
| `StockAnswersHold` | `EnterIsFresh`, `ProgramSellersHoldBack`, `TriggeredPassesRule` |
| `EnterIsEarned` | `EnterRestsOnWebsocket`, `EnterBeatsItsGate`, `SizesStaySmall` |
| `RiskNeverPays` | `StrongerKeepsEnter`, `RiskierNeverLarger` |
| `AnswerIsBound` | `EnterIsForThisSignal`, `WeakerAnswerNeverEnters` |
| `DeclineNeverHolds` | `FallNeverWidens`, `TightenedIsTighter`, `SilenceIsNoReversal`, `FallIsNotHeld` |
| `PoolsAreQualified` | `PoolIsQualified`, `RejectedNeverOutranks` |
| `PatternsHold` | `CrossStaysRecent`, `BreakoutsClimb`, `CloudIsPast` |
| `WorseNeverBolder` | `WorseBookNeverBetter`, `WeakerGapNeverBolder` |
| `StrongerStaysPassed` | what a strategy lets pass it lets pass with a stronger reading, where its source is the same |

Bounds. Two candidates of one stock are enough for a rivalry over each lease;
the third of the `find_` runs gives the family key a second strategy. A recheck
may itself end in WATCH, so one recheck shows a payload that was held twice and
two show the budget running out. The prices of the lifecycle runs lie on both
sides of the stop, the activation, a trailing threshold and both targets; one
position shows every race between writers, a second one shows a scan and a Java
transaction that carry several rows. An account of
four items has room for one stock of each type a session streams, so that every
change of session or candidates replaces all of them. The bound on requests
under way delays a send and loses none; two let answers of both kinds overlap.
`Moves` lets the candidates change once and back, so that a code leaves and
returns while answers of both changes are under way.
The services have two of whatever competes (requests, scans, callers, briefs,
chats), limits of one or two, and horizons in which the leases lapse, but for the
two hours `/score` gives the watchlist. The `AiGateway` of the run has one limited
kind of call and the exit advice; `/score`, whose time-out may also fall on the
marking, is left to the theorem, which holds for any kinds. `ViWatch` has two prices, one written
with a minus sign. `CandidatePools` builds three of the pools
(S1, S4 and S12: one per session that builds) from three stocks, of which the
listener reads two. `ScanCycle` counts units of five minutes from 13:00, with
the windows, time-outs and semaphore of all fourteen strategies; its instance
runs from 14:00, the last cycle that can begin with the windows of the day still
open, to the close of the evening (the window of S6 ended at 13:00 and is
never open in it), and one cycle may be held up or turned away. The others count in whatever unit their shortest lease allows. The two
competitors of `MCServices` are interchangeable and it checks invariants only,
so `Twins` is a sound symmetry. An input of the evaluation takes values on both
sides of the bounds of the tables it meets, and is missing where the code allows
it. No state constraint is used. Only the runs of the listener check for
deadlock, since the listener never stops: a signal that is answered, a position
that is closed, an instance at its horizon and an input that is evaluated are
ends of their behaviours.

Fairness. `SignalPipeline` assumes weak fairness of the two workers and of the
push that follows a taken dedup key: both loops run for ever and each await
returns. Producers, lapses, crashes and positions are not fair.
`PositionLifecycle` assumes it of the monitor's scan and of each check's steps
(`run_position_monitor` loops for ever) and of the Java jobs (Spring's
scheduler). Fills, prices and the overnight worker are not fair.
`WsSubscriptions` assumes it of the timers, of each step of the subscribing
tasks, of the broker and of the receive loop; logins, drops, expiries, the clock
and the candidates are not fair, and `Converges` speaks of behaviours in which
they leave the connection alone in the end and no comparison falls between the
delete and the add of an answer any more: the refreshes are a minute and more
apart, the gap is one call of Redis.

## Proofs

| theorem | module | assumption |
|---|---|---|
| `TypeCorrect` | SignalPipeline_proofs | |
| `PipelineImplementsLease` | SignalPipeline_proofs | family routing on, or no faults |
| `PythonEnterIsBackedAlways` | SignalPipeline_proofs | |
| `AtMostOneEnterAlways` | SignalPipeline_proofs | |
| `OpenPositionIsNeverCancelledEver` | SignalPipeline_proofs | |
| `WatchedIsFlatWithoutFaults` | SignalPipeline_proofs | no faults |
| `TypeCorrect` | PositionLifecycle_proofs | |
| `RowsAgreeAlways` | PositionLifecycle_proofs | |
| `ClosedOnceAlways` | PositionLifecycle_proofs | |
| `LifecycleImplementsLedger` | PositionLifecycle_proofs | no overlap |
| `TypeCorrect` | WsSubscriptions_proofs | |
| `PlanAlwaysFits` | WsSubscriptions_proofs | |
| `AckedMatchesServerAlways` | WsSubscriptions_proofs | |
| `LimitsAlwaysHold` | Services_proofs, from SignalAdmission_proofs | `Configured` |
| `NoticesAlwaysHold` | Services_proofs, from Notifier_proofs | `Configured` |
| `CandlesAlwaysHold` | Services_proofs, from CandleStore_proofs | `Configured` |
| `AdviceWasAlwaysGiven` | Services_proofs (AiGateway) | `Configured` |
| `RecordsAlwaysHold` | Services_proofs (AiGateway) | `Configured` |
| `GrantsAlwaysSpaced` | Services_proofs (RestCalls) | `Configured` |
| `CancelledAloneAlways` | Services_proofs (RestCalls) | `Configured` |
| `WatchesAlwaysHold` | Services_proofs (ViWatch) | `Configured` |
| `TriggersAlwaysHold` | Services_proofs (Accumulation) | `Configured` |
| `BriefsAlwaysHold` | Services_proofs (NewsDesk) | `Configured` |
| `PoolsAlwaysHold` | Services_proofs (CandidatePools) | `Configured` |
| `CycleAlwaysHolds` | Services_proofs (ScanCycle) | `Configured` |
| `AnswerAlwaysBound` | Evaluation_proofs | `AnswersAreRead`, `NoneIsApart` |
| `DeclineNeverHeld` | Evaluation_proofs | `TrailsAreRead`, `OvernightsAreRead` |
| `EnterAlwaysEarned` | Evaluation_proofs | `DecisionsAreRead` |
| `ScoreAlwaysMonotone` | Evaluation_proofs | `ReadingsAreRaised` |
| `WorseWasNeverBolder` | Evaluation_proofs | `QualitiesAreRead`, `GapsAreRead`, `NoneIsApart` |
| `PatternsAlwaysHold` | Evaluation_proofs | `DaysAreRead`, `NoneIsApart` |
| `PoolsAlwaysQualified` | Evaluation_proofs | `PoolsAreRead`, `RanksAreRead` |
| `StockAnswersAlwaysHold` | Evaluation_proofs | `StocksAreRead` |

Where the constants of a service must be related, its module states that as
`Configured`: numbers are numbers, sets are finite, and, for example, the lease
of a release outlasts the watch that is queued under it (660 s and 600 s in the
code). `Services` assumes each by name, and the `services` run evaluates them on
its instance, so that none of them is a hypothesis nothing satisfies. A theorem
about the services is one of the composition: the part that is chosen begins and
goes on as its own module says (`ChosenBegins`, `ChosenGoesOn`), so its
inductive invariant holds, and of the other parts nothing is asked. Three of the
invariants are in modules of their own, next to the service they are about;
`Services_proofs` instantiates those and shows that a service is the same there
(`AdmissionIs` and the like).

`PipelineImplementsLease` rests on the invariant that `window` of a stock is
empty without its key and otherwise holds at most the key's owner (nobody when
the reservation was made and not answered); compatibility passes break it, hence
the assumption.

With faults, a payload may be duplicated: the hold monitor pushes it and, when
EXPIRE fails after LPUSH, requeues it too. What stops a second ENTER of a Python
signal then is the row itself (`RowInv`): once its row exists, `Insert` fails, so
the worker settles and routes a signal only between inserting its row and leaving
it. Without faults, the argument counts tokens (`TokenInv`): a signal has at most
one live payload, in the queue, in the worker's hand, in the hold queue or with
the hold monitor, and it has none once it was announced or its position opened.
`AtMostOneEnter` alone is not inductive, since nothing in it excludes a second
payload; `TokenInv` is what each action keeps.

The three theorems about rows share one invariant. `RowsAgree` is not inductive:
a Java commit puts back an entity it loaded earlier, so the entities need the
same shape as the rows (`Shape`, `JobInv`); and a cancellation or confirmation
finds a row that was never opened only because the decision is taken once
(`RowInv`). `ClosedOnce` holds with overlaps because a row the monitor closed
never becomes filled and open again (`CloseInv`): what a job writes back either
carries no fill or is not open. The ledger needs more, and only without overlaps:
what a job has loaded is still in the table when it commits (`ApartInv`), since
the monitor writes filled rows and the job open unfilled ones, and what was
closed stays so until it is announced (`SoldInv`).

`PlanAlwaysFits` is arithmetic: the shares of the types, computed from three
independent limits, never sum to more than `Total`, and a prefix of a list has no
more members than its length.

`AckedMatchesServer` compares what the listener believes with what the broker
serves when nothing is under way, and is far from inductive: it says nothing of
the moments in between. `AckInv` says it of every moment. The answers on their
way back followed by the requests on their way out are one flow; the entries of
`pending[k]` are its requests of kind k, in its order, wherever those of the
other kind stand (`InOrder`); and the broker's sets are what the listener will
believe once it has applied the answers that are on their way. While an answer is
being written its set is neither the old nor the new one, so the invariant speaks
of what the sets will be when it is done (`Settled`).

The services, each with the strengthening that its property needs:

- SignalAdmission: a request that was counted has a place below the daily limit
  until it publishes or gives up (`CountInv`: those published and those counted
  together); the cooldown key outlasts the last claim, whether it was published
  or is still being decided, so two claims lie a cooldown apart (`CooldownInv`);
  what a request noted as held is held still (`HeldInv`, where the limits are
  stored: without them nothing is noted).
- Notifier: keyed notices leave in the order in which they were produced
  (`OrderInv`), hence whatever was sent is no longer queued; a claim that was
  used stands or its lease is over, and whoever claims the event next does so
  after that (`LeaseInv`); a claim belongs to what is in hand, was sent, or is
  an orphan: its bot stopped, its release failed, or the client sent it twice
  (`ClaimInv`). A burst spans two windows, so `BurstInv` speaks
  of the window under way and of the one before: those of the latter are at most
  a window's worth, all others came a minute before this window began.
- CandleStore: a task's pages were read since it began, and are distinct
  (`Fetched`); what is cached lasts for its life from when it was stored, and was
  first read no longer before that than its fetch took (`Kept`).
- AiGateway: where a call is tells what was answered and which rows it has
  written (`Heard`, `Unwritten`, `Closed`). `BlockStopsTheRest` counts the calls
  that still meet the limit during a block: each had looked before the block was
  stored, so those counted and those that may yet come are together fewer than
  the workers (`HitsInv`).
- RestCalls: the key of a TR outlives the last call by the interval, whoever took
  it (`LockInv`). No task is ever cancelled, by its type.
- ViWatch: a key outlasts the watch that was queued under it (`LeaseHeld`), so a
  release of the same key finds no watch that lasts (`NoRivals`).
- Accumulation: a trigger is followed through the code that found it, the queue
  and the scanner (`Found`): it came after days of observation, under a key as
  late as itself (`FoundInv`, `KeyInv`), and two of a stock and a day lie a lease
  apart (`SpacedInv`).
- NewsDesk: whatever the rules wrote is marked before it meets the cache, so the
  cache holds the AI's own analyses only (`WorkHeld`, `CacheHeld`), and what is
  told of news that were analysed is marked or the AI's (`ToldHeld`).
- CandidatePools: a pool is a list that was built by now and ends with its life,
  whatever rewrote it since, and the set and the list of the listener each
  remember the pools their refresh could read. The ranking
  keeps every candidate of a list in exactly one place. That the builders answer
  with lists is part of `Configured`, so that nothing else is asked of them; TLC
  evaluates it, and `Evaluation_proofs` proves what the lists hold.
- ScanCycle: a cycle is measured from its beginning. When as many scans of the
  longest kind as fill k time-outs could have followed each other in a slot, the
  slots were filled k times by scans that began earlier, as long as anyone waits
  (`Waves`); so a cycle of at most w·`Slots` strategies is over after w time-outs
  (`OverBy`). `Configured` asks that of the timetable, not of the scans: a cycle
  that begins with a strategy of the day is over by `ForceClose`, and in the
  window of the close there is time for the cycle under way and one for each
  setback the bound allows: a token that comes, a cycle that is turned away. When
  there were more, `exhausted` says so and the close is not claimed. The code's numbers meet it: twelve strategies in three
  slots from 14:00 are over within four time-outs of 500 s, at 14:33, and from
  14:30 the six that remain by 14:40.

The evaluation has no steps to be inductive about: an input keeps its part and
its result is what the part computes of it (`Evaluated`). The proofs are about
the tables and rules themselves, for any input that meets the assumptions:

- Tables of points are taken row by row (`FirstRowCounts`): the points lie within
  a table's bounds and grow with the reading when its rows do. From that follow
  the bounds of the size (an ENTER needs more than the rules' points alone), the
  scores of the strategies compared for two readings, table by table, and the
  tests of the grade of execution, whose quotients are compared as the code
  rounds them. Sums over bars are assumed to be numbers, as the prover knows
  nothing of folds.
- An answer enters exactly if it is well formed and an ENTER that nothing blocks
  or a sure HOLD that may be promoted. The ladder of the trailing stop grows with
  the gain; the bias leaves a stop or tightens it; a stored distance stays within
  7 and 40 tenths.
- A window of closes shifted by a day is the same sequence, so today's crosses
  and clouds are compared with tomorrow's by naming the window; a breakout is
  above the greatest high of fifteen, which every finite window has.
- A pool is what `Kept` keeps of a ranking, a recursive function on positions. The
  prover has no induction over data, so what a prefix keeps is proved by the least
  prefix that keeps something else (`Least`, from the well-foundedness of <): each
  row is of the list and in the set, and a stock that is named once stays so. The
  points of a rank add up within a band per grade, and the bands do not meet.
- What `/score` answers is read off the tables again: the points a TRIGGERED
  accumulation has for certain reach the threshold of S16.

Only model-checked: the liveness properties, which rest on fairness, and of the
evaluation the brackets (`BracketsHold`), the zones (`ZonesHold`), the size under
risk (`RiskNeverPays`) and what fourteen strategies let pass
(`StrongerStaysPassed`): they rest on folds and sorting, of which the prover knows nothing, and on products of
prices and volumes.

## What the models say of the code

The four `find_` runs are disagreements with what the repository says of itself.
While modelling, these were met too. They are modelled as the code has them:

Admission, scanning and pools
- The mode PAUSE is stored and read by nothing that admits a signal.
- Without a stored configuration of the limits, `SignalService` skips every check
  of positions (`config == null`, :101); the limits it checks otherwise are
  exceeded by signals that are still in flight.
- A SET NX that Redis carried out but whose answer was lost blocks the ENTER it
  was for, and the stock stays reserved for nobody until the key lapses
  (`queue_worker.py:1653`).
- A cycle of the scanner that finds no token, or is refused by the session filter,
  scans nothing and says so in the log only; the close has one window.
- A manual run of a strategy passes the semaphore, the time-out and the token
  check by (`strategy_runner.py:721`).
- The pool of S4 begins with the stocks of strong execution, an order that the
  later ranking of the pools does not keep. S6 looks at the first theme only; the
  shadow record of S14 is promoted to LIVE like a signal; a trade strength that
  was not read is 100 in S11 and passes its gate.
- A failed build leaves the previous pool until it lapses, and a pool that a
  refresh cannot read is left off the watchlist without a word
  (`candidates_builder.py:1990`). `/score` adds to the SET of the watchlist
  (`TradingController.java:461`); the listener reads the ZSET that the builder
  ranks, and the SET only when that is empty (`ws_client.py:409`), so the quick
  subscription after `/score` that `ws_client.py:123` speaks of does not happen.
- S1, S10 and S13 sort what is only recorded (SHADOW) together with what may be
  entered and take five (`strategy_1_gap_opening.py:706`,
  `strategy_10_new_high.py:489`, `strategy_13_box_breakout.py:376`); S14 keeps
  them apart.
- S2 publishes nothing: it needs the volume at the interruption
  (`strategy_2_vi_pullback.py:251`), which only `handle_vi_event` would write, and
  nothing calls it. A release whose price is stored with a minus sign has two
  keys, one with and one without it, and is watched under both
  (`vi_watch_worker.py:166`).
- The docstring of S14 names other conditions than its code.

Scores, brackets and charts
- `/score` never answers S3, S5 or S12, whatever it is given: the points their
  callers can reach stay under the thresholds, while the docstring of
  `stockScore.py` (6-14) presents S12 as refused outside 14:30-15:10 only.
- S8, S9, S11 and S14 take the strength of the last tick as soon as it is above
  100, and the average of the latest ticks otherwise: a tick of 101 hides an
  average of 130. S1 asks more of a small gap (120 from 2.5 %) than of a larger
  one (115 from 3 %).
- A missing `buy_req` is a decay of the demand by 100 % in S1. A book without bids
  counts as neutral; a missing book costs ten points over night, which can turn a
  position that would be held into FORCE_CLOSE (`overnight_scorer.py:142-151`),
  and none in the reversal.
- S3, S5, S6, S8 and S9 drop closes of zero and misalign the other series.
- S5 caches an error of the broker as a refusal.
- The stop of a zone may lie above its lowest support when three or more supports
  chain. The volume profile replaces a net reward ratio by a gross one. A TRIM or
  CAUTIOUS reassessment starts from the stored trailing distance and not from the
  strategy's tier, so it widens the trailing stop of a day strategy.
- `_calc_first_low_break` speaks of the first three minutes of the day but takes
  the newest three bars (`execution_quality.py:139`, `:146`); S1, whose price is
  the close of the newest (`strategy_1_gap_opening.py:600`), can never see that
  low broken, and the cancellation that rests on it is out of reach.
- The forming bar is cached with the complete ones (`ma_utils.py:147`); a fetch of
  several pages of minutes may last longer than the fifteen seconds its result is
  cached for; daily paging has no defence against a page that repeats.

Subscriptions
- A comparison that falls between the delete and the add of an acknowledged set
  registers its items a second time. A reset at login that fails for a type leaves
  what the last connection had acknowledged, and nothing is registered for it.

AI and notices
- Without news, a brief is whatever the cache holds, under the name of another
  slot, and goes out as OK and as the AI's (`news_scheduler.py:516-552`,
  `:571-600`); a rule fallback that nothing replaced says `ai_used` too.
- The claim of a notice stays when its release fails (`signals.js:237`), or when
  the client sends the claim again after a lost answer: the notice is then skipped
  as a duplicate although it reached nobody.
- The block of the gateway and its counter fail open: without Redis every call is
  sent. A time-out leaves an audit row only if the row's own write is not cut.
- Data that block an entry may come back through the promotion of a HOLD.
- A signal without a price passes the guard that compares Claude's target and
  stop with the entry (`queue_worker.py:1741`), except in S1: when the price was
  dropped with its stale tick (`queue_worker.py:492`), there is nothing to compare
  them with.

## Not modelled

- The confirmation gate cannot be reached: nothing pushes to its queue. The Java
  position monitor is opt-in and off, and nothing fills `overnight_eval_queue`.
- The Java strategies, collection, status and clean-up jobs, reports and offline
  tools are queries and writes of their own tables.
- Requesting and parsing of data, moving averages and oscillators (inputs here),
  the text of prompts, of signals and of notices, the ad-hoc analyst, news
  collection.
- Of the websocket listener the storing of ticks, the pauses between
  reconnections and the heartbeat; of the hold monitor the release of every item
  at the close; the start and the orderly stop of the engine, whose end is a
  crash here; the refresh of tokens; manual runs and the other control endpoints.
- One of the two markets is modelled where the code repeats itself for both, and
  the services are not composed with each other.

What is next: lemmas about sorted sequences like the one about `Kept`, so that
the zones can be proved for every input; the brackets, strategy by strategy; what
`/score` does with stale sources when Claude is not asked; and the storing of
ticks, so that the ages `MarketData` reads come from a listener that may stall.
