-------------------------- MODULE SignalAdmission --------------------------
(***************************************************************************)
(* SignalService.java: the admission of the signals that the Java          *)
(* strategies find.  Several HTTP requests run at once.  Each takes a      *)
(* batch of signals through the same Redis keys and database in one        *)
(* transaction, while the engine confirms and closes positions.            *)
(***************************************************************************)
EXTENDS Integers, Sequences, FiniteSets

CONSTANTS Requests,      \* request threads of TradingController
          Stocks, Strategies,
          Batches,       \* the lists of signals the strategies return
          ThemeOf,       \* the theme of each stock, "" when it has none or no family is routed
          ConfigStored,  \* whether portfolio_config has its row: V5 and the start of Java see to it
          DedupTtl, StockCooldown, MaxDailySignals, MaxSignalsPerStrategy,
          MaxPositions, MaxThemePositions,
          CountBound,    \* bound: the daily count beyond which no request begins
          Horizon        \* bound: the instants of the day that are modelled

VARIABLES now, dedup, cooldown, dailyCount, positions, requests, pushed

vars == <<now, dedup, cooldown, dailyCount, positions, requests, pushed>>

Signals == [stock : Stocks, strategy : Strategies]
\* What the deployment and the strategies provide: a list without signals is no request.
Configured ==
    /\ IsFiniteSet(Requests) /\ ConfigStored \in BOOLEAN
    /\ Batches \subseteq Seq(Signals) \ {<<>>}
    /\ DedupTtl \in Nat /\ StockCooldown \in Nat
    /\ MaxDailySignals \in Nat /\ MaxSignalsPerStrategy \in Nat \ {0}

Idle == [pc |-> "idle", todo |-> <<>>, held |-> {}, at |-> 0, rows |-> {}]

Init ==
    /\ now = 0
    /\ dedup = [signal \in Signals |-> 0]
    /\ cooldown = [stock \in Stocks |-> 0]
    /\ dailyCount = 0
    /\ positions = {}
    /\ requests = [r \in Requests |-> Idle]
    /\ pushed = {}

\* The rows that count as active positions: executed, not merely signalled.
ActiveStocks == {p.stock : p \in {q \in positions : q.status = "ACTIVE"}}

Item(r) == Head(requests[r].todo)

\* processSignals takes the first signals of the list; one HTTP request each.
Begin(r, batch) ==
    /\ requests[r].pc = "idle" /\ dailyCount < CountBound
    /\ requests' = [requests EXCEPT ![r] =
           [pc |-> "dedup", held |-> ActiveStocks, at |-> now, rows |-> {},
            todo |-> SubSeq(batch, 1, IF Len(batch) < MaxSignalsPerStrategy
                                      THEN Len(batch) ELSE MaxSignalsPerStrategy)]]
    /\ UNCHANGED <<now, dedup, cooldown, dailyCount, positions, pushed>>

\* The request r with its item dealt with.
Advanced(r) ==
    [requests[r] EXCEPT !.todo = Tail(@), !.held = ActiveStocks,
                        !.pc = IF Len(requests[r].todo) > 1 THEN "dedup" ELSE "commit"]
At(r, pc) == [requests[r] EXCEPT !.pc = pc]

\* isSignalDuplicate: SETNX of signal:{stock}:{strategy}.
TakeDedup(r) ==
    /\ requests[r].pc = "dedup"
    /\ LET free == dedup[Item(r)] <= now
       IN  /\ dedup' = IF free THEN [dedup EXCEPT ![Item(r)] = now + DedupTtl] ELSE dedup
           /\ requests' = [requests EXCEPT ![r] = IF free THEN At(r, "cooldown") ELSE Advanced(r)]
    /\ UNCHANGED <<now, cooldown, dailyCount, positions, pushed>>

\* (mutant) The cooldown is kept per strategy, as the dedup key is.
TakeCooldownPerStrategy(r) ==
    /\ requests[r].pc = "cooldown"
    /\ cooldown' = [cooldown EXCEPT ![Item(r).stock] = now + StockCooldown]
    /\ requests' = [requests EXCEPT ![r] = [At(r, "count") EXCEPT !.at = now]]
    /\ UNCHANGED <<now, dedup, dailyCount, positions, pushed>>

\* tryAcquireStockCooldown: SETNX of signal:stock:{stock}, whatever the strategy.
TakeCooldown(r) ==
    /\ requests[r].pc = "cooldown"
    /\ LET stock == Item(r).stock
           free  == cooldown[stock] <= now
       IN  /\ cooldown' = IF free THEN [cooldown EXCEPT ![stock] = now + StockCooldown] ELSE cooldown
           /\ requests' = [requests EXCEPT
                  ![r] = IF free THEN [At(r, "count") EXCEPT !.at = now] ELSE Advanced(r)]
    /\ UNCHANGED <<now, dedup, dailyCount, positions, pushed>>

\* incrementDailySignalCount; what is refused stays counted.
CountDaily(r) ==
    /\ requests[r].pc = "count"
    /\ dailyCount' = dailyCount + 1
    /\ requests' = [requests EXCEPT
           ![r] = IF dailyCount + 1 > MaxDailySignals THEN Advanced(r) ELSE At(r, "positions")]
    /\ UNCHANGED <<now, dedup, cooldown, positions, pushed>>

\* The portfolio limits, over the committed rows.
RoomFor(stock) ==
    LET active == {p \in positions : p.status = "ACTIVE"}
    IN  /\ stock \notin ActiveStocks
        /\ Cardinality(active) < MaxPositions
        /\ ThemeOf[stock] = "" \/ Cardinality({p \in active : ThemeOf[p.stock] = ThemeOf[stock]})
                                      < MaxThemePositions

\* Without the row of its limits nothing of the portfolio is checked.
CheckPositions(r) ==
    /\ requests[r].pc = "positions"
    /\ requests' = [requests EXCEPT
           ![r] = IF ConfigStored => RoomFor(Item(r).stock) THEN At(r, "save") ELSE Advanced(r)]
    /\ UNCHANGED <<now, dedup, cooldown, dailyCount, positions, pushed>>

\* The row is saved without a position, and pushed before the transaction
\* commits.  A failed push is only logged.
Publish(r, delivered) ==
    /\ requests[r].pc = "save"
    /\ LET id  == Cardinality(pushed) + 1
           row == [id |-> id, stock |-> Item(r).stock, at |-> requests[r].at,
                   held |-> Item(r).stock \in requests[r].held, delivered |-> delivered]
       IN  /\ pushed' = pushed \cup {row}
           /\ requests' = [requests EXCEPT ![r] = [Advanced(r) EXCEPT !.rows = @ \cup {row}]]
    /\ UNCHANGED <<now, dedup, cooldown, dailyCount, positions>>

\* The save of a later signal fails: every row of the batch is rolled back,
\* while the keys stay taken and the earlier payloads stay in the queue.
Abort(r) ==
    /\ requests[r].pc = "save"
    /\ requests' = [requests EXCEPT ![r] = Idle]
    /\ UNCHANGED <<now, dedup, cooldown, dailyCount, positions, pushed>>

Commit(r) ==
    /\ requests[r].pc = "commit"
    /\ positions' = positions \cup {[id |-> row.id, stock |-> row.stock, status |-> "SENT"] :
                                       row \in requests[r].rows}
    /\ requests' = [requests EXCEPT ![r] = Idle]
    /\ UNCHANGED <<now, dedup, cooldown, dailyCount, pushed>>

-----------------------------------------------------------------------------
\* The engine confirms a delivered signal whose row it finds, and closes it later.
Confirm(p) ==
    /\ p \in positions /\ p.status = "SENT"
    /\ \E row \in pushed : row.id = p.id /\ row.delivered
    /\ positions' = (positions \ {p}) \cup {[p EXCEPT !.status = "ACTIVE"]}
    /\ UNCHANGED <<now, dedup, cooldown, dailyCount, requests, pushed>>

Close(p) ==
    /\ p \in positions /\ p.status = "ACTIVE"
    /\ positions' = positions \ {p}
    /\ requests' = [r \in Requests |-> [requests[r] EXCEPT !.held = @ \ {p.stock}]]
    /\ UNCHANGED <<now, dedup, cooldown, dailyCount, pushed>>

Tick ==
    /\ now < Horizon
    /\ now' = now + 1
    /\ UNCHANGED <<dedup, cooldown, dailyCount, positions, requests, pushed>>

Next ==
    \/ \E r \in Requests :
          \/ \E batch \in Batches : Begin(r, batch)
          \/ TakeDedup(r)
          \/ TakeCooldown(r)
          \/ CountDaily(r)
          \/ CheckPositions(r)
          \/ \E delivered \in BOOLEAN : Publish(r, delivered)
          \/ Abort(r)
          \/ Commit(r)
    \/ \E p \in positions : Confirm(p) \/ Close(p)
    \/ Tick

Spec == Init /\ [][Next]_vars

-----------------------------------------------------------------------------
\* The daily limit of processSignal: however the requests interleave and
\* whatever is refused or rolled back, no more than MaxDailySignals are pushed.
PublishedWithinDailyLimit == Cardinality(pushed) <= MaxDailySignals

\* The cooldown of a stock spans the strategies: two signals of one stock were
\* admitted at least a cooldown apart, even by two requests at once.
OneSignalPerCooldown ==
    \A a, b \in pushed :
        a.stock = b.stock /\ a.id < b.id => b.at - a.at \notin (1 - StockCooldown)..(StockCooldown - 1)

\* existsActivePosition: where the limits are stored, a stock that was held from the
\* moment its signal was taken up until it was pushed is never signalled again.
HeldStockIsRefused == ConfigStored => \A row \in pushed : ~row.held

\* The limits of SignalService hold for all requests together.
LimitsHold == PublishedWithinDailyLimit /\ OneSignalPerCooldown /\ HeldStockIsRefused
============================================================================
