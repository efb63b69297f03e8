------------------------------ MODULE Decision ------------------------------
(***************************************************************************)
(* queue_worker.py and scoring_pipeline/: what process_one decides about   *)
(* one signal, from the market data it reads to the action it hands to the *)
(* arbitration.  Units are those of Scoring; a reward-to-risk ratio is in  *)
(* thousandths, an age in milliseconds, a price a natural number and 0     *)
(* where there is none.  The REST fallback of a tick and the retry of a    *)
(* chart, both off by default, are left out.                               *)
(***************************************************************************)
EXTENDS Sizing

CONSTANTS Fee, ZoneGate   \* of TpSl

Levels == INSTANCE TpSl
Ticks == INSTANCE Prices

-----------------------------------------------------------------------------
(* The market data a decision rests on. *)

Kinds == {"tick", "hoga", "strength"}
Unusable == {"cancel", "missing"}
FallbackAllowed(sig) == sig.age # None /\ sig.age <= 30000

\* _refresh_stale_ctx and _sanitize_unusable_scoring_inputs: the strength and the order book come
\* from REST, the tick and then the book from a recent signal; what stays unusable is dropped.
Refresh(sig, m) ==
    LET read == [k \in Kinds |-> [state |-> Freshness(m[k].age, k), age |-> m[k].age, source |-> "ws"]]
        bad(k) == read[k].state \in Unusable
        caution(source, age) == [state |-> "caution", age |-> age, source |-> source]
        fresh == [tick |-> IF bad("tick") /\ sig.cur > 0 /\ FallbackAllowed(sig)
                           THEN caution("signal", sig.age) ELSE read.tick,
                  strength |-> IF bad("strength") /\ m.restStr # None
                               THEN caution("rest", 0) ELSE read.strength,
                  hoga |-> IF ~bad("hoga") THEN read.hoga
                           ELSE IF m.restBid # None THEN caution("rest", 0)
                           ELSE IF sig.bid # None /\ FallbackAllowed(sig)
                           THEN caution("signal", sig.age) ELSE read.hoga]
        dead(k) == fresh[k].state \in Unusable
    IN [fresh |-> fresh,
        tickStr |-> IF dead("tick") THEN 0 ELSE m.tick.str,
        flu |-> IF dead("tick") THEN 0 ELSE IF bad("tick") THEN sig.flu ELSE m.tick.flu,
        str |-> IF dead("strength") THEN 0 ELSE IF bad("strength") THEN m.restStr ELSE m.strength.avg,
        bid |-> CASE fresh.hoga.source = "rest" -> m.restBid
                  [] fresh.hoga.source = "signal" -> sig.bid
                  [] OTHER -> IF dead("hoga") THEN None ELSE m.hoga.bid,
        book |-> IF bad("hoga") THEN 100 ELSE m.hoga.bid]

Usable(c, kind) == c.fresh[kind].state \notin Unusable

ExecutionStrength(sig, c) ==
    IF Usable(c, "strength") /\ c.str > 0 THEN c.str
    ELSE IF Usable(c, "tick") /\ c.tickStr > 0 THEN c.tickStr
    ELSE IF FallbackAllowed(sig) THEN sig.str ELSE 0

BidRatio(sig, c) ==
    IF Usable(c, "hoga") THEN c.bid ELSE IF FallbackAllowed(sig) THEN sig.bid ELSE None

-----------------------------------------------------------------------------
(* The score and the quality of a signal. *)

Sign(x) == If(x > 0, 1) - If(x < 0, 1)
Within(x, most) == Max({-most, Min({x, most})})

\* (mutant) A strong execution counts against the signal.
PressureContrarian(strength) == IF strength > 120 THEN -400 ELSE IF strength > 100 THEN 150 ELSE 400

Pressure(strength) == IF strength > 120 THEN 400 ELSE IF strength > 100 THEN 150 ELSE -400

Adjustment(sig, c) ==
    LET strength == ExecutionStrength(sig, c)
        index == IF sig.ctx.market = "101" THEN sig.ctx.kosdaq ELSE sig.ctx.kospi
        relative == IF index = None THEN 0 ELSE Within((3 * (sig.flu - index)) \div 2, 400)
        turn == CASE sig.flow.turn = "up" -> 200 [] sig.flow.turn = "down" -> -200 [] OTHER -> 0
        flow == Within(300 * Sign(sig.flow.slope) + 200 * Sign(sig.flow.latest) + turn, 600)
    IN Within(Within((800 * (c.book - 100)) \div (c.book + 100), 400) + relative + Pressure(strength) + flow, 1500)

\* The reading rule_score has of the signal and of the refreshed market data.
ScoredReading(sig, c, m) ==
    LET strength == ExecutionStrength(sig, c)
        bid == BidRatio(sig, c)
        kept(value, kind, gone) == IF ~Usable(c, kind) /\ ~FallbackAllowed(sig) THEN gone ELSE value
    IN [sig.reading EXCEPT
          !.s = sig.s, !.ctx = sig.ctx, !.online = m.online, !.minute = m.minute, !.rr = Max({sig.rr, 0}),
          !.strength = strength, !.cntr = IF strength > 0 THEN strength ELSE kept(sig.str, "strength", 0),
          !.flu = c.flu, !.sigFlu = kept(sig.flu, "tick", 0), !.hoga = c.bid,
          !.sigBid = IF bid # None THEN bid ELSE kept(sig.bid, "hoga", None)]

Score(sig, c, m) == Clamp(RuleScore(ScoredReading(sig, c, m)) + Adjustment(sig, c), 10000)

Quality(sig, c, score) ==
    LET bid == BidRatio(sig, c)
        bidPoints == IF bid = None \/ c.fresh.hoga.state # "fresh" THEN 0
                     ELSE AtLeast(bid, <<<<200, 1000>>, <<150, 800>>, <<120, 500>>, <<100, 200>>>>)
        rrPoints == IF sig.rr = None THEN 300
                    ELSE IF sig.rr < 800 THEN -1200 ELSE IF sig.rr < 1200 THEN -400
                    ELSE IF sig.rr < 1500 THEN 600 ELSE 1000
        setup == AtLeast(sig.reading.vol, <<<<200, 500>>, <<120, 300>>>>)
                 + 150 * Min({sig.reading.cond, 4}) + If(sig.reading.rsi > 0, 200)
        cautions == Cardinality({k \in Kinds : c.fresh[k].state = "caution"})
        freshPoints == IF \E k \in Kinds : c.fresh[k].state = "cancel" THEN 0 ELSE 500 - 150 * cautions
        points == Clamp((45 * score) \div 100, 4500) + Clamp(25 * (ExecutionStrength(sig, c) - 80), 2000)
                  + bidPoints + rrPoints + setup + freshPoints
    IN 10 * ((Clamp(points, 10000) + 5) \div 10)

-----------------------------------------------------------------------------
(* The gates before Claude is asked. *)

RescueFloor == [S1 |-> 1000, S7 |-> 3500, S8 |-> 4500, S9 |-> 4000, S15 |-> 5000]
Rescued(sig, c, score, quality) ==
    LET strength == ExecutionStrength(sig, c)
        bid == BidRatio(sig, c)
        demand(rr, least, ratio) == sig.rr >= rr /\ strength >= least /\ bid # None /\ bid >= ratio
        structure == sig.reading.cloud <= 150 \/ sig.reading.flag \/ sig.reading.cond >= 2
    IN /\ sig.s \in DOMAIN RescueFloor
       /\ RescueFloor[sig.s] <= score
       /\ ~(bid # None /\ bid < 30)
       /\ IF sig.s = "S7"
          THEN sig.rr >= 1800 /\ strength >= 115 /\ sig.reading.vol >= 150 /\ structure
          ELSE \/ sig.s \in {"S8", "S9"} /\ sig.rr >= 1500 /\ strength >= 100
               \/ sig.s = "S1" /\ demand(1200, 140, 150)
               \/ sig.s = "S15" /\ demand(1300, 90, 150)
               \/ quality >= 7000 /\ sig.rr >= 1200

HardGates ==
    [S1 |-> [str |-> 110, bid |-> 130], S4 |-> [str |-> 115, bid |-> 120],
     S6 |-> [str |-> 120, bid |-> 120], S10 |-> [str |-> 115, bid |-> 120],
     S12 |-> [str |-> 120, bid |-> 150], S13 |-> [str |-> 115, bid |-> 130],
     S15 |-> [str |-> 100, bid |-> 110]]

\* A bull market takes twelve percent off; a low bid ratio alone may be forgiven to S1 and S15.
HardGate(sig, c, m) ==
    LET gate == HardGates[sig.s]
        share == IF Regime(sig.s, sig.ctx) = "bull" THEN 88 ELSE 100
        strength == ExecutionStrength(sig, c)
        bid == BidRatio(sig, c)
        strong == 100 * strength >= share * gate.str
        wanted == IF bid = None THEN sig.s \in {"S4", "S15"} ELSE 100 * bid >= share * gate.bid
        forgiven == /\ bid # None
                    /\ \/ /\ sig.s = "S1" /\ bid >= 60 /\ 80 * strength >= share * gate.str
                          /\ (sig.rr = None \/ sig.rr >= 1200)
                       \/ /\ sig.s = "S15" /\ bid >= 50
                          /\ (sig.rr = None \/ sig.rr >= 1500)
    IN IF sig.s \notin DOMAIN HardGates THEN "pass"
       ELSE IF sig.s = "S12" /\ ~(870 <= m.minute /\ m.minute < 910) THEN "fail"
       ELSE IF strong /\ wanted THEN "pass"
       ELSE IF strong /\ forgiven THEN "rescued" ELSE "fail"

\* The zone of support of S8: below it, or far above it without momentum, there is no entry.
ZonePolicy(sig, c, score, quality) ==
    LET zone == sig.reading.zone
        bid == BidRatio(sig, c)
        above(share) == 10000 * (sig.cur - zone.high) > share * zone.high
        momentum == /\ zone.strength >= 4 /\ zone.anchors >= 3
                    /\ (bid = None \/ bid >= 70)
                    /\ (above(800) => sig.rr >= 2200 /\ score >= 8200 /\ quality >= 7500)
                    /\ (sig.rr >= 1500 \/ score >= 7500 \/ quality >= 7000)
    IN IF sig.s # "S8" \/ sig.cur <= 0 \/ zone.low <= 0 \/ zone.high < zone.low THEN "none"
       ELSE IF sig.cur < zone.low \/ (sig.zoneRr # None /\ sig.zoneRr < 1500) THEN "no_entry"
       ELSE IF above(350) THEN IF momentum THEN "momentum_chase_size_down" ELSE "no_entry"
       ELSE IF above(150) THEN "limit_pullback" ELSE "current_or_limit"

FallbackQualityFails(sig, c, m) ==
    LET bid == BidRatio(sig, c)
    IN /\ sig.s = "S1" /\ sig.fallback
       /\ \/ ExecutionStrength(sig, c) < 130
          \/ bid = None \/ bid < 80
          \/ ~Usable(c, "tick") \/ ~Usable(c, "hoga")
          \/ ViFreshness(m.vi) = "cancel"

Strict == {"S1", "S2", "S4", "S10", "S12", "S13"}
StaleCancels(sig, c, m) ==
    \/ sig.s \in Strict /\ (c.fresh.tick.state = "missing" \/ \E k \in Kinds : c.fresh[k].state = "cancel")
    \/ sig.s = "S2" /\ ViFreshness(m.vi) = "cancel"

\* A ratio is compared with the gate of the strategy in the regime of the market.
RrTooLow(sig, rr) == rr # None /\ 100 * rr < BaseRrGate(sig.s) * RegimeRrShare(sig.s, Regime(sig.s, sig.ctx))

ProgramFlowFails(sig) == sig.s \in {"S5", "S13", "S16"} /\ ProgramDrops(sig.programs)

\* select_pre_ai_decision
BeforeAi(sig, c, m, score, quality) ==
    LET hard == HardGate(sig, c, m) = "fail" \/ Adjustment(sig, c) <= -1200
        zone == ZonePolicy(sig, c, score, quality) = "no_entry"
        fallback == FallbackQualityFails(sig, c, m)
        programs == ProgramFlowFails(sig)
        stale == StaleCancels(sig, c, m)
        policy == IF sig.s = "S1" THEN sig.policy ELSE "ENTER_CANDIDATE"
    IN IF ShouldSkipAi(score, sig.s) /\ ~Rescued(sig, c, score, quality)
       THEN IF quality >= 4500 /\ ~(zone \/ fallback \/ hard \/ programs \/ stale) THEN "HOLD" ELSE "CANCEL"
       ELSE IF RrTooLow(sig, sig.rr) THEN "HOLD"
       ELSE IF zone \/ fallback \/ policy = "CANCEL" \/ hard \/ programs \/ stale THEN "CANCEL"
       ELSE IF policy = "HOLD_RECHECK" THEN "HOLD" ELSE "AI"

\* evaluate_ai_decision: a sure HOLD of a high score is an ENTER.
AiAction(sig, ai) ==
    CASE ai.action = "limit" -> IF sig.recheck THEN "HOLD" ELSE "CANCEL"
      [] ai.action = "error" -> "CANCEL"
      [] ai.action = "HOLD" -> IF ai.sure /\ ai.score >= 8000 THEN "ENTER" ELSE "HOLD"
      [] OTHER -> ai.action

-----------------------------------------------------------------------------
(* The guards of an ENTER after Claude has answered. *)

LineageKnown(c) == FamilyRouting => \A k \in Kinds : c.fresh[k].age # None

\* Every reading a websocket's, fresh and no older than REST_ENTER_MAX_AGE_MS.
OnWebsocket(c) ==
    \A k \in Kinds : /\ c.fresh[k].source = "ws" /\ c.fresh[k].state = "fresh"
                     /\ c.fresh[k].age # None /\ c.fresh[k].age <= 3000

\* normalize_signal_prices, before the guards, moves the prices of the signal and those of Claude.
Priced(sig, ai) ==
    LET own == Ticks!Normalize([cur |-> sig.cur, tp1 |-> sig.tp1, tp2 |-> 0, sl |-> sig.sl])
        claude == Ticks!Normalize([cur |-> sig.cur, tp1 |-> ai.tp1, tp2 |-> ai.tp2, sl |-> ai.sl])
    IN [cur |-> own.cur, tp1 |-> own.tp1, sl |-> own.sl,
        ai |-> [tp1 |-> claude.tp1, tp2 |-> claude.tp2, sl |-> claude.sl]]

\* (mutant) Claude's prices are taken as they come.
PricesInOrderUnchecked(sig, p) == sig.s = "S1" => p.tp1 > p.cur /\ p.cur > p.sl

\* Claude gives both a target and a stop around the entry, or neither; S1 needs them.
PricesInOrder(sig, p) ==
    LET effective == [tp1 |-> IF p.ai.tp1 # 0 THEN p.ai.tp1 ELSE p.tp1,
                      sl |-> IF p.ai.sl # 0 THEN p.ai.sl ELSE p.sl]
        around(l) == l.tp1 > p.cur /\ p.cur > l.sl /\ l.sl > 0
    IN /\ sig.s = "S1" => p.cur > 0 /\ around(effective)
       /\ p.cur > 0 /\ (p.ai.tp1 # 0 \/ p.ai.sl # 0) => around(p.ai)
       /\ p.ai.tp2 # 0 /\ p.ai.tp1 # 0 => p.ai.tp2 >= p.ai.tp1

RepricedRr(sig, p) ==
    IF p.cur > 0 /\ p.ai.tp1 # 0 /\ p.ai.sl # 0
    THEN Levels!Rr(p.cur, p.ai.tp1, p.ai.sl, 1300).rr ELSE sig.rr

SessionsOf(s) ==
    CASE s = "S1" -> {"pre_market", "opening_auction", "main_market"}
      [] s = "S12" -> {"main_market", "closing_auction"}
      [] OTHER -> {"main_market"}
InSession(sig, m) == ~m.sessionGuard \/ sig.s = "S2" \/ m.session \in SessionsOf(sig.s)

Guarded(sig, c, m, p) ==
    LET repriced == p.cur > 0 /\ p.ai.tp1 # 0 /\ p.ai.sl # 0
    IN /\ LineageKnown(c) /\ OnWebsocket(c) /\ PricesInOrder(sig, p)
       /\ (repriced => ~RrTooLow(sig, RepricedRr(sig, p)))
       /\ InSession(sig, m)

FreshnessDecision(s, c) ==
    LET state(k) == c.fresh[k].state
        cautious == state("tick") = "caution" \/ state("hoga") = "caution"
    IN CASE s \in Strict -> IF state("tick") = "cancel" \/ state("hoga") = "cancel" THEN "CANCEL"
                            ELSE IF cautious \/ state("tick") = "missing" \/ state("hoga") = "missing"
                            THEN "CAUTION" ELSE "PASS"
         [] s \in {"S3", "S5", "S11"} -> IF state("tick") = "cancel" THEN "SHADOW"
                                         ELSE IF state("hoga") = "cancel" THEN "SIZE_DOWN"
                                         ELSE IF cautious THEN "CAUTION" ELSE "PASS"
         [] OTHER -> IF state("tick") = "cancel" THEN "SHADOW"
                     ELSE IF cautious \/ state("hoga") = "cancel" \/ state("strength") = "cancel"
                     THEN "CAUTION" ELSE "PASS"

\* What is missing, and how stale the rest is, as points of a hundred.
DataQuality(sig, c) ==
    LET lost == 30 * (If(sig.cur = 0, 1) + If(sig.rr = None, 1))
                + 10 * (If(ExecutionStrength(sig, c) = 0, 1) + If(c.bid = None, 1)
                        + If(~Usable(c, "tick"), 1) + If(sig.reading.rsi = 0, 1)
                        + If(sig.s \in {"S3", "S5", "S11"} /\ sig.reading.amount = 0, 1))
        stale == CASE FreshnessDecision(sig.s, c) = "CANCEL" -> 40
                   [] FreshnessDecision(sig.s, c) = "SHADOW" -> 20
                   [] FreshnessDecision(sig.s, c) = "SIZE_DOWN" -> 10
                   [] FreshnessDecision(sig.s, c) = "CAUTION" -> 5
                   [] OTHER -> 0
    IN Clamp(100 - lost - stale, 100)

-----------------------------------------------------------------------------
(* process_one *)

\* calculate_entry_size reads what no producer of signals sets: those fields have their defaults.
EntryTier(sig, c, score, aiScore, rescued, quality) ==
    Tier([s |-> sig.s, execution |-> sig.execution, candidate |-> "C", chase |-> sig.chase,
          regime |-> "neutral", aiScore |-> aiScore, ruleScore |-> score, amount |-> None,
          spread |-> sig.spread, stop |-> 300, quality |-> 50, strategies |-> 1, heat |-> 50,
          atr |-> IF sig.s \in {"S14", "S15"} THEN sig.reading.atr ELSE None, rescued |-> rescued,
          stale |-> FreshnessDecision(sig.s, c) \in {"SHADOW", "CANCEL"},
          policy |-> ZonePolicy(sig, c, score, quality), rr |-> IF sig.rr = None THEN 1000 ELSE sig.rr])

Graded(sig, c, m, score) ==
    LET quality == Quality(sig, c, score)
    IN [score |-> score, quality |-> quality, before |-> BeforeAi(sig, c, m, score, quality),
        rescued |-> \/ ShouldSkipAi(score, sig.s) /\ Rescued(sig, c, score, quality)
                    \/ HardGate(sig, c, m) = "rescued"]

Finished(sig, c, m, ai, graded, p) ==
    LET answered == IF graded.before = "AI" THEN AiAction(sig, ai) ELSE graded.before
        action == IF answered = "ENTER" /\ ~Guarded(sig, c, m, p) THEN "CANCEL" ELSE answered
        aiScore == IF graded.before = "AI" THEN ai.score ELSE graded.score
    IN [action |-> action, score |-> graded.score, quality |-> graded.quality, rescued |-> graded.rescued,
        tier |-> EntryTier(sig, c, graded.score, aiScore, graded.rescued, graded.quality),
        policy |-> ZonePolicy(sig, c, graded.score, graded.quality), p |-> p, fresh |-> c.fresh,
        freshness |-> FreshnessDecision(sig.s, c), dataQuality |-> DataQuality(sig, c),
        rr |-> IF action = "ENTER" THEN RepricedRr(sig, p) ELSE sig.rr]

\* Prices are Claude's only where Claude answered.
Answered(sig, c, m, ai, graded) ==
    Finished(sig, c, m, ai, graded,
             Priced(sig, IF graded.before = "AI" /\ ai.action \notin {"limit", "error"} THEN ai
                         ELSE [ai EXCEPT !.tp1 = 0, !.tp2 = 0, !.sl = 0]))

Decide(sig, m, ai) ==
    LET c == Refresh(sig, m) IN Answered(sig, c, m, ai, Graded(sig, c, m, Score(sig, c, m)))
=============================================================================
