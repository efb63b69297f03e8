----------------------------- MODULE StockScore -----------------------------
(***************************************************************************)
(* stockScore.py: /score of one stock.  A snapshot is collected, the       *)
(* sixteen strategies look at it, and what matches is scored, answered by  *)
(* Claude or not, and classified for manual review.  Units are those of    *)
(* Scoring; the target and the stop are left out, for nothing here reads   *)
(* them.                                                                   *)
(***************************************************************************)
EXTENDS S16Metrics

Sources == {"hoga", "tick", "strength", "vi"}

\* The rate of a snapshot without a tick is that of the last two closes.
SnapshotRate(tickRate, cur, prevClose) ==
    IF tickRate = 0 /\ prevClose > 0 /\ cur > 0
    THEN ((cur - prevClose) * 10000) \div prevClose ELSE tickRate

\* What the sources say of a stock: every one has its fallback.
Quoted(read) ==
    LET tick == IF read.tick = <<>> THEN [cur |-> 0, rate |-> 0, volume |-> 0, age |-> None]
                ELSE read.tick[1]
        cur == IF tick.cur # 0 THEN tick.cur ELSE read.lastClose
        volume == IF tick.volume # 0 THEN tick.volume ELSE read.lastVolume
        fresh == Freshness(tick.age, "tick")
    IN [cur |-> cur, hoga |-> read.hoga,
        flu |-> SnapshotRate(tick.rate, cur, read.prevClose),
        vol |-> IF read.volMa20 > 0 /\ volume > 0 THEN (100 * volume) \div read.volMa20 ELSE None,
        bid |-> IF read.hoga # None THEN read.hoga ELSE read.restHoga,
        str |-> IF read.strength = None THEN 100 ELSE read.strength,
        online |-> read.tick # <<>> /\ fresh # "cancel",
        cap |-> IF read.cap = None THEN 0 ELSE read.cap,
        fresh |-> [tick |-> fresh, hoga |-> Freshness(read.hogaAge, "hoga"),
                   strength |-> IF ~read.token THEN "unknown"
                                ELSE IF read.strength = None THEN "missing"
                                ELSE IF read.strengthFromWs THEN "fresh" ELSE "caution",
                   vi |-> Freshness(read.viAge, IF read.viActive THEN "vi_active"
                                                ELSE "vi_released")]]

\* The snapshot: what the sources say, and the rest of the chart.
CollectSnapshot(read) ==
    LET quoted == Quoted(read)
    IN [f \in DOMAIN quoted \cup DOMAIN read.chart |->
           IF f \in DOMAIN quoted THEN quoted[f] ELSE read.chart[f]]

-----------------------------------------------------------------------------
(* The checks: None, 0 or FALSE in a snapshot is what was not read. *)

In(x, least, most) == least <= x /\ x <= most
NoneOr(x, least) == x = None \/ x >= least
NoneOrAtMost(x, most) == x = None \/ x <= most
AlignedAverages(p) == p.ma60 > 0 /\ p.ma5 > p.ma20 /\ p.ma20 > p.ma60
Pullback(p, level) == ((p.cur - level) * 10000) \div level

\* The supply score with the strength of the day where the daily one is missing.
S16Of(p) ==
    LET known(x) == IF x = 0 THEN p.str ELSE x
        strength == [p.daily EXCEPT !.latest = known(@), !.avg5 = known(@)]
    IN Metrics([candles |-> p.candles, strength |-> p.str, bid |-> p.bid, cap |-> p.cap,
                value |-> p.value, supply |-> SupplyScore(strength, p.flow)])

IchimokuConfirmations(p) ==
    Cardinality({k \in 1..4 : <<p.cloud.chikou, p.vol >= 150, In(p.rsi, 45, 70), p.cloud.kijun>>[k]})

MatchesIntraday(p, s) ==
    CASE s = "S1" -> In(p.flu, 300, 1499) /\ p.str >= 110
      [] s = "S2" -> p.vi > 0 /\ p.cur > 0 /\ In(Pullback(p, p.vi), -300, -50)
      [] s = "S3" -> p.instFrgn /\ NoneOr(p.vol, 150)
      [] s = "S4" -> p.flu >= 300 /\ p.vol >= 300 /\ p.str >= 115 /\ NoneOr(p.bid, 120)
      [] s = "S5" -> p.instFrgn /\ p.str >= 120
      [] s = "S6" -> In(p.flu, 100, 499) /\ p.str >= 120

MatchesBreakout(p, s) ==
    CASE s = "S7" -> p.bars >= 78 /\ p.cloud.above /\ IchimokuConfirmations(p) >= 2
      [] s = "S8" -> /\ p.bars >= 25 /\ NoneOrAtMost(p.rsi, 75) /\ In(p.flu, 0, 1499)
                     /\ p.cross /\ NoneOr(p.vol, 130) /\ (p.ma60 > 0 => 100 * p.cur >= 95 * p.ma60)
      [] s = "S9" -> /\ AlignedAverages(p) /\ p.cur > 0
                     /\ In(Pullback(p, p.ma5), -300, 200) /\ NoneOrAtMost(p.rsi, 70)
      [] s = "S10" -> /\ p.bars >= 60 /\ p.high250 > 0 /\ 100 * p.cur >= 98 * p.high250
                      /\ p.flu >= 100 /\ p.str >= 115 /\ p.bid >= 120 /\ NoneOr(p.vol, 200)

MatchesFlow(p, s) ==
    CASE s = "S11" -> p.frgn3 /\ In(p.flu, 1, 1000) /\ p.str >= 100
      [] s = "S12" -> In(p.minute, 870, 909) /\ In(p.flu, 0, 300) /\ p.str >= 120 /\ p.bid >= 150
      [] s = "S13" -> /\ p.bars >= 20 /\ p.low20 > 0 /\ 100 * p.cur >= 99 * p.high20
                      /\ p.flu >= 50 /\ 100 * (p.high20 - p.low20) >= 3 * p.low20
                      /\ NoneOr(p.vol, 200) /\ (p.rsi = None \/ In(p.rsi, 45, 75))
      [] s = "S14" -> /\ p.rsi # None /\ p.rsi < 35 /\ p.flu >= 0
                      /\ (p.ma20 > 0 => In(Pullback(p, p.ma20), -1500, 1000))
      [] s = "S15" -> /\ In(p.rsi, 40, 65) /\ AlignedAverages(p) /\ p.flu >= 50 /\ p.str >= 100
                      /\ NoneOr(p.bid, 110) /\ NoneOr(p.vol, 150)

Matches(p, s) ==
    CASE s \in {"S1", "S2", "S3", "S4", "S5", "S6"} -> MatchesIntraday(p, s)
      [] s \in {"S7", "S8", "S9", "S10"} -> MatchesBreakout(p, s)
      [] s \in {"S11", "S12", "S13", "S14", "S15"} -> MatchesFlow(p, s)
      [] s = "S16" -> S16Of(p).state = "TRIGGERED"

-----------------------------------------------------------------------------
(* The signal a check returns: the fields the scorer reads. *)

SignalOf(p, s, s16) ==
    LET volume == IF p.vol = None THEN 0 ELSE p.vol
    IN [s |-> s, cur |-> p.cur, flu |-> p.flu, online |-> p.online, minute |-> p.minute,
        strength |-> p.str, cntr |-> p.str, hoga |-> p.hoga, local |-> None, cap |-> p.cap,
        sigBid |-> IF s = "S7" THEN None ELSE p.bid, sigFlu |-> IF s = "S3" THEN 0 ELSE p.flu,
        gap |-> IF s = "S1" THEN p.flu ELSE 99900,
        vol |-> IF s = "S6" THEN 0 ELSE volume,
        surge |-> IF p.vol = None THEN 0 ELSE volume - 100,
        rsi |-> IF p.rsi = None THEN 0 ELSE p.rsi,
        pullback |-> IF s = "S2" THEN Pullback(p, p.vi) ELSE 0,
        body |-> Min({90, p.flu \div 10 + 50}),
        flag |-> \/ s = "S2" /\ p.viDynamic
                 \/ s = "S4" /\ p.high250 > 0 /\ 100 * p.cur >= 99 * p.high250
                 \/ s = "S7" /\ p.cloud.chikou,
        cloud |-> p.cloud.thickness,
        days |-> CASE s = "S3" -> 1 [] s = "S11" -> 3 [] OTHER -> 0,
        cond |-> CASE s = "S7" -> IchimokuConfirmations(p)
                   [] s \in {"S8", "S9", "S13", "S15"} -> 3
                   [] s \in {"S10", "S14"} -> 2
                   [] s = "S16" -> 4
                   [] OTHER -> 0,
        second |-> FALSE, mode |-> "", conc |-> 0, gain |-> 0, atr |-> 0, rr |-> 0, raw |-> 0,
        amount |-> 0, market |-> "", value |-> 0, sector |-> 0,
        acc |-> s16.acc, supply |-> s16.supply, trigger |-> s16.trigger, risk |-> s16.risk,
        toss |-> [short |-> 0, margin |-> 0, severe |-> FALSE, caution |-> FALSE],
        zone |-> [low |-> 0, high |-> 0, strength |-> 0, anchors |-> 0],
        ctx |-> [kospi |-> None, kosdaq |-> None, kospiExp |-> None, kosdaqExp |-> None,
                 market |-> "", kospiFlow |-> 0, kosdaqFlow |-> 0]]

-----------------------------------------------------------------------------
(* The answer: "none" when the signal is dropped. *)

\* (mutant) A source that is stale is noted, and changes nothing.
ReadinessNoted(action, p, enableAi) ==
    LET first == IF action = "ENTER" THEN IF enableAi THEN "ENTER" ELSE "ENTER_CANDIDATE"
                 ELSE IF action = "HOLD" THEN "HOLD" ELSE "AVOID"
    IN IF ProgramDrops(p.flow) /\ first \in {"ENTER", "ENTER_CANDIDATE"} THEN "HOLD" ELSE first

Readiness(action, p, enableAi) ==
    LET first == IF action = "ENTER" THEN IF enableAi THEN "ENTER" ELSE "ENTER_CANDIDATE"
                 ELSE IF action = "HOLD" THEN "HOLD" ELSE "AVOID"
        stale == \E x \in Sources : p.fresh[x] = "cancel"
        afterStale == IF stale /\ first = "ENTER" THEN "HOLD" ELSE first
    IN IF ProgramDrops(p.flow) /\ afterStale \in {"ENTER", "ENTER_CANDIDATE"} THEN "HOLD" ELSE afterStale

\* What Claude answers, and "timeout" and "error" when it does not.
ActionOf(ai) ==
    CASE ai = "off" -> "ENTER"
      [] ai \in {"timeout", "error"} -> "CANCEL"
      [] OTHER -> ai

ScoreOneSignal(p, s, ai) ==
    IF \/ s \in {"S5", "S13", "S16"} /\ ProgramDrops(p.flow)
       \/ ShouldSkipAi(RuleScore(SignalOf(p, s, S16Of(p))), s)
    THEN "none"
    ELSE Readiness(ActionOf(ai), p, ai # "off")

Given(answers) == Restrict(answers, {s \in DOMAIN answers : answers[s] # "none"})

\* One answer per strategy that matched; Claude is asked for each on its own.
ScoreStock(read, ai) ==
    LET p == CollectSnapshot(read)
        matched == IF p.cur <= 0 /\ p.bars = 0 THEN {} ELSE {s \in Strategies : Matches(p, s)}
    IN Given([s \in matched |-> ScoreOneSignal(p, s, ai)])
=============================================================================
