---------------------------- MODULE PositionRules ----------------------------
(***************************************************************************)
(* The rules on an open position that only compute: the reassessment of    *)
(* its trailing stop, the score of a reversal and the overnight verdict.   *)
(* Prices are natural numbers; a trailing percentage is in tenths of a     *)
(* percent, every other percentage and ratio in hundredths.  None stands   *)
(* for a reading there is none of.                                         *)
(***************************************************************************)
EXTENDS Integers, Sequences, FiniteSetsExt

CONSTANT None

-----------------------------------------------------------------------------
(* position_reassessment.py and the trailing stop of position_monitor.py.  *)

Known(x) == x # None

TrendState(cur, ma20, ma60, rsi) ==
    CASE Known(ma20) /\ Known(ma60) /\ cur >= ma20 /\ ma20 >= ma60 -> "BULLISH"
      [] (Known(ma20) /\ cur < ma20) \/ (Known(rsi) /\ rsi < 40) -> "BEARISH"
      [] OTHER -> "NEUTRAL"

MomentumState(r) ==
    LET both     == Known(r.hist) /\ Known(r.prev)
        rising   == both /\ r.hist > 0 /\ r.hist >= r.prev
        aboveVwap == Known(r.vwap) /\ r.cur >= r.vwap
    IN CASE aboveVwap /\ rising /\ r.minuteRsi \in 50..75 -> "STRONG"
         [] \/ Known(r.minuteRsi) /\ r.minuteRsi < 45
            \/ Known(r.vwap) /\ r.cur < r.vwap
            \/ both /\ r.hist < r.prev -> "WEAK"
         [] r.stoch > 80 -> "OVERHEATED"
         [] OTHER -> "NEUTRAL"

\* hoga is sellers to buyers.
ExitBias(trend, momentum, hoga, strength) ==
    CASE trend = "BEARISH" \/ momentum = "WEAK" -> "TIGHTEN"
      [] momentum = "OVERHEATED" -> "TRIM"
      [] /\ trend = "BULLISH" /\ momentum = "STRONG"
         /\ strength >= 105 /\ (~Known(hoga) \/ hoga <= 120) -> "HOLD"
      [] OTHER -> "CAUTIOUS"

DefaultTrailing == 15

\* (mutant) A tightened trail is that of the default.
DynamicTrailingFlat(base, bias) ==
    CASE bias = "TIGHTEN" -> DefaultTrailing [] bias = "HOLD" -> Min({base + 3, 40}) [] OTHER -> base

DynamicTrailing(base, bias) ==
    CASE bias = "TIGHTEN" -> Max({7, base - 5}) [] bias = "TRIM" -> Max({8, base - 3})
      [] bias = "HOLD" -> Min({base + 3, 40}) [] OTHER -> base

TierOf(s) == CASE s \in {"S7", "S8", "S9", "S15", "S3", "S5", "S11"} -> 25 [] s \in {"S1", "S2", "S4"} -> 10
               [] s \in {"S6", "S10", "S13"} -> 20 [] OTHER -> DefaultTrailing

Bias(r) == ExitBias(TrendState(r.cur, r.ma20, r.ma60, r.rsi), MomentumState(r), r.hoga, r.strength)
Stored(r) == IF Known(r.stored) THEN r.stored ELSE DefaultTrailing

\* _check_position: the strategy's tier replaces the default only where no reassessment is.
TrailingPct(r, reassessed) ==
    IF reassessed THEN DynamicTrailing(Stored(r), Bias(r))
    ELSE IF Stored(r) = DefaultTrailing THEN TierOf(r.s) ELSE Stored(r)

-----------------------------------------------------------------------------
(* downtrend_detector.py, in halves of a point.                            *)

Total(values) == MapThenSumSet(LAMBDA i : values[i], DOMAIN values)
\* An average to hundredths of a percent, of readings in percent.
Average(values) == (100 * Total(values) + Len(values) \div 2) \div Len(values)

\* get_strength_trend: the newest three of the samples against the others.
StrengthTrend(values) ==
    LET newest == SubSeq(values, 1, Min({3, Len(values)}))
        older  == IF Len(values) > 3 THEN SubSeq(values, 4, Len(values)) ELSE values
    IN IF values = <<>> THEN [avg |-> 10000, declining |-> FALSE, count |-> 0]
       ELSE [avg |-> Average(values), declining |-> Average(newest) < Average(older) - 500,
             count |-> Len(values)]

\* get_hoga_ratio: sellers to buyers in thousandths, a side without buyers being two to one.
HogaRatio(book) ==
    CASE book = <<>> -> 1000 [] book # <<>> /\ book[1].buy <= 0 -> 2000
      [] OTHER -> (1000 * book[1].sell + book[1].buy \div 2) \div book[1].buy

Halves(value, half, full) == IF value > full THEN 2 ELSE IF value > half THEN 1 ELSE 0

ReversalScore(r) ==
    LET trend == StrengthTrend(r.strengths)
        drop  == IF r.entry > 0 THEN -(((r.cur - r.entry) * 10000) \div r.entry) ELSE 0
    IN Halves(-trend.avg, -8500, -7000) + Halves(HogaRatio(r.book), 1500, 2000) + Halves(drop, 100, 150)
       + Halves(-r.flu, 50, 150) + (IF trend.declining /\ trend.count >= 4 THEN 2 ELSE 0)
Reversed(r) == ReversalScore(r) >= 6

-----------------------------------------------------------------------------
(* overnight_scorer.py.                                                    *)

\* The points of the first step that the value reaches.
Ladder(value, steps, floor) ==
    LET reached == {i \in DOMAIN steps : value >= steps[i][1]}
    IN IF reached = {} THEN floor ELSE steps[Min(reached)][2]

ScoreBase(score) == Ladder(score, <<<<85, 15>>, <<75, 10>>, <<65, 5>>, <<55, 0>>, <<45, -5>>>>, -15)

ScorePnl(entry, cur) ==
    IF entry <= 0 \/ cur <= 0 THEN 0
    ELSE Ladder(((cur - entry) * 10000) \div entry,
                <<<<300, 15>>, <<200, 10>>, <<100, 5>>, <<0, 0>>, <<-100, -10>>, <<-200, -20>>>>, -25)
ScoreStrength(strength) == Ladder(strength, <<<<130, 10>>, <<110, 5>>, <<90, 0>>, <<70, -5>>>>, -10)
\* A book that was not read counts as one without buyers.
ScoreBid(book) ==
    CASE book = <<>> -> -10 [] book # <<>> /\ book[1].sell <= 0 -> 0
      [] OTHER -> Ladder((100 * book[1].buy) \div book[1].sell,
                         <<<<200, 8>>, <<150, 5>>, <<100, 2>>, <<80, -3>>>>, -10)
ScoreFlu(flu) == Ladder(flu, <<<<300, 5>>, <<100, 3>>, <<0, 0>>, <<-100, -3>>>>, -8)
ScoreStrategy(s) == CASE s \in {"S7", "S8", "S9", "S10", "S11", "S13"} -> 10
                      [] s \in {"S3", "S5", "S6", "S12", "S14", "S15"} -> 3 [] s \in {"S1", "S2", "S4"} -> -10
                      [] OTHER -> 0
ScoreRsi(rsi) == IF ~Known(rsi) THEN 0
                 ELSE CASE rsi <= 30 -> -3 [] rsi \in 31..50 -> 5 [] rsi \in 51..65 -> 3 [] rsi \in 66..75 -> -5
                        [] OTHER -> -10

\* averages is <<ma5, ma20, ma60>> of the cached candles, <<>> where fewer than sixty are cached.
Alignment(averages, cur) ==
    CASE averages = <<>> -> "unknown"
      [] averages # <<>> /\ averages[1] > averages[2] /\ averages[2] > averages[3] ->
             IF cur >= averages[2] THEN "bullish_above_ma20" ELSE "bullish_below_ma20"
      [] averages # <<>> /\ averages[1] < averages[2] /\ averages[2] < averages[3] -> "bearish"
      [] OTHER -> "mixed"
ScoreAlignment(alignment) ==
    CASE alignment = "bullish_above_ma20" -> 8 [] alignment = "bullish_below_ma20" -> 3
      [] alignment = "bearish" -> -5 [] OTHER -> 0

OvernightScore(r) ==
    Max({0, Min({100, 50 + ScoreBase(r.base) + ScorePnl(r.entry, r.cur) + ScoreStrength(r.strength)
                      + ScoreBid(r.book) + ScoreFlu(r.flu) + ScoreStrategy(r.s) + ScoreRsi(r.rsi)
                      + ScoreAlignment(Alignment(r.averages, IF r.cur > 0 THEN r.cur ELSE r.last))})})
Verdict(r) ==
    CASE OvernightScore(r) >= 65 -> [hold |-> TRUE, confidence |-> "HIGH"]
      [] OvernightScore(r) \in 55..64 -> [hold |-> TRUE, confidence |-> "MEDIUM"]
      [] OvernightScore(r) \in 45..54 -> [hold |-> FALSE, confidence |-> "LOW"]
      [] OTHER -> [hold |-> FALSE, confidence |-> "MEDIUM"]
=============================================================================
