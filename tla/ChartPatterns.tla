--------------------------- MODULE ChartPatterns ---------------------------
(***************************************************************************)
(* The patterns the strategies look for in daily bars (ma_utils.py,        *)
(* indicator_ichimoku.py), the volume they compare (http_utils.py) and the *)
(* levels of traded volume that move a bracket.  Series are newest first;  *)
(* prices are integers, ratios in thousandths.                             *)
(***************************************************************************)
EXTENDS Integers, Sequences, FiniteSetsExt

CONSTANT None

Sum(series, i, n) == SumFunction(SubSeq(series, i, i + n - 1))
High(highs, i, n) == Max(Range(SubSeq(highs, i, i + n - 1)))
Low(lows, i, n) == Min(Range(SubSeq(lows, i, i + n - 1)))

-----------------------------------------------------------------------------
(* detect_golden_cross: bar i is the first on which the average of five    *)
(* bars is above that of twenty.                                           *)

AboveAt(closes, i) == 4 * Sum(closes, i, 5) > Sum(closes, i, 20)
CrossAt(closes, i) == AboveAt(closes, i) /\ ~AboveAt(closes, i + 1)

\* (mutant) Yesterday's cross is the oldest that counts.
RecentCrossShort(closes) == \E i \in 1..2 : CrossAt(closes, i)

RecentCross(closes) == \E i \in 1..3 : CrossAt(closes, i)
Stretched(closes) == 400 * Sum(closes, 1, 5) > 105 * Sum(closes, 1, 20)

GoldenCross(closes) ==
    IF Len(closes) < 25 THEN [today |-> FALSE, recent |-> FALSE]
    ELSE [today |-> CrossAt(closes, 1), recent |-> RecentCross(closes) /\ ~Stretched(closes)]

\* detect_pullback_setup: averages in order, the price within three percent of the short one.
PullbackSetup(all) ==
    LET closes == SelectSeq(all, LAMBDA x : x > 0)
        ma5 == Sum(closes, 1, 5)
    IN /\ Len(closes) >= 61
       /\ 4 * ma5 > Sum(closes, 1, 20) /\ 3 * Sum(closes, 1, 20) > Sum(closes, 1, 60)
       /\ 97 * ma5 <= 500 * closes[1] /\ 500 * closes[1] <= 103 * ma5

-----------------------------------------------------------------------------
(* detect_box_breakout: a rising close above the box of the fifteen bars   *)
(* before today's, a box no wider than eight percent.                      *)

Boxed(bars) == {i \in 2..16 : i <= Len(bars) /\ bars[i].high > 0 /\ bars[i].low > 0}

BoxBreakout(bars) ==
    LET top == Max({bars[i].high : i \in Boxed(bars)})
        bottom == Min({bars[i].low : i \in Boxed(bars)})
    IN /\ Len(bars) >= 17 /\ Boxed(bars) # {}
       /\ bars[1].close > 0 /\ bars[1].open > 0
       /\ 100 * (top - bottom) <= 8 * bottom
       /\ bars[1].close > top /\ bars[1].close > bars[1].open

-----------------------------------------------------------------------------
(* calc_ichimoku, in quarters of a price: today's cloud was drawn from     *)
(* what was known Displacement bars ago.                                   *)

Middle2(highs, lows, i, n) == High(highs, i, n) + Low(lows, i, n)

Cloud(highs, lows) ==
    [a |-> Middle2(highs, lows, 27, 9) + Middle2(highs, lows, 27, 26), b |-> 2 * Middle2(highs, lows, 27, 52)]

Ichimoku(highs, lows, closes) ==
    LET cloud == Cloud(highs, lows)
        top == Max({cloud.a, cloud.b})
    IN IF Min({Len(highs), Len(lows), Len(closes)}) < 78 THEN None
       ELSE [cloud |-> cloud, above |-> 4 * closes[1] > top, bullish |-> cloud.a > cloud.b,
             tenkanOverKijun |-> Middle2(highs, lows, 1, 9) > Middle2(highs, lows, 1, 26),
             chikou |-> closes[1] > closes[27],
             kijunRising |-> Middle2(highs, lows, 1, 26) > Middle2(highs, lows, 2, 26),
             thickness |-> IF top > 0 THEN (1000 * (top - Min({cloud.a, cloud.b}))) \div top ELSE 0]

-----------------------------------------------------------------------------
(* resolve_effective_volume_ratio: what was traded up to this time of the  *)
(* day before, where the broker said so completely; otherwise the partial  *)
(* bar of today.                                                           *)

EffectiveVolume(partial, same) ==
    IF same.complete /\ ~same.failed /\ same.ratio # None /\ same.ratio >= 0 THEN same.ratio ELSE partial

-----------------------------------------------------------------------------
(* fetch_volume_profile, apply_volume_profile_rr: the level below and the  *)
(* level above the price at which most was traded.                         *)

NoLevel == [low |-> 0, high |-> 0, ratio |-> 0]
Heaviest(levels, cur) ==
    IF levels = {} THEN NoLevel
    ELSE CHOOSE x \in levels : \A y \in levels \ {x} :
             \/ y.ratio < x.ratio
             \/ y.ratio = x.ratio /\ Max({cur - x.high, x.low - cur}) < Max({cur - y.high, y.low - cur})

Profile(levels, cur) ==
    [support |-> Heaviest({x \in levels : cur > 0 /\ x.high < cur}, cur),
     resistance |-> Heaviest({x \in levels : cur > 0 /\ x.low > cur}, cur)]

RaisedStop(bracket, support) ==
    LET stop == (98 * support.low) \div 100
    IN IF 0 < stop /\ stop < bracket.entry /\ (bracket.sl <= 0 \/ stop > bracket.sl) THEN stop ELSE bracket.sl

RaisedTarget(bracket, resistance) ==
    IF resistance.low > bracket.entry /\ (bracket.tp1 <= 0 \/ resistance.low > bracket.tp1)
    THEN resistance.low ELSE bracket.tp1

Adjusted(bracket, profile) ==
    LET tp1 == RaisedTarget(bracket, profile.resistance)
        sl == RaisedStop(bracket, profile.support)
        changed == tp1 # bracket.tp1 \/ sl # bracket.sl
    IN IF bracket.entry <= 0 THEN bracket
       ELSE [bracket EXCEPT !.tp1 = tp1, !.sl = sl,
                            !.rr = IF changed /\ tp1 > bracket.entry /\ 0 < sl /\ sl < bracket.entry
                                   THEN (1000 * (tp1 - bracket.entry)) \div (bracket.entry - sl) ELSE @]
=============================================================================
