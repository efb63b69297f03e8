------------------------------- MODULE Scans -------------------------------
(***************************************************************************)
(* What each strategy asks of a candidate and how it scores it             *)
(* (strategy_1_*.py to strategy_15_*.py, without S2, whose check is in     *)
(* ViWatch).  A candidate is what was read of one stock.  Rises, volume    *)
(* and bid ratios and RSI are in hundredths, scores in thousandths; the    *)
(* indicators a strategy compares are readings: "signs" names those of its *)
(* optional conditions that hold.                                          *)
(***************************************************************************)
EXTENDS ChartPatterns, TLC

Points(test, points) == IF test THEN points ELSE 0
BySign(x, up, down) == IF x > 0 THEN up ELSE IF x < 0 THEN down ELSE 0
Least(x, y) == Min({x, y})
Over(x, base) == Max({x - base, 0})
Refused == [accepted |-> FALSE, score |-> 0, mode |-> "none"]
Published(score, mode) == [accepted |-> TRUE, score |-> score, mode |-> mode]

-----------------------------------------------------------------------------
(* Readings and what replaces them.                                        *)

\* fetch_cntr_strength_cached: the average of the latest ticks, the last tick, or REST.
Cached(in) ==
    CASE in.live # None -> in.live
      [] in.live = None /\ in.tick # <<>> -> in.tick[1].str
      [] OTHER -> in.rest

\* S8, S9, S11 and S14 ask the cache only where the tick does not say that buyers lead.
TickFirst(in) == IF in.tick # <<>> /\ in.tick[1].str > 100 THEN in.tick[1].str ELSE Cached(in)
TickOnly(in) == IF in.tick = <<>> THEN 100 ELSE in.tick[1].str

TickRise(in) == IF in.tick = <<>> THEN 0 ELSE in.tick[1].flu
RiseSinceOpen(in) ==
    IF TickRise(in) = 0 /\ in.open > 0 THEN (10000 * (in.cur - in.open)) \div in.open ELSE TickRise(in)
RiseOrIndex(in) == IF TickRise(in) = 0 /\ in.index # None THEN in.index ELSE TickRise(in)

Volume(in) == EffectiveVolume(in.partial, in.same)
\* The bonus for the volume of this time of the day also takes a ratio that is not complete.
SameTimeBonus(in, high, up, down) ==
    LET ratio == IF in.same.ratio = None THEN 0 ELSE in.same.ratio
    IN IF ratio >= high THEN up ELSE IF 0 < ratio /\ ratio < 80 THEN down ELSE 0
BidBonus(in) == IF in.bid = None THEN 0 ELSE IF in.bid >= 120 THEN 4000 ELSE IF in.bid < 80 THEN -3000 ELSE 0

-----------------------------------------------------------------------------
(* The day strategies.                                                     *)

\* scan_gap_opening (its mode is in ExecutionQuality)
S1(in) ==
    LET gap == in.flu
        strength == IF in.live # None THEN in.live ELSE in.rest
    IN IF in.cur > 0 /\ gap >= 250 /\ strength >= (IF gap \in 300..499 THEN 115 ELSE 120)
       THEN Published(5 * gap + 500 * (strength - 100) - Points(gap >= 1200, 15000)
                      - Points(gap \in 800..1199, 8000) - Points("early" \in in.signs, 10000), "NORMAL")
       ELSE Refused

\* scan_inst_foreign: bought together, for days; ranked by the amount.
S3(in) ==
    IF in.days > 0 /\ in.net > 0 /\ in.partial >= 150 THEN Published(in.net, "NORMAL") ELSE Refused

\* check_big_candle: bar is the current one, of which the shadow and the gain are in percent.
S4(in) ==
    LET bar == in.bar
        span == bar.high - bar.low
        gain == bar.close - bar.open
        shadow == 100 * (bar.high - bar.close)
        chased == 10 * (bar.close - bar.low) >= 8 * span
    IN IF /\ in.bars >= 20 /\ bar.open > 0 /\ span > 0
          /\ gain > 0 /\ 100 * gain >= 65 * span /\ 1000 * gain >= 25 * bar.open
          /\ in.partial >= 300 /\ bar.close >= in.top /\ Cached(in) >= 115
       THEN Published(Over((200000 * gain) \div bar.open + 300 * (Cached(in) - 100)
                           - Points(shadow >= 20 * span, 8000) - Points(shadow >= 30 * span, 7000)
                           - Points(chased, 10000), 0),
                      IF chased THEN "WAIT_PULLBACK" ELSE IF shadow >= 30 * span THEN "REJECT" ELSE "CONFIRMED")
       ELSE Refused

\* scan_program_buy, check_extra_conditions: programs, foreigners and yesterday's institutions,
\* above the average of five minutes' closes; ranked by the amount.
S5(in) ==
    IF {"program", "foreign", "institution"} \subseteq in.signs /\ in.cur >= in.ma5
    THEN Published(in.net, "NORMAL") ELSE Refused

\* _classify_mode: rank is the share of the theme that rose less, in percent.
ThemeMode(flu, rank) ==
    CASE rank >= 70 /\ 300 <= flu /\ flu <= 800 -> "LEADER_PULLBACK"
      [] ~(rank >= 70 /\ 300 <= flu /\ flu <= 800) /\ rank >= 30 /\ 100 <= flu /\ flu <= 500 -> "SECONDARY_ROTATION"
      [] ~(rank >= 70 /\ 300 <= flu /\ flu <= 800) /\ ~(rank >= 30 /\ 100 <= flu /\ flu <= 500)
         /\ 50 <= flu /\ flu <= 400 -> "LAGGARD_CATCHUP"
      [] OTHER -> "none"

\* scan_theme_laggard: in the reading of S6 a volume or a bid that is not known passes.
S6(in) ==
    LET mode == ThemeMode(in.flu, (100 * Cardinality({i \in DOMAIN in.theme : in.theme[i] < in.flu}))
                                  \div Len(in.theme))
        laggard == mode = "LAGGARD_CATCHUP"
    IN IF /\ in.themeFlu >= 150 /\ Len(in.theme) >= 3 /\ in.days < 3 /\ mode # "none"
          /\ Cached(in) >= (IF laggard THEN 120 ELSE 115)
          /\ in.bid = None \/ in.bid >= 100 \/ Cached(in) >= 130
          /\ in.partial <= 0 \/ in.partial >= (IF laggard THEN 200 ELSE 150)
       THEN Published(1000 * Cached(in) + 50 * in.partial + BySign(in.smart, 5000, -3000)
                      + BySign(in.program, 3000, -2000), mode)
       ELSE Refused

-----------------------------------------------------------------------------
(* The swing strategies.                                                   *)

\* (mutant) Anything above a moderate strength counts as heated.
StrengthBonusNarrow(x) == IF x \in 105..120 THEN 8000 ELSE IF x > 400 THEN -5000 ELSE 0

StrengthBonus(x) == IF x \in 105..300 THEN 8000 ELSE IF x > 400 THEN -5000 ELSE 0

\* scan_ichimoku_breakout: the signs tell where the price is to the clouds of days and of hours
\* ("hour" where there are bars enough of an hour).
IchimokuConds(in) ==
    Cardinality(in.signs \cap {"chikou", "kijun"}) + Points(Volume(in) >= 150, 1)
    + Points(4500 <= in.rsi /\ in.rsi <= 7000, 1)
AboveClouds(in) ==
    /\ {"above", "tenkan", "bullish"} \subseteq in.signs /\ IchimokuConds(in) >= 2
    /\ "hour" \in in.signs => "hourAbove" \in in.signs
S7(in) ==
    LET conds == IchimokuConds(in)
    IN IF AboveClouds(in)
       THEN Published(50000 + 8000 * conds + Points(conds = 4, 15000) + Points("thin" \in in.signs, 12000)
                      + Points(100 <= in.atr /\ in.atr <= 300, 8000) + StrengthBonus(Cached(in))
                      + Points("vwap" \in in.signs, 7000) + Points(RiseSinceOpen(in) \in 100..800, 5000)
                      - Points("yesterdayAbove" \notin in.signs, 10000)
                      + (IF "hour" \notin in.signs THEN -10000 ELSE Points("hourTenkan" \in in.signs, 10000))
                      + SameTimeBonus(in, 150, 6000, -4000), "NORMAL")
       ELSE Refused

\* scan_golden_cross: average is the average volume of twenty days, 0 where none was traded.
Crossed(in) ==
    /\ in.cross.today \/ in.cross.recent
    /\ 100 * in.cur >= 95 * in.ma60 /\ in.rsi <= 7500
    /\ 0 <= TickRise(in) /\ TickRise(in) <= 1500
    /\ in.average > 0 => Volume(in) >= 130
S8(in) ==
    IF Crossed(in)
    THEN Published((IF in.cross.today THEN 20000 ELSE 10000) + Points(4500 <= in.rsi /\ in.rsi <= 6500, 12000)
                   + Points("macd" \in in.signs, 10000) + 50 * Volume(in) + 50 * TickFirst(in)
                   + SameTimeBonus(in, 150, 5000, -3000), "NORMAL")
    ELSE Refused

\* scan_pullback_swing: off5 and off20 are the distances from the averages; average is the volume
\* of the day before.
PulledBack(in) ==
    /\ "setup" \in in.signs /\ in.off20 <= 1500 /\ in.cur > in.open /\ in.rsi <= 6800
    /\ RiseOrIndex(in) >= 0 /\ (in.average > 0 => Volume(in) >= 110)
S9(in) ==
    IF PulledBack(in)
    THEN Published(5 * RiseOrIndex(in) + 200 * Over(TickFirst(in), 100)
                   + 20 * Over(500, Max({in.off5, -in.off5}))
                   + Points(-100 <= in.off5 /\ in.off5 <= 200, 10000) - Points(200 < in.off5 /\ in.off5 <= 300, 8000)
                   - Points(-300 <= in.off5 /\ in.off5 < -100, 5000) - Points(in.average > 0 /\ Volume(in) < 130, 8000)
                   + Points("stoch" \in in.signs, 12000) + Points(4000 <= in.rsi /\ in.rsi <= 5800, 8000)
                   + SameTimeBonus(in, 130, 5000, -4000) + BidBonus(in), "NORMAL")
    ELSE Refused

\* scan_new_high_swing: top is the high of the day and close the daily bar's; a candidate of the
\* pool without a tick is refused.
NewHigh(in) ==
    /\ in.tick # <<>> /\ 200 <= TickRise(in) /\ TickRise(in) <= 1500 /\ in.partial >= 100
    /\ in.ma20 = 0 \/ 100 * in.close <= 125 * in.ma20
S10(in) ==
    LET flu == TickRise(in)
        fallen == 100 * (in.top - in.cur)
        overheated == flu >= 1000
    IN IF NewHigh(in)
       THEN Published(3 * flu + 120 * Least(in.partial, 500) + 200 * Over(Cached(in), 100)
                      - Points(overheated, 12000) - Points(700 <= flu /\ ~overheated, 5000)
                      - Points(in.top > 0 /\ fallen >= 3 * in.top, 8000)
                      - Points(in.top > 0 /\ fallen >= 5 * in.top, 7000)
                      + BySign(in.smart, 6000, -5000),
                      IF overheated \/ in.grade = "REJECT" THEN "SHADOW" ELSE "NORMAL")
       ELSE Refused

\* scan_frgn_cont_swing: net is what foreigners bought over the days, in thousands of shares.
S11(in) ==
    IF /\ in.days >= 3 /\ in.net > 0 /\ in.cur > 0
       /\ 0 < RiseSinceOpen(in) /\ RiseSinceOpen(in) <= 1000 /\ TickFirst(in) >= 100
    THEN Published(5 * in.net + 3 * in.lastNet + 5 * RiseSinceOpen(in) + BySign(in.smart, 6000, -5000)
                   + BidBonus(in), "NORMAL")
    ELSE Refused

\* scan_closing_buy: the ranking itself tells the rise and the strength.
S12(in) ==
    IF "institution" \in in.signs /\ 400 <= in.flu /\ in.flu <= 1500 /\ in.rest >= 110
    THEN Published(5 * in.flu + 300 * Over(in.rest, 100) + Points("pool" \in in.signs, 5000), "NORMAL")
    ELSE Refused

\* scan_box_breakout: an average of 120 days close above the price is a resistance.
NearResistance(in) == in.cur < in.ma120 /\ 1000 * (in.ma120 - in.cur) < 15 * in.cur
BrokenOut(in) ==
    /\ "breakout" \in in.signs /\ in.cur >= in.ma20 /\ Volume(in) >= 200
    /\ 0 < TickRise(in) /\ TickRise(in) <= 2000 /\ TickOnly(in) >= 120
S13(in) ==
    IF BrokenOut(in)
    THEN Published(5 * TickRise(in) + 300 * Over(TickOnly(in), 100) + 20 * Least(Volume(in), 1000)
                   + Points("monster" \in in.signs, 10000) + 15 * Over(800, in.range)
                   + Points("squeeze" \in in.signs, 15000) + Points("mfi" \in in.signs, 10000)
                   - Points(NearResistance(in), 10000),
                   IF in.grade = "REJECT" \/ NearResistance(in) \/ in.extension > 300 THEN "SHADOW" ELSE "NORMAL")
    ELSE Refused

\* scan_oversold_bounce: one sign of a bounce is only recorded.
S14(in) ==
    LET conds == Cardinality(in.signs \cap {"stoch", "williams", "mfi"})
    IN IF /\ 2500 <= in.rsi /\ in.rsi <= 4200 /\ 100 * in.cur >= 88 * in.ma60 /\ in.atr <= 400
          /\ TickRise(in) >= -500 /\ TickFirst(in) >= 105 /\ conds >= 1
       THEN Published(5 * (4200 - in.rsi) + 10000 * conds + Points("rsiRising" \in in.signs, 10000)
                      + Points(conds = 3, 15000) + Points(in.partial >= 150, 8000),
                      IF conds = 1 THEN "SHADOW" ELSE "NORMAL")
       ELSE Refused

\* scan_momentum_align: band is the place of the price between the Bollinger bands.
MomentumConds(in) ==
    Points("macd" \in in.signs, 1) + Points(4800 <= in.rsi /\ in.rsi <= 7200, 1)
    + Points(45 <= in.band /\ in.band <= 82, 1) + Points(in.partial >= 130, 1)
Aligned(in) ==
    /\ in.cur >= in.ma20 /\ 0 < RiseSinceOpen(in) /\ RiseSinceOpen(in) <= 1200
    /\ in.rsi <= 7200 /\ MomentumConds(in) >= 3
S15(in) ==
    LET conds == MomentumConds(in)
    IN IF Aligned(in)
       THEN Published(6 * RiseSinceOpen(in) + 200 * Over(Cached(in), 100) + 8000 * conds + Points(conds = 4, 20000)
                      + Points("vwap" \in in.signs, 12000) + Points(100 <= in.atr /\ in.atr <= 300, 8000)
                      + Points("stoch" \in in.signs, 6000) + Points(Cached(in) >= 105, 8000)
                      + Points("rsiRising" \in in.signs, 5000),
                      IF conds = 4 THEN "AUTO_SMALL" ELSE "CONFIRM")
       ELSE Refused

-----------------------------------------------------------------------------
(* The scan of a strategy.                                                 *)

Scan(in) ==
    CASE in.s = "S1" -> S1(in)    [] in.s = "S3" -> S3(in)    [] in.s = "S4" -> S4(in)
      [] in.s = "S5" -> S5(in)    [] in.s = "S6" -> S6(in)    [] in.s = "S7" -> S7(in)
      [] in.s = "S8" -> S8(in)    [] in.s = "S9" -> S9(in)
      [] in.s = "S10" -> S10(in)  [] in.s = "S11" -> S11(in)  [] in.s = "S12" -> S12(in)
      [] in.s = "S13" -> S13(in)  [] in.s = "S14" -> S14(in)  [] in.s = "S15" -> S15(in)
=============================================================================
