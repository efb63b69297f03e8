------------------------------- MODULE TpSl -------------------------------
(***************************************************************************)
(* tp_sl_engine.py: the stop, the target and the reward-to-risk ratio that *)
(* each strategy gives an entry.  Prices are natural numbers, 0 where the  *)
(* code has None; a ratio is in thousandths, and int(x * 0.95) is          *)
(* Of(x, 950): exact, where the code computes with floats.  Bars are       *)
(* sequences, the newest first.  The names of the methods are left out.    *)
(***************************************************************************)
EXTENDS Integers, Sequences, FiniteSetsExt, TLC

CONSTANTS
    Fee,        \* round trip slippage and fee, in thousandths of the price
    ZoneGate    \* ZONE_RR_GATE_ENABLED

Of(price, share) == (price * share) \div 1000
Beyond(level, cur, share) == 1000 * level > cur * share
Minus(cur, atr, times) == (1000 * cur - atr * times) \div 1000
Plus(cur, atr, times) == (1000 * cur + atr * times) \div 1000

DayTrade == {"S1", "S2", "S4", "S6"}

Trailing(r) == [minRr |-> 1300, stopMax |-> 0, trailR |-> r]
DayPolicy(minRr, stopMax) == [minRr |-> minRr, stopMax |-> stopMax, trailR |-> 0]
Policies ==
    [S1 |-> DayPolicy(1500, 22), S2 |-> DayPolicy(1800, 20),
     S4 |-> DayPolicy(1700, 25), S6 |-> DayPolicy(1600, 30),
     S3 |-> [Trailing(1000) EXCEPT !.minRr = 1450],
     S5 |-> [Trailing(1000) EXCEPT !.minRr = 1450],
     S7 |-> [Trailing(1500) EXCEPT !.minRr = 1800],
     S8 |-> Trailing(1000),
     S9 |-> [Trailing(1000) EXCEPT !.minRr = 1550],
     S10 |-> [Trailing(1000) EXCEPT !.minRr = 1550],
     S11 |-> [Trailing(1000) EXCEPT !.minRr = 1550],
     S12 |-> [Trailing(1000) EXCEPT !.minRr = 1450],
     S13 |-> [Trailing(1500) EXCEPT !.minRr = 1550],
     S14 |-> [Trailing(1200) EXCEPT !.minRr = 1450],
     S15 |-> [Trailing(1000) EXCEPT !.minRr = 1550],
     S16 |-> Trailing(1000)]

-----------------------------------------------------------------------------
(* Levels of the chart. *)

\* Levels within one percent of the last one are merged with it.
Merge(levels) ==
    LET merged[n \in 0..Len(levels)] ==
            IF n = 0 THEN <<>>
            ELSE LET acc == merged[n - 1]
                     last == acc[Len(acc)]
                 IN IF acc # <<>> /\ 100 * Max({levels[n] - last, last - levels[n]}) <= last
                    THEN [acc EXCEPT ![Len(acc)] = (last + levels[n]) \div 2]
                    ELSE Append(acc, levels[n])
    IN merged[Len(levels)]

\* The turning points of the bars 2 to lookback + 1, which the code calls 1 to lookback.
\* Peaks have the sign 1 and lie above the price, troughs have the sign -1 and lie below it.
Turns(bars, cur, lookback, sign) ==
    LET last == Min({Len(bars), lookback + 2}) - 1
        inner == SelectSeq([i \in 1..Len(bars) |-> i],
                           LAMBDA i : /\ 1 < i /\ i <= last
                                      /\ \A level \in {cur, bars[i - 1], bars[i + 1]} :
                                             sign * bars[i] > sign * level)
    IN SortSeq([k \in DOMAIN inner |-> bars[inner[k]]], LAMBDA x, y : sign * x < sign * y)

SwingHighs(bars, cur, lookback) == Merge(Turns(bars, cur, lookback, 1))

SwingLows(bars, cur, lookback) == Merge(Turns(bars, cur, lookback, -1))

First(levels) == IF levels = <<>> THEN 0 ELSE levels[1]
Second(levels) == IF Len(levels) > 1 THEN levels[2] ELSE 0

\* The lowest of up to count past bars, 0 when there is none.
RecentLow(lows, count) ==
    IF Len(lows) < 2 THEN 0
    ELSE Min({lows[i] : i \in 2..Min({Len(lows), count + 1})})

NearestResistance(highs, cur, lookback, share) ==
    First(SelectSeq(SwingHighs(highs, cur, lookback), LAMBDA level : Beyond(level, cur, share)))

\* In thousandths of a price, so that it can be compared before it is cut to an integer.
Fib(low, high, share) ==
    IF high <= low THEN 1000 * high ELSE 1000 * high + (high - low) * share
Fib1272(low, high) == Fib(low, high, 272)
Fib1618(low, high) == Fib(low, high, 618)
FibBeyond(fib, cur, share) == fib > cur * share

BoundedDistance(cur, least, most, atr, times) ==
    LET wanted == IF atr > 0 THEN Of(atr, times) ELSE Of(cur, least)
    IN Min({Max({wanted, Of(cur, least)}), Of(cur, most)})

-----------------------------------------------------------------------------
(* Reward and risk after the fees of a round trip. *)

NoRr == [rr |-> 0, skip |-> TRUE]
Rr(cur, tp, sl, minRr) ==
    IF cur <= 0 \/ sl <= 0 \/ tp <= cur \/ sl >= cur THEN NoRr
    ELSE LET reward == 1000 * (tp - cur) - Fee * cur
             risk == 1000 * (cur - sl) + Fee * cur
         IN [rr |-> (2000 * reward + risk) \div (2 * risk),
             skip |-> 1000 * reward < minRr * risk]

\* The least target whose ratio reaches minRr.
RequiredTp(cur, sl, minRr) ==
    LET risk == 1000 * (cur - sl) + Fee * cur
    IN cur + (minRr * risk + 1000 * Fee * cur) \div 1000000 + 1

Bracket(in, sl, tp1, tp2) ==
    LET r == Rr(in.cur, tp1, sl, in.minRr)
    IN [sl |-> sl, tp1 |-> tp1, tp2 |-> tp2, rr |-> r.rr, skip |-> r.skip,
        vetoed |-> FALSE, trail |-> 0, act |-> 0]

Refreshed(in, r) ==
    LET fresh == Rr(in.cur, r.tp1, r.sl, in.minRr)
    IN [r EXCEPT !.rr = fresh.rr, !.skip = fresh.skip]

FitTp(in, r, least, most) ==
    LET now == Rr(in.cur, r.tp1, r.sl, in.minRr)
        fitted == Min({Max({RequiredTp(in.cur, r.sl, in.minRr), Of(in.cur, 1000 + least)}),
                       Of(in.cur, 1000 + most)})
        raised == IF fitted <= r.tp1 THEN r
                  ELSE [r EXCEPT !.tp1 = fitted,
                                 !.tp2 = IF @ # 0 /\ @ <= fitted THEN Of(fitted, 1040) ELSE @]
    IN IF now.rr >= in.minRr THEN [r EXCEPT !.rr = now.rr, !.skip = FALSE]
       ELSE IF r.sl <= 0 \/ r.sl >= in.cur THEN Refreshed(in, r)
       ELSE Refreshed(in, raised)

\* _finalize_swing_result: at least three percent, a trailing stop, a nearer target when MACD weakens.
FinishSwing(in, r, trail) ==
    LET tp1 == IF r.tp1 <= Of(in.cur, 1030) THEN Of(in.cur, 1030) ELSE r.tp1
        tp2 == IF r.tp2 # 0 /\ r.tp2 <= tp1 THEN Of(tp1, 1040) ELSE r.tp2
        near == Max({Of(tp1, 1020), (tp1 + tp2) \div 2, tp1 + 1})
    IN [r EXCEPT !.trail = IF in.weak THEN Max({8, trail - 4}) ELSE trail,
                 !.act = 2 * in.cur - r.sl,
                 !.tp1 = IF in.weak /\ tp2 = 0 /\ tp1 > in.cur
                         THEN Max({Of(in.cur, 1030), (tp1 + in.cur) \div 2}) ELSE tp1,
                 !.tp2 = IF in.weak /\ tp2 # 0 THEN near ELSE tp2]

\* A stop is at least 1 and below the price.
Guarded(sl, cur, share) == IF Max({sl, 1}) >= cur THEN Of(cur, share) ELSE Max({sl, 1})

-----------------------------------------------------------------------------
(* The strategies. *)

GapOpen(in) ==
    LET cur == in.cur
        stop == cur - BoundedDistance(cur, 12, 18, in.atr, 900)
        gap == Of(in.prev, 999)
        held == IF 0 < in.prev /\ in.prev < cur /\ 1000 * (cur - gap) <= 22 * cur
                THEN Max({stop, gap}) ELSE stop
        level == NearestResistance(in.highs, cur, 15, 1025)
        tp1 == IF level > 0 THEN level ELSE cur + BoundedDistance(cur, 25, 45, in.atr, 2000)
    IN FitTp(in, Bracket(in, Guarded(held, cur, 982), tp1, 0), 32, 55)

ViPullback(in) ==
    LET cur == in.cur
        stop == cur - BoundedDistance(cur, 10, 15, in.atr, 750)
        level == NearestResistance(in.highs, cur, 12, 1005)
        tp1 == IF in.vi > cur
               THEN Min({Max({Of(in.vi, 1002), Of(cur, 1020)}), Of(cur, 1035)})
               ELSE IF level > 0 THEN level
               ELSE IF in.atr > 0 THEN cur + BoundedDistance(cur, 20, 35, in.atr, 1500)
               ELSE Of(cur, 1025)
    IN Bracket(in, Guarded(stop, cur, 985), tp1, 0)

\* The stop of S3 and S5: under the average, else under a swing low that is near enough.
StopUnderAverage(in, lookback, near) ==
    LET low == First(SwingLows(in.lows, in.cur, lookback))
        stop == IF 0 < in.ma20 /\ in.ma20 < in.cur THEN Of(in.ma20, 990)
                ELSE IF low > 0 /\ Beyond(low, in.cur, near) THEN Of(low, 990)
                ELSE IF in.atr > 0 THEN Minus(in.cur, in.atr, 1500)
                ELSE Of(in.cur, 950)
    IN Guarded(stop, in.cur, 950)

\* The lowest of the recent lows, from which the extensions are measured, or the stop.
FibBase(in, count, sl) ==
    LET low == RecentLow(in.lows, count) IN IF low > 0 THEN low ELSE sl

InstFrgnTarget(in, sl, base, levels) ==
    LET cur == in.cur
        swing == First(levels)
        fib == IF FibBeyond(Fib1272(base, cur), cur, 1030) THEN Fib1272(base, cur) \div 1000 ELSE 0
        far == Fib1618(base, cur) \div 1000
    IN IF swing >= fib /\ Beyond(swing, cur, 1030)
       THEN Bracket(in, sl, swing, IF Len(levels) > 1 THEN levels[2] ELSE far)
       ELSE IF fib > 0 THEN Bracket(in, sl, fib, IF swing > fib THEN swing ELSE far)
       ELSE Bracket(in, sl, IF in.atr > 0 THEN Plus(cur, in.atr, 4000) ELSE Of(cur, 1080), 0)

InstFrgn(in) ==
    LET sl == StopUnderAverage(in, 15, 900)
    IN InstFrgnTarget(in, sl, FibBase(in, 20, sl), SwingHighs(in.highs, in.cur, 40))

BigCandle(in) ==
    LET cur == in.cur
        stop == IF 0 < in.clow /\ in.clow < cur /\ 1000 * (cur - in.clow) <= 25 * cur
                THEN Max({Of(in.clow, 999), Of(cur, 980)})
                ELSE cur - BoundedDistance(cur, 15, 20, in.atr, 1000)
        move == (5 * in.chigh + 4 * (in.chigh - in.clow)) \div 5
        tp1 == IF in.chigh > cur /\ 0 < in.clow /\ in.clow < in.chigh
               THEN Min({Max({move, Of(cur, 1035)}), Of(cur, 1055)})
               ELSE IF in.chigh > cur
               THEN Min({Max({Of(in.chigh, 1010), Of(cur, 1035)}), Of(cur, 1055)})
               ELSE IF in.atr > 0 THEN cur + BoundedDistance(cur, 35, 55, in.atr, 2000)
               ELSE Of(cur, 1040)
    IN Bracket(in, Guarded(stop, cur, 980), tp1, 0)

ProgramBuy(in) ==
    LET levels == SwingHighs(in.highs, in.cur, 40)
        sl == StopUnderAverage(in, 10, 920)
    IN IF Beyond(First(levels), in.cur, 1030) THEN Bracket(in, sl, levels[1], Second(levels))
       ELSE Bracket(in, sl, IF in.atr > 0 THEN Plus(in.cur, in.atr, 3000) ELSE Of(in.cur, 1060), 0)

Theme(in) ==
    LET cur == in.cur
        stop == IF 0 < in.ma5 /\ in.ma5 < cur /\ 1000 * (cur - in.ma5) <= 25 * cur
                THEN Of(in.ma5, 995)
                ELSE cur - BoundedDistance(cur, 20, 25, in.atr, 1200)
        level == NearestResistance(in.highs, cur, 20, 1015)
        tp1 == IF level > 0 THEN Min({level, Of(cur, 1060)})
               ELSE IF in.atr > 0 THEN cur + BoundedDistance(cur, 40, 60, in.atr, 2500)
               ELSE Of(cur, 1045)
    IN FitTp(in, Bracket(in, Guarded(stop, cur, 975), tp1, 0), 45, 65)

Ichimoku(in) ==
    LET cur == in.cur
        supports == {Of(x, 998) : x \in {y \in {in.cloud, in.kijun} :
                        0 < y /\ y < cur /\ 1000 * Of(y, 998) < 990 * cur}}
        stop == IF supports # {} THEN Max(supports)
                ELSE IF in.atr > 0 THEN Minus(cur, in.atr, 1500) ELSE Of(cur, 950)
        sl == Guarded(Max({stop, Of(cur, 960)}), cur, 960)
        levels == SwingHighs(in.highs, cur, 30)
        fib == Fib1272(sl, cur)
        far == Fib1618(sl, cur)
        near == IF FibBeyond(fib, cur, 1030) THEN fib \div 1000 ELSE Of(cur, 1080)
    IN FinishSwing(in,
         IF Beyond(First(levels), cur, 1030)
         THEN Bracket(in, sl, levels[1], Fib1272(sl, levels[1]) \div 1000)
         ELSE Bracket(in, sl, near, IF far > 1000 * near THEN far \div 1000 ELSE Of(cur, 1150)), 25)

GoldenCross(in) ==
    LET cur == in.cur
        low == First(SwingLows(in.lows, cur, 20))
        stop == IF in.ma20 > 0 THEN Of(in.ma20, 990)
                ELSE IF in.atr > 0 THEN Minus(cur, in.atr, 2000)
                ELSE IF low > 0 THEN Of(low, 995) ELSE Of(cur, 950)
        levels == SelectSeq(SwingHighs(in.highs, cur, 40), LAMBDA x : Beyond(x, cur, 1050))
        tp1 == IF levels # <<>> THEN levels[1]
               ELSE IF Beyond(in.bb, cur, 1050) THEN in.bb
               ELSE IF in.atr > 0 THEN Plus(cur, in.atr, 3000) ELSE Of(cur, 1100)
    IN Refreshed(in, FinishSwing(in, Bracket(in, Guarded(stop, cur, 950),
                                             Max({tp1, Of(cur, 1050)}), Second(levels)), 25))

Pullback(in) ==
    LET cur == in.cur
        low == First(SwingLows(in.lows, cur, 15))
        stop == IF low > 0 THEN Of(low, 990)
                ELSE IF in.ma20 > 0 THEN Of(in.ma20, 990)
                ELSE IF in.atr > 0 THEN Minus(cur, in.atr, 2000) ELSE Of(cur, 960)
        levels == SwingHighs(in.highs, cur, 40)
        tp1 == IF levels # <<>> THEN levels[1]
               ELSE IF in.ma60 > cur THEN Of(in.ma60, 1050)
               ELSE IF in.atr > 0 THEN Plus(cur, in.atr, 2500) ELSE Of(cur, 1060)
    IN FinishSwing(in, Bracket(in, Guarded(stop, cur, 960), tp1, Second(levels)), 25)

AtrFallback(in) ==
    IF in.atr > 0
    THEN Bracket(in, Max({Minus(in.cur, in.atr, 2000), 1}), Plus(in.cur, in.atr, 3000), 0)
    ELSE Bracket(in, Max({Of(in.cur, 950), 1}), Of(in.cur, 1080), 0)

BoxBreakout(in) ==
    LET cur == in.cur
        past == 2..Min({Len(in.highs), 16})
        top == Max({in.highs[i] : i \in past})
        bottom == Min({in.lows[i] : i \in past})
        stop == Max({Of(top, 990), 1})
        sl == IF stop < cur THEN stop
              ELSE IF in.atr > 0 THEN Minus(cur, in.atr, 1500) ELSE Of(cur, 950)
        tp1 == Fib1272(bottom, top) \div 1000
    IN IF past = {} THEN AtrFallback(in)
       ELSE FinishSwing(in, IF tp1 > cur
                            THEN Bracket(in, sl, tp1, Fib1618(bottom, top) \div 1000)
                            ELSE Bracket(in, sl, Of(cur, 1080), Of(cur, 1150)), 20)

MomentumTarget(in, sl, base, levels) ==
    LET cur == in.cur
        far == Fib1618(base, cur) \div 1000
        fib == IF Fib1272(base, cur) > 1000 * cur THEN Fib1272(base, cur) \div 1000 ELSE 0
        swing == First(levels)
        further == First(SwingHighs(in.highs, in.bb, 40))
        farOr0(tp) == IF far > tp THEN far ELSE 0
        aim == IF swing >= fib /\ Beyond(swing, cur, 1030)
               THEN <<swing, IF Len(levels) > 1 THEN levels[2] ELSE farOr0(swing)>>
               ELSE IF Beyond(fib, cur, 1030) THEN <<fib, IF swing > fib THEN swing ELSE farOr0(fib)>>
               ELSE IF Beyond(in.bb, cur, 1050)
               THEN <<in.bb, IF further > 0 THEN further ELSE farOr0(in.bb)>>
               ELSE <<IF in.atr > 0 THEN Plus(cur, in.atr, 5000) ELSE Of(cur, 1120), 0>>
        tp1 == IF 1000 * aim[1] >= 1030 * cur THEN aim[1]
               ELSE IF Beyond(fib, cur, 1030) THEN fib
               ELSE IF in.atr > 0 THEN Plus(cur, in.atr, 4000) ELSE Of(cur, 1100)
    IN FitTp(in, FinishSwing(in, Bracket(in, sl, tp1, aim[2]), 25), 55, 125)

MomentumAlign(in) ==
    LET support == First(SwingLows(in.lows, in.cur, 10))
        stop == IF support > 0 /\ Beyond(support, in.cur, 930) THEN Of(support, 990)
                ELSE IF in.ma20 > 0 THEN Of(in.ma20, 990)
                ELSE IF in.atr > 0 THEN Minus(in.cur, in.atr, 1500) ELSE Of(in.cur, 950)
        sl == Guarded(stop, in.cur, 950)
    IN MomentumTarget(in, sl, FibBase(in, 20, sl), SwingHighs(in.highs, in.cur, 60))

NewHigh(in) ==
    LET cur == in.cur
        past == IF Len(in.highs) < 2 THEN 0
                ELSE Max({in.highs[i] : i \in 2..Min({Len(in.highs), 61})})
        stop == IF 0 < past /\ past < cur THEN Of(past, 980)
                ELSE IF in.atr > 0 THEN Minus(cur, in.atr, 2000) ELSE Of(cur, 940)
        sl == IF stop <= 0 \/ stop >= cur THEN Of(cur, 940) ELSE stop
        low == RecentLow(in.lows, 20)
        base == IF low > 0 THEN low ELSE sl
        tp1 == Fib1272(base, cur) \div 1000
    IN FinishSwing(in, IF tp1 > cur THEN Bracket(in, sl, tp1, Fib1618(base, cur) \div 1000)
                       ELSE Bracket(in, sl, Of(cur, 1080), Of(cur, 1150)), 20)

FrgnCont(in) ==
    LET cur == in.cur
        low(n) == First(SwingLows(in.lows, cur, n))
        stop == IF in.ma20 > 0 /\ 100 * (cur - in.ma20) > 6 * cur
                THEN IF Beyond(low(15), cur, 880) THEN Of(low(15), 990) ELSE Of(cur, 940)
                ELSE IF in.ma20 > 0 THEN Of(in.ma20, 980)
                ELSE IF low(20) > 0 THEN Of(low(20), 990) ELSE Of(cur, 950)
        sl == Min({Guarded(stop, cur, 950), Of(cur, 980)})
        levels == SwingHighs(in.highs, cur, 40)
    IN FinishSwing(in, IF in.bb > cur THEN Bracket(in, sl, in.bb, 0)
                       ELSE IF levels # <<>> THEN Bracket(in, sl, levels[1], Second(levels))
                       ELSE Bracket(in, sl, Of(cur, 1080), 0), 25)

ClosingTarget(in, sl, base, levels) ==
    LET cur == in.cur
        fib == Fib1272(base, cur)
        far == Fib1618(base, cur) \div 1000
        near == Max({fib \div 1000, First(levels)})
        aim == IF levels # <<>> /\ 1000 * (levels[1] - cur) >= 30 * cur
               THEN <<levels[1], Second(levels)>>
               ELSE IF levels # <<>> THEN <<near, IF far > near THEN far ELSE Second(levels)>>
               ELSE IF FibBeyond(fib, cur, 1030) THEN <<fib \div 1000, far>>
               ELSE IF in.atr > 0 THEN <<Plus(cur, in.atr, 3000), Plus(cur, in.atr, 5000)>>
               ELSE <<Of(cur, 1050), 0>>
    IN FitTp(in, FinishSwing(in, Bracket(in, sl, aim[1], aim[2]), 15), 40, 95)

Closing(in) ==
    LET cur == in.cur
        support == First(SwingLows(in.lows, cur, 5))
        today == First(in.lows)
        stop == IF Beyond(support, cur, 920) THEN Of(support, 990)
                ELSE IF 0 < in.ma5 /\ in.ma5 < cur THEN Of(in.ma5, 990)
                ELSE IF 0 < today /\ today < cur THEN Max({Of(today, 995), Of(cur, 940)})
                ELSE IF in.ma20 > 0 THEN Of(in.ma20, 990) ELSE Of(cur, 970)
        sl == Guarded(stop, cur, 970)
    IN ClosingTarget(in, sl, FibBase(in, 10, sl), SwingHighs(in.highs, cur, 40))

Oversold(in) ==
    LET cur == in.cur
        low == First(SwingLows(in.lows, cur, 10))
        stop == IF Beyond(low, cur, 900) THEN Of(low, 990)
                ELSE IF 0 < in.ma20 /\ in.ma20 < cur THEN Of(in.ma20, 990)
                ELSE IF in.atr > 0 THEN Minus(cur, in.atr, 1500) ELSE Of(cur, 950)
        levels == SwingHighs(in.highs, cur, 40)
        tp1 == IF levels # <<>> THEN levels[1]
               ELSE IF in.ma60 > cur THEN in.ma60
               ELSE IF in.atr > 0 THEN Plus(cur, in.atr, 3500) ELSE Of(cur, 1080)
    IN FinishSwing(in, Bracket(in, Guarded(stop, cur, 950), tp1, Second(levels)), 15)

-----------------------------------------------------------------------------
(* calc_tp_sl *)

Consolidate(in, r) ==
    IF ~(r.tp2 > r.tp1 /\ r.tp1 > 0) THEN r
    ELSE IF in.s \in DayTrade THEN Refreshed(in, [r EXCEPT !.tp2 = 0])
    ELSE Refreshed(in, [r EXCEPT !.tp1 = (@ + r.tp2) \div 2, !.tp2 = 0])

\* (mutant) The activation is not capped by the target.
ApplyPolicyUncapped(in, r) ==
    LET policy == Policies[in.s]
    IN [r EXCEPT !.act = (1000 * in.cur + Max({in.cur - r.sl, 1}) * policy.trailR) \div 1000,
                 !.skip = r.skip /\ r.rr <= 0]

\* _apply_policy_metadata: a ratio below the strategy's is advice, a stop too far a veto.
ApplyPolicy(in, r) ==
    LET policy == Policies[in.s]
        act == (1000 * in.cur + Max({in.cur - r.sl, 1}) * policy.trailR) \div 1000
        tooFar == policy.stopMax > 0 /\ 1000 * (in.cur - r.sl) > policy.stopMax * in.cur
    IN [r EXCEPT !.act = IF r.trail = 0 \/ in.s \in DayTrade THEN @
                         ELSE IF r.tp1 > in.cur THEN Min({r.tp1, act}) ELSE act,
                 !.vetoed = tooFar,
                 !.skip = tooFar \/ (r.skip /\ r.rr <= 0)]

EnrichZones(in, r) ==
    IF ZoneGate /\ in.zonePoor /\ in.s \in {"S8", "S9", "S13", "S14", "S15"}
    THEN [r EXCEPT !.skip = TRUE] ELSE r

OfStrategy(in) ==
    CASE in.s = "S1" -> GapOpen(in)
      [] in.s = "S2" -> ViPullback(in)
      [] in.s = "S3" -> InstFrgn(in)
      [] in.s = "S4" -> BigCandle(in)
      [] in.s = "S5" -> ProgramBuy(in)
      [] in.s = "S6" -> Theme(in)
      [] in.s = "S7" -> Ichimoku(in)
      [] in.s = "S8" -> GoldenCross(in)
      [] in.s = "S9" -> Pullback(in)
      [] in.s = "S10" -> NewHigh(in)
      [] in.s = "S11" -> FrgnCont(in)
      [] in.s = "S12" -> Closing(in)
      [] in.s = "S13" -> BoxBreakout(in)
      [] in.s = "S14" -> Oversold(in)
      [] in.s = "S15" -> MomentumAlign(in)
      [] OTHER -> AtrFallback(in)

CalcTpSl(input) ==
    LET in == [input EXCEPT !.minRr = IF @ = 1300 THEN Policies[input.s].minRr ELSE @]
    IN EnrichZones(in, ApplyPolicy(in, Consolidate(in, OfStrategy(in))))
=============================================================================
