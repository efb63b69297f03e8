----------------------------- MODULE S16Metrics -----------------------------
(***************************************************************************)
(* strategy_16_accumulation.py: the metrics of a stock under accumulation. *)
(* Candles are records, the newest first; scores and percentages are in    *)
(* hundredths, ratios in hundredths, prices and volumes natural numbers.   *)
(***************************************************************************)
EXTENDS Scoring

CONSTANT Lookback   \* S16_LOOKBACK_DAYS, 60: two thirds are the box, a third the recent past

BoxDays == (2 * Lookback) \div 3
HalfDays == Lookback \div 3

Window(candles, first, last) == {i \in DOMAIN candles : first <= i /\ i <= last}
HighOf(candles, days) == Max({0} \cup {candles[i].high : i \in Window(candles, 1, days)})
LowOf(candles, first, last) ==
    LET lows == {candles[i].low : i \in Window(candles, first, last)} \ {0}
    IN IF lows = {} THEN 0 ELSE Min(lows)
SumOver(candles, days, Value(_)) == MapThenSumSet(LAMBDA i : Value(candles[i]), days)

\* Days of volume 0 do not count.
AverageVolume(candles, days) ==
    LET traded == {i \in days : candles[i].vol > 0}
    IN IF traded = {} THEN 0
       ELSE SumOver(candles, traded, LAMBDA c : c.vol) \div Cardinality(traded)

VolumeRatio(candles) ==
    LET average == AverageVolume(candles, Window(candles, 2, HalfDays + 1))
    IN IF average = 0 THEN 0 ELSE (100 * candles[1].vol) \div average

UpDownRatio(candles) ==
    LET days == Window(candles, 1, HalfDays)
        up == {i \in days : candles[i].cur >= candles[i].open}
        rising == SumOver(candles, up, LAMBDA c : c.vol)
        falling == SumOver(candles, days \ up, LAMBDA c : c.vol)
    IN IF falling > 0 THEN (100 * rising) \div falling ELSE If(rising > 0, 200)

VolumeStructure(candles) ==
    AtLeast(UpDownRatio(candles), <<<<140, 1200>>, <<115, 800>>>>)
    + (IF VolumeRatio(candles) > 300 THEN 500 ELSE If(VolumeRatio(candles) >= 80, 800))

Rise(now, before) == IF before <= 0 THEN 0 ELSE ((now - before) * 10000) \div before

\* Strong days, averages and the flows of investors and programs, at most 25 points.
SupplyScore(strength, flow) ==
    Min({25, AtLeast(strength.latest, <<<<130, 5>>, <<115, 3>>>>)
             + AtLeast(strength.avg5, <<<<125, 5>>, <<112, 3>>>>)
             + If(strength.avg20 >= 110, 4) + If(strength.strongDays >= 4, 3)
             + If(flow.smart > 0, 5) + If(flow.foreign > 0 /\ flow.institution > 0, 3)
             + If(flow.program > 0, 2) + If(flow.programChange > 0, 1)})

AccumulationScore(candles) ==
    LET cur == candles[1].cur
        width == Rise(cur + HighOf(candles, BoxDays) - LowOf(candles, 1, BoxDays), cur)
        before == LowOf(candles, HalfDays + 1, 2 * HalfDays)
        rising == before > 0 /\ 100 * LowOf(candles, 1, HalfDays) > 98 * before
        points == Between(width, <<<<800, 3500, 1800>>, <<3501, 5000, 1000>>>>)
                  + If(rising, 1200) + VolumeStructure(candles)
    IN (Min({5000, points}) * 30) \div 50

TriggerScore(candles, strength, bid) ==
    LET high == HighOf(candles, BoxDays)
        near == Rise(candles[1].cur, high)
    IN AtLeast(strength, <<<<120, 800>>, <<110, 400>>>>) + If(bid >= 130, 500)
       + If(VolumeRatio(candles) >= 150, 400) + If(high > 0 /\ -400 <= near /\ near <= 300, 300)

\* What is not known is no risk: a capitalisation of 0, a trading value of 0.
RiskScore(candles, cap, value) ==
    LET cur == candles[1].cur
        close(i) == IF i <= Len(candles) THEN candles[i].cur ELSE 0
    IN Max({0, 1000 - If(cap # 0 /\ (cap < 1500 \/ cap > 10000), 700)
               - If(0 < value /\ value < 20, 400)
               - If(Rise(cur, close(6)) > 2500 \/ Rise(cur, close(HalfDays + 1)) > 3500, 600)})

\* The stop under the box but within six percent, the target above the box.
Levels(candles) ==
    LET cur == candles[1].cur
        high == HighOf(candles, BoxDays)
        low == LowOf(candles, 1, BoxDays)
        sl == Max({1000 * low, 940 * cur})
        tp1 == Max({1000 * high + 500 * (high - low), 1050 * cur})
        risk == 1000 * cur - sl
    IN [sl |-> sl, tp1 |-> tp1, rr |-> IF risk > 0 THEN (100 * (tp1 - 1000 * cur)) \div risk ELSE 0]

StateOf(total, trigger, risk, rr) ==
    IF total >= 8000 /\ trigger >= 1400 /\ rr >= 160 /\ risk >= 500 THEN "TRIGGERED"
    ELSE IF total >= 7500 /\ risk >= 500 THEN "ARMED"
    ELSE IF total >= 6000 /\ risk >= 400 THEN "ACCUMULATING" ELSE "REJECTED"

Metrics(in) ==
    IF Len(in.candles) < Lookback
    THEN [state |-> "REJECTED", acc |-> 0, supply |-> 0, trigger |-> 0, risk |-> 0]
    ELSE LET acc == AccumulationScore(in.candles)
             supply == 100 * Clamp(in.supply, 25)
             trigger == TriggerScore(in.candles, in.strength, in.bid)
             risk == RiskScore(in.candles, in.cap, in.value)
             total == acc + supply + trigger + risk
         IN [state |-> StateOf(total, trigger, risk, Levels(in.candles).rr),
             acc |-> acc, supply |-> supply, trigger |-> trigger, risk |-> risk]

-----------------------------------------------------------------------------
(* What the volume profile adds to a signal.                                *)

\* 0 stands for what the profile or the signal does not have.
VolumeProfile(entry, sl, tp1, profile) ==
    LET support == (98 * profile.support) \div 100
        target == IF profile.resistance > entry /\ profile.resistance > tp1
                  THEN profile.resistance ELSE tp1
        stop == IF 0 < support /\ support < entry /\ support > sl THEN support ELSE sl
    IN [tp1 |-> target, sl |-> stop,
        rr |-> IF entry > 0 /\ target > entry /\ 0 < stop /\ stop < entry
               THEN (100 * (target - entry)) \div (entry - stop) ELSE 0]
=============================================================================
