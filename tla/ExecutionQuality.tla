-------------------------- MODULE ExecutionQuality --------------------------
(***************************************************************************)
(* execution_quality.py: how risky it is to run after a price, from the    *)
(* book, the minute bars (newest first) and what the strategy knows, and   *)
(* the entry policy S1 derives from it (strategy_1_gap_opening.py).        *)
(* Percentages are in hundredths.                                          *)
(***************************************************************************)
EXTENDS Integers, Sequences, FiniteSetsExt, TLC

CONSTANT None

Points(test, points) == IF test THEN points ELSE 0
Clamped(x, low, high) == Max({low, Min({x, high})})

-----------------------------------------------------------------------------
(* The book: empty, or the best prices and the sums of both sides.         *)

SpreadOver(book, tenths) ==
    book # <<>> /\ book[1].ask > 0 /\ book[1].bid > 0
    /\ 1000 * (book[1].ask - book[1].bid) > tenths * book[1].bid
Depth(book) ==
    IF book = <<>> THEN 50
    ELSE IF book[1].sell <= 0 THEN 50 ELSE Clamped((100 * book[1].buy) \div book[1].sell - 50, 0, 100)

SellWall(book) ==
    IF book = <<>> THEN 50
    ELSE IF book[1].buy <= 0 THEN 50 ELSE Clamped((40 * book[1].sell) \div book[1].buy - 20, 0, 100)

-----------------------------------------------------------------------------
(* The minute bars.  The volume-weighted average is the quotient of paid   *)
(* and three times the volume.                                             *)

Complete(bars) ==
    SelectSeq(bars, LAMBDA bar : bar.high > 0 /\ bar.low > 0 /\ bar.close > 0 /\ bar.vol > 0)
Paid(bars) ==
    LET all == Complete(bars)
    IN SumFunction([i \in DOMAIN all |-> (all[i].high + all[i].low + all[i].close) * all[i].vol])
Traded(bars) == LET all == Complete(bars) IN SumFunction([i \in DOMAIN all |-> all[i].vol])

VwapPosition(bars, price) ==
    IF Traded(bars) = 0 THEN "UNKNOWN"
    ELSE IF 3 * price * Traded(bars) >= Paid(bars) THEN "ABOVE_VWAP" ELSE "BELOW_VWAP"

FirstLows(bars) == {x \in {bars[i].low : i \in 1..3} : x > 0}

FirstLowBreak(bars, price) ==
    /\ Len(bars) >= 3 /\ FirstLows(bars) # {} /\ price < Min(FirstLows(bars))
    /\ Traded(bars) > 0 /\ 3000 * price * Traded(bars) < 998 * Paid(bars)

DayHigh(bars) == Max({bars[i].high : i \in DOMAIN bars})
FallenBy(bars, price, pct) ==
    bars # <<>> /\ DayHigh(bars) > 0 /\ 100 * (DayHigh(bars) - price) >= pct * DayHigh(bars)
FallenOver(bars, price, pct) ==
    bars # <<>> /\ DayHigh(bars) > 0 /\ 100 * (DayHigh(bars) - price) > pct * DayHigh(bars)
ShadowFrom(bars, pct) ==
    bars # <<>> /\ bars[1].high > 0 /\ bars[1].high > bars[1].low
    /\ 100 * (bars[1].high - bars[1].close) >= pct * (bars[1].high - bars[1].low)

-----------------------------------------------------------------------------
(* _apply_strategy_context: a risk of the strategy's own and whether it    *)
(* rejects.                                                                *)

Context(in) ==
    CASE in.s = "S1" -> [reject |-> in.gap >= 1200, risk |-> Points(in.gap >= 800, 10) + Points(in.gap >= 1200, 10)]
      [] in.s = "S4" -> [reject |-> ShadowFrom(in.bars, 30),
                         risk |-> Points(ShadowFrom(in.bars, 20), 10) + Points(ShadowFrom(in.bars, 30), 10)]
      [] in.s = "S10" -> [reject |-> FallenBy(in.bars, in.price, 5),
                          risk |-> Points(FallenBy(in.bars, in.price, 3), 12)
                                   + Points(FallenBy(in.bars, in.price, 5), 13)]
      [] in.s = "S13" -> [reject |-> in.extension > 300, risk |-> Points(in.extension > 300, 15)]

ChaseRisk(in) ==
    Clamped(Points(SpreadOver(in.book, 3), 12) + Points(SpreadOver(in.book, 5), 18)
            + Points(SellWall(in.book) > 65, 10) + Points(SellWall(in.book) > 80, 15)
            + Points(Depth(in.book) < 30, 10) - Points(Depth(in.book) > 60, 5)
            + Points(FirstLowBreak(in.bars, in.price), 30)
            + Points(FallenOver(in.bars, in.price, 3), 8) + Points(FallenOver(in.bars, in.price, 5), 12)
            + Points(ShadowFrom(in.bars, 25), 7) + Points(ShadowFrom(in.bars, 40), 8)
            + Context(in).risk, 0, 100)

Rejected(in) ==
    \/ SpreadOver(in.book, 5) \/ SellWall(in.book) > 80
    \/ FirstLowBreak(in.bars, in.price) \/ FallenOver(in.bars, in.price, 5)
    \/ Context(in).reject

\* assess_execution_quality
Grade(in) ==
    IF Rejected(in) \/ ChaseRisk(in) > 75 THEN "REJECT"
    ELSE IF ChaseRisk(in) > 55 THEN "C" ELSE IF ChaseRisk(in) > 30 THEN "B" ELSE "A"

Assessed(in) ==
    [risk |-> ChaseRisk(in), grade |-> Grade(in), vwap |-> VwapPosition(in.bars, in.price),
     firstLow |-> FirstLowBreak(in.bars, in.price)]

-----------------------------------------------------------------------------
(* _s1_entry_policy: what cancels, what only holds back.                   *)

OrZero(x) == IF x = None THEN 0 ELSE x

Cancels(in) ==
    \/ in.decay # None /\ in.decay <= -5000
    \/ in.firstLow /\ in.vwap = "BELOW_VWAP"
    \/ in.rr # None /\ in.rr < 80

\* (mutant) A quote of unknown age passes for a fresh one.
StaleIfOld(age) == age # None /\ age > 15000

Stale(age) == age = None \/ age > 15000

\* A gap below three percent or above five asks for more strength, bids and reward.
GapUnbacked(in) ==
    LET backed(strength, bid, rr) == in.strength >= strength /\ OrZero(in.bid) >= bid /\ OrZero(in.rr) >= rr
    IN CASE in.gap < 300 -> ~backed(150, 180, 120)
         [] in.gap \in 500..799 -> ~backed(130, 130, 100)
         [] in.gap \in 800..1199 -> ~backed(150, 150, 120)
         [] OTHER -> in.gap >= 1200

Holds(in) ==
    \/ Stale(in.age)
    \/ in.decay # None /\ in.decay <= -3000
    \/ in.firstLow \/ in.vwap = "BELOW_VWAP"
    \/ in.extension > (IF in.gap >= 800 THEN 100 ELSE 150)
    \/ in.rr # None /\ in.rr < 100
    \/ GapUnbacked(in)
    \/ in.early /\ ~(in.strength >= 160 /\ OrZero(in.bid) >= 150)
    \/ in.grade = "REJECT"

EntryPolicy(in) ==
    IF Cancels(in) THEN "CANCEL" ELSE IF Holds(in) THEN "HOLD_RECHECK" ELSE "ENTER_CANDIDATE"

\* scan_gap_opening: the mode a signal is published with.
GapMode(in) ==
    LET opening == IF in.gap >= 1200 THEN "SHADOW" ELSE IF in.early THEN "AUTO_SMALL" ELSE "NORMAL"
        graded == IF in.grade = "REJECT" /\ opening = "NORMAL" THEN "SHADOW" ELSE opening
    IN CASE EntryPolicy(in) = "CANCEL" -> "SHADOW"
         [] EntryPolicy(in) = "HOLD_RECHECK" /\ graded = "NORMAL" -> "HOLD_RECHECK"
         [] OTHER -> graded
=============================================================================
