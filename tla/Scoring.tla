------------------------------ MODULE Scoring ------------------------------
(***************************************************************************)
(* scorer.py: the rule score of a signal, before Claude is asked, and the  *)
(* tables of strategy_meta.py and strategy_catalog.py it rests on.         *)
(*                                                                         *)
(* Percentages and ratios are in hundredths, a rate of Toss in thousandths *)
(* and scores in hundredths of a point; None is the constant of that name. *)
(* Of a float only its position between the bounds of a table matters.     *)
(***************************************************************************)
EXTENDS MarketData, Sequences, FiniteSetsExt

CONSTANT FamilyRouting   \* ENABLE_STRATEGY_FAMILY_LIVE_ROUTING

DayStrategies == {"S1", "S2", "S4", "S6"}
SwingStrategies == {"S3", "S5", "S7", "S8", "S9", "S10", "S11", "S12", "S13", "S14", "S15", "S16"}
Strategies == DayStrategies \cup SwingStrategies

Threshold ==
    [S1 |-> 55, S2 |-> 60, S3 |-> 60, S4 |-> 65, S5 |-> 58, S6 |-> 60, S7 |-> 62, S8 |-> 60,
     S9 |-> 60, S10 |-> 64, S11 |-> 58, S12 |-> 61, S13 |-> 64, S14 |-> 61, S15 |-> 65, S16 |-> 75]

Families ==
    [G01 |-> [setups |-> {"S1", "S2", "S12"}, threshold |-> 70],
     G02 |-> [setups |-> {"S3", "S5", "S11"}, threshold |-> 70],
     G03 |-> [setups |-> {"S16"}, threshold |-> 78],
     G04 |-> [setups |-> {"S8", "S9", "S15"}, threshold |-> 70],
     G05 |-> [setups |-> {"S7", "S10", "S13"}, threshold |-> 74],
     G06 |-> [setups |-> {"S4", "S6"}, threshold |-> 72],
     G07 |-> [setups |-> {"S14"}, threshold |-> 75]]
FamilyOf(s) == CHOOSE g \in DOMAIN Families : s \in Families[g].setups

-----------------------------------------------------------------------------
(* Tables: the first row a number reaches gives the points. *)

PointsOf(rows, hit) == IF hit = {} THEN 0 ELSE LET row == rows[Min(hit)] IN row[Len(row)]
\* (mutant) The rows are bands: what is above the highest of them has no points.
AboveWithin(x, rows) == PointsOf(rows, {i \in DOMAIN rows : rows[i][1] < x /\ x <= rows[1][1]})
Above(x, rows) == PointsOf(rows, {i \in DOMAIN rows : x > rows[i][1]})
AtLeast(x, rows) == PointsOf(rows, {i \in DOMAIN rows : x >= rows[i][1]})
Between(x, rows) == PointsOf(rows, {i \in DOMAIN rows : rows[i][1] <= x /\ x <= rows[i][2]})
If(condition, points) == IF condition THEN points ELSE 0
Abs(x) == Max({x, -x})
Clamp(x, most) == Max({0, Min({x, most})})

-----------------------------------------------------------------------------
(* The regime of the market. *)

\* The rate of an index is doubled, so that an average of two is an integer.
RegimeOfTwice(rate) ==
    IF rate >= 100 THEN "bull" ELSE IF rate <= -100 THEN "bear" ELSE "sideways"

\* Net buying of foreigners and institutions decides where the index does not.
Nudged(regime, flows) ==
    LET clear == SelectSeq(flows, LAMBDA f : f.net >= f.bound \/ f.net <= -f.bound)
    IN IF regime # "sideways" \/ clear = <<>> THEN regime
       ELSE IF clear[1].net >= clear[1].bound THEN "bull" ELSE "bear"

Regime(s, ctx) ==
    LET rate(exp, real) == IF s = "S1" /\ exp # None /\ exp # 0 THEN exp ELSE real
        kospi == rate(ctx.kospiExp, ctx.kospi)
        kosdaq == rate(ctx.kosdaqExp, ctx.kosdaq)
        known == SelectSeq(<<kospi, kosdaq>>, LAMBDA x : x # None)
        ofKospi == [net |-> ctx.kospiFlow, bound |-> 10]
        ofKosdaq == [net |-> ctx.kosdaqFlow, bound |-> 2]
        of(index, flow) == IF index = None THEN "neutral"
                           ELSE Nudged(RegimeOfTwice(2 * index), <<flow>>)
    IN CASE ctx.market = "001" -> of(kospi, ofKospi)
         [] ctx.market = "101" -> of(kosdaq, ofKosdaq)
         [] OTHER -> IF known = <<>> THEN "neutral"
                     ELSE Nudged(RegimeOfTwice(IF Len(known) = 1 THEN 2 * known[1]
                                               ELSE known[1] + known[2]),
                                 <<ofKospi, ofKosdaq>>)

\* The least reward-to-risk ratio, in thousandths, and what a bull market takes off it.
RrGate ==
    [S1 |-> 1200, S2 |-> 1300, S3 |-> 1500, S4 |-> 1400, S5 |-> 1500, S6 |-> 1300, S7 |-> 1500,
     S8 |-> 1500, S9 |-> 1450, S10 |-> 1500, S11 |-> 1500, S12 |-> 1450, S13 |-> 1500,
     S14 |-> 1500, S15 |-> 1450, S16 |-> 1600]
EffectiveRr ==
    [S1 |-> 1500, S2 |-> 1800, S3 |-> 1500, S4 |-> 1700, S5 |-> 1500, S6 |-> 1600, S7 |-> 1800,
     S8 |-> 1500, S9 |-> 1550, S10 |-> 1550, S11 |-> 1550, S12 |-> 1500, S13 |-> 1550,
     S14 |-> 1500, S15 |-> 1550, S16 |-> 1800]
BaseRrGate(s) == IF FamilyRouting THEN EffectiveRr[s] ELSE RrGate[s]
BullRrShare(s) ==
    CASE s \in {"S1", "S15", "S4", "S10", "S13"} -> 88
      [] s \in {"S7", "S8"} -> 90
      [] s \in {"S2", "S12", "S6"} -> 93
      [] s \in {"S3", "S5", "S11", "S16", "S9"} -> 97
      [] s = "S14" -> 100
RegimeRrShare(s, regime) == IF regime = "bull" THEN BullRrShare(s) ELSE 100

-----------------------------------------------------------------------------
(* Bonuses every strategy may have. *)

ZoneBonus(in) ==
    LET z == in.zone
        inside == z.low <= in.cur /\ in.cur <= z.high
    IN IF in.s \notin {"S8", "S9", "S13", "S14", "S15"} \/ z.low <= 0 \/ z.high <= 0 THEN 0
       ELSE If(inside, 8) - If(inside /\ 4 * (in.cur - z.low) >= 3 * (z.high - z.low), 5)
            + AtLeast(z.strength, <<<<4, 10>>, <<3, 5>>>>) + If(z.anchors >= 3, 5)

\* Minutes of the day, the last excluded.
TimeBonus(s, minute) ==
    LET window == CASE s = "S1" -> <<510, 570>>
                    [] s \in {"S7", "S10", "S11", "S14"} -> <<600, 780>>
                    [] s \in {"S8", "S9", "S13"} -> <<540, 630>>
                    [] s = "S6" -> <<570, 690>>
                    [] s = "S12" -> <<870, 910>>
                    [] s = "S15" -> <<570, 720>>
                    [] OTHER -> <<0, 0>>
    IN If(window[1] <= minute /\ minute < window[2], 5)

TossBonus(in) ==
    IF in.s \notin SwingStrategies THEN 0
    ELSE AtLeast(in.toss.short, <<<<100, 8>>, <<50, 4>>>>) - If(in.toss.margin >= 50, 5)
         - If(in.toss.severe, 25) - If(in.toss.caution, 6)

RegimeBonus(s, regime) ==
    CASE regime = "bull" -> If(s \in {"S1", "S4", "S6", "S8", "S10", "S13"}, 5)
      [] regime = "bear" -> If(s \in {"S14", "S9", "S11"}, 5)
      [] regime = "sideways" -> If(s \in {"S7", "S13", "S8", "S11", "S15", "S16"}, 3)
      [] OTHER -> 0

Flu(in) == IF in.flu # 0 THEN in.flu ELSE in.sigFlu

\* What is missing, as 0 in value and None in cap, is never penalised.
RiskPenalty(in, regime) ==
    LET relief(x) == IF regime = "bull" THEN x \div 2 ELSE x
    IN relief(Above(Flu(in), <<<<1500, 20>>, <<1000, 10>>>>))
       + If(Flu(in) < (IF regime = "bear" THEN -800 ELSE -500), 15)
       + relief(If(Flu(in) > 2500, 20))
       + If(0 < in.value /\ in.value < 1000, 10)
       + If(in.sector >= (IF regime = "bull" THEN 4 ELSE 3), 15)
       + (IF in.cap = None THEN 0 ELSE IF in.cap < 100 THEN 25 ELSE If(in.cap < 500, 15))

-----------------------------------------------------------------------------
(* The strategies. *)

Strength(in) == IF in.cntr > 0 THEN in.cntr ELSE in.strength
Bid(in) == IF in.hoga # None THEN in.hoga ELSE in.sigBid
\* Without the websocket a strength of exactly 100 is the default, not a reading.
Unread(in) == ~in.online /\ Strength(in) = 100

\* The day strategies and the flows of institutions, foreigners and programs.
EarlyPoints(in) ==
    CASE in.s = "S1" ->
            Between(in.gap, <<<<300, 499, 20>>, <<500, 799, 15>>, <<800, 1499, 10>>>>)
            - If(in.gap >= 1500, 10)
            + Above(in.strength, <<<<150, 30>>, <<130, 20>>, <<110, 10>>>>)
            + Above(Bid(in), <<<<200, 25>>, <<150, 20>>, <<130, 10>>>>)
            + Above(in.cntr, <<<<150, 10>>, <<130, 5>>>>)
      [] in.s = "S2" ->
            Between(Abs(in.pullback), <<<<100, 199, 30>>, <<0, 299, 20>>>>)
            + If(in.flag, 15) + Above(Strength(in), <<<<120, 20>>, <<110, 10>>>>)
            + Above(Bid(in), <<<<150, 20>>, <<130, 10>>>>)
      [] in.s = "S3" ->
            AtLeast(in.days, <<<<5, 30>>, <<3, 20>>, <<1, 10>>>>)
            + AtLeast(in.vol, <<<<300, 25>>, <<200, 20>>, <<150, 10>>>>)
            + Between(in.sigFlu, <<<<100, 499, 10>>, <<1, 99, 5>>>>)
            + If(in.flag, 10) + If(in.conc >= 1500, 5)
      [] in.s = "S4" ->
            Above(in.vol, <<<<1000, 30>>, <<500, 25>>, <<299, 15>>>>)
            + AtLeast(in.body, <<<<80, 20>>, <<70, 15>>, <<65, 10>>>>)
            + If(in.flag, 20) + Above(in.strength, <<<<150, 20>>, <<130, 15>>, <<120, 10>>>>)
            + AtLeast(in.gain, <<<<500, 15>>, <<350, 10>>, <<250, 5>>>>)
      [] in.s = "S5" ->
            (IF Unread(in) THEN 10
             ELSE Above(Strength(in), <<<<130, 25>>, <<120, 20>>, <<100, 10>>>>))
            + Above(Bid(in), <<<<200, 20>>, <<150, 15>>, <<120, 8>>>>)
      [] in.s = "S6" ->
            LET flu == Abs(in.sigFlu)
            IN (CASE in.mode = "LEADER_PULLBACK" ->
                        Between(flu, <<<<300, 499, 25>>, <<300, 800, 15>>>>)
                  [] in.mode = "SECONDARY_ROTATION" ->
                        Between(flu, <<<<100, 399, 20>>, <<0, 499, 15>>>>)
                  [] OTHER -> Between(flu, <<<<100, 299, 25>>, <<0, 499, 15>>>>))
               + Above(Strength(in), <<<<150, 30>>, <<120, 20>>>>)
               + Above(in.hoga, <<<<150, 20>>, <<120, 10>>>>)
               + AtLeast(in.vol, <<<<200, 5>>, <<150, 3>>>>)

\* The cloud, the new high, the foreigners and the close.
BreakoutPoints(in) ==
    CASE in.s = "S7" ->
            LET bid == IF in.sigBid # None THEN in.sigBid ELSE in.hoga
                flow == in.vol >= 80 \/ bid >= 120 \/ in.strength >= 150
            IN Between(in.cloud, <<<<0, 99, 20>>, <<0, 199, 15>>, <<0, 349, 8>>>>)
               + If(in.flag, 20) + AtLeast(in.vol, <<<<200, 25>>, <<150, 15>>, <<120, 5>>>>)
               + Between(in.rsi, <<<<45, 70, 15>>, <<40, 44, 8>>>>)
               + If(in.cond >= 3 /\ in.rr >= 1800 /\ flow,
                    AtLeast(in.raw, <<<<95, 12>>, <<90, 8>>>>))
      [] in.s = "S10" ->
            LET surge == IF in.surge # 0 THEN in.surge ELSE Max({0, in.vol - 100})
            IN AtLeast(surge, <<<<300, 30>>, <<200, 20>>, <<100, 10>>>>)
               + Between(Flu(in), <<<<200, 800, 20>>, <<1, 1500, 10>>>>) - If(Flu(in) > 1500, 10)
               + If(surge >= 100 /\ Strength(in) > 100, 12)
               + Above(Strength(in), <<<<130, 30>>, <<110, 20>>, <<90, 12>>, <<70, 6>>>>)
               + Above(in.sigBid, <<<<150, 10>>, <<120, 5>>>>)
      [] in.s = "S11" ->
            AtLeast(in.days, <<<<3, 30>>, <<2, 20>>>>)
            + (IF Flu(in) > 0 THEN 20 ELSE IF Flu(in) < -300 THEN -10 ELSE 0)
            + Above(Strength(in), <<<<120, 30>>, <<100, 20>>>>)
      [] in.s = "S12" ->
            Between(Flu(in), <<<<400, 1000, 30>>, <<1001, 1500, 15>>>>) - If(Flu(in) > 1500, 10)
            + AtLeast(Strength(in), <<<<130, 35>>, <<110, 25>>, <<100, 10>>>>)
            + Above(IF in.local # None THEN in.local ELSE in.hoga, <<<<150, 20>>, <<120, 10>>>>)

\* The averages, the box, the oversold and the momentum.
ChartPoints(in) ==
    CASE in.s = "S8" ->
            Between(Flu(in), <<<<100, 500, 25>>, <<501, 1000, 15>>>>)
            + AtLeast(in.vol, <<<<300, 20>>, <<150, 12>>, <<100, 5>>>>)
            + Above(Strength(in), <<<<130, 30>>, <<110, 20>>, <<100, 10>>>>)
            + Above(in.hoga, <<<<150, 15>>, <<120, 8>>>>)
            + Above(in.rsi, <<<<55, 10>>, <<50, 5>>>>)
            + (IF in.flag THEN 15 ELSE Between(Abs(in.gap), <<<<0, 200, 10>>, <<0, 500, 5>>>>))
            + If(in.second, 8)
      [] in.s = "S9" ->
            Between(Flu(in), <<<<50, 300, 30>>, <<301, 600, 20>>, <<601, 1000, 10>>>>)
            + (IF Unread(in) THEN 10
               ELSE Above(Strength(in), <<<<130, 35>>, <<110, 25>>, <<100, 10>>>>))
            + Above(in.hoga, <<<<150, 20>>, <<120, 10>>>>)
            + Between(in.rsi, <<<<40, 52, 15>>, <<53, 62, 8>>, <<30, 39, 3>>>>)
            + Between(in.gap, <<<<-100, 200, 15>>, <<-400, 400, 8>>>>) + If(in.flag, 10)
      [] in.s = "S13" ->
            Between(Flu(in), <<<<300, 800, 30>>, <<801, 1500, 20>>>>)
            + Above(Strength(in), <<<<150, 35>>, <<130, 25>>, <<110, 10>>>>)
            + Above(in.hoga, <<<<200, 25>>, <<150, 15>>, <<120, 5>>>>)
            + Above(in.rsi, <<<<60, 10>>, <<50, 5>>>>)
            + AtLeast(in.vol, <<<<300, 18>>, <<200, 12>>, <<130, 6>>>>)
            + If(in.flag, 10) + If(in.second, 8)
      [] in.s = "S14" ->
            Between(in.rsi, <<<<1, 30, 35>>, <<31, 35, 25>>, <<36, 38, 15>>, <<39, 100, 5>>>>)
            + Between(in.atr, <<<<100, 250, 15>>, <<50, 99, 5>>>>) - If(in.atr > 300, 5)
            + Above(Strength(in), <<<<120, 25>>, <<110, 15>>, <<100, 5>>>>)
            + Above(in.hoga, <<<<150, 15>>, <<120, 8>>>>)
            + AtLeast(in.cond, <<<<3, 18>>, <<2, 10>>, <<1, 5>>>>)
            + AtLeast(in.vol, <<<<150, 10>>, <<110, 5>>>>)
      [] in.s = "S15" ->
            Between(in.rsi, <<<<50, 70, 35>>, <<71, 75, 25>>, <<45, 49, 10>>>>)
            + AtLeast(in.vol, <<<<300, 25>>, <<200, 18>>, <<150, 10>>>>)
            + Above(Strength(in), <<<<130, 25>>, <<110, 18>>, <<100, 8>>>>)
            + Above(in.hoga, <<<<150, 15>>, <<120, 8>>>>)
            + Between(Flu(in), <<<<100, 500, 5>>, <<501, 800, 3>>>>)

BasePoints(in) ==
    CASE in.s \in {"S1", "S2", "S3", "S4", "S5", "S6"} -> EarlyPoints(in)
      [] in.s \in {"S7", "S10", "S11", "S12"} -> BreakoutPoints(in)
      [] in.s \in {"S8", "S9", "S13", "S14", "S15"} -> ChartPoints(in)
      [] in.s = "S16" -> 0

\* What grows with an amount or with the runner's own score, in hundredths of a point.
LinearPoints(in) ==
    CASE in.s = "S1" -> Min({3000, in.raw * 20})
      [] in.s = "S3" -> Min({2500, in.amount * 25})
      [] in.s = "S5" -> Min({4000, IF in.market = "001" THEN (in.amount * 4) \div 5
                                   ELSE in.amount * 4})
      [] in.s = "S8" -> Min({1200, in.raw * 35})
      [] in.s = "S9" -> Min({1000, in.raw * 35})
      [] in.s = "S10" -> Min({1200, in.raw * 40})
      [] in.s = "S13" -> Min({1200, in.raw * 20})
      [] in.s = "S14" -> Min({1000, in.raw * 20})
      [] in.s = "S16" -> Clamp(in.acc, 3000) + Clamp(in.supply, 2500) + Clamp(in.trigger, 2000)
                         + Clamp(in.risk, 1000)
      [] OTHER -> 0

RuleScore(in) ==
    LET regime == Regime(in.s, in.ctx)
        points == BasePoints(in) + ZoneBonus(in) + AtLeast(in.cond, <<<<4, 10>>, <<3, 5>>>>)
                  + TimeBonus(in.s, in.minute) + RegimeBonus(in.s, regime) + TossBonus(in)
                  - RiskPenalty(in, regime)
        exact == Clamp(100 * points + LinearPoints(in), 10000)
    IN 10 * ((exact + 5) \div 10)

ShouldSkipAi(score, s) == score < 100 * Threshold[s]
=============================================================================
