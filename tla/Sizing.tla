------------------------------- MODULE Sizing -------------------------------
(***************************************************************************)
(* position_sizing.py: how strong an entry is, as a tier of 0 to 4 that    *)
(* stands for 0, 25, 50, 75 and 100 percent of a position.  Points are in  *)
(* hundredths, percentages in hundredths, ratios in thousandths.           *)
(***************************************************************************)
EXTENDS Scoring

Weight(tier) == 25 * tier
TierOf(score) == AtLeast(score, <<<<9000, 4>>, <<8000, 3>>, <<7000, 2>>, <<5500, 1>>>>)

\* A low risk of chasing lets two strategies one tier higher.
TierCap(s, quality, chase) ==
    CASE s \in {"S1", "S2", "S4"} -> 3
      [] s \in {"S10", "S13"} -> IF quality = "A" /\ chase < 30 THEN 3 ELSE 2
      [] s = "S15" -> 2
      [] OTHER -> 4

\* Amounts in units of a hundred million won.
LiquidityPoints(amount, spread) ==
    AtLeast(amount, <<<<100, 800>>, <<50, 600>>, <<10, 400>>, <<5, 200>>>>)
    + (IF spread = None THEN 0
       ELSE Between(spread, <<<<0, 5, 700>>, <<0, 10, 500>>, <<0, 20, 300>>, <<0, 50, 100>>>>))

StopPoints(stop, atr) ==
    LET width == Between(stop, <<<<0, 100, 1000>>, <<0, 150, 800>>, <<0, 200, 600>>,
                                 <<0, 300, 400>>, <<0, 500, 200>>>>)
        fit == IF atr = None \/ atr <= 0 THEN 0
               ELSE IF stop < atr THEN 200 ELSE IF stop <= 3 * atr THEN 500 ELSE -200
    IN Clamp(width + fit, 1500)

RegimeFit(s, regime) ==
    If(\/ regime = "bull" /\ s \in {"S1", "S4", "S6", "S8", "S10", "S13"}
       \/ regime = "bear" /\ s \in {"S14", "S9", "S11"}
       \/ regime = "sideways" /\ s \in {"S7", "S13", "S8", "S11", "S15"}, 500)

QualityPoints(quality) == CASE quality = "A" -> 2000 [] quality = "B" -> 1400
                            [] quality = "REJECT" -> 0 [] OTHER -> 800

SizeScore(in) ==
    LET points == Min({2500, (15 * in.aiScore + 10 * in.ruleScore) \div 100})
                  + QualityPoints(in.candidate) + LiquidityPoints(in.amount, in.spread)
                  + StopPoints(in.stop, in.atr) + Max({0, 1500 - 15 * in.chase})
                  + RegimeFit(in.s, in.regime) + Min({500, 250 * (in.strategies - 1)})
                  - Max({0, 50 * (in.heat - 70)}) - If(in.stale, 500)
    IN 10 * ((Clamp(points, 10000) + 5) \div 10)

\* What was rescued from a gate is entered with a quarter, a chase of S8 with a half at most.
Tier(in) ==
    LET capped == Min({TierOf(SizeScore(in)), TierCap(in.s, in.candidate, in.chase)})
        rescueCap == IF /\ in.policy = "momentum_chase_size_down" /\ in.rr >= 1800
                        /\ in.ruleScore >= 7500 /\ in.quality >= 70 THEN 2 ELSE 1
    IN IF in.execution = "REJECT" THEN 0
       ELSE IF ~(in.rescued \/ in.policy = "momentum_chase_size_down") THEN capped
       ELSE IF in.rr < 1200 THEN 0 ELSE Min({capped, rescueCap})
=============================================================================
