------------------------- MODULE Evaluation_proofs -------------------------
EXTENDS Evaluation, SequenceTheorems, FiniteSetTheorems, WellFoundedInduction, TLAPS

LEMMA EvaluatesItsPart ==
    /\ EvaluateTpSl => input.fn = "tpsl"
    /\ EvaluateZones => input.fn = "zone"
    /\ EvaluateScore => input.fn = "score"
    /\ EvaluateStock => input.fn = "stock"
    /\ EvaluateDecision => input.fn = "decide"
    /\ EvaluateTicks => input.fn = "ticks"
    /\ EvaluateSize => input.fn = "size"
    /\ EvaluatePool => input.fn = "pool"
    /\ EvaluateRank => input.fn = "rank"
    /\ EvaluateAnswer => input.fn = "answer"
    /\ EvaluateTrail => input.fn = "trail"
    /\ EvaluateReversal => input.fn = "reversal"
    /\ EvaluateOvernight => input.fn = "overnight"
    /\ EvaluateCross => input.fn = "cross"
    /\ EvaluateBox => input.fn = "box"
    /\ EvaluateCloud => input.fn = "cloud"
    /\ EvaluateProfile => input.fn = "profile"
    /\ EvaluateQuality => input.fn = "quality"
    /\ EvaluateGap => input.fn = "gap"
    /\ EvaluateScan => input.fn = "scan"
<1>1. EvaluateTpSl => input.fn = "tpsl"
    BY DEF EvaluateTpSl
<1>2. EvaluateZones => input.fn = "zone"
    BY DEF EvaluateZones
<1>3. EvaluateScore => input.fn = "score"
    BY DEF EvaluateScore
<1>4. EvaluateStock => input.fn = "stock"
    BY DEF EvaluateStock
<1>5. EvaluateDecision => input.fn = "decide"
    BY DEF EvaluateDecision
<1>6. EvaluateTicks => input.fn = "ticks"
    BY DEF EvaluateTicks
<1>7. EvaluateSize => input.fn = "size"
    BY DEF EvaluateSize
<1>8. EvaluatePool => input.fn = "pool"
    BY DEF EvaluatePool
<1>9. EvaluateRank => input.fn = "rank"
    BY DEF EvaluateRank
<1>10. EvaluateAnswer => input.fn = "answer"
    BY DEF EvaluateAnswer
<1>11. EvaluateTrail => input.fn = "trail"
    BY DEF EvaluateTrail
<1>12. EvaluateReversal => input.fn = "reversal"
    BY DEF EvaluateReversal
<1>13. EvaluateOvernight => input.fn = "overnight"
    BY DEF EvaluateOvernight
<1>14. EvaluateCross => input.fn = "cross"
    BY DEF EvaluateCross
<1>15. EvaluateBox => input.fn = "box"
    BY DEF EvaluateBox
<1>16. EvaluateCloud => input.fn = "cloud"
    BY DEF EvaluateCloud
<1>17. EvaluateProfile => input.fn = "profile"
    BY DEF EvaluateProfile
<1>18. EvaluateQuality => input.fn = "quality"
    BY DEF EvaluateQuality
<1>19. EvaluateGap => input.fn = "gap"
    BY DEF EvaluateGap
<1>20. EvaluateScan => input.fn = "scan"
    BY DEF EvaluateScan
<1>. QED BY <1>1, <1>2, <1>3, <1>4, <1>5, <1>6, <1>7, <1>8, <1>9, <1>10, <1>11, <1>12, <1>13, <1>14,
    <1>15, <1>16, <1>17, <1>18, <1>19, <1>20

LEMMA EvaluatesOnce ==
    ASSUME Next
    PROVE  /\ result = <<>> /\ UNCHANGED input
           /\ input.fn = "answer" => EvaluateAnswer
           /\ input.fn = "trail" => EvaluateTrail
           /\ input.fn = "pool" => EvaluatePool
           /\ input.fn = "rank" => EvaluateRank
           /\ input.fn = "stock" => EvaluateStock
           /\ input.fn = "size" => EvaluateSize
           /\ input.fn = "reversal" => EvaluateReversal
           /\ input.fn = "overnight" => EvaluateOvernight
           /\ input.fn = "decide" => EvaluateDecision
           /\ input.fn = "score" => EvaluateScore
           /\ input.fn = "quality" => EvaluateQuality
           /\ input.fn = "gap" => EvaluateGap
           /\ input.fn = "cross" => EvaluateCross
           /\ input.fn = "box" => EvaluateBox
           /\ input.fn = "cloud" => EvaluateCloud
<1>1. result = <<>> /\ UNCHANGED input
    BY DEF Next
<1>2. /\ input.fn = "answer" => EvaluateAnswer
      /\ input.fn = "trail" => EvaluateTrail
      /\ input.fn = "pool" => EvaluatePool
      /\ input.fn = "rank" => EvaluateRank
      /\ input.fn = "stock" => EvaluateStock
      /\ input.fn = "size" => EvaluateSize
      /\ input.fn = "reversal" => EvaluateReversal
      /\ input.fn = "overnight" => EvaluateOvernight
      /\ input.fn = "decide" => EvaluateDecision
      /\ input.fn = "score" => EvaluateScore
      /\ input.fn = "quality" => EvaluateQuality
      /\ input.fn = "gap" => EvaluateGap
      /\ input.fn = "cross" => EvaluateCross
      /\ input.fn = "box" => EvaluateBox
      /\ input.fn = "cloud" => EvaluateCloud
    BY EvaluatesItsPart DEF Next
<1>. QED
    BY <1>1, <1>2

-----------------------------------------------------------------------------
(* Numbers.                                                                *)

LEMMA GreatestOf ==
    ASSUME NEW a \in Int, NEW b \in Int
    PROVE  (CHOOSE x \in {a, b} : \A y \in {a, b} : x >= y) = IF a >= b THEN a ELSE b
OBVIOUS

LEMMA LeastOf ==
    ASSUME NEW a \in Int, NEW b \in Int
    PROVE  (CHOOSE x \in {a, b} : \A y \in {a, b} : x =< y) = IF a =< b THEN a ELSE b
OBVIOUS


LEMMA DivClimbs ==
    ASSUME NEW a \in Int, NEW b \in Int, a <= b, NEW d \in Int, 0 < d
    PROVE  /\ a \div d \in Int
           /\ a \div d <= b \div d
<1>. DEFINE p == a \div d
            q == b \div d
<1>1. p \in Int /\ q \in Int /\ p * d <= a /\ b < q * d + d
    OBVIOUS
<1>. HIDE DEF p, q
<1>2. p * d < (q + 1) * d
    BY <1>1
<1>3. ASSUME q < p PROVE FALSE
  <2>1. q + 1 <= p
      BY <1>1, <1>3
  <2>2. (q + 1) * d <= p * d
      BY <1>1, <2>1
  <2>. QED
      BY <1>1, <1>2, <2>2
<1>. QED
    BY <1>1, <1>3 DEF p, q
-----------------------------------------------------------------------------
(* The answers of Claude.                                                  *)

IsAnswer(x) == HasFields(x, AnswerFields) /\ x.score \in Int

LEMMA NormalAnswer ==
    ASSUME NEW x, IsAnswer(x)
    PROVE  /\ IsAnswer(K!Normalized(x))
           /\ K!Normalized(x).action = K!Or(x.action, "HOLD")
           /\ K!Normalized(x).confidence = K!Or(x.confidence, "LOW")
           /\ K!Normalized(x).score = x.score /\ K!Normalized(x).family = x.family
           /\ K!Normalized(x).setup = x.setup /\ K!Normalized(x).confirmations = x.confirmations
           /\ K!Normalized(x).flags = x.flags /\ K!Normalized(x).quality = x.quality
BY DEF K!Normalized, IsAnswer, HasFields, AnswerFields

LEMMA CancelledAnswer ==
    ASSUME NEW x, IsAnswer(x), NEW type
    PROVE  IsAnswer(K!Cancelled(x, type)) /\ K!Cancelled(x, type).action = "CANCEL"
BY DEF K!Cancelled, IsAnswer, HasFields, AnswerFields

LEMMA PromotedAnswer ==
    ASSUME NEW x, IsAnswer(x)
    PROVE  K!Promoted(x).action = IF x.action = "HOLD" /\ x.confidence = "HIGH" /\ K!ScoreOf(x) >= 800
                                  THEN "ENTER" ELSE x.action
BY DEF K!Promoted, IsAnswer, HasFields, AnswerFields

\* An answer enters when it is well formed and says so or is sure enough.
LEMMA DecidedAnswer ==
    ASSUME NEW x, IsAnswer(x), NEW s
    PROVE  K!Decided(x, s).action = "ENTER" <=>
               LET n == K!Normalized(x)
               IN /\ K!WellFormed(n, s)
                  /\ \/ n.action = "ENTER" /\ n.quality # "BLOCKED"
                     \/ n.action = "HOLD" /\ n.confidence = "HIGH" /\ K!ScoreOf(n) >= 800
<1>. DEFINE n == K!Normalized(x)
<1>1. IsAnswer(n)
    BY NormalAnswer
<1>. HIDE DEF n
<1>2. IsAnswer(K!Cancelled(n, "AI_SCHEMA_INVALID")) /\ K!Cancelled(n, "AI_SCHEMA_INVALID").action = "CANCEL"
    BY <1>1, CancelledAnswer
<1>3. IsAnswer(K!Validated(n, s))
    BY <1>1, <1>2 DEF K!Validated
<1>4. K!Decided(x, s).action =
          IF K!Validated(n, s).action = "HOLD" /\ K!Validated(n, s).confidence = "HIGH"
             /\ K!ScoreOf(K!Validated(n, s)) >= 800
          THEN "ENTER" ELSE K!Validated(n, s).action
    BY <1>3, PromotedAnswer DEF K!Decided, n
<1>. QED
    BY <1>2, <1>4 DEF K!Validated, n

LEMMA ScoreOfAnswer ==
    ASSUME NEW x, x.score \in Int
    PROVE  K!ScoreOf(x) = IF x.score = None THEN 0 ELSE IF x.score > 1000 THEN 1000
                          ELSE IF x.score < 0 THEN 0 ELSE x.score
<1>1. K!Min({1000, x.score}) = IF x.score > 1000 THEN 1000 ELSE x.score
    BY LeastOf DEF K!Min
<1>2. K!Max({0, K!Min({1000, x.score})}) = IF K!Min({1000, x.score}) < 0 THEN 0 ELSE K!Min({1000, x.score})
    BY <1>1, GreatestOf DEF K!Max
<1>. QED
    BY <1>1, <1>2 DEF K!ScoreOf

LEMMA WeakerAnswer ==
    ASSUME NEW x, IsAnswer(x), NEW weakness \in {"action", "confidence", "score"}
    PROVE  /\ IsAnswer(Weaker(x, weakness))
           /\ \A f \in AnswerFields \ {weakness} : Weaker(x, weakness)[f] = x[f]
           /\ weakness = "action" => Weaker(x, weakness).action = IF x.action = "ENTER" THEN "HOLD" ELSE "CANCEL"
           /\ weakness = "confidence" =>
                  Weaker(x, weakness).confidence = IF x.confidence = "HIGH" THEN "MEDIUM" ELSE "LOW"
           /\ weakness = "score" => Weaker(x, weakness).score = IF x.score \in 1..1000 THEN 0 ELSE x.score
<1>1. CASE weakness = "action"
    BY <1>1 DEF Weaker, IsAnswer, HasFields, AnswerFields
<1>2. CASE weakness = "confidence"
    BY <1>2 DEF Weaker, IsAnswer, HasFields, AnswerFields
<1>3. CASE weakness = "score"
  <2>. DEFINE lower == IF x.score \in 1..1000 THEN 0 ELSE x.score
  <2>1. lower \in Int
      BY DEF IsAnswer
  <2>2. Weaker(x, weakness) = [x EXCEPT !.score = lower]
      BY <1>3 DEF Weaker
  <2>. HIDE DEF lower
  <2>3. /\ IsAnswer(Weaker(x, weakness))
        /\ \A f \in AnswerFields \ {"score"} : Weaker(x, weakness)[f] = x[f]
        /\ Weaker(x, weakness).score = lower
      BY <2>1, <2>2 DEF IsAnswer, HasFields, AnswerFields
  <2>. QED
      BY <1>3, <2>3 DEF lower
<1>. QED
    BY <1>1, <1>2, <1>3

\* What a weaker answer enters with, the stronger one has too.
LEMMA WeakerIsNoBolder ==
    ASSUME NEW x, IsAnswer(x), x.confidence \in {NoText, "HIGH", "MEDIUM", "LOW"}, x.quality # "BLOCKED",
           NEW weakness \in {"action", "confidence", "score"}, NEW s,
           K!Decided(Weaker(x, weakness), s).action = "ENTER"
    PROVE  K!Decided(x, s).action = "ENTER"
<1>. DEFINE w == Weaker(x, weakness)
            n == K!Normalized(x)
            m == K!Normalized(w)
<1>1. IsAnswer(w)
    BY WeakerAnswer
<1>2. /\ IsAnswer(n) /\ n.action = K!Or(x.action, "HOLD") /\ n.confidence = K!Or(x.confidence, "LOW")
      /\ n.score = x.score /\ n.family = x.family /\ n.setup = x.setup
      /\ n.confirmations = x.confirmations /\ n.flags = x.flags /\ n.quality = x.quality
    BY NormalAnswer
<1>3. /\ IsAnswer(m) /\ m.action = K!Or(w.action, "HOLD") /\ m.confidence = K!Or(w.confidence, "LOW")
      /\ m.score = w.score /\ m.family = w.family /\ m.setup = w.setup
      /\ m.confirmations = w.confirmations /\ m.flags = w.flags /\ m.quality = w.quality
    BY <1>1, NormalAnswer
<1>4. /\ K!WellFormed(m, s)
      /\ \/ m.action = "ENTER" /\ m.quality # "BLOCKED"
         \/ m.action = "HOLD" /\ m.confidence = "HIGH" /\ K!ScoreOf(m) >= 800
    BY <1>1, DecidedAnswer
<1>5. /\ K!ScoreOf(n) = IF n.score = None THEN 0 ELSE IF n.score > 1000 THEN 1000
                        ELSE IF n.score < 0 THEN 0 ELSE n.score
      /\ K!ScoreOf(m) = IF m.score = None THEN 0 ELSE IF m.score > 1000 THEN 1000
                        ELSE IF m.score < 0 THEN 0 ELSE m.score
    BY <1>2, <1>3, ScoreOfAnswer DEF IsAnswer
<1>. SUFFICES /\ K!WellFormed(n, s)
              /\ \/ n.action = "ENTER" /\ n.quality # "BLOCKED"
                 \/ n.action = "HOLD" /\ n.confidence = "HIGH" /\ K!ScoreOf(n) >= 800
    BY DecidedAnswer
<1>6. CASE weakness = "action"
  <2>1. /\ w.action = IF x.action = "ENTER" THEN "HOLD" ELSE "CANCEL"
        /\ w.confidence = x.confidence /\ w.score = x.score /\ w.family = x.family /\ w.setup = x.setup
        /\ w.confirmations = x.confirmations /\ w.flags = x.flags /\ w.quality = x.quality
      BY <1>6, WeakerAnswer DEF AnswerFields
  <2>. HIDE DEF w, n, m
  <2>. QED
      BY <2>1, <1>2, <1>3, <1>4, NoneIsApart DEF K!WellFormed, K!Or
<1>7. CASE weakness = "confidence"
  <2>1. /\ w.confidence = IF x.confidence = "HIGH" THEN "MEDIUM" ELSE "LOW"
        /\ w.action = x.action /\ w.score = x.score /\ w.family = x.family /\ w.setup = x.setup
        /\ w.confirmations = x.confirmations /\ w.flags = x.flags /\ w.quality = x.quality
      BY <1>7, WeakerAnswer DEF AnswerFields
  <2>. HIDE DEF w, n, m
  <2>. QED
      BY <2>1, <1>2, <1>3, <1>4, NoneIsApart DEF K!WellFormed, K!Or
<1>8. CASE weakness = "score"
  <2>1. /\ w.score = IF x.score \in 1..1000 THEN 0 ELSE x.score
        /\ w.action = x.action /\ w.confidence = x.confidence /\ w.family = x.family /\ w.setup = x.setup
        /\ w.confirmations = x.confirmations /\ w.flags = x.flags /\ w.quality = x.quality
      BY <1>8, WeakerAnswer DEF AnswerFields
  <2>. HIDE DEF w, n, m
  <2>2. K!WellFormed(n, s)
      BY <2>1, <1>2, <1>3, <1>4, NoneIsApart DEF K!WellFormed, IsAnswer
  <2>3. K!ScoreOf(m) >= 800 => K!ScoreOf(n) >= 800
    <3>1. CASE x.score \in 1..1000
      <4>1. m.score = 0
          BY <2>1, <1>3, <3>1
      <4>. QED
          BY <4>1, <1>5, NoneIsApart
    <3>2. CASE x.score \notin 1..1000
      <4>1. m.score = n.score
          BY <2>1, <1>2, <1>3, <3>2
      <4>. QED
          BY <4>1, <1>5
    <3>. QED
        BY <3>1, <3>2
  <2>. QED
      BY <2>1, <2>2, <2>3, <1>2, <1>3, <1>4
<1>. QED
    BY <1>6, <1>7, <1>8

\* The inputs the theorem is of, and what they became.
AnswerInv ==
    input.fn = "answer" =>
        /\ input \in Inputs("answer")
        /\ result # <<>> =>
               result = <<K!Decided(input.in, input.s), K!Decided(Weaker(input.in, input.weakness), input.s)>>

\* analyzer.py, queue_worker.py: whatever Claude answers, in live family routing an entry rests on an
\* answer for this very signal, and of data that are not called BLOCKED a weaker answer never enters
\* where the stronger one did not.
THEOREM AnswerAlwaysBound == Spec => []AnswerIsBound
<1>1. Init => AnswerInv
    BY DEF Init, AnswerInv
<1>2. AnswerInv /\ [Next]_vars => AnswerInv'
  <2>. SUFFICES ASSUME AnswerInv, [Next]_vars, input'.fn = "answer" PROVE AnswerInv'
      BY DEF AnswerInv
  <2>1. CASE UNCHANGED vars
      BY <2>1 DEF vars, AnswerInv
  <2>2. CASE Next
      BY <2>2, EvaluatesOnce DEF EvaluateAnswer, AnswerInv
  <2>. QED
      BY <2>1, <2>2
<1>3. AnswerInv => AnswerIsBound
  <2>. SUFFICES ASSUME AnswerInv, Of("answer") PROVE AnswerIsBound
      BY DEF AnswerIsBound, EnterIsForThisSignal, WeakerAnswerNeverEnters
  <2>. DEFINE x == input.in
              w == input.weakness
  <2>1. /\ input \in Inputs("answer")
        /\ result[1] = K!Decided(x, input.s) /\ result[2] = K!Decided(Weaker(x, w), input.s)
      BY DEF AnswerInv, Of
  <2>2. /\ IsAnswer(x) /\ x.confidence \in {NoText, "HIGH", "MEDIUM", "LOW"}
        /\ w \in {"action", "confidence", "score"}
      BY <2>1, AnswersAreRead DEF IsAnswer
  <2>3. EnterIsForThisSignal
    <3>. SUFFICES ASSUME K!Decided(x, input.s).action = "ENTER"
                  PROVE  /\ x.family = FamilyTable[input.s] /\ x.setup = input.s
                         /\ x.score \in 0..1000 /\ x.confirmations = "list"
        BY <2>1 DEF EnterIsForThisSignal
    <3>1. K!WellFormed(K!Normalized(x), input.s)
        BY <2>2, DecidedAnswer
    <3>. QED
        BY <2>2, <3>1, NormalAnswer DEF K!WellFormed
  <2>4. WeakerAnswerNeverEnters
      BY <2>1, <2>2, WeakerIsNoBolder DEF WeakerAnswerNeverEnters
  <2>. QED
      BY <2>3, <2>4 DEF AnswerIsBound
<1>. QED
    BY <1>1, <1>2, <1>3, PTL DEF Spec

-----------------------------------------------------------------------------
(* Open positions.                                                         *)

Trails(x) ==
    /\ HasFields(x, {"s", "stored", "cur", "ma20", "ma60", "rsi", "minuteRsi", "hist", "prev", "stoch",
                     "vwap", "hoga", "strength"})
    /\ x.stored \in 7..40 \cup {None}
    /\ \A f \in {"cur", "ma20", "ma60", "rsi", "minuteRsi", "hist", "prev", "stoch", "vwap"} : x[f] \in Int

\* A lower price leaves the bias or tightens it.
LEMMA FallLeavesOrTightens ==
    ASSUME NEW x, Trails(x), NEW lower \in Int, lower <= x.cur, NEW y, y = [x EXCEPT !.cur = lower]
    PROVE  O!Bias(y) = "TIGHTEN" \/ O!Bias(y) = O!Bias(x)
<1>1. /\ y.cur = lower /\ y.ma20 = x.ma20 /\ y.ma60 = x.ma60 /\ y.rsi = x.rsi /\ y.minuteRsi = x.minuteRsi
      /\ y.hist = x.hist /\ y.prev = x.prev /\ y.stoch = x.stoch /\ y.vwap = x.vwap /\ y.hoga = x.hoga
      /\ y.strength = x.strength
    BY DEF Trails, HasFields
<1>2. /\ x.cur \in Int /\ x.ma20 \in Int /\ x.ma60 \in Int /\ x.rsi \in Int /\ x.minuteRsi \in Int
      /\ x.hist \in Int /\ x.prev \in Int /\ x.stoch \in Int /\ x.vwap \in Int
    BY DEF Trails
<1>. DEFINE before == O!TrendState(x.cur, x.ma20, x.ma60, x.rsi)
            after == O!TrendState(y.cur, y.ma20, y.ma60, y.rsi)
<1>3. after = "BEARISH" \/ after = before
    BY <1>1, <1>2 DEF O!TrendState, O!Known
<1>4. O!MomentumState(y) = "WEAK" \/ O!MomentumState(y) = O!MomentumState(x)
    BY <1>1, <1>2 DEF O!MomentumState, O!Known
<1>. HIDE DEF before, after
<1>5. O!Bias(x) = O!ExitBias(before, O!MomentumState(x), x.hoga, x.strength)
      /\ O!Bias(y) = O!ExitBias(after, O!MomentumState(y), x.hoga, x.strength)
    BY <1>1 DEF O!Bias, before, after
<1>. QED
    BY <1>3, <1>4, <1>5 DEF O!ExitBias

LEMMA TightenedBelow ==
    ASSUME NEW base \in 7..40, NEW bias
    PROVE  /\ O!DynamicTrailing(base, bias) \in Int
           /\ O!DynamicTrailing(base, "TIGHTEN") <= O!DynamicTrailing(base, bias)
           /\ O!DynamicTrailing(base, "TIGHTEN") <= base
           /\ base = 15 => O!DynamicTrailing(base, "TIGHTEN") = 10
<1>1. O!Max({7, base - 5}) = (IF 7 >= base - 5 THEN 7 ELSE base - 5)
    BY GreatestOf DEF O!Max
<1>2. O!Max({8, base - 3}) = (IF 8 >= base - 3 THEN 8 ELSE base - 3)
    BY GreatestOf DEF O!Max
<1>3. O!Min({base + 3, 40}) = (IF base + 3 =< 40 THEN base + 3 ELSE 40)
    BY LeastOf DEF O!Min
<1>. QED
    BY <1>1, <1>2, <1>3 DEF O!DynamicTrailing

LEMMA TrailsTighten ==
    ASSUME NEW x, Trails(x), NEW lower \in Int, lower <= x.cur
    PROVE  /\ O!TrailingPct([x EXCEPT !.cur = lower], TRUE) <= O!TrailingPct(x, TRUE)
           /\ O!Bias(x) = "TIGHTEN" => O!TrailingPct(x, TRUE) <= O!TrailingPct(x, FALSE)
<1>. DEFINE y == [x EXCEPT !.cur = lower]
<1>1. O!Bias(y) = "TIGHTEN" \/ O!Bias(y) = O!Bias(x)
    BY FallLeavesOrTightens
<1>2. O!Stored(x) \in 7..40 /\ O!Stored(y) = O!Stored(x)
    BY DEF O!Stored, O!Known, O!DefaultTrailing, Trails, HasFields
<1>. HIDE DEF y
<1>3. O!TrailingPct(y, TRUE) <= O!TrailingPct(x, TRUE)
    BY <1>1, <1>2, TightenedBelow DEF O!TrailingPct
<1>4. ASSUME O!Bias(x) = "TIGHTEN" PROVE O!TrailingPct(x, TRUE) <= O!TrailingPct(x, FALSE)
  <2>1. O!TierOf(x.s) \in Int /\ 10 <= O!TierOf(x.s)
      BY DEF O!TierOf, O!DefaultTrailing
  <2>. QED
      BY <1>2, <1>4, <2>1, TightenedBelow DEF O!TrailingPct, O!DefaultTrailing
<1>. QED
    BY <1>3, <1>4 DEF y

\* What was not read counts as neutral, and the price alone is too little.
LEMMA SilenceScoresLow ==
    ASSUME NEW x, x.strengths = <<>>, x.book = <<>>
    PROVE  ~O!Reversed(x)
<1>1. /\ O!StrengthTrend(x.strengths).avg = 10000
      /\ ~O!StrengthTrend(x.strengths).declining
    BY DEF O!StrengthTrend
<1>2. O!HogaRatio(x.book) = 1000
    BY DEF O!HogaRatio
<1>3. \A value, half, full : O!Halves(value, half, full) \in 0..2
    BY DEF O!Halves
<1>4. O!Halves(-10000, -8500, -7000) = 0 /\ O!Halves(1000, 1500, 2000) = 0
    BY DEF O!Halves
<1>. QED
    BY <1>1, <1>2, <1>3, <1>4 DEF O!Reversed, O!ReversalScore

\* The first of a few indices there are.
LEMMA FirstOfFew ==
    ASSUME NEW few \in SUBSET (1..6), few # {}
    PROVE  /\ (CHOOSE x \in few : \A y \in few : x =< y) \in few
           /\ \A y \in few : (CHOOSE x \in few : \A z \in few : x =< z) =< y
<1>1. \E m \in few : \A y \in few : m =< y
  <2>1. CASE 1 \in few  BY <2>1
  <2>2. CASE 1 \notin few /\ 2 \in few  BY <2>2
  <2>3. CASE 1 \notin few /\ 2 \notin few /\ 3 \in few  BY <2>3
  <2>4. CASE 1 \notin few /\ 2 \notin few /\ 3 \notin few /\ 4 \in few  BY <2>4
  <2>5. CASE 1 \notin few /\ 2 \notin few /\ 3 \notin few /\ 4 \notin few /\ 5 \in few  BY <2>5
  <2>6. CASE 1 \notin few /\ 2 \notin few /\ 3 \notin few /\ 4 \notin few /\ 5 \notin few
    <3>1. 6 \in few /\ \A y \in few : y = 6
      <4>1. PICK y \in few : TRUE
          OBVIOUS
      <4>. QED
          BY <2>6, <4>1
    <3>. QED
        BY <3>1
  <2>. QED
      BY <2>1, <2>2, <2>3, <2>4, <2>5, <2>6
<1>. QED
    BY <1>1

\* A list of steps, the higher first, with the points of each.
Steps(steps, n, floor) ==
    /\ n \in 1..6 /\ DOMAIN steps = 1..n /\ floor \in Int
    /\ \A i \in 1..n : steps[i][1] \in Int /\ steps[i][2] \in Int /\ floor <= steps[i][2]
    /\ \A i, j \in 1..n : i < j => steps[i][2] >= steps[j][2]

\* Who reaches a step reaches the points of it, or more.
LEMMA LadderClimbs ==
    ASSUME NEW steps, NEW n, NEW floor, Steps(steps, n, floor), NEW v \in Int, NEW w \in Int, v <= w
    PROVE  /\ O!Ladder(v, steps, floor) \in Int
           /\ O!Ladder(v, steps, floor) <= O!Ladder(w, steps, floor)
<1>. DEFINE reached(u) == {i \in DOMAIN steps : u >= steps[i][1]}
<1>1. \A u \in Int : reached(u) \in SUBSET (1..6)
    BY DEF Steps
<1>2. \A u \in Int : reached(u) # {} =>
          /\ O!Min(reached(u)) \in reached(u)
          /\ \A i \in reached(u) : O!Min(reached(u)) =< i
  <2>. TAKE u \in Int
  <2>. DEFINE few == reached(u)
  <2>1. few \in SUBSET (1..6)
      BY <1>1
  <2>. HIDE DEF few, reached
  <2>2. few # {} => O!Min(few) \in few /\ \A i \in few : O!Min(few) =< i
      BY <2>1, FirstOfFew DEF O!Min
  <2>. QED
      BY <2>2 DEF few
<1>3. reached(v) \subseteq reached(w)
    BY DEF Steps
<1>4. \A u \in Int : O!Ladder(u, steps, floor) = IF reached(u) = {} THEN floor ELSE steps[O!Min(reached(u))][2]
    BY DEF O!Ladder
<1>5. \A u \in Int : reached(u) \subseteq 1..n
    BY DEF Steps
<1>. HIDE DEF reached
<1>6. CASE reached(v) = {}
  <2>1. O!Ladder(v, steps, floor) = floor
      BY <1>4, <1>6
  <2>2. O!Ladder(w, steps, floor) = floor \/ \E i \in 1..n : O!Ladder(w, steps, floor) = steps[i][2]
      BY <1>2, <1>4, <1>5
  <2>. QED
      BY <2>1, <2>2 DEF Steps
<1>7. CASE reached(v) # {}
  <2>. DEFINE i == O!Min(reached(v))
              j == O!Min(reached(w))
  <2>1. i \in 1..n /\ j \in 1..n /\ j <= i
      BY <1>2, <1>3, <1>5, <1>7
  <2>2. O!Ladder(v, steps, floor) = steps[i][2] /\ O!Ladder(w, steps, floor) = steps[j][2]
      BY <1>3, <1>4, <1>7
  <2>. HIDE DEF i, j
  <2>. QED
      BY <2>1, <2>2 DEF Steps
<1>. QED
    BY <1>6, <1>7

LEMMA PnlSteps == Steps(<<<<300, 15>>, <<200, 10>>, <<100, 5>>, <<0, 0>>, <<-100, -10>>, <<-200, -20>>>>, 6, -25)
BY DEF Steps
LEMMA FluSteps == Steps(<<<<300, 5>>, <<100, 3>>, <<0, 0>>, <<-100, -3>>>>, 4, -8)
BY DEF Steps
LEMMA BaseSteps == Steps(<<<<85, 15>>, <<75, 10>>, <<65, 5>>, <<55, 0>>, <<45, -5>>>>, 5, -15)
BY DEF Steps
LEMMA StrengthSteps == Steps(<<<<130, 10>>, <<110, 5>>, <<90, 0>>, <<70, -5>>>>, 4, -10)
BY DEF Steps
LEMMA BidSteps == Steps(<<<<200, 8>>, <<150, 5>>, <<100, 2>>, <<80, -3>>>>, 4, -10)
BY DEF Steps

Overnights(x) ==
    /\ HasFields(x, {"s", "base", "entry", "cur", "last", "strength", "book", "flu", "rsi", "averages"})
    /\ x.base \in Int /\ x.entry \in Int /\ x.cur \in Int /\ x.strength \in Int /\ x.flu \in Int
    /\ x.book # <<>> => x.book[1].sell \in Int /\ x.book[1].buy \in Int
    /\ x.averages # <<>> => \A i \in 1..3 : x.averages[i] \in Int

LEMMA OvernightIsRead ==
    ASSUME NEW x, Overnights(x)
    PROVE  /\ x.base \in Int /\ x.entry \in Int /\ x.cur \in Int /\ x.strength \in Int /\ x.flu \in Int
           /\ x.book = <<>> \/ (x.book[1].sell \in Int /\ x.book[1].buy \in Int)
           /\ x.averages # <<>> => \A i \in 1..3 : x.averages[i] \in Int
BY DEF Overnights

LEMMA PnlFalls ==
    ASSUME NEW entry \in Int, NEW cur \in Int, NEW lower \in Int, 0 < lower, lower <= cur
    PROVE  /\ O!ScorePnl(entry, lower) \in Int /\ O!ScorePnl(entry, cur) \in Int
           /\ O!ScorePnl(entry, lower) <= O!ScorePnl(entry, cur)
<1>1. CASE entry <= 0
    BY <1>1 DEF O!ScorePnl
<1>2. CASE 0 < entry
  <2>. DEFINE v == ((lower - entry) * 10000) \div entry
              w == ((cur - entry) * 10000) \div entry
  <2>1. v \in Int /\ w \in Int /\ v <= w
      BY <1>2, DivClimbs
  <2>. HIDE DEF v, w
  <2>2. /\ O!ScorePnl(entry, lower) =
               O!Ladder(v, <<<<300, 15>>, <<200, 10>>, <<100, 5>>, <<0, 0>>, <<-100, -10>>, <<-200, -20>>>>, -25)
        /\ O!ScorePnl(entry, cur) =
               O!Ladder(w, <<<<300, 15>>, <<200, 10>>, <<100, 5>>, <<0, 0>>, <<-100, -10>>, <<-200, -20>>>>, -25)
      BY <1>2 DEF O!ScorePnl, v, w
  <2>. QED
      BY <2>1, <2>2, LadderClimbs, PnlSteps
<1>. QED
    BY <1>1, <1>2

LEMMA FluFalls ==
    ASSUME NEW flu \in Int, NEW lower \in Int, lower <= flu
    PROVE  /\ O!ScoreFlu(lower) \in Int /\ O!ScoreFlu(flu) \in Int
           /\ O!ScoreFlu(lower) <= O!ScoreFlu(flu)
BY LadderClimbs, FluSteps DEF O!ScoreFlu

LEMMA AlignmentFalls ==
    ASSUME NEW averages, averages # <<>> => \A i \in 1..3 : averages[i] \in Int,
           NEW cur \in Int, NEW lower \in Int, lower <= cur
    PROVE  /\ O!ScoreAlignment(O!Alignment(averages, cur)) \in Int
           /\ O!ScoreAlignment(O!Alignment(averages, lower)) \in Int
           /\ O!ScoreAlignment(O!Alignment(averages, lower)) <= O!ScoreAlignment(O!Alignment(averages, cur))
<1>1. \A a : O!ScoreAlignment(a) \in Int
    BY DEF O!ScoreAlignment
<1>2. \/ O!Alignment(averages, lower) = O!Alignment(averages, cur)
      \/ /\ O!Alignment(averages, lower) = "bullish_below_ma20"
         /\ O!Alignment(averages, cur) = "bullish_above_ma20"
    BY DEF O!Alignment
<1>. QED
    BY <1>1, <1>2 DEF O!ScoreAlignment

LEMMA OtherPoints ==
    ASSUME NEW x, Overnights(x)
    PROVE  /\ O!ScoreBase(x.base) \in Int /\ O!ScoreStrength(x.strength) \in Int
           /\ O!ScoreBid(x.book) \in Int /\ O!ScoreStrategy(x.s) \in Int /\ O!ScoreRsi(x.rsi) \in Int
<1>1. O!ScoreBase(x.base) \in Int /\ O!ScoreStrength(x.strength) \in Int
  <2>1. x.base \in Int /\ x.base <= x.base /\ x.strength \in Int /\ x.strength <= x.strength
      BY OvernightIsRead
  <2>2. O!ScoreBase(x.base) \in Int
      BY <2>1, LadderClimbs, BaseSteps DEF O!ScoreBase
  <2>3. O!ScoreStrength(x.strength) \in Int
      BY <2>1, LadderClimbs, StrengthSteps DEF O!ScoreStrength
  <2>. QED
      BY <2>2, <2>3
<1>2. O!ScoreBid(x.book) \in Int
  <2>1. CASE x.book = <<>>
      BY <2>1 DEF O!ScoreBid
  <2>2. CASE x.book # <<>> /\ x.book[1].sell <= 0
      BY <2>2 DEF O!ScoreBid
  <2>3. CASE x.book # <<>> /\ 0 < x.book[1].sell
    <3>. DEFINE buy == x.book[1].buy
                sell == x.book[1].sell
                v == (100 * buy) \div sell
    <3>1. ~(x.book = <<>> \/ sell <= 0)
        BY <2>3, OvernightIsRead
    <3>2. O!ScoreBid(x.book) = O!Ladder(v, <<<<200, 8>>, <<150, 5>>, <<100, 2>>, <<80, -3>>>>, -10)
        BY <3>1 DEF O!ScoreBid
    <3>3. buy \in Int /\ sell \in Int /\ 0 < sell
        BY <2>3, OvernightIsRead
    <3>. HIDE DEF buy, sell
    <3>4. v \in Int
        BY <3>3, DivClimbs
    <3>. HIDE DEF v
    <3>. QED
        BY <3>2, <3>4, LadderClimbs, BidSteps
  <2>. QED
      BY <2>1, <2>2, <2>3, OvernightIsRead
<1>3. O!ScoreStrategy(x.s) \in Int
    BY DEF O!ScoreStrategy
<1>4. O!ScoreRsi(x.rsi) \in Int
    BY DEF O!ScoreRsi
<1>. QED
    BY <1>1, <1>2, <1>3, <1>4

LEMMA HeldFromFiftyFive ==
    ASSUME NEW x, O!OvernightScore(x) \in Int
    PROVE  O!Verdict(x).hold <=> O!OvernightScore(x) >= 55
BY DEF O!Verdict

\* The position after the fall of a night.
FallenAtNight(x) == [x.in EXCEPT !.cur = x.lower, !.flu = @ - x.fall]

LEMMA FallIsNotHeldLonger ==
    ASSUME NEW night, Overnights(night.in), night.lower \in Nat \ {0}, night.lower < night.in.cur,
           night.fall \in Nat, O!Verdict(FallenAtNight(night)).hold
    PROVE  O!Verdict(night.in).hold
<1>. DEFINE x == night.in
            lower == night.lower
            fall == night.fall
            y == FallenAtNight(night)
<1>0. y = [x EXCEPT !.cur = lower, !.flu = @ - fall]
    BY DEF FallenAtNight
<1>a. /\ x.entry \in Int /\ x.cur \in Int /\ x.flu \in Int
      /\ lower \in Int /\ 0 < lower /\ lower <= x.cur /\ x.flu - fall \in Int /\ x.flu - fall <= x.flu
  <2>1. x.entry \in Int /\ x.cur \in Int /\ x.flu \in Int
      BY OvernightIsRead
  <2>2. lower \in Nat \ {0} /\ lower < x.cur /\ fall \in Nat
      OBVIOUS
  <2>. HIDE DEF x, lower, fall, y
  <2>. QED
      BY <2>1, <2>2
<1>. HIDE DEF x, lower, fall, y
<1>1. /\ y.cur = lower /\ y.flu = x.flu - fall /\ y.s = x.s /\ y.base = x.base /\ y.entry = x.entry
      /\ y.strength = x.strength /\ y.book = x.book /\ y.rsi = x.rsi /\ y.averages = x.averages
    BY <1>0 DEF x, Overnights, HasFields
<1>. DEFINE c == O!ScoreBase(x.base)
            e == O!ScoreStrength(x.strength)
            b == O!ScoreBid(x.book)
            s == O!ScoreStrategy(x.s)
            r == O!ScoreRsi(x.rsi)
            p == O!ScorePnl(x.entry, x.cur)
            f == O!ScoreFlu(x.flu)
            a == O!ScoreAlignment(O!Alignment(x.averages, x.cur))
            pp == O!ScorePnl(x.entry, lower)
            ff == O!ScoreFlu(x.flu - fall)
            aa == O!ScoreAlignment(O!Alignment(x.averages, lower))
            points == 50 + c + p + e + b + f + s + r + a
            fewer == 50 + c + pp + e + b + ff + s + r + aa
<1>2. c \in Int /\ e \in Int /\ b \in Int /\ s \in Int /\ r \in Int
    BY OtherPoints DEF x
<1>3. p \in Int /\ pp \in Int /\ pp <= p
    BY <1>a, PnlFalls
<1>4. f \in Int /\ ff \in Int /\ ff <= f
    BY <1>a, FluFalls
<1>5. a \in Int /\ aa \in Int /\ aa <= a
  <2>1. /\ x.averages # <<>> => \A i \in 1..3 : x.averages[i] \in Int
        /\ x.cur \in Int /\ lower \in Int /\ lower <= x.cur
      BY DEF Overnights, x, lower
  <2>. QED
      BY <2>1, AlignmentFalls
<1>6. O!OvernightScore(x) = O!Max({0, O!Min({100, points})})
  <2>1. x.cur > 0
      BY DEF Overnights, x, lower
  <2>. QED
      BY <2>1 DEF O!OvernightScore
<1>7. O!OvernightScore(y) = O!Max({0, O!Min({100, fewer})})
  <2>1. lower > 0
      BY DEF lower
  <2>. QED
      BY <1>1, <2>1 DEF O!OvernightScore
<1>. HIDE DEF c, e, b, s, r, p, f, a, pp, ff, aa
<1>8. points \in Int /\ fewer \in Int /\ fewer <= points
    BY <1>2, <1>3, <1>4, <1>5
<1>. HIDE DEF points, fewer
<1>9. \A n \in Int : O!Max({0, O!Min({100, n})}) = IF n < 0 THEN 0 ELSE IF n > 100 THEN 100 ELSE n
  <2>. TAKE n \in Int
  <2>1. O!Min({100, n}) = IF n > 100 THEN 100 ELSE n
      BY LeastOf DEF O!Min
  <2>2. O!Max({0, O!Min({100, n})}) = IF O!Min({100, n}) < 0 THEN 0 ELSE O!Min({100, n})
      BY <2>1, GreatestOf DEF O!Max
  <2>. QED
      BY <2>1, <2>2
<1>. QED
    BY <1>6, <1>7, <1>8, <1>9, HeldFromFiftyFive DEF x, y

\* The position after a fall by day.
Fallen(x) == [x.in EXCEPT !.cur = x.lower]

\* The inputs the theorem is of, and what they became.
DeclineInv ==
    /\ input.fn = "trail" =>
           /\ input \in Inputs("trail")
           /\ result # <<>> =>
                  result = <<O!TrailingPct(input.in, TRUE), O!TrailingPct(Fallen(input), TRUE),
                             O!TrailingPct(input.in, FALSE), O!Bias(input.in)>>
    /\ input.fn = "reversal" /\ result # <<>> => result = <<O!Reversed(input.in)>>
    /\ input.fn = "overnight" =>
           /\ input \in Inputs("overnight")
           /\ result # <<>> =>
                  result = <<O!Verdict(input.in), O!Verdict(FallenAtNight(input))>>

\* position_reassessment.py, downtrend_detector.py, overnight_scorer.py: whatever is read of an open
\* position, a fall of its price never widens its trailing stop nor turns the verdict of the night from
\* selling to holding, one whose bias is TIGHTEN never trails wider for having been reassessed, and
\* without strengths and book there is no reversal.
THEOREM DeclineNeverHeld == Spec => []DeclineNeverHolds
<1>1. Init => DeclineInv
    BY DEF Init, DeclineInv
<1>2. DeclineInv /\ [Next]_vars => DeclineInv'
  <2>. SUFFICES ASSUME DeclineInv, [Next]_vars PROVE DeclineInv'
      OBVIOUS
  <2>1. CASE UNCHANGED vars
      BY <2>1 DEF vars, DeclineInv
  <2>2. CASE Next
    <3>1. UNCHANGED input
        BY <2>2, EvaluatesOnce
    <3>2. CASE input.fn = "trail"
        BY <2>2, <3>1, <3>2, EvaluatesOnce DEF EvaluateTrail, DeclineInv, Fallen
    <3>3. CASE input.fn = "reversal"
        BY <2>2, <3>1, <3>3, EvaluatesOnce DEF EvaluateReversal, DeclineInv
    <3>4. CASE input.fn = "overnight"
        BY <2>2, <3>1, <3>4, EvaluatesOnce DEF EvaluateOvernight, DeclineInv, FallenAtNight
    <3>5. CASE input.fn \notin {"trail", "reversal", "overnight"}
        BY <3>1, <3>5 DEF DeclineInv
    <3>. QED
        BY <3>2, <3>3, <3>4, <3>5
  <2>. QED
      BY <2>1, <2>2
<1>3. DeclineInv => DeclineNeverHolds
  <2>. SUFFICES ASSUME DeclineInv PROVE DeclineNeverHolds
      OBVIOUS
  <2>1. ASSUME Of("trail") PROVE FallNeverWidens /\ TightenedIsTighter
    <3>1. Trails(input.in) /\ input.lower \in Int /\ input.lower <= input.in.cur
        BY <2>1, TrailsAreRead DEF Of, DeclineInv, Trails
    <3>2. /\ result[1] = O!TrailingPct(input.in, TRUE)
          /\ result[2] = O!TrailingPct(Fallen(input), TRUE)
          /\ result[3] = O!TrailingPct(input.in, FALSE) /\ result[4] = O!Bias(input.in)
      <4>1. result = <<O!TrailingPct(input.in, TRUE), O!TrailingPct(Fallen(input), TRUE),
                       O!TrailingPct(input.in, FALSE), O!Bias(input.in)>>
          BY <2>1 DEF Of, DeclineInv
      <4>. QED
          BY <4>1
    <3>. QED
        BY <3>1, <3>2, TrailsTighten DEF Fallen, FallNeverWidens, TightenedIsTighter
  <2>2. ASSUME Of("reversal") PROVE SilenceIsNoReversal
      BY <2>2, SilenceScoresLow DEF SilenceIsNoReversal, Of, DeclineInv
  <2>3. ASSUME Of("overnight") PROVE FallIsNotHeld
    <3>1. Overnights(input.in) /\ input.lower \in Nat \ {0} /\ input.fall \in Nat
        BY <2>3, OvernightsAreRead DEF Of, DeclineInv, Overnights
    <3>2. /\ result[1] = O!Verdict(input.in)
          /\ result[2] = O!Verdict(FallenAtNight(input))
        BY <2>3 DEF Of, DeclineInv
    <3>3. input.lower < input.in.cur /\ O!Verdict(FallenAtNight(input)).hold => O!Verdict(input.in).hold
        BY <3>1, FallIsNotHeldLonger
    <3>. QED
        BY <3>2, <3>3 DEF FallIsNotHeld
  <2>. QED
      BY <2>1, <2>2, <2>3
         DEF DeclineNeverHolds, FallNeverWidens, TightenedIsTighter, SilenceIsNoReversal, FallIsNotHeld
<1>. QED
    BY <1>1, <1>2, <1>3, PTL DEF Spec
-----------------------------------------------------------------------------
(* What an ENTER rests on.                                                 *)

\* Nothing on the way to the decision takes the place of a reading of the websocket unless it
\* says so.
LEMMA WebsocketIsRead ==
    ASSUME NEW sig, NEW m, NEW k \in {"tick", "hoga", "strength"}, D!Refresh(sig, m).fresh[k].source = "ws"
    PROVE  /\ D!Refresh(sig, m).fresh[k].age = m[k].age
           /\ D!Refresh(sig, m).fresh[k].state = D!Freshness(m[k].age, k)
BY DEF D!Refresh, D!Kinds

LEMMA FreshPasses ==
    ASSUME NEW s, NEW c, \A k \in {"tick", "hoga", "strength"} : c.fresh[k].state = "fresh"
    PROVE  D!FreshnessDecision(s, c) = "PASS"
BY DEF D!FreshnessDecision, D!Strict

\* What is decided of a graded signal: an ENTER was Claude's, and it was guarded.
LEMMA EnterIsGuarded ==
    ASSUME NEW sig, NEW c, NEW m, NEW ai, NEW graded, NEW p,
           D!Finished(sig, c, m, ai, graded, p).action = "ENTER",
           graded.before \in {"AI", "HOLD", "CANCEL"}
    PROVE  /\ graded.before = "AI" /\ D!Guarded(sig, c, m, p)
           /\ D!Finished(sig, c, m, ai, graded, p).rr = D!RepricedRr(sig, p)
<1>. DEFINE answered == IF graded.before = "AI" THEN D!AiAction(sig, ai) ELSE graded.before
            action == IF answered = "ENTER" /\ ~D!Guarded(sig, c, m, p) THEN "CANCEL" ELSE answered
<1>1. /\ D!Finished(sig, c, m, ai, graded, p).action = action
      /\ D!Finished(sig, c, m, ai, graded, p).rr = IF action = "ENTER" THEN D!RepricedRr(sig, p) ELSE sig.rr
    BY DEF D!Finished
<1>. QED
    BY <1>1

LEMMA BeforeClaude ==
    ASSUME NEW sig, NEW c, NEW m, NEW score, NEW quality
    PROVE  /\ D!BeforeAi(sig, c, m, score, quality) \in {"AI", "HOLD", "CANCEL"}
           /\ D!BeforeAi(sig, c, m, score, quality) = "AI" => ~D!RrTooLow(sig, sig.rr)
BY DEF D!BeforeAi

\* A decision is finished with the grades of the refreshed data and with prices of its own.
Refreshed(sig, m) == D!Refresh(sig, m)
Grades(sig, m) == D!Graded(sig, Refreshed(sig, m), m, D!Score(sig, Refreshed(sig, m), m))
PricesOf(sig, m, ai) ==
    D!Priced(sig, IF Grades(sig, m).before = "AI" /\ ai.action \notin {"limit", "error"} THEN ai
                  ELSE [ai EXCEPT !.tp1 = 0, !.tp2 = 0, !.sl = 0])
LEMMA DecidedByGrades ==
    ASSUME NEW sig, NEW m, NEW ai
    PROVE  /\ D!Decide(sig, m, ai)
                = D!Finished(sig, Refreshed(sig, m), m, ai, Grades(sig, m), PricesOf(sig, m, ai))
           /\ Grades(sig, m).before \in {"AI", "HOLD", "CANCEL"}
           /\ Grades(sig, m).before = "AI" => ~D!RrTooLow(sig, sig.rr)
<1>1. D!Decide(sig, m, ai) = D!Finished(sig, Refreshed(sig, m), m, ai, Grades(sig, m), PricesOf(sig, m, ai))
    BY DEF D!Decide, D!Answered, Refreshed, Grades, PricesOf
<1>2. \E score, quality : Grades(sig, m).before = D!BeforeAi(sig, Refreshed(sig, m), m, score, quality)
    BY DEF Grades, D!Graded
<1>. QED
    BY <1>1, <1>2, BeforeClaude

LEMMA EnterIsRead ==
    ASSUME NEW sig, NEW m, NEW ai, D!Decide(sig, m, ai).action = "ENTER"
    PROVE  /\ \A k \in {"tick", "hoga", "strength"} : D!Freshness(m[k].age, k) = "fresh" /\ m[k].age <= 3000
           /\ D!Decide(sig, m, ai).freshness = "PASS"
<1>. DEFINE c == Refreshed(sig, m)
            p == PricesOf(sig, m, ai)
<1>1. D!Guarded(sig, c, m, p)
    BY DecidedByGrades, EnterIsGuarded
<1>2. \A k \in {"tick", "hoga", "strength"} :
          c.fresh[k].source = "ws" /\ c.fresh[k].state = "fresh" /\ c.fresh[k].age <= 3000
    BY <1>1 DEF D!Guarded, D!OnWebsocket, D!Kinds
<1>3. D!Decide(sig, m, ai).freshness = D!FreshnessDecision(sig.s, c)
    BY DecidedByGrades DEF D!Finished
<1>. QED
    BY <1>2, <1>3, WebsocketIsRead, FreshPasses DEF Refreshed

LEMMA EnterIsPriced ==
    ASSUME NEW sig, NEW m, NEW ai, D!Decide(sig, m, ai).action = "ENTER"
    PROVE  LET d == D!Decide(sig, m, ai)
           IN /\ d.p.cur > 0 /\ (d.p.ai.tp1 # 0 \/ d.p.ai.sl # 0) =>
                     0 < d.p.ai.sl /\ d.p.ai.sl < d.p.cur /\ d.p.cur < d.p.ai.tp1
              /\ ~D!RrTooLow(sig, d.rr)
<1>. DEFINE d == D!Decide(sig, m, ai)
            p == PricesOf(sig, m, ai)
<1>1. D!Guarded(sig, Refreshed(sig, m), m, p) /\ ~D!RrTooLow(sig, sig.rr) /\ d.rr = D!RepricedRr(sig, p)
    BY DecidedByGrades, EnterIsGuarded
<1>2. d.p = p
    BY DecidedByGrades DEF D!Finished
<1>. HIDE DEF d, p
<1>3. p.cur > 0 /\ (p.ai.tp1 # 0 \/ p.ai.sl # 0) => 0 < p.ai.sl /\ p.ai.sl < p.cur /\ p.cur < p.ai.tp1
    BY <1>1 DEF D!Guarded, D!PricesInOrder
<1>4. ~D!RrTooLow(sig, D!RepricedRr(sig, p))
    BY <1>1 DEF D!Guarded, D!RepricedRr
<1>. QED
    BY <1>1, <1>2, <1>3, <1>4 DEF d
-----------------------------------------------------------------------------
(* The tables of the scores, row by row.                                   *)

\* The first row that is reached counts.
LEMMA FirstRowCounts ==
    ASSUME NEW rows, NEW hit \in SUBSET (1..5)
    PROVE  D!PointsOf(rows, hit) =
             IF 1 \in hit THEN rows[1][Len(rows[1])] ELSE IF 2 \in hit THEN rows[2][Len(rows[2])]
             ELSE IF 3 \in hit THEN rows[3][Len(rows[3])] ELSE IF 4 \in hit THEN rows[4][Len(rows[4])]
             ELSE IF 5 \in hit THEN rows[5][Len(rows[5])] ELSE 0
<1>1. CASE hit = {}
    BY <1>1 DEF D!PointsOf
<1>2. CASE hit # {}
  <2>. DEFINE m == D!Min(hit)
              points(i) == rows[i][Len(rows[i])]
  <2>1. m \in hit /\ \A j \in hit : m =< j
      BY <1>2, FirstOfFew DEF D!Min
  <2>2. D!PointsOf(rows, hit) = points(m)
      BY <1>2 DEF D!PointsOf
  <2>. HIDE DEF m, points
  <2>3. D!PointsOf(rows, hit) =
          IF 1 \in hit THEN points(1) ELSE IF 2 \in hit THEN points(2) ELSE IF 3 \in hit THEN points(3)
          ELSE IF 4 \in hit THEN points(4) ELSE IF 5 \in hit THEN points(5) ELSE 0
    <3>1. CASE m = 1  BY <2>1, <2>2, <3>1
    <3>2. CASE m = 2  BY <2>1, <2>2, <3>2
    <3>3. CASE m = 3  BY <2>1, <2>2, <3>3
    <3>4. CASE m = 4  BY <2>1, <2>2, <3>4
    <3>5. CASE m = 5  BY <2>1, <2>2, <3>5
    <3>. QED
        BY <2>1, <3>1, <3>2, <3>3, <3>4, <3>5
  <2>. QED
      BY <2>3 DEF points
<1>. QED
    BY <1>1, <1>2

LEMMA TwoAbove ==
    ASSUME NEW x, NEW a, NEW b, NEW p, NEW q
    PROVE  D!Above(x, <<<<a, p>>, <<b, q>>>>) =
             IF x > a THEN p ELSE IF x > b THEN q ELSE 0
<1>. DEFINE rows == <<<<a, p>>, <<b, q>>>>
            hit == {k \in DOMAIN rows : x > rows[k][1]}
<1>1. hit \in SUBSET (1..2) /\ (1 \in hit <=> x > a) /\ (2 \in hit <=> x > b)
    OBVIOUS
<1>2. rows[1][Len(rows[1])] = p /\ rows[2][Len(rows[2])] = q
    OBVIOUS
<1>3. D!Above(x, rows) = D!PointsOf(rows, hit)
    BY DEF D!Above
<1>. HIDE DEF rows, hit
<1>4. hit \in SUBSET (1..5) /\ 3 \notin hit /\ 4 \notin hit /\ 5 \notin hit
    BY <1>1
<1>5. D!PointsOf(rows, hit) = IF 1 \in hit THEN p ELSE IF 2 \in hit THEN q ELSE 0
    BY <1>2, <1>4, FirstRowCounts
<1>. QED
    BY <1>1, <1>3, <1>5 DEF rows

LEMMA ThreeAbove ==
    ASSUME NEW x, NEW a, NEW b, NEW c, NEW p, NEW q, NEW r
    PROVE  D!Above(x, <<<<a, p>>, <<b, q>>, <<c, r>>>>) =
             IF x > a THEN p ELSE IF x > b THEN q ELSE IF x > c THEN r ELSE 0
<1>. DEFINE rows == <<<<a, p>>, <<b, q>>, <<c, r>>>>
            hit == {k \in DOMAIN rows : x > rows[k][1]}
<1>1. hit \in SUBSET (1..3) /\ (1 \in hit <=> x > a) /\ (2 \in hit <=> x > b) /\ (3 \in hit <=> x > c)
    OBVIOUS
<1>2. rows[1][Len(rows[1])] = p /\ rows[2][Len(rows[2])] = q /\ rows[3][Len(rows[3])] = r
    OBVIOUS
<1>3. D!Above(x, rows) = D!PointsOf(rows, hit)
    BY DEF D!Above
<1>. HIDE DEF rows, hit
<1>4. hit \in SUBSET (1..5) /\ 4 \notin hit /\ 5 \notin hit
    BY <1>1
<1>5. D!PointsOf(rows, hit) = IF 1 \in hit THEN p ELSE IF 2 \in hit THEN q ELSE IF 3 \in hit THEN r ELSE 0
    BY <1>2, <1>4, FirstRowCounts
<1>. QED
    BY <1>1, <1>3, <1>5 DEF rows

LEMMA FourAbove ==
    ASSUME NEW x, NEW a, NEW b, NEW c, NEW d, NEW p, NEW q, NEW r, NEW s
    PROVE  D!Above(x, <<<<a, p>>, <<b, q>>, <<c, r>>, <<d, s>>>>) =
             IF x > a THEN p ELSE IF x > b THEN q ELSE IF x > c THEN r ELSE IF x > d THEN s ELSE 0
<1>. DEFINE rows == <<<<a, p>>, <<b, q>>, <<c, r>>, <<d, s>>>>
            hit == {k \in DOMAIN rows : x > rows[k][1]}
<1>1. hit \in SUBSET (1..4) /\ (1 \in hit <=> x > a) /\ (2 \in hit <=> x > b) /\ (3 \in hit <=> x > c)
          /\ (4 \in hit <=> x > d)
    OBVIOUS
<1>2. rows[1][Len(rows[1])] = p /\ rows[2][Len(rows[2])] = q /\ rows[3][Len(rows[3])] = r
          /\ rows[4][Len(rows[4])] = s
    OBVIOUS
<1>3. D!Above(x, rows) = D!PointsOf(rows, hit)
    BY DEF D!Above
<1>. HIDE DEF rows, hit
<1>4. hit \in SUBSET (1..5) /\ 5 \notin hit
    BY <1>1
<1>5. D!PointsOf(rows, hit) = IF 1 \in hit THEN p ELSE IF 2 \in hit THEN q ELSE IF 3 \in hit THEN r
          ELSE IF 4 \in hit THEN s ELSE 0
    BY <1>2, <1>4, FirstRowCounts
<1>. QED
    BY <1>1, <1>3, <1>5 DEF rows

LEMMA TwoAtLeast ==
    ASSUME NEW x, NEW a, NEW b, NEW p, NEW q
    PROVE  D!AtLeast(x, <<<<a, p>>, <<b, q>>>>) =
             IF x >= a THEN p ELSE IF x >= b THEN q ELSE 0
<1>. DEFINE rows == <<<<a, p>>, <<b, q>>>>
            hit == {k \in DOMAIN rows : x >= rows[k][1]}
<1>1. hit \in SUBSET (1..2) /\ (1 \in hit <=> x >= a) /\ (2 \in hit <=> x >= b)
    OBVIOUS
<1>2. rows[1][Len(rows[1])] = p /\ rows[2][Len(rows[2])] = q
    OBVIOUS
<1>3. D!AtLeast(x, rows) = D!PointsOf(rows, hit)
    BY DEF D!AtLeast
<1>. HIDE DEF rows, hit
<1>4. hit \in SUBSET (1..5) /\ 3 \notin hit /\ 4 \notin hit /\ 5 \notin hit
    BY <1>1
<1>5. D!PointsOf(rows, hit) = IF 1 \in hit THEN p ELSE IF 2 \in hit THEN q ELSE 0
    BY <1>2, <1>4, FirstRowCounts
<1>. QED
    BY <1>1, <1>3, <1>5 DEF rows

LEMMA ThreeAtLeast ==
    ASSUME NEW x, NEW a, NEW b, NEW c, NEW p, NEW q, NEW r
    PROVE  D!AtLeast(x, <<<<a, p>>, <<b, q>>, <<c, r>>>>) =
             IF x >= a THEN p ELSE IF x >= b THEN q ELSE IF x >= c THEN r ELSE 0
<1>. DEFINE rows == <<<<a, p>>, <<b, q>>, <<c, r>>>>
            hit == {k \in DOMAIN rows : x >= rows[k][1]}
<1>1. hit \in SUBSET (1..3) /\ (1 \in hit <=> x >= a) /\ (2 \in hit <=> x >= b) /\ (3 \in hit <=> x >= c)
    OBVIOUS
<1>2. rows[1][Len(rows[1])] = p /\ rows[2][Len(rows[2])] = q /\ rows[3][Len(rows[3])] = r
    OBVIOUS
<1>3. D!AtLeast(x, rows) = D!PointsOf(rows, hit)
    BY DEF D!AtLeast
<1>. HIDE DEF rows, hit
<1>4. hit \in SUBSET (1..5) /\ 4 \notin hit /\ 5 \notin hit
    BY <1>1
<1>5. D!PointsOf(rows, hit) = IF 1 \in hit THEN p ELSE IF 2 \in hit THEN q ELSE IF 3 \in hit THEN r ELSE 0
    BY <1>2, <1>4, FirstRowCounts
<1>. QED
    BY <1>1, <1>3, <1>5 DEF rows

LEMMA FourAtLeast ==
    ASSUME NEW x, NEW a, NEW b, NEW c, NEW d, NEW p, NEW q, NEW r, NEW s
    PROVE  D!AtLeast(x, <<<<a, p>>, <<b, q>>, <<c, r>>, <<d, s>>>>) =
             IF x >= a THEN p ELSE IF x >= b THEN q ELSE IF x >= c THEN r ELSE IF x >= d THEN s ELSE 0
<1>. DEFINE rows == <<<<a, p>>, <<b, q>>, <<c, r>>, <<d, s>>>>
            hit == {k \in DOMAIN rows : x >= rows[k][1]}
<1>1. hit \in SUBSET (1..4) /\ (1 \in hit <=> x >= a) /\ (2 \in hit <=> x >= b)
          /\ (3 \in hit <=> x >= c) /\ (4 \in hit <=> x >= d)
    OBVIOUS
<1>2. rows[1][Len(rows[1])] = p /\ rows[2][Len(rows[2])] = q /\ rows[3][Len(rows[3])] = r
          /\ rows[4][Len(rows[4])] = s
    OBVIOUS
<1>3. D!AtLeast(x, rows) = D!PointsOf(rows, hit)
    BY DEF D!AtLeast
<1>. HIDE DEF rows, hit
<1>4. hit \in SUBSET (1..5) /\ 5 \notin hit
    BY <1>1
<1>5. D!PointsOf(rows, hit) = IF 1 \in hit THEN p ELSE IF 2 \in hit THEN q ELSE IF 3 \in hit THEN r
          ELSE IF 4 \in hit THEN s ELSE 0
    BY <1>2, <1>4, FirstRowCounts
<1>. QED
    BY <1>1, <1>3, <1>5 DEF rows

LEMMA TwoBetween ==
    ASSUME NEW x, NEW a, NEW b, NEW f, NEW g, NEW p, NEW q
    PROVE  D!Between(x, <<<<a, f, p>>, <<b, g, q>>>>) =
             IF a <= x /\ x <= f THEN p ELSE IF b <= x /\ x <= g THEN q ELSE 0
<1>. DEFINE rows == <<<<a, f, p>>, <<b, g, q>>>>
            hit == {k \in DOMAIN rows : rows[k][1] <= x /\ x <= rows[k][2]}
<1>1. hit \in SUBSET (1..2) /\ (1 \in hit <=> a <= x /\ x <= f) /\ (2 \in hit <=> b <= x /\ x <= g)
    OBVIOUS
<1>2. rows[1][Len(rows[1])] = p /\ rows[2][Len(rows[2])] = q
    OBVIOUS
<1>3. D!Between(x, rows) = D!PointsOf(rows, hit)
    BY DEF D!Between
<1>. HIDE DEF rows, hit
<1>4. hit \in SUBSET (1..5) /\ 3 \notin hit /\ 4 \notin hit /\ 5 \notin hit
    BY <1>1
<1>5. D!PointsOf(rows, hit) = IF 1 \in hit THEN p ELSE IF 2 \in hit THEN q ELSE 0
    BY <1>2, <1>4, FirstRowCounts
<1>. QED
    BY <1>1, <1>3, <1>5 DEF rows

LEMMA ThreeBetween ==
    ASSUME NEW x, NEW a, NEW b, NEW c, NEW f, NEW g, NEW h, NEW p, NEW q, NEW r
    PROVE  D!Between(x, <<<<a, f, p>>, <<b, g, q>>, <<c, h, r>>>>) =
             IF a <= x /\ x <= f THEN p ELSE IF b <= x /\ x <= g THEN q ELSE IF c <= x /\ x <= h THEN r ELSE 0
<1>. DEFINE rows == <<<<a, f, p>>, <<b, g, q>>, <<c, h, r>>>>
            hit == {k \in DOMAIN rows : rows[k][1] <= x /\ x <= rows[k][2]}
<1>1. hit \in SUBSET (1..3) /\ (1 \in hit <=> a <= x /\ x <= f) /\ (2 \in hit <=> b <= x /\ x <= g)
          /\ (3 \in hit <=> c <= x /\ x <= h)
    OBVIOUS
<1>2. rows[1][Len(rows[1])] = p /\ rows[2][Len(rows[2])] = q /\ rows[3][Len(rows[3])] = r
    OBVIOUS
<1>3. D!Between(x, rows) = D!PointsOf(rows, hit)
    BY DEF D!Between
<1>. HIDE DEF rows, hit
<1>4. hit \in SUBSET (1..5) /\ 4 \notin hit /\ 5 \notin hit
    BY <1>1
<1>5. D!PointsOf(rows, hit) = IF 1 \in hit THEN p ELSE IF 2 \in hit THEN q ELSE IF 3 \in hit THEN r ELSE 0
    BY <1>2, <1>4, FirstRowCounts
<1>. QED
    BY <1>1, <1>3, <1>5 DEF rows

LEMMA FourBetween ==
    ASSUME NEW x, NEW a, NEW b, NEW c, NEW d, NEW f, NEW g, NEW h, NEW i, NEW p, NEW q, NEW r, NEW s
    PROVE  D!Between(x, <<<<a, f, p>>, <<b, g, q>>, <<c, h, r>>, <<d, i, s>>>>) =
             IF a <= x /\ x <= f THEN p ELSE IF b <= x /\ x <= g THEN q ELSE IF c <= x /\ x <= h THEN r
                 ELSE IF d <= x /\ x <= i THEN s ELSE 0
<1>. DEFINE rows == <<<<a, f, p>>, <<b, g, q>>, <<c, h, r>>, <<d, i, s>>>>
            hit == {k \in DOMAIN rows : rows[k][1] <= x /\ x <= rows[k][2]}
<1>1. hit \in SUBSET (1..4) /\ (1 \in hit <=> a <= x /\ x <= f) /\ (2 \in hit <=> b <= x /\ x <= g)
          /\ (3 \in hit <=> c <= x /\ x <= h) /\ (4 \in hit <=> d <= x /\ x <= i)
    OBVIOUS
<1>2. rows[1][Len(rows[1])] = p /\ rows[2][Len(rows[2])] = q /\ rows[3][Len(rows[3])] = r
          /\ rows[4][Len(rows[4])] = s
    OBVIOUS
<1>3. D!Between(x, rows) = D!PointsOf(rows, hit)
    BY DEF D!Between
<1>. HIDE DEF rows, hit
<1>4. hit \in SUBSET (1..5) /\ 5 \notin hit
    BY <1>1
<1>5. D!PointsOf(rows, hit) = IF 1 \in hit THEN p ELSE IF 2 \in hit THEN q ELSE IF 3 \in hit THEN r
          ELSE IF 4 \in hit THEN s ELSE 0
    BY <1>2, <1>4, FirstRowCounts
<1>. QED
    BY <1>1, <1>3, <1>5 DEF rows

LEMMA FiveBetween ==
    ASSUME NEW x, NEW a, NEW b, NEW c, NEW d, NEW e, NEW f, NEW g, NEW h, NEW i, NEW j, NEW p, NEW q,
        NEW r, NEW s, NEW t
    PROVE  D!Between(x, <<<<a, f, p>>, <<b, g, q>>, <<c, h, r>>, <<d, i, s>>, <<e, j, t>>>>) =
             IF a <= x /\ x <= f THEN p ELSE IF b <= x /\ x <= g THEN q ELSE IF c <= x /\ x <= h THEN r
                 ELSE IF d <= x /\ x <= i THEN s ELSE IF e <= x /\ x <= j THEN t ELSE 0
<1>. DEFINE rows == <<<<a, f, p>>, <<b, g, q>>, <<c, h, r>>, <<d, i, s>>, <<e, j, t>>>>
            hit == {k \in DOMAIN rows : rows[k][1] <= x /\ x <= rows[k][2]}
<1>1. hit \in SUBSET (1..5) /\ (1 \in hit <=> a <= x /\ x <= f) /\ (2 \in hit <=> b <= x /\ x <= g)
          /\ (3 \in hit <=> c <= x /\ x <= h) /\ (4 \in hit <=> d <= x /\ x <= i)
          /\ (5 \in hit <=> e <= x /\ x <= j)
    OBVIOUS
<1>2. rows[1][Len(rows[1])] = p /\ rows[2][Len(rows[2])] = q /\ rows[3][Len(rows[3])] = r
          /\ rows[4][Len(rows[4])] = s /\ rows[5][Len(rows[5])] = t
    OBVIOUS
<1>3. D!Between(x, rows) = D!PointsOf(rows, hit)
    BY DEF D!Between
<1>. HIDE DEF rows, hit
<1>4. hit \in SUBSET (1..5)
    BY <1>1
<1>5. D!PointsOf(rows, hit) = IF 1 \in hit THEN p ELSE IF 2 \in hit THEN q ELSE IF 3 \in hit THEN r
          ELSE IF 4 \in hit THEN s ELSE IF 5 \in hit THEN t ELSE 0
    BY <1>2, <1>4, FirstRowCounts
<1>. QED
    BY <1>1, <1>3, <1>5 DEF rows

-----------------------------------------------------------------------------
(* The rule score is a number.                                             *)

LEMMA BasePointsCount ==
    ASSUME NEW in, in.s \in D!Strategies
    PROVE  D!BasePoints(in) \in Int
<1>1. CASE in.s = "S1"
    BY <1>1, TwoAbove, ThreeAbove, ThreeBetween
       DEF D!BasePoints, D!EarlyPoints, D!If
<1>2. CASE in.s = "S2"
    BY <1>2, TwoAbove, TwoBetween
       DEF D!BasePoints, D!EarlyPoints, D!If
<1>3. CASE in.s = "S3"
    BY <1>3, ThreeAtLeast, TwoBetween
       DEF D!BasePoints, D!EarlyPoints, D!If
<1>4. CASE in.s = "S4"
    BY <1>4, ThreeAbove, ThreeAtLeast
       DEF D!BasePoints, D!EarlyPoints, D!If
<1>5. CASE in.s = "S5"
    BY <1>5, ThreeAbove
       DEF D!BasePoints, D!EarlyPoints, D!If
<1>6. CASE in.s = "S6"
    BY <1>6, TwoAbove, TwoAtLeast, TwoBetween
       DEF D!BasePoints, D!EarlyPoints, D!If
<1>7. CASE in.s = "S7"
    BY <1>7, TwoAtLeast, ThreeAtLeast, TwoBetween, ThreeBetween
       DEF D!BasePoints, D!BreakoutPoints, D!If
<1>8. CASE in.s = "S10"
    BY <1>8, TwoAbove, FourAbove, ThreeAtLeast, TwoBetween
       DEF D!BasePoints, D!BreakoutPoints, D!If
<1>9. CASE in.s = "S11"
    BY <1>9, TwoAbove, TwoAtLeast
       DEF D!BasePoints, D!BreakoutPoints, D!If
<1>10. CASE in.s = "S12"
    BY <1>10, TwoAbove, ThreeAtLeast, TwoBetween
       DEF D!BasePoints, D!BreakoutPoints, D!If
<1>11. CASE in.s = "S8"
    BY <1>11, TwoAbove, ThreeAbove, ThreeAtLeast, TwoBetween
       DEF D!BasePoints, D!ChartPoints, D!If
<1>12. CASE in.s = "S9"
    BY <1>12, TwoAbove, ThreeAbove, TwoBetween, ThreeBetween
       DEF D!BasePoints, D!ChartPoints, D!If
<1>13. CASE in.s = "S13"
    BY <1>13, TwoAbove, ThreeAbove, ThreeAtLeast, TwoBetween
       DEF D!BasePoints, D!ChartPoints, D!If
<1>14. CASE in.s = "S14"
    BY <1>14, TwoAbove, ThreeAbove, TwoAtLeast, ThreeAtLeast, TwoBetween, FourBetween
       DEF D!BasePoints, D!ChartPoints, D!If
<1>15. CASE in.s = "S15"
    BY <1>15, TwoAbove, ThreeAbove, ThreeAtLeast, TwoBetween, ThreeBetween
       DEF D!BasePoints, D!ChartPoints, D!If
<1>16. CASE in.s = "S16"
    BY <1>16 DEF D!BasePoints
<1>. QED
    BY <1>1, <1>2, <1>3, <1>4, <1>5, <1>6, <1>7, <1>8, <1>9, <1>10, <1>11, <1>12, <1>13, <1>14,
       <1>15, <1>16 DEF D!Strategies, D!DayStrategies, D!SwingStrategies

LEMMA Clamped ==
    ASSUME NEW x \in Int, NEW most \in Nat
    PROVE  D!Clamp(x, most) = IF x < 0 THEN 0 ELSE IF x > most THEN most ELSE x
<1>1. D!Min({x, most}) = IF x > most THEN most ELSE x
    BY LeastOf DEF D!Min
<1>2. D!Max({0, D!Min({x, most})}) = IF D!Min({x, most}) > 0 THEN D!Min({x, most}) ELSE 0
    BY <1>1, GreatestOf DEF D!Max
<1>. QED
    BY <1>1, <1>2 DEF D!Clamp

LEMMA LeastCounts ==
    ASSUME NEW a \in Int, NEW b \in Int
    PROVE  D!Min({a, b}) = IF a <= b THEN a ELSE b
BY LeastOf DEF D!Min

LEMMA GreatestCounts ==
    ASSUME NEW a \in Int, NEW b \in Int
    PROVE  D!Max({a, b}) = IF a >= b THEN a ELSE b
BY GreatestOf DEF D!Max

\* A score is rounded to tenths of a point.
LEMMA TensBelow ==
    ASSUME NEW e \in Int
    PROVE  /\ 10 * ((e + 5) \div 10) \in Int
           /\ 10 * ((e + 5) \div 10) <= e + 5
OBVIOUS

\* What rule_score multiplies.
Amounts(in) == /\ in.raw \in Int /\ in.amount \in Int /\ in.acc \in Int /\ in.supply \in Int
               /\ in.trigger \in Int /\ in.risk \in Int

LEMMA LinearPointsCount ==
    ASSUME NEW in, Amounts(in)
    PROVE  D!LinearPoints(in) \in Int
<1>1. in.raw * 20 \in Int /\ in.raw * 35 \in Int /\ in.raw * 40 \in Int /\ in.amount * 25 \in Int
      /\ in.amount * 4 \in Int /\ (in.amount * 4) \div 5 \in Int
    BY DEF Amounts
<1>2. /\ D!Min({3000, in.raw * 20}) \in Int /\ D!Min({2500, in.amount * 25}) \in Int
      /\ D!Min({4000, (in.amount * 4) \div 5}) \in Int /\ D!Min({4000, in.amount * 4}) \in Int
      /\ D!Min({1200, in.raw * 35}) \in Int /\ D!Min({1000, in.raw * 35}) \in Int
      /\ D!Min({1200, in.raw * 40}) \in Int /\ D!Min({1200, in.raw * 20}) \in Int
      /\ D!Min({1000, in.raw * 20}) \in Int
    BY <1>1, LeastCounts
<1>3. D!Clamp(in.acc, 3000) \in Int /\ D!Clamp(in.supply, 2500) \in Int /\ D!Clamp(in.trigger, 2000) \in Int
      /\ D!Clamp(in.risk, 1000) \in Int
    BY Clamped DEF Amounts
<1>4. D!Min({4000, IF in.market = "001" THEN (in.amount * 4) \div 5 ELSE in.amount * 4}) \in Int
  <2>. DEFINE n == IF in.market = "001" THEN (in.amount * 4) \div 5 ELSE in.amount * 4
  <2>1. n \in Int
      BY <1>1
  <2>. HIDE DEF n
  <2>2. D!Min({4000, n}) \in Int
      BY <2>1, LeastCounts
  <2>. QED
      BY <2>2 DEF n
<1>. QED
    BY <1>2, <1>3, <1>4 DEF D!LinearPoints

LEMMA BonusesCount ==
    ASSUME NEW in, NEW regime
    PROVE  /\ D!ZoneBonus(in) \in Int /\ D!AtLeast(in.cond, <<<<4, 10>>, <<3, 5>>>>) \in Int
           /\ D!TimeBonus(in.s, in.minute) \in Int /\ D!RegimeBonus(in.s, regime) \in Int
           /\ D!TossBonus(in) \in Int /\ D!RiskPenalty(in, regime) \in Int
<1>1. D!ZoneBonus(in) \in Int /\ D!AtLeast(in.cond, <<<<4, 10>>, <<3, 5>>>>) \in Int
    BY TwoAtLeast DEF D!ZoneBonus, D!If
<1>2. D!TimeBonus(in.s, in.minute) \in Int /\ D!RegimeBonus(in.s, regime) \in Int
    BY DEF D!TimeBonus, D!RegimeBonus, D!If
<1>3. D!TossBonus(in) \in Int
    BY TwoAtLeast DEF D!TossBonus, D!If
<1>4. D!RiskPenalty(in, regime) \in Int
    BY TwoAbove DEF D!RiskPenalty, D!If
<1>. QED
    BY <1>1, <1>2, <1>3, <1>4

LEMMA RuleScoreCounts ==
    ASSUME NEW in, in.s \in D!Strategies, Amounts(in)
    PROVE  D!RuleScore(in) \in Int
<1>. DEFINE regime == D!Regime(in.s, in.ctx)
            points == D!BasePoints(in) + D!ZoneBonus(in) + D!AtLeast(in.cond, <<<<4, 10>>, <<3, 5>>>>)
                      + D!TimeBonus(in.s, in.minute) + D!RegimeBonus(in.s, regime) + D!TossBonus(in)
                      - D!RiskPenalty(in, regime)
            sum == 100 * points + D!LinearPoints(in)
<1>1. sum \in Int
    BY BasePointsCount, BonusesCount, LinearPointsCount
<1>2. D!RuleScore(in) = 10 * ((D!Clamp(sum, 10000) + 5) \div 10)
    BY DEF D!RuleScore
<1>3. \A n \in Int : D!Clamp(n, 10000) \in Int
    BY Clamped
<1>4. \A e \in Int : 10 * ((e + 5) \div 10) \in Int
    BY TensBelow
<1>. HIDE DEF sum
<1>. QED
    BY <1>1, <1>2, <1>3, <1>4

\* The book and the index a live adjustment divides by or compares with.
LEMMA AdjustmentCounts ==
    ASSUME NEW sig, NEW c, c.book \in Nat, sig.flu \in Int, sig.ctx.kospi \in Int, sig.ctx.kosdaq \in Int
    PROVE  D!Adjustment(sig, c) \in Int
<1>1. \A x \in Int, most \in Nat : D!Within(x, most) \in Int
    BY LeastCounts, GreatestCounts DEF D!Within
<1>2. (800 * (c.book - 100)) \div (c.book + 100) \in Int
    BY DivClimbs
<1>3. \A x : D!Sign(x) \in Int /\ D!Pressure(x) \in Int
    BY DEF D!Sign, D!Pressure, D!If
<1>. DEFINE index == IF sig.ctx.market = "101" THEN sig.ctx.kosdaq ELSE sig.ctx.kospi
            relative == IF index = None THEN 0 ELSE D!Within((3 * (sig.flu - index)) \div 2, 400)
            turn == CASE sig.flow.turn = "up" -> 200 [] sig.flow.turn = "down" -> -200 [] OTHER -> 0
            flow == D!Within(300 * D!Sign(sig.flow.slope) + 200 * D!Sign(sig.flow.latest) + turn, 600)
<1>4. relative \in Int
  <2>1. \A i \in Int : (3 * (sig.flu - i)) \div 2 \in Int
      OBVIOUS
  <2>2. index \in Int
      OBVIOUS
  <2>. HIDE DEF index
  <2>. QED
      BY <1>1, <2>1, <2>2
<1>5. flow \in Int
    BY <1>1, <1>3
<1>6. D!Adjustment(sig, c) =
        D!Within(D!Within((800 * (c.book - 100)) \div (c.book + 100), 400) + relative
                 + D!Pressure(D!ExecutionStrength(sig, c)) + flow, 1500)
    BY DEF D!Adjustment
<1>. HIDE DEF relative, flow
<1>. QED
    BY <1>1, <1>2, <1>3, <1>4, <1>5, <1>6

\* The points of a size that no producer of signals sets the fields for.
Bare(in) ==
    /\ in.candidate = "C" /\ in.regime = "neutral" /\ in.amount = None /\ in.stop = 300
    /\ in.strategies = 1 /\ in.heat = 50 /\ in.aiScore \in Int /\ in.ruleScore \in Int /\ in.chase \in Nat

LEMMA BareSizeIsSmall ==
    ASSUME NEW in, Bare(in)
    PROVE  /\ D!SizeScore(in) \in Int /\ D!SizeScore(in) < 7000
           /\ in.chase = 50 /\ in.spread = None => D!SizeScore(in) < 5500
<1>. DEFINE base == D!Min({2500, (15 * in.aiScore + 10 * in.ruleScore) \div 100})
            liquidity == D!LiquidityPoints(in.amount, in.spread)
            stop == D!StopPoints(in.stop, in.atr)
            chase == D!Max({0, 1500 - 15 * in.chase})
            stale == D!If(in.stale, 500)
            points == base + 800 + liquidity + stop + chase - stale
<1>1. base \in Int /\ base <= 2500
  <2>1. (15 * in.aiScore + 10 * in.ruleScore) \div 100 \in Int
      BY DEF Bare
  <2>. QED
      BY <2>1, LeastCounts
<1>2. liquidity \in Int /\ liquidity <= 700 /\ (in.spread = None => liquidity = 0)
  <2>1. D!AtLeast(None, <<<<100, 800>>, <<50, 600>>, <<10, 400>>, <<5, 200>>>>) = 0
      BY FourAtLeast, NoneIsApart
  <2>2. /\ D!Between(in.spread, <<<<0, 5, 700>>, <<0, 10, 500>>, <<0, 20, 300>>, <<0, 50, 100>>>>) \in Int
        /\ D!Between(in.spread, <<<<0, 5, 700>>, <<0, 10, 500>>, <<0, 20, 300>>, <<0, 50, 100>>>>) <= 700
      BY FourBetween
  <2>. QED
      BY <2>1, <2>2 DEF D!LiquidityPoints, Bare
<1>3. stop \in Int /\ stop <= 900
  <2>1. D!Between(300, <<<<0, 100, 1000>>, <<0, 150, 800>>, <<0, 200, 600>>, <<0, 300, 400>>, <<0, 500, 200>>>>)
          = 400
      BY FiveBetween
  <2>. DEFINE fit == IF in.atr = None \/ in.atr <= 0 THEN 0
                     ELSE IF 300 < in.atr THEN 200 ELSE IF 300 <= 3 * in.atr THEN 500 ELSE -200
  <2>2. fit \in {0, 200, 500, -200}
      OBVIOUS
  <2>3. stop = D!Clamp(400 + fit, 1500)
      BY <2>1 DEF D!StopPoints, Bare
  <2>. HIDE DEF fit
  <2>. QED
      BY <2>2, <2>3, Clamped
<1>4. chase \in Int /\ chase <= 1500 /\ (in.chase = 50 => chase = 750)
    BY GreatestCounts DEF Bare
<1>5. stale \in {0, 500}
    BY DEF D!If
<1>6. D!SizeScore(in) = 10 * ((D!Clamp(points, 10000) + 5) \div 10)
  <2>1. D!QualityPoints(in.candidate) = 800 /\ D!RegimeFit(in.s, in.regime) = 0
      BY DEF Bare, D!QualityPoints, D!RegimeFit, D!If
  <2>2. D!Min({500, 250 * (in.strategies - 1)}) = 0 /\ D!Max({0, 50 * (in.heat - 70)}) = 0
      BY LeastCounts, GreatestCounts DEF Bare
  <2>3. D!SizeScore(in) =
          10 * ((D!Clamp(base + D!QualityPoints(in.candidate) + liquidity + stop + chase
                         + D!RegimeFit(in.s, in.regime) + D!Min({500, 250 * (in.strategies - 1)})
                         - D!Max({0, 50 * (in.heat - 70)}) - stale, 10000) + 5) \div 10)
      BY DEF D!SizeScore
  <2>. HIDE DEF base, liquidity, stop, chase, stale
  <2>4. base + 800 + liquidity + stop + chase + 0 + 0 - 0 - stale = points
      BY <1>1, <1>2, <1>3, <1>4, <1>5
  <2>. QED
      BY <2>1, <2>2, <2>3, <2>4
<1>. HIDE DEF base, liquidity, stop, chase, stale
<1>7. /\ points \in Int /\ points <= 6400
      /\ in.chase = 50 /\ in.spread = None => points <= 4950
    BY <1>1, <1>2, <1>3, <1>4, <1>5
<1>. HIDE DEF points
<1>8. /\ D!Clamp(points, 10000) \in Int /\ D!Clamp(points, 10000) <= 6400
      /\ in.chase = 50 /\ in.spread = None => D!Clamp(points, 10000) <= 4950
    BY <1>7, Clamped
<1>. QED
    BY <1>6, <1>8, TensBelow

LEMMA BareTierIsSmall ==
    ASSUME NEW in, Bare(in)
    PROVE  /\ D!Tier(in) \in {0, 1}
           /\ in.chase = 50 /\ in.spread = None => D!Tier(in) = 0
<1>. DEFINE score == D!SizeScore(in)
            cap == D!TierCap(in.s, in.candidate, in.chase)
            rescueCap == IF /\ in.policy = "momentum_chase_size_down" /\ in.rr >= 1800
                            /\ in.ruleScore >= 7500 /\ in.quality >= 70 THEN 2 ELSE 1
            capped == D!Min({D!TierOf(score), cap})
<1>1. D!TierOf(score) \in {0, 1} /\ (in.chase = 50 /\ in.spread = None => D!TierOf(score) = 0)
  <2>1. score \in Int /\ score < 7000 /\ (in.chase = 50 /\ in.spread = None => score < 5500)
      BY BareSizeIsSmall
  <2>. HIDE DEF score
  <2>. QED
      BY <2>1, FourAtLeast DEF D!TierOf
<1>2. cap \in 2..4
    BY DEF D!TierCap
<1>3. rescueCap \in {1, 2}
    OBVIOUS
<1>4. D!Tier(in) = IF in.execution = "REJECT" THEN 0
                   ELSE IF ~(in.rescued \/ in.policy = "momentum_chase_size_down") THEN capped
                   ELSE IF in.rr < 1200 THEN 0 ELSE D!Min({capped, rescueCap})
    BY DEF D!Tier
<1>. HIDE DEF score, cap, rescueCap
<1>5. capped = D!TierOf(score)
    BY <1>1, <1>2, LeastCounts
<1>6. D!Min({capped, rescueCap}) = capped
    BY <1>1, <1>3, <1>5, LeastCounts
<1>. QED
    BY <1>1, <1>4, <1>5, <1>6

LEMMA DecidedSizeIsSmall ==
    ASSUME NEW sig, NEW c, NEW m, NEW ai, NEW graded, NEW p, graded.score \in Int, ai.score \in Int,
           sig.chase \in Nat
    PROVE  LET tier == D!Finished(sig, c, m, ai, graded, p).tier
           IN tier \in {0, 1} /\ (sig.chase = 50 /\ sig.spread = None => tier = 0)
<1>. DEFINE aiScore == IF graded.before = "AI" THEN ai.score ELSE graded.score
            tier == D!EntryTier(sig, c, graded.score, aiScore, graded.rescued, graded.quality)
<1>1. D!Finished(sig, c, m, ai, graded, p).tier = tier
    BY DEF D!Finished
<1>2. aiScore \in Int
    OBVIOUS
<1>. HIDE DEF aiScore
<1>3. \E in : Bare(in) /\ in.chase = sig.chase /\ in.spread = sig.spread /\ tier = D!Tier(in)
    BY <1>2 DEF D!EntryTier, Bare
<1>. QED
    BY <1>1, <1>3, BareTierIsSmall

\* A signal that is decided, with the market data it is decided on.
Decided(x) ==
    /\ x.sig.s \in S!Strategies /\ x.ai.score \in Int
    /\ x.sig.flu \in Int /\ x.sig.ctx.kospi \in Int /\ x.sig.ctx.kosdaq \in Int
    /\ x.m.hoga.age # None => x.m.hoga.bid \in Nat
    /\ x.sig.reading = [f \in DOMAIN x.sig.reading |-> x.sig.reading[f]]
    /\ {"s", "raw", "amount", "acc", "supply", "trigger", "risk"} \subseteq DOMAIN x.sig.reading
    /\ Amounts(x.sig.reading)
    /\ x.sig.chase \in Nat
    /\ x.sig.s \notin {"S10", "S13"} => x.sig.chase = 50 /\ x.sig.spread = None

LEMMA ScoredReadingCounts ==
    ASSUME NEW x, Decided(x), NEW c
    PROVE  LET in == D!ScoredReading(x.sig, c, x.m) IN in.s \in D!Strategies /\ Amounts(in)
<1>. DEFINE in == D!ScoredReading(x.sig, c, x.m)
            r == x.sig.reading
<1>1. /\ in.s = x.sig.s /\ in.raw = r.raw /\ in.amount = r.amount /\ in.acc = r.acc
      /\ in.supply = r.supply /\ in.trigger = r.trigger /\ in.risk = r.risk
    BY DEF D!ScoredReading, Decided
<1>2. x.sig.s \in D!Strategies
    BY DEF Decided, D!Strategies, D!DayStrategies, D!SwingStrategies, S!Strategies, S!DayStrategies,
           S!SwingStrategies
<1>. QED
    BY <1>1, <1>2 DEF Decided, Amounts

LEMMA GradedScoreCounts ==
    ASSUME NEW x, Decided(x)
    PROVE  Grades(x.sig, x.m).score \in Int
<1>. DEFINE c == Refreshed(x.sig, x.m)
<1>1. c.book \in Nat
  <2>1. c.book = IF D!Freshness(x.m.hoga.age, "hoga") \in {"cancel", "missing"} THEN 100 ELSE x.m.hoga.bid
      BY DEF Refreshed, D!Refresh, D!Kinds, D!Unusable
  <2>2. x.m.hoga.age = None => D!Freshness(x.m.hoga.age, "hoga") = "missing"
      BY DEF D!Freshness
  <2>. QED
      BY <2>1, <2>2 DEF Decided
<1>2. D!Adjustment(x.sig, c) \in Int
    BY <1>1, AdjustmentCounts DEF Decided
<1>3. D!RuleScore(D!ScoredReading(x.sig, c, x.m)) \in Int
    BY ScoredReadingCounts, RuleScoreCounts
<1>4. D!Score(x.sig, c, x.m) \in Int
    BY <1>2, <1>3, Clamped DEF D!Score
<1>. QED
    BY <1>4 DEF Grades, D!Graded

LEMMA DecisionIsEarned ==
    ASSUME NEW x, Decided(x)
    PROVE  D!Decide(x.sig, x.m, x.ai).tier <= (IF x.sig.s \in {"S10", "S13"} THEN 1 ELSE 0)
<1>1. x.ai.score \in Int /\ x.sig.chase \in Nat
      /\ (x.sig.s \notin {"S10", "S13"} => x.sig.chase = 50 /\ x.sig.spread = None)
    BY DEF Decided
<1>2. LET tier == D!Decide(x.sig, x.m, x.ai).tier
      IN tier \in {0, 1} /\ (x.sig.chase = 50 /\ x.sig.spread = None => tier = 0)
    BY <1>1, DecidedByGrades, GradedScoreCounts, DecidedSizeIsSmall
<1>. QED
    BY <1>1, <1>2

\* Read by the engine, decided by it, and no other.
EnterInv ==
    input.fn = "decide" =>
        /\ input \in Inputs("decide")
        /\ result # <<>> => result[1] = D!Decide(input.sig, input.m, input.ai)

LEMMA EnterIsInvariant == Spec => []EnterInv
<1>1. Init => EnterInv
    BY DEF Init, EnterInv
<1>2. EnterInv /\ [Next]_vars => EnterInv'
  <2>. SUFFICES ASSUME EnterInv, [Next]_vars PROVE EnterInv'
      OBVIOUS
  <2>1. CASE UNCHANGED vars
      BY <2>1 DEF vars, EnterInv
  <2>2. CASE Next
    <3>1. result = <<>> /\ UNCHANGED input /\ (input.fn = "decide" => EvaluateDecision)
        BY <2>2, EvaluatesOnce
    <3>2. ASSUME EvaluateDecision PROVE result'[1] = D!Decide(input.sig, input.m, input.ai)
        BY <3>2 DEF EvaluateDecision, DecideOn
    <3>. QED
        BY <3>1, <3>2 DEF EnterInv
  <2>. QED
      BY <2>1, <2>2
<1>. QED
    BY <1>1, <1>2, PTL DEF Spec

\* process_one: an ENTER rests on fresh readings of the websocket, on prices of Claude that lie
\* around the entry and on a reward above its gate, and its size on fields that are set.
THEOREM EnterAlwaysEarned == Spec => []EnterIsEarned
<1>1. EnterInv => EnterIsEarned
  <2>. SUFFICES ASSUME EnterInv, Of("decide") PROVE EnterIsEarned
      BY DEF EnterIsEarned, EnterRestsOnWebsocket, EnterBeatsItsGate, SizesStaySmall, Of
  <2>. DEFINE d == D!Decide(input.sig, input.m, input.ai)
  <2>1. Decided(input) /\ result[1] = d
      BY DecisionsAreRead DEF EnterInv, Of, Decided, Amounts
  <2>2. EnterRestsOnWebsocket
    <3>1. d.action = "ENTER" =>
            /\ \A k \in {"tick", "hoga", "strength"} :
                   D!Freshness(input.m[k].age, k) = "fresh" /\ input.m[k].age <= 3000
            /\ d.freshness = "PASS"
        BY EnterIsRead
    <3>. HIDE DEF d
    <3>. QED
        BY <2>1, <3>1 DEF EnterRestsOnWebsocket
  <2>3. EnterBeatsItsGate
    <3>1. d.action = "ENTER" =>
            /\ d.p.cur > 0 /\ (d.p.ai.tp1 # 0 \/ d.p.ai.sl # 0) =>
                   0 < d.p.ai.sl /\ d.p.ai.sl < d.p.cur /\ d.p.cur < d.p.ai.tp1
            /\ ~D!RrTooLow(input.sig, d.rr)
        BY EnterIsPriced
    <3>. HIDE DEF d
    <3>. QED
        BY <2>1, <3>1 DEF EnterBeatsItsGate
  <2>4. SizesStaySmall
    <3>1. d.tier <= (IF input.sig.s \in {"S10", "S13"} THEN 1 ELSE 0)
        BY <2>1, DecisionIsEarned
    <3>. HIDE DEF d
    <3>. QED
        BY <2>1, <3>1 DEF SizesStaySmall
  <2>. QED
      BY <2>2, <2>3, <2>4 DEF EnterIsEarned
<1>. QED
    BY <1>1, EnterIsInvariant, PTL

\* What the points of a reading come to: the bonuses are the same for two readings of one strategy.
LEMMA MorePointsScoreMore ==
    ASSUME NEW a, NEW b, a.s = b.s, a.ctx = b.ctx,
           D!BasePoints(a) \in Int, D!BasePoints(b) \in Int, D!BasePoints(a) <= D!BasePoints(b),
           D!LinearPoints(a) \in Int, D!LinearPoints(a) = D!LinearPoints(b),
           LET regime == D!Regime(a.s, a.ctx)
               rest(in) == D!ZoneBonus(in) + D!AtLeast(in.cond, <<<<4, 10>>, <<3, 5>>>>)
                           + D!TimeBonus(in.s, in.minute) + D!RegimeBonus(in.s, regime) + D!TossBonus(in)
                           - D!RiskPenalty(in, regime)
           IN rest(a) \in Int /\ rest(b) \in Int /\ rest(a) <= rest(b)
    PROVE  D!RuleScore(a) <= D!RuleScore(b)
<1>. DEFINE regime == D!Regime(a.s, a.ctx)
            rest(in) == D!ZoneBonus(in) + D!AtLeast(in.cond, <<<<4, 10>>, <<3, 5>>>>)
                        + D!TimeBonus(in.s, in.minute) + D!RegimeBonus(in.s, regime) + D!TossBonus(in)
                        - D!RiskPenalty(in, regime)
            sum(in) == 100 * (D!BasePoints(in) + rest(in)) + D!LinearPoints(in)
<1>1. /\ D!RuleScore(a) = 10 * ((D!Clamp(sum(a), 10000) + 5) \div 10)
      /\ D!RuleScore(b) = 10 * ((D!Clamp(sum(b), 10000) + 5) \div 10)
  <2>1. \A in : D!Regime(in.s, in.ctx) = regime /\ D!BasePoints(in) \in Int =>
          D!BasePoints(in) + D!ZoneBonus(in) + D!AtLeast(in.cond, <<<<4, 10>>, <<3, 5>>>>)
          + D!TimeBonus(in.s, in.minute) + D!RegimeBonus(in.s, regime) + D!TossBonus(in)
          - D!RiskPenalty(in, regime) = D!BasePoints(in) + rest(in)
    <3>. TAKE in
    <3>1. /\ D!ZoneBonus(in) \in Int /\ D!AtLeast(in.cond, <<<<4, 10>>, <<3, 5>>>>) \in Int
          /\ D!TimeBonus(in.s, in.minute) \in Int /\ D!RegimeBonus(in.s, regime) \in Int
          /\ D!TossBonus(in) \in Int /\ D!RiskPenalty(in, regime) \in Int
        BY BonusesCount
    <3>. HIDE DEF regime
    <3>. QED
        BY <3>1
  <2>2. D!Regime(b.s, b.ctx) = regime
      OBVIOUS
  <2>. HIDE DEF rest
  <2>. QED
      BY <2>1, <2>2 DEF D!RuleScore
<1>2. sum(a) \in Int /\ sum(b) \in Int /\ sum(a) <= sum(b)
  <2>1. rest(a) \in Int /\ rest(b) \in Int /\ rest(a) <= rest(b)
      OBVIOUS
  <2>. HIDE DEF rest
  <2>. QED
      BY <2>1
<1>. HIDE DEF sum
<1>3. \A m, n \in Int : m <= n =>
          /\ D!Clamp(m, 10000) \in Int /\ D!Clamp(n, 10000) \in Int
          /\ D!Clamp(m, 10000) <= D!Clamp(n, 10000)
    BY Clamped
<1>4. \A m, n \in Int : m <= n => 10 * ((m + 5) \div 10) <= 10 * ((n + 5) \div 10)
  <2>. TAKE m, n \in Int
  <2>. HAVE m <= n
  <2>1. /\ (m + 5) \div 10 \in Int /\ (n + 5) \div 10 \in Int
        /\ (m + 5) \div 10 <= (n + 5) \div 10
      BY DivClimbs
  <2>. QED
      BY <2>1
<1>. QED
    BY <1>1, <1>2, <1>3, <1>4
-----------------------------------------------------------------------------
(* More demand never counts less.                                          *)

Numbers(in) ==
    /\ in.cntr \in Int /\ in.hoga \in Int /\ in.vol \in Int /\ in.flu \in Int /\ in.strength \in Int
    /\ in.sigBid \in Int /\ in.local \in Int /\ in.surge \in Int /\ Amounts(in) /\ in.s \in D!Strategies
Alike(a, b) ==
    /\ a.s = b.s /\ a.cur = b.cur /\ a.online = b.online /\ a.minute = b.minute
    /\ a.strength = b.strength /\ a.local = b.local /\ a.cap = b.cap /\ a.sigBid = b.sigBid
    /\ a.sigFlu = b.sigFlu /\ a.gap = b.gap /\ a.surge = b.surge /\ a.rsi = b.rsi
    /\ a.pullback = b.pullback /\ a.body = b.body /\ a.flag = b.flag /\ a.cloud = b.cloud
    /\ a.days = b.days /\ a.cond = b.cond /\ a.second = b.second /\ a.mode = b.mode /\ a.conc = b.conc
    /\ a.gain = b.gain /\ a.atr = b.atr /\ a.rr = b.rr /\ a.raw = b.raw /\ a.amount = b.amount
    /\ a.market = b.market /\ a.value = b.value /\ a.sector = b.sector /\ a.acc = b.acc
    /\ a.supply = b.supply /\ a.trigger = b.trigger /\ a.risk = b.risk /\ a.toss = b.toss
    /\ a.zone = b.zone /\ a.ctx = b.ctx

\* The second reading has more buyers, bids or volume, where those of the first were read.
Stronger(a, b) ==
    /\ Numbers(a) /\ Numbers(b) /\ Alike(a, b) /\ a.flu = b.flu
    /\ a.cntr = b.cntr \/ (0 < a.cntr /\ a.cntr <= b.cntr)
    /\ a.hoga = b.hoga \/ (0 <= a.hoga /\ a.hoga <= b.hoga)
    /\ a.vol <= b.vol

LEMMA StrongerStrength ==
    ASSUME NEW a, NEW b, Stronger(a, b)
    PROVE  /\ D!Strength(a) \in Int /\ D!Strength(b) \in Int /\ D!Strength(a) <= D!Strength(b)
           /\ D!Bid(a) \in Int /\ D!Bid(b) \in Int /\ D!Bid(a) <= D!Bid(b) /\ D!Flu(a) = D!Flu(b)
BY NoneIsApart DEF Stronger, Alike, Numbers, D!Strength, D!Bid, D!Flu

LEMMA StrongerBasePoints ==
    ASSUME NEW a, NEW b, Stronger(a, b)
    PROVE  D!BasePoints(a) <= D!BasePoints(b)
<1>0. /\ D!Strength(a) \in Int /\ D!Strength(b) \in Int /\ D!Strength(a) <= D!Strength(b)
      /\ D!Bid(a) \in Int /\ D!Bid(b) \in Int /\ D!Bid(a) <= D!Bid(b) /\ D!Flu(a) = D!Flu(b)
      /\ a.hoga \in Int /\ b.hoga \in Int /\ a.hoga <= b.hoga
      /\ a.cntr \in Int /\ b.cntr \in Int /\ a.cntr <= b.cntr
      /\ a.vol \in Int /\ b.vol \in Int /\ a.vol <= b.vol
      /\ D!Max({0, a.vol - 100}) \in Int /\ D!Max({0, b.vol - 100}) \in Int
      /\ D!Max({0, a.vol - 100}) <= D!Max({0, b.vol - 100})
    BY StrongerStrength, GreatestCounts DEF Stronger, Numbers
<1>1. CASE a.s = "S1"
    BY <1>0, <1>1, NoneIsApart, ThreeAbove, ThreeBetween, TwoAbove
       DEF Stronger, Numbers, Alike, D!BasePoints, D!EarlyPoints, D!If, D!Unread
<1>2. CASE a.s = "S2"
    BY <1>0, <1>2, NoneIsApart, TwoAbove, TwoBetween
       DEF Stronger, Numbers, Alike, D!BasePoints, D!EarlyPoints, D!If, D!Unread
<1>3. CASE a.s = "S3"
    BY <1>0, <1>3, NoneIsApart, ThreeAtLeast, TwoBetween
       DEF Stronger, Numbers, Alike, D!BasePoints, D!EarlyPoints, D!If, D!Unread
<1>4. CASE a.s = "S4"
    BY <1>0, <1>4, NoneIsApart, ThreeAbove, ThreeAtLeast
       DEF Stronger, Numbers, Alike, D!BasePoints, D!EarlyPoints, D!If, D!Unread
<1>5. CASE a.s = "S5"
    BY <1>0, <1>5, NoneIsApart, ThreeAbove
       DEF Stronger, Numbers, Alike, D!BasePoints, D!EarlyPoints, D!If, D!Unread
<1>6. CASE a.s = "S6"
    BY <1>0, <1>6, NoneIsApart, TwoAbove, TwoAtLeast, TwoBetween
       DEF Stronger, Numbers, Alike, D!BasePoints, D!EarlyPoints, D!If, D!Unread
<1>7. CASE a.s = "S7"
    BY <1>0, <1>7, NoneIsApart, ThreeAtLeast, ThreeBetween, TwoAtLeast, TwoBetween
       DEF Stronger, Numbers, Alike, D!BasePoints, D!BreakoutPoints, D!If, D!Unread
<1>8. CASE a.s = "S10"
  <2>. DEFINE p1(in) == D!AtLeast(IF in.surge # 0 THEN in.surge ELSE D!Max({0, in.vol - 100}),
                                  <<<<300, 30>>, <<200, 20>>, <<100, 10>>>>)
              p2(in) == D!Between(D!Flu(in), <<<<200, 800, 20>>, <<1, 1500, 10>>>>)
              p3(in) == D!If(D!Flu(in) > 1500, 10)
              p4(in) == D!If((IF in.surge # 0 THEN in.surge ELSE D!Max({0, in.vol - 100})) >= 100
                               /\ D!Strength(in) > 100, 12)
              p5(in) == D!Above(D!Strength(in), <<<<130, 30>>, <<110, 20>>, <<90, 12>>, <<70, 6>>>>)
              p6(in) == D!Above(in.sigBid, <<<<150, 10>>, <<120, 5>>>>)
  <2>1. p1(a) \in Int /\ p1(b) \in Int /\ p1(a) <= p1(b)
      BY <1>0, NoneIsApart, ThreeAtLeast
         DEF Stronger, Numbers, Alike, D!If, D!Unread
  <2>2. p2(a) \in Int /\ p2(b) \in Int /\ p2(a) <= p2(b)
      BY <1>0, NoneIsApart, TwoBetween
         DEF Stronger, Numbers, Alike, D!If, D!Unread
  <2>3. p3(a) \in Int /\ p3(b) \in Int /\ p3(a) >= p3(b)
      BY <1>0, NoneIsApart
         DEF Stronger, Numbers, Alike, D!If, D!Unread
  <2>4. p4(a) \in Int /\ p4(b) \in Int /\ p4(a) <= p4(b)
      BY <1>0, NoneIsApart
         DEF Stronger, Numbers, Alike, D!If, D!Unread
  <2>5. p5(a) \in Int /\ p5(b) \in Int /\ p5(a) <= p5(b)
      BY <1>0, NoneIsApart, FourAbove
         DEF Stronger, Numbers, Alike, D!If, D!Unread
  <2>6. p6(a) \in Int /\ p6(b) \in Int /\ p6(a) <= p6(b)
      BY <1>0, NoneIsApart, TwoAbove
         DEF Stronger, Numbers, Alike, D!If, D!Unread
  <2>7. D!BasePoints(a) = p1(a) + p2(a) - p3(a) + p4(a) + p5(a) + p6(a)
      BY <1>8 DEF D!BasePoints, D!BreakoutPoints
  <2>8. D!BasePoints(b) = p1(b) + p2(b) - p3(b) + p4(b) + p5(b) + p6(b)
      BY <1>8 DEF D!BasePoints, D!BreakoutPoints, Alike, Stronger
  <2>. HIDE DEF p1, p2, p3, p4, p5, p6
  <2>. QED
      BY <2>1, <2>2, <2>3, <2>4, <2>5, <2>6, <2>7, <2>8
<1>9. CASE a.s = "S11"
    BY <1>0, <1>9, NoneIsApart, TwoAbove, TwoAtLeast
       DEF Stronger, Numbers, Alike, D!BasePoints, D!BreakoutPoints, D!If, D!Unread
<1>10. CASE a.s = "S12"
    BY <1>0, <1>10, NoneIsApart, ThreeAtLeast, TwoAbove, TwoBetween
       DEF Stronger, Numbers, Alike, D!BasePoints, D!BreakoutPoints, D!If, D!Unread
<1>11. CASE a.s = "S8"
  <2>. DEFINE p1(in) == D!Between(D!Flu(in), <<<<100, 500, 25>>, <<501, 1000, 15>>>>)
              p2(in) == D!AtLeast(in.vol, <<<<300, 20>>, <<150, 12>>, <<100, 5>>>>)
              p3(in) == D!Above(D!Strength(in), <<<<130, 30>>, <<110, 20>>, <<100, 10>>>>)
              p4(in) == D!Above(in.hoga, <<<<150, 15>>, <<120, 8>>>>)
              p5(in) == D!Above(in.rsi, <<<<55, 10>>, <<50, 5>>>>)
              p6(in) == (IF in.flag THEN 15 ELSE D!Between(D!Abs(in.gap), <<<<0, 200, 10>>, <<0, 500, 5>>>>))
              p7(in) == D!If(in.second, 8)
  <2>1. p1(a) \in Int /\ p1(b) \in Int /\ p1(a) <= p1(b)
      BY <1>0, NoneIsApart, TwoBetween
         DEF Stronger, Numbers, Alike, D!If, D!Unread
  <2>2. p2(a) \in Int /\ p2(b) \in Int /\ p2(a) <= p2(b)
      BY <1>0, NoneIsApart, ThreeAtLeast
         DEF Stronger, Numbers, Alike, D!If, D!Unread
  <2>3. p3(a) \in Int /\ p3(b) \in Int /\ p3(a) <= p3(b)
      BY <1>0, NoneIsApart, ThreeAbove
         DEF Stronger, Numbers, Alike, D!If, D!Unread
  <2>4. p4(a) \in Int /\ p4(b) \in Int /\ p4(a) <= p4(b)
      BY <1>0, NoneIsApart, TwoAbove
         DEF Stronger, Numbers, Alike, D!If, D!Unread
  <2>5. p5(a) \in Int /\ p5(b) \in Int /\ p5(a) <= p5(b)
      BY <1>0, NoneIsApart, TwoAbove
         DEF Stronger, Numbers, Alike, D!If, D!Unread
  <2>6. p6(a) \in Int /\ p6(b) \in Int /\ p6(a) <= p6(b)
      BY <1>0, NoneIsApart, TwoBetween
         DEF Stronger, Numbers, Alike, D!If, D!Unread
  <2>7. p7(a) \in Int /\ p7(b) \in Int /\ p7(a) <= p7(b)
      BY <1>0, NoneIsApart
         DEF Stronger, Numbers, Alike, D!If, D!Unread
  <2>8. D!BasePoints(a) = p1(a) + p2(a) + p3(a) + p4(a) + p5(a) + p6(a) + p7(a)
      BY <1>11 DEF D!BasePoints, D!ChartPoints
  <2>9. D!BasePoints(b) = p1(b) + p2(b) + p3(b) + p4(b) + p5(b) + p6(b) + p7(b)
      BY <1>11 DEF D!BasePoints, D!ChartPoints, Alike, Stronger
  <2>. HIDE DEF p1, p2, p3, p4, p5, p6, p7
  <2>. QED
      BY <2>1, <2>2, <2>3, <2>4, <2>5, <2>6, <2>7, <2>8, <2>9
<1>12. CASE a.s = "S9"
    BY <1>0, <1>12, NoneIsApart, ThreeAbove, ThreeBetween, TwoAbove, TwoBetween
       DEF Stronger, Numbers, Alike, D!BasePoints, D!ChartPoints, D!If, D!Unread
<1>13. CASE a.s = "S13"
  <2>. DEFINE p1(in) == D!Between(D!Flu(in), <<<<300, 800, 30>>, <<801, 1500, 20>>>>)
              p2(in) == D!Above(D!Strength(in), <<<<150, 35>>, <<130, 25>>, <<110, 10>>>>)
              p3(in) == D!Above(in.hoga, <<<<200, 25>>, <<150, 15>>, <<120, 5>>>>)
              p4(in) == D!Above(in.rsi, <<<<60, 10>>, <<50, 5>>>>)
              p5(in) == D!AtLeast(in.vol, <<<<300, 18>>, <<200, 12>>, <<130, 6>>>>)
              p6(in) == D!If(in.flag, 10)
              p7(in) == D!If(in.second, 8)
  <2>1. p1(a) \in Int /\ p1(b) \in Int /\ p1(a) <= p1(b)
      BY <1>0, NoneIsApart, TwoBetween
         DEF Stronger, Numbers, Alike, D!If, D!Unread
  <2>2. p2(a) \in Int /\ p2(b) \in Int /\ p2(a) <= p2(b)
      BY <1>0, NoneIsApart, ThreeAbove
         DEF Stronger, Numbers, Alike, D!If, D!Unread
  <2>3. p3(a) \in Int /\ p3(b) \in Int /\ p3(a) <= p3(b)
      BY <1>0, NoneIsApart, ThreeAbove
         DEF Stronger, Numbers, Alike, D!If, D!Unread
  <2>4. p4(a) \in Int /\ p4(b) \in Int /\ p4(a) <= p4(b)
      BY <1>0, NoneIsApart, TwoAbove
         DEF Stronger, Numbers, Alike, D!If, D!Unread
  <2>5. p5(a) \in Int /\ p5(b) \in Int /\ p5(a) <= p5(b)
      BY <1>0, NoneIsApart, ThreeAtLeast
         DEF Stronger, Numbers, Alike, D!If, D!Unread
  <2>6. p6(a) \in Int /\ p6(b) \in Int /\ p6(a) <= p6(b)
      BY <1>0, NoneIsApart
         DEF Stronger, Numbers, Alike, D!If, D!Unread
  <2>7. p7(a) \in Int /\ p7(b) \in Int /\ p7(a) <= p7(b)
      BY <1>0, NoneIsApart
         DEF Stronger, Numbers, Alike, D!If, D!Unread
  <2>8. D!BasePoints(a) = p1(a) + p2(a) + p3(a) + p4(a) + p5(a) + p6(a) + p7(a)
      BY <1>13 DEF D!BasePoints, D!ChartPoints
  <2>9. D!BasePoints(b) = p1(b) + p2(b) + p3(b) + p4(b) + p5(b) + p6(b) + p7(b)
      BY <1>13 DEF D!BasePoints, D!ChartPoints, Alike, Stronger
  <2>. HIDE DEF p1, p2, p3, p4, p5, p6, p7
  <2>. QED
      BY <2>1, <2>2, <2>3, <2>4, <2>5, <2>6, <2>7, <2>8, <2>9
<1>14. CASE a.s = "S14"
  <2>. DEFINE p1(in) == D!Between(in.rsi, <<<<1, 30, 35>>, <<31, 35, 25>>, <<36, 38, 15>>, <<39, 100, 5>>>>)
              p2(in) == D!Between(in.atr, <<<<100, 250, 15>>, <<50, 99, 5>>>>)
              p3(in) == D!If(in.atr > 300, 5)
              p4(in) == D!Above(D!Strength(in), <<<<120, 25>>, <<110, 15>>, <<100, 5>>>>)
              p5(in) == D!Above(in.hoga, <<<<150, 15>>, <<120, 8>>>>)
              p6(in) == D!AtLeast(in.cond, <<<<3, 18>>, <<2, 10>>, <<1, 5>>>>)
              p7(in) == D!AtLeast(in.vol, <<<<150, 10>>, <<110, 5>>>>)
  <2>1. p1(a) \in Int /\ p1(b) \in Int /\ p1(a) <= p1(b)
      BY <1>0, NoneIsApart, FourBetween
         DEF Stronger, Numbers, Alike, D!If, D!Unread
  <2>2. p2(a) \in Int /\ p2(b) \in Int /\ p2(a) <= p2(b)
      BY <1>0, NoneIsApart, TwoBetween
         DEF Stronger, Numbers, Alike, D!If, D!Unread
  <2>3. p3(a) \in Int /\ p3(b) \in Int /\ p3(a) >= p3(b)
      BY <1>0, NoneIsApart
         DEF Stronger, Numbers, Alike, D!If, D!Unread
  <2>4. p4(a) \in Int /\ p4(b) \in Int /\ p4(a) <= p4(b)
      BY <1>0, NoneIsApart, ThreeAbove
         DEF Stronger, Numbers, Alike, D!If, D!Unread
  <2>5. p5(a) \in Int /\ p5(b) \in Int /\ p5(a) <= p5(b)
      BY <1>0, NoneIsApart, TwoAbove
         DEF Stronger, Numbers, Alike, D!If, D!Unread
  <2>6. p6(a) \in Int /\ p6(b) \in Int /\ p6(a) <= p6(b)
      BY <1>0, NoneIsApart, ThreeAtLeast
         DEF Stronger, Numbers, Alike, D!If, D!Unread
  <2>7. p7(a) \in Int /\ p7(b) \in Int /\ p7(a) <= p7(b)
      BY <1>0, NoneIsApart, TwoAtLeast
         DEF Stronger, Numbers, Alike, D!If, D!Unread
  <2>8. D!BasePoints(a) = p1(a) + p2(a) - p3(a) + p4(a) + p5(a) + p6(a) + p7(a)
      BY <1>14 DEF D!BasePoints, D!ChartPoints
  <2>9. D!BasePoints(b) = p1(b) + p2(b) - p3(b) + p4(b) + p5(b) + p6(b) + p7(b)
      BY <1>14 DEF D!BasePoints, D!ChartPoints, Alike, Stronger
  <2>. HIDE DEF p1, p2, p3, p4, p5, p6, p7
  <2>. QED
      BY <2>1, <2>2, <2>3, <2>4, <2>5, <2>6, <2>7, <2>8, <2>9
<1>15. CASE a.s = "S15"
  <2>. DEFINE p1(in) == D!Between(in.rsi, <<<<50, 70, 35>>, <<71, 75, 25>>, <<45, 49, 10>>>>)
              p2(in) == D!AtLeast(in.vol, <<<<300, 25>>, <<200, 18>>, <<150, 10>>>>)
              p3(in) == D!Above(D!Strength(in), <<<<130, 25>>, <<110, 18>>, <<100, 8>>>>)
              p4(in) == D!Above(in.hoga, <<<<150, 15>>, <<120, 8>>>>)
              p5(in) == D!Between(D!Flu(in), <<<<100, 500, 5>>, <<501, 800, 3>>>>)
  <2>1. p1(a) \in Int /\ p1(b) \in Int /\ p1(a) <= p1(b)
      BY <1>0, NoneIsApart, ThreeBetween
         DEF Stronger, Numbers, Alike, D!If, D!Unread
  <2>2. p2(a) \in Int /\ p2(b) \in Int /\ p2(a) <= p2(b)
      BY <1>0, NoneIsApart, ThreeAtLeast
         DEF Stronger, Numbers, Alike, D!If, D!Unread
  <2>3. p3(a) \in Int /\ p3(b) \in Int /\ p3(a) <= p3(b)
      BY <1>0, NoneIsApart, ThreeAbove
         DEF Stronger, Numbers, Alike, D!If, D!Unread
  <2>4. p4(a) \in Int /\ p4(b) \in Int /\ p4(a) <= p4(b)
      BY <1>0, NoneIsApart, TwoAbove
         DEF Stronger, Numbers, Alike, D!If, D!Unread
  <2>5. p5(a) \in Int /\ p5(b) \in Int /\ p5(a) <= p5(b)
      BY <1>0, NoneIsApart, TwoBetween
         DEF Stronger, Numbers, Alike, D!If, D!Unread
  <2>6. D!BasePoints(a) = p1(a) + p2(a) + p3(a) + p4(a) + p5(a)
      BY <1>15 DEF D!BasePoints, D!ChartPoints
  <2>7. D!BasePoints(b) = p1(b) + p2(b) + p3(b) + p4(b) + p5(b)
      BY <1>15 DEF D!BasePoints, D!ChartPoints, Alike, Stronger
  <2>. HIDE DEF p1, p2, p3, p4, p5
  <2>. QED
      BY <2>1, <2>2, <2>3, <2>4, <2>5, <2>6, <2>7
<1>16. CASE a.s = "S16"
    BY <1>16 DEF D!BasePoints, Stronger, Alike
<1>. QED
    BY <1>1, <1>2, <1>3, <1>4, <1>5, <1>6, <1>7, <1>8, <1>9, <1>10, <1>11, <1>12, <1>13, <1>14, <1>15,
       <1>16 DEF Stronger, Numbers, D!Strategies, D!DayStrategies, D!SwingStrategies

LEMMA StrongerScoresMore ==
    ASSUME NEW a, NEW b, Stronger(a, b)
    PROVE  D!RuleScore(a) <= D!RuleScore(b)
<1>. DEFINE regime == D!Regime(a.s, a.ctx)
            rest(in) == D!ZoneBonus(in) + D!AtLeast(in.cond, <<<<4, 10>>, <<3, 5>>>>)
                        + D!TimeBonus(in.s, in.minute) + D!RegimeBonus(in.s, regime) + D!TossBonus(in)
                        - D!RiskPenalty(in, regime)
<1>1. rest(a) \in Int /\ rest(b) \in Int /\ rest(a) = rest(b)
  <2>1. rest(a) \in Int /\ rest(b) \in Int
      BY BonusesCount
  <2>2. D!ZoneBonus(a) = D!ZoneBonus(b)
      BY DEF D!ZoneBonus, Stronger, Alike
  <2>3. D!TossBonus(a) = D!TossBonus(b)
      BY DEF D!TossBonus, Stronger, Alike
  <2>4. D!RiskPenalty(a, regime) = D!RiskPenalty(b, regime)
      BY DEF D!RiskPenalty, D!Flu, Stronger, Alike
  <2>5. a.s = b.s /\ a.minute = b.minute /\ a.cond = b.cond
      BY DEF Stronger, Alike
  <2>. QED
      BY <2>1, <2>2, <2>3, <2>4, <2>5
<1>2. D!BasePoints(a) \in Int /\ D!BasePoints(b) \in Int /\ D!BasePoints(a) <= D!BasePoints(b)
    BY StrongerBasePoints, BasePointsCount DEF Stronger, Numbers
<1>3. D!LinearPoints(a) \in Int /\ D!LinearPoints(a) = D!LinearPoints(b)
  <2>1. D!LinearPoints(a) \in Int
      BY LinearPointsCount DEF Stronger, Numbers
  <2>2. D!LinearPoints(a) = D!LinearPoints(b)
      BY DEF D!LinearPoints, Stronger, Alike
  <2>. QED
      BY <2>1, <2>2
<1>4. a.s = b.s /\ a.ctx = b.ctx
    BY DEF Stronger, Alike
<1>. QED
    BY <1>1, <1>2, <1>3, <1>4, MorePointsScoreMore

\* Of a rise beyond ten percent the second reading has more.
Hotter(a, b) ==
    /\ Numbers(a) /\ Numbers(b) /\ Alike(a, b) /\ 1000 <= a.flu /\ a.flu <= b.flu
    /\ a.cntr = b.cntr /\ a.hoga = b.hoga /\ a.vol = b.vol

LEMMA HotterBasePoints ==
    ASSUME NEW a, NEW b, Hotter(a, b)
    PROVE  D!BasePoints(b) <= D!BasePoints(a)
<1>0. /\ D!Strength(a) = D!Strength(b) /\ D!Bid(a) = D!Bid(b)
      /\ D!Flu(a) \in Int /\ D!Flu(b) \in Int /\ 1000 <= D!Flu(a) /\ D!Flu(a) <= D!Flu(b)
    BY DEF Hotter, Alike, Numbers, D!Strength, D!Bid, D!Flu
<1>00. D!BasePoints(a) \in Int
    BY BasePointsCount DEF Hotter, Numbers
<1>1. CASE a.s = "S1"
  <2>1. D!BasePoints(a) = D!BasePoints(b)
      BY <1>0, <1>1 DEF Hotter, Alike, D!BasePoints, D!EarlyPoints, D!Unread
  <2>. QED
      BY <1>00, <2>1
<1>2. CASE a.s = "S2"
  <2>1. D!BasePoints(a) = D!BasePoints(b)
      BY <1>0, <1>2 DEF Hotter, Alike, D!BasePoints, D!EarlyPoints, D!Unread
  <2>. QED
      BY <1>00, <2>1
<1>3. CASE a.s = "S3"
  <2>1. D!BasePoints(a) = D!BasePoints(b)
      BY <1>0, <1>3 DEF Hotter, Alike, D!BasePoints, D!EarlyPoints, D!Unread
  <2>. QED
      BY <1>00, <2>1
<1>4. CASE a.s = "S4"
  <2>1. D!BasePoints(a) = D!BasePoints(b)
      BY <1>0, <1>4 DEF Hotter, Alike, D!BasePoints, D!EarlyPoints, D!Unread
  <2>. QED
      BY <1>00, <2>1
<1>5. CASE a.s = "S5"
  <2>1. D!BasePoints(a) = D!BasePoints(b)
      BY <1>0, <1>5 DEF Hotter, Alike, D!BasePoints, D!EarlyPoints, D!Unread
  <2>. QED
      BY <1>00, <2>1
<1>6. CASE a.s = "S6"
  <2>1. D!BasePoints(a) = D!BasePoints(b)
      BY <1>0, <1>6 DEF Hotter, Alike, D!BasePoints, D!EarlyPoints, D!Unread
  <2>. QED
      BY <1>00, <2>1
<1>7. CASE a.s = "S7"
  <2>1. D!BasePoints(a) = D!BasePoints(b)
      BY <1>0, <1>7 DEF Hotter, Alike, D!BasePoints, D!BreakoutPoints, D!Unread
  <2>. QED
      BY <1>00, <2>1
<1>8. CASE a.s = "S10"
  <2>. DEFINE p1(in) == D!AtLeast(IF in.surge # 0 THEN in.surge ELSE D!Max({0, in.vol - 100}),
                                  <<<<300, 30>>, <<200, 20>>, <<100, 10>>>>)
              p2(in) == D!Between(D!Flu(in), <<<<200, 800, 20>>, <<1, 1500, 10>>>>)
              p3(in) == D!If(D!Flu(in) > 1500, 10)
              p4(in) == D!If((IF in.surge # 0 THEN in.surge ELSE D!Max({0, in.vol - 100})) >= 100
                               /\ D!Strength(in) > 100, 12)
              p5(in) == D!Above(D!Strength(in), <<<<130, 30>>, <<110, 20>>, <<90, 12>>, <<70, 6>>>>)
              p6(in) == D!Above(in.sigBid, <<<<150, 10>>, <<120, 5>>>>)
  <2>1. p1(a) \in Int /\ p1(b) \in Int /\ p1(a) >= p1(b)
      BY <1>0, NoneIsApart, ThreeAtLeast
         DEF Hotter, Numbers, Alike, D!If, D!Unread
  <2>2. p2(a) \in Int /\ p2(b) \in Int /\ p2(a) >= p2(b)
      BY <1>0, NoneIsApart, TwoBetween
         DEF Hotter, Numbers, Alike, D!If, D!Unread
  <2>3. p3(a) \in Int /\ p3(b) \in Int /\ p3(a) <= p3(b)
      BY <1>0, NoneIsApart
         DEF Hotter, Numbers, Alike, D!If, D!Unread
  <2>4. p4(a) \in Int /\ p4(b) \in Int /\ p4(a) >= p4(b)
      BY <1>0, NoneIsApart
         DEF Hotter, Numbers, Alike, D!If, D!Unread
  <2>5. p5(a) \in Int /\ p5(b) \in Int /\ p5(a) >= p5(b)
      BY <1>0, NoneIsApart, FourAbove
         DEF Hotter, Numbers, Alike, D!If, D!Unread
  <2>6. p6(a) \in Int /\ p6(b) \in Int /\ p6(a) >= p6(b)
      BY <1>0, NoneIsApart, TwoAbove
         DEF Hotter, Numbers, Alike, D!If, D!Unread
  <2>7. D!BasePoints(a) = p1(a) + p2(a) - p3(a) + p4(a) + p5(a) + p6(a)
      BY <1>8 DEF D!BasePoints, D!BreakoutPoints
  <2>8. D!BasePoints(b) = p1(b) + p2(b) - p3(b) + p4(b) + p5(b) + p6(b)
      BY <1>8 DEF D!BasePoints, D!BreakoutPoints, Alike, Hotter
  <2>. HIDE DEF p1, p2, p3, p4, p5, p6
  <2>. QED
      BY <2>1, <2>2, <2>3, <2>4, <2>5, <2>6, <2>7, <2>8
<1>9. CASE a.s = "S11"
  <2>. DEFINE p1(in) == D!AtLeast(in.days, <<<<3, 30>>, <<2, 20>>>>)
              p2(in) == (IF D!Flu(in) > 0 THEN 20 ELSE IF D!Flu(in) < -300 THEN -10 ELSE 0)
              p3(in) == D!Above(D!Strength(in), <<<<120, 30>>, <<100, 20>>>>)
  <2>1. p1(a) \in Int /\ p1(b) \in Int /\ p1(a) >= p1(b)
      BY <1>0, NoneIsApart, TwoAtLeast
         DEF Hotter, Numbers, Alike, D!If, D!Unread
  <2>2. p2(a) \in Int /\ p2(b) \in Int /\ p2(a) >= p2(b)
      BY <1>0, NoneIsApart
         DEF Hotter, Numbers, Alike, D!If, D!Unread
  <2>3. p3(a) \in Int /\ p3(b) \in Int /\ p3(a) >= p3(b)
      BY <1>0, NoneIsApart, TwoAbove
         DEF Hotter, Numbers, Alike, D!If, D!Unread
  <2>4. D!BasePoints(a) = p1(a) + p2(a) + p3(a)
      BY <1>9 DEF D!BasePoints, D!BreakoutPoints
  <2>5. D!BasePoints(b) = p1(b) + p2(b) + p3(b)
      BY <1>9 DEF D!BasePoints, D!BreakoutPoints, Alike, Hotter
  <2>. HIDE DEF p1, p2, p3
  <2>. QED
      BY <2>1, <2>2, <2>3, <2>4, <2>5
<1>10. CASE a.s = "S12"
  <2>. DEFINE p1(in) == D!Between(D!Flu(in), <<<<400, 1000, 30>>, <<1001, 1500, 15>>>>)
              p2(in) == D!If(D!Flu(in) > 1500, 10)
              p3(in) == D!AtLeast(D!Strength(in), <<<<130, 35>>, <<110, 25>>, <<100, 10>>>>)
              p4(in) == D!Above(IF in.local # None THEN in.local ELSE in.hoga, <<<<150, 20>>, <<120, 10>>>>)
  <2>1. p1(a) \in Int /\ p1(b) \in Int /\ p1(a) >= p1(b)
      BY <1>0, NoneIsApart, TwoBetween
         DEF Hotter, Numbers, Alike, D!If, D!Unread
  <2>2. p2(a) \in Int /\ p2(b) \in Int /\ p2(a) <= p2(b)
      BY <1>0, NoneIsApart
         DEF Hotter, Numbers, Alike, D!If, D!Unread
  <2>3. p3(a) \in Int /\ p3(b) \in Int /\ p3(a) >= p3(b)
      BY <1>0, NoneIsApart, ThreeAtLeast
         DEF Hotter, Numbers, Alike, D!If, D!Unread
  <2>4. p4(a) \in Int /\ p4(b) \in Int /\ p4(a) >= p4(b)
      BY <1>0, NoneIsApart, TwoAbove
         DEF Hotter, Numbers, Alike, D!If, D!Unread
  <2>5. D!BasePoints(a) = p1(a) - p2(a) + p3(a) + p4(a)
      BY <1>10 DEF D!BasePoints, D!BreakoutPoints
  <2>6. D!BasePoints(b) = p1(b) - p2(b) + p3(b) + p4(b)
      BY <1>10 DEF D!BasePoints, D!BreakoutPoints, Alike, Hotter
  <2>. HIDE DEF p1, p2, p3, p4
  <2>. QED
      BY <2>1, <2>2, <2>3, <2>4, <2>5, <2>6
<1>11. CASE a.s = "S8"
  <2>. DEFINE p1(in) == D!Between(D!Flu(in), <<<<100, 500, 25>>, <<501, 1000, 15>>>>)
              p2(in) == D!AtLeast(in.vol, <<<<300, 20>>, <<150, 12>>, <<100, 5>>>>)
              p3(in) == D!Above(D!Strength(in), <<<<130, 30>>, <<110, 20>>, <<100, 10>>>>)
              p4(in) == D!Above(in.hoga, <<<<150, 15>>, <<120, 8>>>>)
              p5(in) == D!Above(in.rsi, <<<<55, 10>>, <<50, 5>>>>)
              p6(in) == (IF in.flag THEN 15 ELSE D!Between(D!Abs(in.gap), <<<<0, 200, 10>>, <<0, 500, 5>>>>))
              p7(in) == D!If(in.second, 8)
  <2>1. p1(a) \in Int /\ p1(b) \in Int /\ p1(a) >= p1(b)
      BY <1>0, NoneIsApart, TwoBetween
         DEF Hotter, Numbers, Alike, D!If, D!Unread
  <2>2. p2(a) \in Int /\ p2(b) \in Int /\ p2(a) >= p2(b)
      BY <1>0, NoneIsApart, ThreeAtLeast
         DEF Hotter, Numbers, Alike, D!If, D!Unread
  <2>3. p3(a) \in Int /\ p3(b) \in Int /\ p3(a) >= p3(b)
      BY <1>0, NoneIsApart, ThreeAbove
         DEF Hotter, Numbers, Alike, D!If, D!Unread
  <2>4. p4(a) \in Int /\ p4(b) \in Int /\ p4(a) >= p4(b)
      BY <1>0, NoneIsApart, TwoAbove
         DEF Hotter, Numbers, Alike, D!If, D!Unread
  <2>5. p5(a) \in Int /\ p5(b) \in Int /\ p5(a) >= p5(b)
      BY <1>0, NoneIsApart, TwoAbove
         DEF Hotter, Numbers, Alike, D!If, D!Unread
  <2>6. p6(a) \in Int /\ p6(b) \in Int /\ p6(a) >= p6(b)
      BY <1>0, NoneIsApart, TwoBetween
         DEF Hotter, Numbers, Alike, D!If, D!Unread
  <2>7. p7(a) \in Int /\ p7(b) \in Int /\ p7(a) >= p7(b)
      BY <1>0, NoneIsApart
         DEF Hotter, Numbers, Alike, D!If, D!Unread
  <2>8. D!BasePoints(a) = p1(a) + p2(a) + p3(a) + p4(a) + p5(a) + p6(a) + p7(a)
      BY <1>11 DEF D!BasePoints, D!ChartPoints
  <2>9. D!BasePoints(b) = p1(b) + p2(b) + p3(b) + p4(b) + p5(b) + p6(b) + p7(b)
      BY <1>11 DEF D!BasePoints, D!ChartPoints, Alike, Hotter
  <2>. HIDE DEF p1, p2, p3, p4, p5, p6, p7
  <2>. QED
      BY <2>1, <2>2, <2>3, <2>4, <2>5, <2>6, <2>7, <2>8, <2>9
<1>12. CASE a.s = "S9"
  <2>. DEFINE p1(in) == D!Between(D!Flu(in), <<<<50, 300, 30>>, <<301, 600, 20>>, <<601, 1000, 10>>>>)
              p2(in) == (IF D!Unread(in) THEN 10
                         ELSE D!Above(D!Strength(in), <<<<130, 35>>, <<110, 25>>, <<100, 10>>>>))
              p3(in) == D!Above(in.hoga, <<<<150, 20>>, <<120, 10>>>>)
              p4(in) == D!Between(in.rsi, <<<<40, 52, 15>>, <<53, 62, 8>>, <<30, 39, 3>>>>)
              p5(in) == D!Between(in.gap, <<<<-100, 200, 15>>, <<-400, 400, 8>>>>)
              p6(in) == D!If(in.flag, 10)
  <2>1. p1(a) \in Int /\ p1(b) \in Int /\ p1(a) >= p1(b)
      BY <1>0, NoneIsApart, ThreeBetween
         DEF Hotter, Numbers, Alike, D!If, D!Unread
  <2>2. p2(a) \in Int /\ p2(b) \in Int /\ p2(a) >= p2(b)
      BY <1>0, NoneIsApart, ThreeAbove
         DEF Hotter, Numbers, Alike, D!If, D!Unread
  <2>3. p3(a) \in Int /\ p3(b) \in Int /\ p3(a) >= p3(b)
      BY <1>0, NoneIsApart, TwoAbove
         DEF Hotter, Numbers, Alike, D!If, D!Unread
  <2>4. p4(a) \in Int /\ p4(b) \in Int /\ p4(a) >= p4(b)
      BY <1>0, NoneIsApart, ThreeBetween
         DEF Hotter, Numbers, Alike, D!If, D!Unread
  <2>5. p5(a) \in Int /\ p5(b) \in Int /\ p5(a) >= p5(b)
      BY <1>0, NoneIsApart, TwoBetween
         DEF Hotter, Numbers, Alike, D!If, D!Unread
  <2>6. p6(a) \in Int /\ p6(b) \in Int /\ p6(a) >= p6(b)
      BY <1>0, NoneIsApart
         DEF Hotter, Numbers, Alike, D!If, D!Unread
  <2>7. D!BasePoints(a) = p1(a) + p2(a) + p3(a) + p4(a) + p5(a) + p6(a)
      BY <1>12 DEF D!BasePoints, D!ChartPoints
  <2>8. D!BasePoints(b) = p1(b) + p2(b) + p3(b) + p4(b) + p5(b) + p6(b)
      BY <1>12 DEF D!BasePoints, D!ChartPoints, Alike, Hotter
  <2>. HIDE DEF p1, p2, p3, p4, p5, p6
  <2>. QED
      BY <2>1, <2>2, <2>3, <2>4, <2>5, <2>6, <2>7, <2>8
<1>13. CASE a.s = "S13"
  <2>. DEFINE p1(in) == D!Between(D!Flu(in), <<<<300, 800, 30>>, <<801, 1500, 20>>>>)
              p2(in) == D!Above(D!Strength(in), <<<<150, 35>>, <<130, 25>>, <<110, 10>>>>)
              p3(in) == D!Above(in.hoga, <<<<200, 25>>, <<150, 15>>, <<120, 5>>>>)
              p4(in) == D!Above(in.rsi, <<<<60, 10>>, <<50, 5>>>>)
              p5(in) == D!AtLeast(in.vol, <<<<300, 18>>, <<200, 12>>, <<130, 6>>>>)
              p6(in) == D!If(in.flag, 10)
              p7(in) == D!If(in.second, 8)
  <2>1. p1(a) \in Int /\ p1(b) \in Int /\ p1(a) >= p1(b)
      BY <1>0, NoneIsApart, TwoBetween
         DEF Hotter, Numbers, Alike, D!If, D!Unread
  <2>2. p2(a) \in Int /\ p2(b) \in Int /\ p2(a) >= p2(b)
      BY <1>0, NoneIsApart, ThreeAbove
         DEF Hotter, Numbers, Alike, D!If, D!Unread
  <2>3. p3(a) \in Int /\ p3(b) \in Int /\ p3(a) >= p3(b)
      BY <1>0, NoneIsApart, ThreeAbove
         DEF Hotter, Numbers, Alike, D!If, D!Unread
  <2>4. p4(a) \in Int /\ p4(b) \in Int /\ p4(a) >= p4(b)
      BY <1>0, NoneIsApart, TwoAbove
         DEF Hotter, Numbers, Alike, D!If, D!Unread
  <2>5. p5(a) \in Int /\ p5(b) \in Int /\ p5(a) >= p5(b)
      BY <1>0, NoneIsApart, ThreeAtLeast
         DEF Hotter, Numbers, Alike, D!If, D!Unread
  <2>6. p6(a) \in Int /\ p6(b) \in Int /\ p6(a) >= p6(b)
      BY <1>0, NoneIsApart
         DEF Hotter, Numbers, Alike, D!If, D!Unread
  <2>7. p7(a) \in Int /\ p7(b) \in Int /\ p7(a) >= p7(b)
      BY <1>0, NoneIsApart
         DEF Hotter, Numbers, Alike, D!If, D!Unread
  <2>8. D!BasePoints(a) = p1(a) + p2(a) + p3(a) + p4(a) + p5(a) + p6(a) + p7(a)
      BY <1>13 DEF D!BasePoints, D!ChartPoints
  <2>9. D!BasePoints(b) = p1(b) + p2(b) + p3(b) + p4(b) + p5(b) + p6(b) + p7(b)
      BY <1>13 DEF D!BasePoints, D!ChartPoints, Alike, Hotter
  <2>. HIDE DEF p1, p2, p3, p4, p5, p6, p7
  <2>. QED
      BY <2>1, <2>2, <2>3, <2>4, <2>5, <2>6, <2>7, <2>8, <2>9
<1>14. CASE a.s = "S14"
  <2>1. D!BasePoints(a) = D!BasePoints(b)
      BY <1>0, <1>14 DEF Hotter, Alike, D!BasePoints, D!ChartPoints, D!Unread
  <2>. QED
      BY <1>00, <2>1
<1>15. CASE a.s = "S15"
  <2>. DEFINE p1(in) == D!Between(in.rsi, <<<<50, 70, 35>>, <<71, 75, 25>>, <<45, 49, 10>>>>)
              p2(in) == D!AtLeast(in.vol, <<<<300, 25>>, <<200, 18>>, <<150, 10>>>>)
              p3(in) == D!Above(D!Strength(in), <<<<130, 25>>, <<110, 18>>, <<100, 8>>>>)
              p4(in) == D!Above(in.hoga, <<<<150, 15>>, <<120, 8>>>>)
              p5(in) == D!Between(D!Flu(in), <<<<100, 500, 5>>, <<501, 800, 3>>>>)
  <2>1. p1(a) \in Int /\ p1(b) \in Int /\ p1(a) >= p1(b)
      BY <1>0, NoneIsApart, ThreeBetween
         DEF Hotter, Numbers, Alike, D!If, D!Unread
  <2>2. p2(a) \in Int /\ p2(b) \in Int /\ p2(a) >= p2(b)
      BY <1>0, NoneIsApart, ThreeAtLeast
         DEF Hotter, Numbers, Alike, D!If, D!Unread
  <2>3. p3(a) \in Int /\ p3(b) \in Int /\ p3(a) >= p3(b)
      BY <1>0, NoneIsApart, ThreeAbove
         DEF Hotter, Numbers, Alike, D!If, D!Unread
  <2>4. p4(a) \in Int /\ p4(b) \in Int /\ p4(a) >= p4(b)
      BY <1>0, NoneIsApart, TwoAbove
         DEF Hotter, Numbers, Alike, D!If, D!Unread
  <2>5. p5(a) \in Int /\ p5(b) \in Int /\ p5(a) >= p5(b)
      BY <1>0, NoneIsApart, TwoBetween
         DEF Hotter, Numbers, Alike, D!If, D!Unread
  <2>6. D!BasePoints(a) = p1(a) + p2(a) + p3(a) + p4(a) + p5(a)
      BY <1>15 DEF D!BasePoints, D!ChartPoints
  <2>7. D!BasePoints(b) = p1(b) + p2(b) + p3(b) + p4(b) + p5(b)
      BY <1>15 DEF D!BasePoints, D!ChartPoints, Alike, Hotter
  <2>. HIDE DEF p1, p2, p3, p4, p5
  <2>. QED
      BY <2>1, <2>2, <2>3, <2>4, <2>5, <2>6, <2>7
<1>16. CASE a.s = "S16"
    BY <1>16 DEF D!BasePoints, Hotter, Alike
<1>. QED
    BY <1>1, <1>2, <1>3, <1>4, <1>5, <1>6, <1>7, <1>8, <1>9, <1>10, <1>11, <1>12, <1>13, <1>14, <1>15,
       <1>16 DEF Hotter, Numbers, D!Strategies, D!DayStrategies, D!SwingStrategies

LEMMA HotterScoresLess ==
    ASSUME NEW a, NEW b, Hotter(a, b)
    PROVE  D!RuleScore(b) <= D!RuleScore(a)
<1>. DEFINE regime == D!Regime(b.s, b.ctx)
            rest(in) == D!ZoneBonus(in) + D!AtLeast(in.cond, <<<<4, 10>>, <<3, 5>>>>)
                        + D!TimeBonus(in.s, in.minute) + D!RegimeBonus(in.s, regime) + D!TossBonus(in)
                        - D!RiskPenalty(in, regime)
<1>1. rest(a) \in Int /\ rest(b) \in Int /\ rest(b) <= rest(a)
  <2>1. rest(a) \in Int /\ rest(b) \in Int
      BY BonusesCount
  <2>2. D!ZoneBonus(a) = D!ZoneBonus(b)
      BY DEF D!ZoneBonus, Hotter, Alike
  <2>3. D!TossBonus(a) = D!TossBonus(b)
      BY DEF D!TossBonus, Hotter, Alike
  <2>4. D!RiskPenalty(a, regime) <= D!RiskPenalty(b, regime)
    <3>. DEFINE relief(x) == IF regime = "bull" THEN x \div 2 ELSE x
                p1(in) == relief(D!Above(D!Flu(in), <<<<1500, 20>>, <<1000, 10>>>>))
                p2(in) == D!If(D!Flu(in) < (IF regime = "bear" THEN -800 ELSE -500), 15)
                p3(in) == relief(D!If(D!Flu(in) > 2500, 20))
                p4(in) == D!If(0 < in.value /\ in.value < 1000, 10)
                p5(in) == D!If(in.sector >= (IF regime = "bull" THEN 4 ELSE 3), 15)
                p6(in) == IF in.cap = None THEN 0 ELSE IF in.cap < 100 THEN 25 ELSE D!If(in.cap < 500, 15)
    <3>0. D!Flu(a) \in Int /\ D!Flu(b) \in Int /\ 1000 <= D!Flu(a) /\ D!Flu(a) <= D!Flu(b)
        BY DEF Hotter, Alike, Numbers, D!Flu
    <3>1. p1(a) \in Int /\ p1(b) \in Int /\ p1(a) <= p1(b)
        BY <3>0, TwoAbove
    <3>2. p2(a) \in Int /\ p2(b) \in Int /\ p2(a) <= p2(b)
        BY <3>0 DEF D!If
    <3>3. p3(a) \in Int /\ p3(b) \in Int /\ p3(a) <= p3(b)
        BY <3>0 DEF D!If
    <3>4. /\ p4(a) \in Int /\ p4(b) = p4(a) /\ p5(a) \in Int /\ p5(b) = p5(a)
          /\ p6(a) \in Int /\ p6(b) = p6(a)
        BY DEF D!If, Hotter, Alike
    <3>5. /\ D!RiskPenalty(a, regime) = p1(a) + p2(a) + p3(a) + p4(a) + p5(a) + p6(a)
          /\ D!RiskPenalty(b, regime) = p1(b) + p2(b) + p3(b) + p4(b) + p5(b) + p6(b)
        BY DEF D!RiskPenalty
    <3>. HIDE DEF p1, p2, p3, p4, p5, p6
    <3>. QED
        BY <3>1, <3>2, <3>3, <3>4, <3>5
  <2>5. a.s = b.s /\ a.minute = b.minute /\ a.cond = b.cond
      BY DEF Hotter, Alike
  <2>6. D!RiskPenalty(a, regime) \in Int /\ D!RiskPenalty(b, regime) \in Int
      BY BonusesCount
  <2>7. /\ D!ZoneBonus(a) \in Int /\ D!AtLeast(a.cond, <<<<4, 10>>, <<3, 5>>>>) \in Int
        /\ D!TimeBonus(a.s, a.minute) \in Int /\ D!RegimeBonus(a.s, regime) \in Int /\ D!TossBonus(a) \in Int
      BY BonusesCount
  <2>. QED
      BY <2>1, <2>2, <2>3, <2>4, <2>5, <2>6, <2>7
<1>2. D!BasePoints(a) \in Int /\ D!BasePoints(b) \in Int /\ D!BasePoints(b) <= D!BasePoints(a)
    BY HotterBasePoints, BasePointsCount DEF Hotter, Numbers
<1>3. D!LinearPoints(b) \in Int /\ D!LinearPoints(b) = D!LinearPoints(a)
  <2>1. D!LinearPoints(b) \in Int
      BY LinearPointsCount DEF Hotter, Numbers
  <2>2. D!LinearPoints(a) = D!LinearPoints(b)
      BY DEF D!LinearPoints, Hotter, Alike
  <2>. QED
      BY <2>1, <2>2
<1>4. b.s = a.s /\ b.ctx = a.ctx
    BY DEF Hotter, Alike
<1>. QED
    BY <1>1, <1>2, <1>3, <1>4, MorePointsScoreMore


\* A reading whose field was given a value.
With(x, value) == [x.in EXCEPT ![x.field] = value]

\* The inputs the theorem is of.
Readings(x) ==
    /\ HasFields(x.in, ReadingFields) /\ Numbers(x.in)
    /\ x.field \in {"cntr", "hoga", "vol", "flu"} /\ x.low \in Nat /\ x.high \in Nat /\ x.low <= x.high
    /\ x.field = "cntr" => 0 < x.low
    /\ x.field = "flu" => 1000 <= x.low

LEMMA RaisedReadingAlike ==
    ASSUME NEW x, Readings(x), NEW v \in Nat
    PROVE  /\ Numbers(With(x, v)) /\ Alike(x.in, With(x, v))
           /\ With(x, v).cntr = IF x.field = "cntr" THEN v ELSE x.in.cntr
           /\ With(x, v).hoga = IF x.field = "hoga" THEN v ELSE x.in.hoga
           /\ With(x, v).vol = IF x.field = "vol" THEN v ELSE x.in.vol
           /\ With(x, v).flu = IF x.field = "flu" THEN v ELSE x.in.flu
<1>. DEFINE y == With(x, v)
<1>1. y = [f \in DOMAIN x.in |-> IF f = x.field THEN v ELSE x.in[f]]
    BY DEF With, Readings, HasFields
<1>2. \A f \in ReadingFields : y[f] = IF f = x.field THEN v ELSE x.in[f]
    BY <1>1 DEF Readings, HasFields
<1>. HIDE DEF y
<1>3. /\ y.cntr = IF x.field = "cntr" THEN v ELSE x.in.cntr
      /\ y.hoga = IF x.field = "hoga" THEN v ELSE x.in.hoga
      /\ y.vol = IF x.field = "vol" THEN v ELSE x.in.vol
      /\ y.flu = IF x.field = "flu" THEN v ELSE x.in.flu
    BY <1>2 DEF ReadingFields
<1>4. Alike(x.in, y)
    BY <1>2 DEF ReadingFields, Readings, Alike
<1>5. Numbers(y)
    BY <1>3, <1>4 DEF Readings, Numbers, Alike, Amounts
<1>. QED
    BY <1>3, <1>4, <1>5 DEF y

LEMMA RaisedReadingScores ==
    ASSUME NEW x, Readings(x)
    PROVE  /\ x.field # "flu" => D!RuleScore(With(x, x.low)) <= D!RuleScore(With(x, x.high))
           /\ x.field = "flu" => D!RuleScore(With(x, x.low)) >= D!RuleScore(With(x, x.high))
<1>. DEFINE a == With(x, x.low)
            b == With(x, x.high)
<1>1. /\ Numbers(a) /\ Alike(x.in, a) /\ Numbers(b) /\ Alike(x.in, b)
      /\ a.cntr = IF x.field = "cntr" THEN x.low ELSE x.in.cntr
      /\ a.hoga = IF x.field = "hoga" THEN x.low ELSE x.in.hoga
      /\ a.vol = IF x.field = "vol" THEN x.low ELSE x.in.vol
      /\ a.flu = IF x.field = "flu" THEN x.low ELSE x.in.flu
      /\ b.cntr = IF x.field = "cntr" THEN x.high ELSE x.in.cntr
      /\ b.hoga = IF x.field = "hoga" THEN x.high ELSE x.in.hoga
      /\ b.vol = IF x.field = "vol" THEN x.high ELSE x.in.vol
      /\ b.flu = IF x.field = "flu" THEN x.high ELSE x.in.flu
  <2>1. x.low \in Nat /\ x.high \in Nat
      BY DEF Readings
  <2>. QED
      BY <2>1, RaisedReadingAlike
<1>. HIDE DEF a, b
<1>2. Alike(a, b)
    BY <1>1 DEF Alike
<1>3. /\ x.low \in Nat /\ x.high \in Nat /\ x.low <= x.high /\ (x.field = "cntr" => 0 < x.low)
      /\ (x.field = "flu" => 1000 <= x.low) /\ x.in.vol \in Int
    BY DEF Readings, Numbers
<1>4. CASE x.field # "flu"
  <2>1. Stronger(a, b)
    <3>1. x.field \in {"cntr", "hoga", "vol"}
        BY <1>4 DEF Readings
    <3>2. CASE x.field = "cntr"
        BY <1>1, <1>2, <1>3, <3>2 DEF Stronger
    <3>3. CASE x.field = "hoga"
        BY <1>1, <1>2, <1>3, <3>3 DEF Stronger
    <3>4. CASE x.field = "vol"
        BY <1>1, <1>2, <1>3, <3>4 DEF Stronger
    <3>. QED
        BY <3>1, <3>2, <3>3, <3>4
  <2>. QED
      BY <1>4, <2>1, StrongerScoresMore DEF a, b
<1>5. CASE x.field = "flu"
  <2>1. Hotter(a, b)
      BY <1>1, <1>2, <1>3, <1>5 DEF Hotter
  <2>2. D!RuleScore(b) <= D!RuleScore(a) /\ D!RuleScore(a) \in Int /\ D!RuleScore(b) \in Int
      BY <1>1, <2>1, HotterScoresLess, RuleScoreCounts DEF Numbers
  <2>. QED
      BY <1>5, <2>2 DEF a, b
<1>. QED
    BY <1>4, <1>5

ScoreInv ==
    input.fn = "score" =>
        /\ input \in Inputs("score")
        /\ result # <<>> =>
               result = <<D!RuleScore(With(input, input.low)), D!RuleScore(With(input, input.high))>>

LEMMA ScoreIsInvariant == Spec => []ScoreInv
<1>1. Init => ScoreInv
    BY DEF Init, ScoreInv
<1>2. ScoreInv /\ [Next]_vars => ScoreInv'
  <2>. SUFFICES ASSUME ScoreInv, [Next]_vars PROVE ScoreInv'
      OBVIOUS
  <2>1. CASE UNCHANGED vars
      BY <2>1 DEF vars, ScoreInv
  <2>2. CASE Next
    <3>1. UNCHANGED input /\ (input.fn = "score" => EvaluateScore)
        BY <2>2, EvaluatesOnce
    <3>2. CASE input.fn = "score"
        BY <3>1, <3>2 DEF EvaluateScore, ScoreInv, With
    <3>. QED
        BY <3>1, <3>2 DEF ScoreInv
  <2>. QED
      BY <2>1, <2>2
<1>. QED
    BY <1>1, <1>2, PTL DEF Spec

\* scorer.py: of any reading of any strategy, more strength, bids or volume never lower the rule
\* score, nor does a rise beyond ten percent raise it.
THEOREM ScoreAlwaysMonotone == Spec => []ScoreIsMonotone
<1>1. ScoreInv => ScoreIsMonotone
  <2>. SUFFICES ASSUME ScoreInv, Of("score") PROVE ScoreIsMonotone
      BY DEF ScoreIsMonotone, StrongerNeverLowers, OverheatedNeverGains, Of
  <2>1. Readings(input)
      BY ReadingsAreRaised DEF ScoreInv, Of, Readings, Numbers, Amounts
  <2>2. result = <<D!RuleScore(With(input, input.low)), D!RuleScore(With(input, input.high))>>
      BY DEF ScoreInv, Of
  <2>3. /\ result[1] = D!RuleScore(With(input, input.low))
        /\ result[2] = D!RuleScore(With(input, input.high))
      BY <2>2
  <2>. QED
      BY <2>1, <2>3, RaisedReadingScores DEF ScoreIsMonotone, StrongerNeverLowers, OverheatedNeverGains
<1>. QED
    BY <1>1, ScoreIsInvariant, PTL
-----------------------------------------------------------------------------
(* A worse book, and a weaker gap.                                         *)

LEMMA DivFalls ==
    ASSUME NEW n \in Nat, NEW d \in Nat \ {0}, NEW e \in Nat \ {0}, d <= e
    PROVE  /\ n \div d \in Int /\ n \div e \in Int
           /\ n \div e <= n \div d
<1>. DEFINE p == n \div d
            q == n \div e
<1>1. p \in Nat /\ q \in Nat /\ n < p * d + d /\ q * e <= n
    OBVIOUS
<1>. HIDE DEF p, q
<1>2. q * d <= q * e
    BY <1>1
<1>3. ASSUME p < q PROVE FALSE
  <2>1. p + 1 <= q
      BY <1>1, <1>3
  <2>2. (p + 1) * d <= q * d
      BY <1>1, <2>1
  <2>3. q * d \in Int /\ q * e \in Int /\ (p + 1) * d = p * d + d /\ p * d \in Int
      BY <1>1
  <2>. QED
      BY <1>1, <1>2, <2>2, <2>3
<1>. QED
    BY <1>1, <1>3 DEF p, q

\* The first lows of three minutes.
LEMMA LeastLow ==
    ASSUME NEW bars, \A i \in 1..3 : bars[i].low \in Int, X!FirstLows(bars) # {}
    PROVE  /\ X!Min(X!FirstLows(bars)) \in Int
           /\ \A y \in X!FirstLows(bars) : X!Min(X!FirstLows(bars)) <= y
<1>. DEFINE lows == X!FirstLows(bars)
            a == bars[1].low
            b == bars[2].low
            c == bars[3].low
<1>1. a \in Int /\ b \in Int /\ c \in Int
    OBVIOUS
<1>2. \A x \in lows : x = a \/ x = b \/ x = c
    BY DEF X!FirstLows
<1>. HIDE DEF lows, a, b, c
<1>3. a \in lows \/ b \in lows \/ c \in lows
    BY <1>2 DEF lows
<1>4. \E m \in lows : m \in Int /\ \A y \in lows : m <= y
  <2>1. CASE a \in lows /\ (b \in lows => a <= b) /\ (c \in lows => a <= c)
      BY <1>1, <1>2, <2>1
  <2>2. CASE b \in lows /\ (a \in lows => b <= a) /\ (c \in lows => b <= c)
      BY <1>1, <1>2, <2>2
  <2>3. CASE c \in lows /\ (a \in lows => c <= a) /\ (b \in lows => c <= b)
      BY <1>1, <1>2, <2>3
  <2>. QED
      BY <1>1, <1>3, <2>1, <2>2, <2>3
<1>5. X!Min(lows) \in lows /\ \A y \in lows : X!Min(lows) <= y
    BY <1>4 DEF X!Min
<1>6. X!Min(lows) \in Int
    BY <1>1, <1>2, <1>5
<1>. QED
    BY <1>5, <1>6 DEF lows

LEMMA ClampClimbs ==
    ASSUME NEW x \in Int, NEW y \in Int, x <= y
    PROVE  /\ X!Clamped(x, 0, 100) \in 0..100 /\ X!Clamped(y, 0, 100) \in 0..100
           /\ X!Clamped(x, 0, 100) <= X!Clamped(y, 0, 100)
<1>1. \A z \in Int : X!Clamped(z, 0, 100) = IF z < 0 THEN 0 ELSE IF z > 100 THEN 100 ELSE z
  <2>. TAKE z \in Int
  <2>1. X!Min({100, z}) = IF z > 100 THEN 100 ELSE z
      BY LeastOf DEF X!Min
  <2>2. X!Max({0, X!Min({100, z})}) = IF X!Min({100, z}) > 0 THEN X!Min({100, z}) ELSE 0
      BY <2>1, GreatestOf DEF X!Max
  <2>. QED
      BY <2>1, <2>2 DEF X!Clamped
<1>. QED
    BY <1>1

LEMMA WallClimbs ==
    ASSUME NEW x \in Int, NEW y \in Int, x <= y, NEW n \in Int, 0 < n
    PROVE  /\ X!Clamped((40 * x) \div n - 20, 0, 100) \in Int
           /\ X!Clamped((40 * y) \div n - 20, 0, 100) \in Int
           /\ X!Clamped((40 * x) \div n - 20, 0, 100) <= X!Clamped((40 * y) \div n - 20, 0, 100)
<1>. DEFINE p == (40 * x) \div n
            q == (40 * y) \div n
<1>1. p \in Int /\ q \in Int /\ p <= q
  <2>1. 40 * x \in Int /\ 40 * y \in Int /\ 40 * x <= 40 * y
      OBVIOUS
  <2>. QED
      BY <2>1, DivClimbs
<1>. HIDE DEF p, q
<1>2. p - 20 \in Int /\ q - 20 \in Int /\ p - 20 <= q - 20
    BY <1>1
<1>. QED
    BY <1>2, ClampClimbs DEF p, q

LEMMA DepthFalls ==
    ASSUME NEW n \in Nat, NEW d \in Nat \ {0}, NEW e \in Nat \ {0}, d <= e
    PROVE  /\ X!Clamped((100 * n) \div d - 50, 0, 100) \in Int
           /\ X!Clamped((100 * n) \div e - 50, 0, 100) \in Int
           /\ X!Clamped((100 * n) \div e - 50, 0, 100) <= X!Clamped((100 * n) \div d - 50, 0, 100)
<1>. DEFINE p == (100 * n) \div d
            q == (100 * n) \div e
<1>1. p \in Int /\ q \in Int /\ q <= p
  <2>1. 100 * n \in Nat
      OBVIOUS
  <2>. QED
      BY <2>1, DivFalls
<1>. HIDE DEF p, q
<1>2. p - 50 \in Int /\ q - 50 \in Int /\ q - 50 <= p - 50
    BY <1>1
<1>. QED
    BY <1>2, ClampClimbs DEF p, q

\* What the grade of execution is made of is no better in a second reading of the same bars.
NoBetter(a, b) ==
    /\ X!SpreadOver(a.book, 3) => X!SpreadOver(b.book, 3)
    /\ X!SpreadOver(a.book, 5) => X!SpreadOver(b.book, 5)
    /\ X!SellWall(a.book) \in Int /\ X!SellWall(b.book) \in Int /\ X!SellWall(a.book) <= X!SellWall(b.book)
    /\ X!Depth(a.book) \in Int /\ X!Depth(b.book) \in Int /\ X!Depth(b.book) <= X!Depth(a.book)
    /\ a.bars = b.bars
    /\ X!FirstLowBreak(a.bars, a.price) => X!FirstLowBreak(b.bars, b.price)
    /\ X!FallenOver(a.bars, a.price, 3) => X!FallenOver(b.bars, b.price, 3)
    /\ X!FallenOver(a.bars, a.price, 5) => X!FallenOver(b.bars, b.price, 5)
    /\ X!Context(a).reject => X!Context(b).reject
    /\ X!Context(a).risk \in Int /\ X!Context(b).risk \in Int /\ X!Context(a).risk <= X!Context(b).risk

LEMMA NoBetterGrade ==
    ASSUME NEW a, NEW b, NoBetter(a, b)
    PROVE  GradeOrder[X!Grade(a)] <= GradeOrder[X!Grade(b)]
<1>. DEFINE p1(in) == X!Points(X!SpreadOver(in.book, 3), 12)
            p2(in) == X!Points(X!SpreadOver(in.book, 5), 18)
            p3(in) == X!Points(X!SellWall(in.book) > 65, 10)
            p4(in) == X!Points(X!SellWall(in.book) > 80, 15)
            p5(in) == X!Points(X!Depth(in.book) < 30, 10)
            p6(in) == X!Points(X!Depth(in.book) > 60, 5)
            p7(in) == X!Points(X!FirstLowBreak(in.bars, in.price), 30)
            p8(in) == X!Points(X!FallenOver(in.bars, in.price, 3), 8)
            p9(in) == X!Points(X!FallenOver(in.bars, in.price, 5), 12)
            p10(in) == X!Points(X!ShadowFrom(in.bars, 25), 7)
            p11(in) == X!Points(X!ShadowFrom(in.bars, 40), 8)
            of(in) == p1(in) + p2(in) + p3(in) + p4(in) + p5(in) - p6(in) + p7(in) + p8(in) + p9(in)
                      + p10(in) + p11(in) + X!Context(in).risk
<1>1. of(a) \in Int /\ of(b) \in Int /\ of(a) <= of(b)
  <2>1. p1(a) \in Int /\ p1(b) \in Int /\ p1(a) <= p1(b)
      BY DEF NoBetter, X!Points
  <2>2. p2(a) \in Int /\ p2(b) \in Int /\ p2(a) <= p2(b)
      BY DEF NoBetter, X!Points
  <2>3. p3(a) \in Int /\ p3(b) \in Int /\ p3(a) <= p3(b)
      BY DEF NoBetter, X!Points
  <2>4. p4(a) \in Int /\ p4(b) \in Int /\ p4(a) <= p4(b)
      BY DEF NoBetter, X!Points
  <2>5. p5(a) \in Int /\ p5(b) \in Int /\ p5(a) <= p5(b)
      BY DEF NoBetter, X!Points
  <2>6. p6(a) \in Int /\ p6(b) \in Int /\ p6(a) >= p6(b)
      BY DEF NoBetter, X!Points
  <2>7. p7(a) \in Int /\ p7(b) \in Int /\ p7(a) <= p7(b)
      BY DEF NoBetter, X!Points
  <2>8. p8(a) \in Int /\ p8(b) \in Int /\ p8(a) <= p8(b)
      BY DEF NoBetter, X!Points
  <2>9. p9(a) \in Int /\ p9(b) \in Int /\ p9(a) <= p9(b)
      BY DEF NoBetter, X!Points
  <2>10. p10(a) \in Int /\ p10(b) \in Int /\ p10(a) <= p10(b)
      BY DEF NoBetter, X!Points
  <2>11. p11(a) \in Int /\ p11(b) \in Int /\ p11(a) <= p11(b)
      BY DEF NoBetter, X!Points
  <2>12. X!Context(a).risk \in Int /\ X!Context(b).risk \in Int /\ X!Context(a).risk <= X!Context(b).risk
      BY DEF NoBetter
  <2>. HIDE DEF p1, p2, p3, p4, p5, p6, p7, p8, p9, p10, p11
  <2>. QED
      BY <2>1, <2>2, <2>3, <2>4, <2>5, <2>6, <2>7, <2>8, <2>9, <2>10, <2>11, <2>12
<1>2. X!ChaseRisk(a) = X!Clamped(of(a), 0, 100) /\ X!ChaseRisk(b) = X!Clamped(of(b), 0, 100)
    BY DEF X!ChaseRisk
<1>. HIDE DEF of
<1>3. X!ChaseRisk(a) \in 0..100 /\ X!ChaseRisk(b) \in 0..100 /\ X!ChaseRisk(a) <= X!ChaseRisk(b)
    BY <1>1, <1>2, ClampClimbs
<1>4. X!Rejected(a) => X!Rejected(b)
    BY DEF NoBetter, X!Rejected
<1>. QED
    BY <1>3, <1>4 DEF X!Grade, GradeOrder

\* What is evaluated of the quality of execution.
IsGraded(x) ==
    /\ HasFields(x, {"s", "price", "book", "bars", "gap", "extension"})
    /\ x.s \in {"S1", "S4", "S10", "S13"}
    /\ x.price \in Int /\ x.gap \in Int /\ x.extension \in Int
    /\ x.book = <<x.book[1]>> /\ HasFields(x.book[1], {"ask", "bid", "sell", "buy"})
    /\ x.book[1].ask \in Int /\ x.book[1].bid \in Int /\ x.book[1].sell \in Nat \ {0} /\ x.book[1].buy \in Nat
    /\ X!Traded(x.bars) \in Int /\ X!Paid(x.bars) \in Int
    /\ x.bars # <<>> => X!DayHigh(x.bars) \in Int
    /\ Len(x.bars) >= 3 => \A i \in 1..3 : x.bars[i].low \in Int

\* The book alone.
LEMMA WorseBook ==
    ASSUME NEW a, NEW b, a # <<>>, b # <<>>, a[1].bid = b[1].bid, a[1].buy = b[1].buy,
           a[1].ask \in Int, b[1].ask \in Int, a[1].bid \in Int, a[1].buy \in Nat,
           a[1].sell \in Nat \ {0}, b[1].sell \in Nat \ {0}, a[1].ask <= b[1].ask, a[1].sell <= b[1].sell
    PROVE  /\ X!SpreadOver(a, 3) => X!SpreadOver(b, 3)
           /\ X!SpreadOver(a, 5) => X!SpreadOver(b, 5)
           /\ X!SellWall(a) \in Int /\ X!SellWall(b) \in Int /\ X!SellWall(a) <= X!SellWall(b)
           /\ X!Depth(a) \in Int /\ X!Depth(b) \in Int /\ X!Depth(b) <= X!Depth(a)
<1>1. /\ X!SpreadOver(a, 3) => X!SpreadOver(b, 3)
      /\ X!SpreadOver(a, 5) => X!SpreadOver(b, 5)
  <2>. DEFINE p == a[1].ask
              q == b[1].ask
              bid == a[1].bid
  <2>1. p \in Int /\ q \in Int /\ bid \in Int /\ p <= q /\ a[1].ask = p /\ b[1].ask = q
        /\ a[1].bid = bid /\ b[1].bid = bid
    OBVIOUS
  <2>. HIDE DEF p, q, bid
  <2>. QED
    BY <2>1 DEF X!SpreadOver
<1>2. X!SellWall(a) \in Int /\ X!SellWall(b) \in Int /\ X!SellWall(a) <= X!SellWall(b)
  <2>1. CASE a[1].buy = 0
      BY <2>1 DEF X!SellWall
  <2>2. CASE a[1].buy > 0
    <3>1. /\ X!SellWall(a) = X!Clamped((40 * a[1].sell) \div a[1].buy - 20, 0, 100)
          /\ X!SellWall(b) = X!Clamped((40 * b[1].sell) \div a[1].buy - 20, 0, 100)
        BY <2>2 DEF X!SellWall
    <3>. DEFINE s == a[1].sell
                t == b[1].sell
                n == a[1].buy
    <3>2. s \in Int /\ t \in Int /\ s <= t /\ n \in Int /\ 0 < n
        BY <2>2
    <3>. HIDE DEF s, t, n
    <3>3. /\ X!Clamped((40 * s) \div n - 20, 0, 100) \in Int
          /\ X!Clamped((40 * t) \div n - 20, 0, 100) \in Int
          /\ X!Clamped((40 * s) \div n - 20, 0, 100) <= X!Clamped((40 * t) \div n - 20, 0, 100)
        BY <3>2, WallClimbs
    <3>. QED
        BY <3>1, <3>3 DEF s, t, n
  <2>. QED
      BY <2>1, <2>2
<1>3. X!Depth(a) \in Int /\ X!Depth(b) \in Int /\ X!Depth(b) <= X!Depth(a)
  <2>1. /\ X!Depth(a) = X!Clamped((100 * a[1].buy) \div a[1].sell - 50, 0, 100)
        /\ X!Depth(b) = X!Clamped((100 * a[1].buy) \div b[1].sell - 50, 0, 100)
      BY DEF X!Depth
  <2>. DEFINE n == a[1].buy
              s == a[1].sell
              t == b[1].sell
  <2>2. n \in Nat /\ s \in Nat \ {0} /\ t \in Nat \ {0} /\ s <= t
      OBVIOUS
  <2>. HIDE DEF s, t, n
  <2>3. /\ X!Clamped((100 * n) \div s - 50, 0, 100) \in Int
        /\ X!Clamped((100 * n) \div t - 50, 0, 100) \in Int
        /\ X!Clamped((100 * n) \div t - 50, 0, 100) <= X!Clamped((100 * n) \div s - 50, 0, 100)
      BY <2>2, DepthFalls
  <2>. QED
      BY <2>1, <2>3 DEF s, t, n
<1>. QED
    BY <1>1, <1>2, <1>3

\* A lower price of the same minute bars.
LEMMA LowerPrice ==
    ASSUME NEW a, IsGraded(a), NEW price \in Int, price <= a.price
    PROVE  /\ X!FirstLowBreak(a.bars, a.price) => X!FirstLowBreak(a.bars, price)
           /\ X!FallenOver(a.bars, a.price, 3) => X!FallenOver(a.bars, price, 3)
           /\ X!FallenOver(a.bars, a.price, 5) => X!FallenOver(a.bars, price, 5)
           /\ X!FallenBy(a.bars, a.price, 3) => X!FallenBy(a.bars, price, 3)
           /\ X!FallenBy(a.bars, a.price, 5) => X!FallenBy(a.bars, price, 5)
<1>1. ASSUME X!FirstLowBreak(a.bars, a.price)
      PROVE  X!FirstLowBreak(a.bars, price)
  <2>. DEFINE lows == X!FirstLows(a.bars)
              traded == X!Traded(a.bars)
  <2>1. X!Min(lows) \in Int
    <3>1. \A i \in 1..3 : a.bars[i].low \in Int
      <4>1. Len(a.bars) >= 3
          BY <1>1 DEF X!FirstLowBreak
      <4>. QED
          BY <4>1 DEF IsGraded
    <3>2. X!FirstLows(a.bars) # {}
        BY <1>1 DEF X!FirstLowBreak
    <3>. QED
        BY <3>1, <3>2, LeastLow
  <2>2. price < X!Min(lows)
      BY <1>1, <2>1 DEF X!FirstLowBreak, IsGraded
  <2>3. 3000 * price * traded < 998 * X!Paid(a.bars)
    <3>1. a.price \in Int /\ traded \in Int /\ traded > 0 /\ X!Paid(a.bars) \in Int
          /\ 3000 * a.price * traded < 998 * X!Paid(a.bars)
        BY <1>1 DEF X!FirstLowBreak, IsGraded
    <3>. HIDE DEF traded
    <3>2. (3000 * price) * traded <= (3000 * a.price) * traded
      <4>1. 3000 * price \in Int /\ 3000 * a.price \in Int /\ 3000 * price <= 3000 * a.price
          BY <3>1
      <4>. QED
          BY <3>1, <4>1
    <3>. QED
        BY <3>1, <3>2
  <2>. QED
      BY <1>1, <2>2, <2>3 DEF X!FirstLowBreak
<1>2. /\ X!FallenOver(a.bars, a.price, 3) => X!FallenOver(a.bars, price, 3)
      /\ X!FallenOver(a.bars, a.price, 5) => X!FallenOver(a.bars, price, 5)
      /\ X!FallenBy(a.bars, a.price, 3) => X!FallenBy(a.bars, price, 3)
      /\ X!FallenBy(a.bars, a.price, 5) => X!FallenBy(a.bars, price, 5)
  <2>. DEFINE high == X!DayHigh(a.bars)
              paid == a.price
  <2>1. price \in Int /\ paid \in Int /\ price <= paid /\ (a.bars # <<>> => high \in Int)
    BY DEF IsGraded
  <2>. HIDE DEF high, paid
  <2>2. \A pct \in {3, 5} : a.bars # <<>> =>
            /\ 100 * (high - paid) > pct * high => 100 * (high - price) > pct * high
            /\ 100 * (high - paid) >= pct * high => 100 * (high - price) >= pct * high
    BY <2>1
  <2>. QED
    BY <2>2 DEF high, paid, X!FallenOver, X!FallenBy
<1>. QED
    BY <1>1, <1>2

\* What a strategy adds of its own.
LEMMA WorseContext ==
    ASSUME NEW a, NEW b, IsGraded(a), a.s = b.s, a.bars = b.bars, b.price \in Int, b.price <= a.price,
           b.gap \in Int, a.gap <= b.gap, b.extension \in Int, a.extension <= b.extension
    PROVE  /\ X!Context(a).reject => X!Context(b).reject
           /\ X!Context(a).risk \in Int /\ X!Context(b).risk \in Int /\ X!Context(a).risk <= X!Context(b).risk
<1>0. a.gap \in Int /\ a.extension \in Int
    BY DEF IsGraded
<1>1. CASE a.s = "S1"
  <2>1. /\ X!Context(a).reject = (a.gap >= 1200)
        /\ X!Context(b).reject = (b.gap >= 1200)
      BY <1>1 DEF X!Context
  <2>2. /\ X!Context(a).risk = X!Points(a.gap >= 800, 10) + X!Points(a.gap >= 1200, 10)
        /\ X!Context(b).risk = X!Points(b.gap >= 800, 10) + X!Points(b.gap >= 1200, 10)
      BY <1>1 DEF X!Context
  <2>3. X!Context(a).reject => X!Context(b).reject
    <3>. DEFINE p == a.gap >= 1200
                q == b.gap >= 1200
    <3>1. p => q
        BY <1>0
    <3>2. X!Context(a).reject = p /\ X!Context(b).reject = q
        BY <2>1
    <3>. HIDE DEF p, q
    <3>. QED
        BY <3>1, <3>2
  <2>4. X!Context(a).risk \in Int /\ X!Context(b).risk \in Int /\ X!Context(a).risk <= X!Context(b).risk
      BY <1>0, <2>2 DEF X!Points
  <2>. QED
      BY <2>3, <2>4
<1>2. CASE a.s = "S4"
    BY <1>0, <1>2 DEF X!Context, X!Points
<1>3. CASE a.s = "S10"
  <2>1. X!FallenBy(a.bars, a.price, 3) => X!FallenBy(b.bars, b.price, 3)
      BY LowerPrice
  <2>2. X!FallenBy(a.bars, a.price, 5) => X!FallenBy(b.bars, b.price, 5)
      BY LowerPrice
  <2>. QED
      BY <1>0, <1>3, <2>1, <2>2 DEF X!Context, X!Points
<1>4. CASE a.s = "S13"
  <2>1. /\ X!Context(a).reject = (a.extension > 300)
        /\ X!Context(b).reject = (b.extension > 300)
      BY <1>4 DEF X!Context
  <2>2. /\ X!Context(a).risk = X!Points(a.extension > 300, 15)
        /\ X!Context(b).risk = X!Points(b.extension > 300, 15)
      BY <1>4 DEF X!Context
  <2>3. X!Context(a).reject => X!Context(b).reject
    <3>1. a.extension > 300 => b.extension > 300
        BY <1>0
    <3>. QED
        BY <2>1, <3>1, Zenon
  <2>4. X!Context(a).risk \in Int /\ X!Context(b).risk \in Int /\ X!Context(a).risk <= X!Context(b).risk
      BY <1>0, <2>2 DEF X!Points
  <2>. QED
      BY <2>3, <2>4
<1>. QED
    BY <1>1, <1>2, <1>3, <1>4 DEF IsGraded

\* A worse book or price, or what the strategy knows of it.
LEMMA WorseIsNoBetter ==
    ASSUME NEW a, IsGraded(a), NEW how \in {"ask", "sell", "price", "context"}, NEW by \in Nat
    PROVE  NoBetter(a, Worse(a, how, by))
<1>. DEFINE b == Worse(a, how, by)
<1>0. /\ HasFields(a, {"s", "price", "book", "bars", "gap", "extension"})
      /\ a.price \in Int /\ a.gap \in Int /\ a.extension \in Int
    BY DEF IsGraded
<1>1. /\ a.s = b.s /\ a.bars = b.bars /\ b.price \in Int /\ b.price <= a.price
      /\ b.gap \in Int /\ a.gap <= b.gap /\ b.extension \in Int /\ a.extension <= b.extension
    BY <1>0 DEF Worse, HasFields
<1>2. /\ b.book # <<>> /\ a.book[1].bid = b.book[1].bid /\ a.book[1].buy = b.book[1].buy
      /\ b.book[1].ask \in Int /\ b.book[1].sell \in Nat \ {0}
      /\ a.book[1].ask <= b.book[1].ask /\ a.book[1].sell <= b.book[1].sell
  <2>. DEFINE best == a.book[1]
              worse == CASE how = "ask" -> [best EXCEPT !.ask = @ + by]
                         [] how = "sell" -> [best EXCEPT !.sell = @ + by]
                         [] OTHER -> best
  <2>1. b.book = <<worse>>
    <3>1. a.book = <<best>>
        BY DEF IsGraded
    <3>. QED
        BY <1>0, <3>1 DEF Worse, HasFields
  <2>2. /\ HasFields(best, {"ask", "bid", "sell", "buy"})
        /\ best.ask \in Int /\ best.bid \in Int /\ best.sell \in Nat \ {0} /\ best.buy \in Nat
      BY DEF IsGraded
  <2>. HIDE DEF best, b
  <2>3. /\ best.bid = worse.bid /\ best.buy = worse.buy /\ worse.ask \in Int /\ worse.sell \in Nat \ {0}
        /\ best.ask <= worse.ask /\ best.sell <= worse.sell
      BY <2>2 DEF HasFields
  <2>. QED
      BY <2>1, <2>3 DEF best
<1>. HIDE DEF b
<1>3. a.book # <<>> /\ a.book[1].ask \in Int /\ a.book[1].bid \in Int /\ a.book[1].buy \in Nat
      /\ a.book[1].sell \in Nat \ {0} /\ a.price \in Int
    BY DEF IsGraded
<1>4. /\ X!SpreadOver(a.book, 3) => X!SpreadOver(b.book, 3)
      /\ X!SpreadOver(a.book, 5) => X!SpreadOver(b.book, 5)
      /\ X!SellWall(a.book) \in Int /\ X!SellWall(b.book) \in Int /\ X!SellWall(a.book) <= X!SellWall(b.book)
      /\ X!Depth(a.book) \in Int /\ X!Depth(b.book) \in Int /\ X!Depth(b.book) <= X!Depth(a.book)
    BY <1>2, <1>3, WorseBook
<1>5. /\ X!FirstLowBreak(a.bars, a.price) => X!FirstLowBreak(b.bars, b.price)
      /\ X!FallenOver(a.bars, a.price, 3) => X!FallenOver(b.bars, b.price, 3)
      /\ X!FallenOver(a.bars, a.price, 5) => X!FallenOver(b.bars, b.price, 5)
    BY <1>1, LowerPrice
<1>6. /\ X!Context(a).reject => X!Context(b).reject
      /\ X!Context(a).risk \in Int /\ X!Context(b).risk \in Int /\ X!Context(a).risk <= X!Context(b).risk
    BY <1>1, WorseContext
<1>. QED
    BY <1>1, <1>4, <1>5, <1>6 DEF NoBetter, b

-----------------------------------------------------------------------------
(* A weaker gap.                                                           *)

IsGap(x) ==
    /\ HasFields(x, {"gap", "strength", "bid", "rr", "early", "age", "decay", "extension", "grade", "vwap",
                     "firstLow"})
    /\ x.gap \in Int /\ x.strength \in Int /\ x.bid \in Int /\ x.rr \in Int /\ x.age \in Int
    /\ x.decay \in Int /\ x.extension \in Int
    /\ x.age # None => x.age \in Nat

\* What a gap is judged by is no stronger in a second one.
NoStronger(x, y) ==
    /\ y.gap = x.gap /\ y.early = x.early /\ (x.firstLow => y.firstLow)
    /\ y.strength \in Int /\ y.strength <= x.strength
    /\ X!OrZero(y.bid) \in Int /\ X!OrZero(x.bid) \in Int
    /\ X!OrZero(y.bid) < 100 \/ X!OrZero(y.bid) <= X!OrZero(x.bid)
    /\ x.rr \in Int /\ y.rr \in Int /\ (x.rr # None => y.rr # None /\ y.rr <= x.rr)
    /\ X!OrZero(x.rr) \in Int /\ X!OrZero(y.rr) \in Int /\ (x.rr = None => y.rr = None)
    /\ X!Stale(x.age) => X!Stale(y.age)
    /\ x.decay # None => y.decay # None /\ y.decay <= x.decay
    /\ x.decay \in Int /\ y.decay \in Int
    /\ y.extension \in Int /\ x.extension <= y.extension
    /\ x.grade = "REJECT" => y.grade = "REJECT"
    /\ x.vwap = "BELOW_VWAP" => y.vwap = "BELOW_VWAP"

LEMMA WeakerIsNoStronger ==
    ASSUME NEW x, IsGap(x), NEW by \in Nat,
           NEW how \in {"strength", "bid", "rr", "age", "ageless", "decay", "extension", "grade", "vwap"},
           \A f \in {"bid", "rr", "decay"} : x[f] # None => x[f] - by # None
    PROVE  NoStronger(x, WeakerGap(x, how, by))
<1>. DEFINE y == WeakerGap(x, how, by)
<1>1. /\ y.gap = x.gap /\ y.early = x.early /\ y.firstLow = x.firstLow
      /\ y.strength = x.strength \/ y.strength = x.strength - by
      /\ y.extension = x.extension \/ y.extension = x.extension + by
      /\ y.grade = x.grade \/ y.grade = "REJECT"
      /\ y.vwap = x.vwap \/ y.vwap = "BELOW_VWAP"
    BY DEF WeakerGap, IsGap, HasFields
<1>2. /\ y.bid = x.bid \/ y.bid = Less(x.bid, by)
      /\ y.rr = x.rr \/ y.rr = Less(x.rr, by)
      /\ y.age = x.age \/ y.age = None \/ y.age = Less(x.age, -by)
      /\ y.decay = x.decay \/ y.decay = Less(x.decay, by)
    BY DEF WeakerGap, IsGap, HasFields
<1>. HIDE DEF y
<1>3. X!Stale(x.age) => X!Stale(y.age)
    BY <1>2, NoneIsApart DEF Less, X!Stale, IsGap
<1>4. /\ X!OrZero(y.bid) \in Int /\ X!OrZero(x.bid) \in Int
      /\ X!OrZero(y.bid) < 100 \/ X!OrZero(y.bid) <= X!OrZero(x.bid)
    BY <1>2, NoneIsApart DEF Less, X!OrZero, IsGap
<1>5. /\ x.rr \in Int /\ y.rr \in Int /\ (x.rr # None => y.rr # None /\ y.rr <= x.rr)
      /\ X!OrZero(x.rr) \in Int /\ X!OrZero(y.rr) \in Int /\ (x.rr = None => y.rr = None)
    BY <1>2, NoneIsApart DEF Less, X!OrZero, IsGap
<1>6. /\ x.decay # None => y.decay # None /\ y.decay <= x.decay
      /\ x.decay \in Int /\ y.decay \in Int
    BY <1>2, NoneIsApart DEF Less, IsGap
<1>7. /\ y.strength \in Int /\ y.strength <= x.strength
      /\ y.extension \in Int /\ x.extension <= y.extension
    BY <1>1 DEF IsGap
<1>. QED
    BY <1>1, <1>3, <1>4, <1>5, <1>6, <1>7 DEF NoStronger, y

LEMMA NoStrongerNoBolder ==
    ASSUME NEW x, NEW y, IsGap(x), NoStronger(x, y)
    PROVE  /\ PolicyOrder[X!EntryPolicy(x)] <= PolicyOrder[X!EntryPolicy(y)]
           /\ ModeOrder[X!GapMode(x)] <= ModeOrder[X!GapMode(y)]
<1>1. X!GapUnbacked(x) => X!GapUnbacked(y)
    BY NoneIsApart DEF NoStronger, X!GapUnbacked, X!OrZero, IsGap
<1>2. X!Cancels(x) => X!Cancels(y)
    BY NoneIsApart DEF NoStronger, X!Cancels
<1>3. X!Holds(x) => X!Holds(y)
  <2>1. x.extension \in Int /\ x.strength \in Int /\ x.gap \in Int
      BY DEF IsGap
  <2>2. (x.early /\ ~(x.strength >= 160 /\ X!OrZero(x.bid) >= 150))
            => (y.early /\ ~(y.strength >= 160 /\ X!OrZero(y.bid) >= 150))
      BY <2>1 DEF NoStronger
  <2>3. /\ x.decay # None /\ x.decay <= -3000 => y.decay # None /\ y.decay <= -3000
        /\ x.rr # None /\ x.rr < 100 => y.rr # None /\ y.rr < 100
        /\ x.extension > (IF x.gap >= 800 THEN 100 ELSE 150)
               => y.extension > (IF y.gap >= 800 THEN 100 ELSE 150)
      BY <2>1 DEF NoStronger
  <2>. QED
      BY <1>1, <2>2, <2>3 DEF NoStronger, X!Holds
<1>4. /\ X!EntryPolicy(x) = "CANCEL" => X!EntryPolicy(y) = "CANCEL"
      /\ X!EntryPolicy(x) = "HOLD_RECHECK" => X!EntryPolicy(y) \in {"HOLD_RECHECK", "CANCEL"}
      /\ X!EntryPolicy(x) \in {"CANCEL", "HOLD_RECHECK", "ENTER_CANDIDATE"}
      /\ X!EntryPolicy(y) \in {"CANCEL", "HOLD_RECHECK", "ENTER_CANDIDATE"}
    BY <1>2, <1>3 DEF X!EntryPolicy
<1>5. PolicyOrder[X!EntryPolicy(x)] <= PolicyOrder[X!EntryPolicy(y)]
    BY <1>4 DEF PolicyOrder
<1>6. ModeOrder[X!GapMode(x)] <= ModeOrder[X!GapMode(y)]
    BY <1>4 DEF ModeOrder, X!GapMode, NoStronger
<1>. QED
    BY <1>5, <1>6

-----------------------------------------------------------------------------

WorseInv ==
    /\ input.fn = "quality" =>
           /\ input \in Inputs("quality")
           /\ result # <<>> =>
                  result = <<X!Assessed(input.in), X!Assessed(Worse(input.in, input.how, input.by))>>
    /\ input.fn = "gap" =>
           /\ input \in Inputs("gap")
           /\ result # <<>> =>
                  result = <<X!EntryPolicy(input.in), X!EntryPolicy(WeakerGap(input.in, input.how, input.by)),
                             X!GapMode(input.in), X!GapMode(WeakerGap(input.in, input.how, input.by))>>

\* execution_quality.py, strategy_1_gap_opening.py: however wide the spread, large the wall of sellers
\* or weak the gap, making it worse by any amount never gets a better grade, a bolder policy or a
\* bolder mode.
THEOREM WorseWasNeverBolder == Spec => []WorseNeverBolder
<1>1. Init => WorseInv
    BY DEF Init, WorseInv
<1>2. WorseInv /\ [Next]_vars => WorseInv'
  <2>. SUFFICES ASSUME WorseInv, [Next]_vars PROVE WorseInv'
      OBVIOUS
  <2>1. CASE UNCHANGED vars
      BY <2>1 DEF vars, WorseInv
  <2>2. CASE Next
    <3>1. UNCHANGED input
        BY <2>2, EvaluatesOnce
    <3>2. CASE input.fn = "quality"
        BY <2>2, <3>1, <3>2, EvaluatesOnce DEF EvaluateQuality, WorseInv
    <3>3. CASE input.fn = "gap"
        BY <2>2, <3>1, <3>3, EvaluatesOnce DEF EvaluateGap, WorseInv
    <3>4. CASE input.fn \notin {"quality", "gap"}
        BY <3>1, <3>4 DEF WorseInv
    <3>. QED
        BY <3>2, <3>3, <3>4
  <2>. QED
      BY <2>1, <2>2
<1>3. WorseInv => WorseNeverBolder
  <2>. SUFFICES ASSUME WorseInv PROVE WorseNeverBolder
      OBVIOUS
  <2>1. ASSUME Of("quality") PROVE WorseBookNeverBetter
    <3>. DEFINE worse == Worse(input.in, input.how, input.by)
    <3>1. input \in Inputs("quality") /\ result = <<X!Assessed(input.in), X!Assessed(worse)>>
        BY <2>1 DEF Of, WorseInv
    <3>2. IsGraded(input.in) /\ input.how \in {"ask", "sell", "price", "context"} /\ input.by \in Nat
        BY <3>1, QualitiesAreRead DEF IsGraded
    <3>. HIDE DEF worse
    <3>3. result[1].grade = X!Grade(input.in) /\ result[2].grade = X!Grade(worse)
        BY <3>1 DEF X!Assessed
    <3>4. GradeOrder[X!Grade(input.in)] <= GradeOrder[X!Grade(worse)]
        BY <3>2, WorseIsNoBetter, NoBetterGrade DEF worse
    <3>. QED
        BY <3>3, <3>4 DEF WorseBookNeverBetter
  <2>2. ASSUME Of("gap") PROVE WeakerGapNeverBolder
    <3>. DEFINE weaker == WeakerGap(input.in, input.how, input.by)
    <3>1. /\ input \in Inputs("gap")
          /\ result = <<X!EntryPolicy(input.in), X!EntryPolicy(weaker), X!GapMode(input.in), X!GapMode(weaker)>>
        BY <2>2 DEF Of, WorseInv
    <3>2. /\ IsGap(input.in) /\ input.by \in Nat
          /\ input.how \in {"strength", "bid", "rr", "age", "ageless", "decay", "extension", "grade", "vwap"}
          /\ \A f \in {"bid", "rr", "decay"} : input.in[f] # None => input.in[f] - input.by # None
        BY <3>1, GapsAreRead DEF IsGap
    <3>3. NoStronger(input.in, weaker)
        BY <3>2, WeakerIsNoStronger
    <3>. HIDE DEF weaker
    <3>4. /\ result[1] = X!EntryPolicy(input.in) /\ result[2] = X!EntryPolicy(weaker)
          /\ result[3] = X!GapMode(input.in) /\ result[4] = X!GapMode(weaker)
        BY <3>1
    <3>. QED
        BY <3>2, <3>3, <3>4, NoStrongerNoBolder DEF WeakerGapNeverBolder
  <2>. QED
      BY <2>1, <2>2 DEF WorseNeverBolder, WorseBookNeverBetter, WeakerGapNeverBolder
<1>. QED
    BY <1>1, <1>2, <1>3, PTL DEF Spec

-----------------------------------------------------------------------------
(* The windows of the chart patterns.                                      *)

LEMMA WindowMoves ==
    ASSUME NEW s \in Seq(Int), NEW x \in Int, NEW i \in Nat \ {0}, NEW j \in Nat, j <= Len(s)
    PROVE  SubSeq(<<x>> \o s, i + 1, j + 1) = SubSeq(s, i, j)
<1>. DEFINE later == <<x>> \o s
<1>1. later \in Seq(Int) /\ Len(later) = Len(s) + 1 /\ \A k \in 1..Len(s) : later[k + 1] = s[k]
    OBVIOUS
<1>. HIDE DEF later
<1>2. /\ SubSeq(later, i + 1, j + 1) \in Seq(Int)
      /\ Len(SubSeq(later, i + 1, j + 1)) = IF i + 1 <= j + 1 THEN (j + 1) - (i + 1) + 1 ELSE 0
      /\ \A k \in 1..((j + 1) - (i + 1) + 1) : SubSeq(later, i + 1, j + 1)[k] = later[(i + 1) + k - 1]
    BY <1>1, SubSeqProperties
<1>3. /\ SubSeq(s, i, j) \in Seq(Int)
      /\ Len(SubSeq(s, i, j)) = IF i <= j THEN j - i + 1 ELSE 0
      /\ \A k \in 1..(j - i + 1) : SubSeq(s, i, j)[k] = s[i + k - 1]
    BY SubSeqProperties
<1>4. \A k \in 1..Len(SubSeq(s, i, j)) : SubSeq(later, i + 1, j + 1)[k] = SubSeq(s, i, j)[k]
  <2>. TAKE k \in 1..Len(SubSeq(s, i, j))
  <2>1. k \in 1..(j - i + 1) /\ k \in 1..((j + 1) - (i + 1) + 1)
      BY <1>3
  <2>2. i + k - 1 \in 1..Len(s) /\ (i + 1) + k - 1 = (i + k - 1) + 1
      BY <2>1
  <2>3. later[(i + k - 1) + 1] = s[i + k - 1]
      BY <1>1, <2>2
  <2>4. SubSeq(later, i + 1, j + 1)[k] = later[(i + 1) + k - 1]
      BY <1>2, <2>1
  <2>5. SubSeq(s, i, j)[k] = s[i + k - 1]
      BY <1>3, <2>1
  <2>. QED
      BY <2>2, <2>3, <2>4, <2>5
<1>. QED
    BY <1>2, <1>3, <1>4, SeqEqual DEF later

LEMMA SumMoves ==
    ASSUME NEW s \in Seq(Int), NEW x \in Int, NEW i \in Nat \ {0}, NEW n \in Nat, i + n - 1 <= Len(s), 0 < n
    PROVE  C!Sum(<<x>> \o s, i + 1, n) = C!Sum(s, i, n)
<1>. DEFINE added(series) == C!SumFunction(series)
<1>1. /\ C!Sum(<<x>> \o s, i + 1, n) = added(SubSeq(<<x>> \o s, i + 1, (i + 1) + n - 1))
      /\ C!Sum(s, i, n) = added(SubSeq(s, i, i + n - 1))
    BY DEF C!Sum
<1>2. SubSeq(<<x>> \o s, i + 1, (i + 1) + n - 1) = SubSeq(s, i, i + n - 1)
  <2>1. i + n - 1 \in Nat /\ (i + 1) + n - 1 = (i + n - 1) + 1
      OBVIOUS
  <2>. QED
      BY <2>1, WindowMoves
<1>. HIDE DEF added
<1>. QED
    BY <1>1, <1>2

LEMMA CrossMoves ==
    ASSUME NEW s \in Seq(Int), NEW x \in Int, NEW i \in Nat \ {0}, i + 20 <= Len(s)
    PROVE  C!CrossAt(<<x>> \o s, i + 1) = C!CrossAt(s, i)
<1>1. ASSUME NEW n \in Nat \ {0}, n <= 20
      PROVE  /\ C!Sum(<<x>> \o s, i + 1, n) = C!Sum(s, i, n)
             /\ C!Sum(<<x>> \o s, (i + 1) + 1, n) = C!Sum(s, i + 1, n)
  <2>1. i \in Nat \ {0} /\ i + 1 \in Nat \ {0} /\ n \in Nat /\ 0 < n /\ Len(s) \in Nat
        /\ i + n - 1 <= Len(s) /\ (i + 1) + n - 1 <= Len(s)
    BY <1>1
  <2>2. C!Sum(<<x>> \o s, i + 1, n) = C!Sum(s, i, n)
    BY <2>1, SumMoves
  <2>3. C!Sum(<<x>> \o s, (i + 1) + 1, n) = C!Sum(s, i + 1, n)
    BY <2>1, SumMoves
  <2>. QED
    BY <2>2, <2>3
<1>2. /\ C!Sum(<<x>> \o s, i + 1, 5) = C!Sum(s, i, 5) /\ C!Sum(<<x>> \o s, i + 1, 20) = C!Sum(s, i, 20)
      /\ C!Sum(<<x>> \o s, (i + 1) + 1, 5) = C!Sum(s, i + 1, 5)
      /\ C!Sum(<<x>> \o s, (i + 1) + 1, 20) = C!Sum(s, i + 1, 20)
  <2>. 5 \in Nat \ {0} /\ 20 \in Nat \ {0} /\ 5 <= 20 /\ 20 <= 20
    OBVIOUS
  <2>. QED
    BY <1>1
<1>. QED
    BY <1>2 DEF C!CrossAt, C!AboveAt

LEMMA CrossIsRecent ==
    ASSUME NEW s \in Seq(Int), NEW x \in Int, NEW y \in Int, C!GoldenCross(s).today
    PROVE  /\ C!GoldenCross(<<x>> \o s).recent \/ C!Stretched(<<x>> \o s)
           /\ C!GoldenCross(<<y>> \o (<<x>> \o s)).recent \/ C!Stretched(<<y>> \o (<<x>> \o s))
<1>. DEFINE next == <<x>> \o s
            after == <<y>> \o next
<1>1. /\ next \in Seq(Int) /\ Len(next) = Len(s) + 1
      /\ after \in Seq(Int) /\ Len(after) = Len(s) + 2
    OBVIOUS
<1>2. Len(s) >= 25 /\ C!CrossAt(s, 1)
    BY DEF C!GoldenCross
<1>3. C!CrossAt(next, 1 + 1)
    BY <1>2, CrossMoves
<1>. HIDE DEF next
<1>4. C!CrossAt(after, 2 + 1)
  <2>1. 2 \in Nat \ {0} /\ 2 + 20 <= Len(next)
      BY <1>1, <1>2
  <2>2. C!CrossAt(<<y>> \o next, 2 + 1) = C!CrossAt(next, 2)
      BY <1>1, <2>1, CrossMoves
  <2>. QED
      BY <1>3, <2>2
<1>. HIDE DEF after
<1>5. C!RecentCross(next) /\ C!RecentCross(after)
    BY <1>3, <1>4 DEF C!RecentCross
<1>6. /\ C!GoldenCross(next).recent \/ C!Stretched(next)
      /\ C!GoldenCross(after).recent \/ C!Stretched(after)
  <2>1. ~(Len(next) < 25) /\ ~(Len(after) < 25)
      BY <1>1, <1>2
  <2>2. /\ C!GoldenCross(next).recent = (C!RecentCross(next) /\ ~C!Stretched(next))
        /\ C!GoldenCross(after).recent = (C!RecentCross(after) /\ ~C!Stretched(after))
      BY <2>1 DEF C!GoldenCross
  <2>. QED
      BY <1>5, <2>2, Zenon
<1>. QED
    BY <1>6 DEF next, after

\* Numbers of the bars of a window have a greatest one.
Grown(few) == few = {} \/ \E m \in few : \A y \in few : m >= y
LEMMA OneMoreGrows ==
    ASSUME NEW few \in SUBSET Int, Grown(few), NEW x \in Int
    PROVE  Grown(few \cup {x})
<1>1. CASE few = {}
    BY <1>1 DEF Grown
<1>2. CASE few # {}
  <2>1. PICK m \in few : \A y \in few : m >= y
      BY <1>2 DEF Grown
  <2>2. CASE m >= x
      BY <2>1, <2>2 DEF Grown
  <2>3. CASE x > m
      BY <2>1, <2>3 DEF Grown
  <2>. QED
      BY <2>1, <2>2, <2>3
<1>. QED
    BY <1>1, <1>2

LEMMA WindowGrows ==
    ASSUME NEW where \in SUBSET (2..16), NEW high, \A i \in where : high[i] \in Int
    PROVE  Grown({high[i] : i \in where})
<1>. DEFINE upTo(n) == {high[i] : i \in {j \in where : j <= n}}
<1>1. \A n \in Nat : upTo(n) \in SUBSET Int
    OBVIOUS
<1>2. Grown(upTo(1))
    BY DEF Grown
<1>3. \A n \in Nat : Grown(upTo(n)) => Grown(upTo(n + 1))
  <2>. SUFFICES ASSUME NEW n \in Nat, Grown(upTo(n)) PROVE Grown(upTo(n + 1))
      OBVIOUS
  <2>1. CASE n + 1 \in where
    <3>1. upTo(n + 1) = upTo(n) \cup {high[n + 1]}
        BY <2>1
    <3>. HIDE DEF upTo
    <3>. QED
        BY <1>1, <2>1, <3>1, OneMoreGrows
  <2>2. CASE n + 1 \notin where
    <3>1. upTo(n + 1) = upTo(n)
        BY <2>2
    <3>. HIDE DEF upTo
    <3>. QED
        BY <3>1
  <2>. QED
      BY <2>1, <2>2
<1>4. upTo(16) = {high[i] : i \in where}
    OBVIOUS
<1>. DEFINE grown(n) == Grown(upTo(n))
<1>5. grown(1) /\ \A n \in Nat : grown(n) => grown(n + 1)
    BY <1>2, <1>3
<1>. HIDE DEF grown
<1>6. grown(2) /\ grown(3) /\ grown(4) /\ grown(5) /\ grown(6) /\ grown(7) /\ grown(8)
  <2>1. grown(1 + 1)  BY <1>5
  <2>2. grown(2 + 1)  BY <1>5, <2>1
  <2>3. grown(3 + 1)  BY <1>5, <2>2
  <2>4. grown(4 + 1)  BY <1>5, <2>3
  <2>5. grown(5 + 1)  BY <1>5, <2>4
  <2>6. grown(6 + 1)  BY <1>5, <2>5
  <2>7. grown(7 + 1)  BY <1>5, <2>6
  <2>. QED
      BY <2>1, <2>2, <2>3, <2>4, <2>5, <2>6, <2>7
<1>7. grown(16)
  <2>1. grown(8 + 1)  BY <1>5, <1>6
  <2>2. grown(9 + 1)  BY <1>5, <2>1
  <2>3. grown(10 + 1)  BY <1>5, <2>2
  <2>4. grown(11 + 1)  BY <1>5, <2>3
  <2>5. grown(12 + 1)  BY <1>5, <2>4
  <2>6. grown(13 + 1)  BY <1>5, <2>5
  <2>7. grown(14 + 1)  BY <1>5, <2>6
  <2>8. grown(15 + 1)  BY <1>5, <2>7
  <2>. QED
      BY <2>8
<1>. QED
    BY <1>4, <1>7 DEF grown

\* What left a box today is part of the box tomorrow.
LEMMA TopOfBox ==
    ASSUME NEW bars, \A i \in C!Boxed(bars) : bars[i].high \in Int, NEW i \in C!Boxed(bars)
    PROVE  /\ C!Max({bars[k].high : k \in C!Boxed(bars)}) \in Int
           /\ bars[i].high <= C!Max({bars[k].high : k \in C!Boxed(bars)})
<1>. DEFINE where == C!Boxed(bars)
            high == [k \in where |-> bars[k].high]
            highs == {high[k] : k \in where}
<1>1. where \in SUBSET (2..16)
    BY DEF C!Boxed
<1>2. \A k \in where : high[k] \in Int
    OBVIOUS
<1>3. highs = {bars[k].high : k \in C!Boxed(bars)} /\ bars[i].high \in highs
    OBVIOUS
<1>. HIDE DEF high, where
<1>4. Grown(highs)
    BY <1>1, <1>2, WindowGrows
<1>. HIDE DEF highs
<1>5. C!Max(highs) \in highs /\ \A y \in highs : C!Max(highs) >= y
    BY <1>3, <1>4 DEF Grown, C!Max
<1>6. \A y \in highs : y \in Int
    BY <1>2 DEF highs
<1>7. C!Max(highs) \in Int /\ bars[i].high <= C!Max(highs)
    BY <1>3, <1>5, <1>6
<1>. QED
    BY <1>3, <1>7

Bars == [open : Int, close : Int, high : Int, low : Int]
LEMMA LeavesBoxHigher ==
    ASSUME NEW bars \in Seq(Bars), NEW today \in Bars, NEW next \in Bars,
           0 < today.low, today.close <= today.high,
           C!BoxBreakout(<<today>> \o bars), C!BoxBreakout(<<next>> \o (<<today>> \o bars))
    PROVE  next.close > today.high
<1>. DEFINE before == <<today>> \o bars
            after == <<next>> \o before
<1>1. /\ before \in Seq(Bars) /\ before[1] = today
      /\ after \in Seq(Bars) /\ after[1] = next /\ Len(after) >= 17 /\ after[2] = today
  <2>1. before \in Seq(Bars) /\ before[1] = today /\ Len(before) = Len(bars) + 1
      OBVIOUS
  <2>. HIDE DEF before
  <2>2. after \in Seq(Bars) /\ after[1] = next /\ after[1 + 1] = before[1]
      BY <2>1
  <2>3. Len(after) >= 17
      BY DEF before, C!BoxBreakout
  <2>. QED
      BY <2>1, <2>2, <2>3
<1>2. today.close > 0
    BY <1>1 DEF C!BoxBreakout, Bars
<1>3. 2 \in C!Boxed(after)
  <2>1. after[2].high > 0 /\ after[2].low > 0
      BY <1>1, <1>2 DEF Bars
  <2>. QED
      BY <1>1, <2>1 DEF C!Boxed
<1>4. \A i \in C!Boxed(after) : after[i].high \in Int
  <2>1. \A i \in 1..Len(after) : after[i] \in Bars
      BY <1>1
  <2>2. \A i \in C!Boxed(after) : i \in 1..Len(after)
      BY DEF C!Boxed
  <2>. QED
      BY <2>1, <2>2 DEF Bars
<1>5. /\ C!Max({after[k].high : k \in C!Boxed(after)}) \in Int
      /\ today.high <= C!Max({after[k].high : k \in C!Boxed(after)})
    BY <1>1, <1>3, <1>4, TopOfBox
<1>6. next.close > C!Max({after[k].high : k \in C!Boxed(after)})
    BY <1>1 DEF C!BoxBreakout
<1>. HIDE DEF after
<1>. QED
    BY <1>5, <1>6 DEF Bars

\* A window of the past is the same in two courses of the lows that differ after it.
LEMMA PastWindow ==
    ASSUME NEW s \in Seq(Int), NEW t \in Seq(Int), Len(s) = Len(t), \A k \in DOMAIN s : k > 26 => s[k] = t[k],
           NEW j \in Nat, j <= Len(s)
    PROVE  SubSeq(s, 27, j) = SubSeq(t, 27, j)
<1>1. /\ SubSeq(s, 27, j) \in Seq(Int) /\ Len(SubSeq(s, 27, j)) = IF 27 <= j THEN j - 27 + 1 ELSE 0
      /\ \A k \in 1..(j - 27 + 1) : SubSeq(s, 27, j)[k] = s[27 + k - 1]
    BY SubSeqProperties
<1>2. /\ SubSeq(t, 27, j) \in Seq(Int) /\ Len(SubSeq(t, 27, j)) = IF 27 <= j THEN j - 27 + 1 ELSE 0
      /\ \A k \in 1..(j - 27 + 1) : SubSeq(t, 27, j)[k] = t[27 + k - 1]
    BY SubSeqProperties
<1>3. \A k \in 1..Len(SubSeq(s, 27, j)) : SubSeq(s, 27, j)[k] = SubSeq(t, 27, j)[k]
  <2>. TAKE k \in 1..Len(SubSeq(s, 27, j))
  <2>1. k \in 1..(j - 27 + 1) /\ 27 + k - 1 \in 1..Len(s) /\ 27 + k - 1 > 26
      BY <1>1
  <2>2. s[27 + k - 1] = t[27 + k - 1]
    <3>1. 27 + k - 1 \in DOMAIN s
        BY <2>1
    <3>. QED
        BY <2>1, <3>1
  <2>. QED
      BY <1>1, <1>2, <2>1, <2>2
<1>. QED
    BY <1>1, <1>2, <1>3, SeqEqual

LEMMA LeastOfThree ==
    ASSUME NEW a \in Int, NEW b \in Int, NEW c \in Int
    PROVE  C!Min({a, b, c}) \in Int /\ C!Min({a, b, c}) <= b
<1>1. \E m \in {a, b, c} : \A y \in {a, b, c} : m <= y
  <2>1. CASE a <= b /\ a <= c
      BY <2>1
  <2>2. CASE b <= a /\ b <= c
      BY <2>2
  <2>3. CASE c <= a /\ c <= b
      BY <2>3
  <2>. QED
      BY <2>1, <2>2, <2>3
<1>2. C!Min({a, b, c}) \in {a, b, c} /\ \A y \in {a, b, c} : C!Min({a, b, c}) <= y
    BY <1>1 DEF C!Min
<1>. QED
    BY <1>2

LEMMA CloudOfThePast ==
    ASSUME NEW highs, NEW closes, Len(highs) \in Nat, Len(closes) \in Nat,
           NEW s \in Seq(Int), NEW t \in Seq(Int), Len(s) = Len(t), \A k \in DOMAIN s : k > 26 => s[k] = t[k]
    PROVE  C!Ichimoku(highs, s, closes).cloud = C!Ichimoku(highs, t, closes).cloud
<1>. DEFINE few == C!Min({Len(highs), Len(s), Len(closes)}) < 78
<1>1. CASE few
    BY <1>1 DEF C!Ichimoku
<1>2. CASE ~few
  <2>1. Len(s) >= 78
    <3>. DEFINE m == Len(s)
                n == Len(highs)
                o == Len(closes)
    <3>1. m \in Int /\ n \in Int /\ o \in Int
        OBVIOUS
    <3>. HIDE DEF m, n, o
    <3>2. C!Min({n, m, o}) \in Int /\ C!Min({n, m, o}) <= m
        BY <3>1, LeastOfThree
    <3>3. ~(C!Min({n, m, o}) < 78)
        BY <1>2 DEF m, n, o
    <3>. QED
        BY <3>1, <3>2, <3>3 DEF m
  <2>2. C!Low(s, 27, 9) = C!Low(t, 27, 9) /\ C!Low(s, 27, 26) = C!Low(t, 27, 26)
        /\ C!Low(s, 27, 52) = C!Low(t, 27, 52)
    <3>1. /\ SubSeq(s, 27, 35) = SubSeq(t, 27, 35) /\ SubSeq(s, 27, 52) = SubSeq(t, 27, 52)
          /\ SubSeq(s, 27, 78) = SubSeq(t, 27, 78)
      <4>1. 35 \in Nat /\ 52 \in Nat /\ 78 \in Nat /\ 35 <= Len(s) /\ 52 <= Len(s) /\ 78 <= Len(s)
          BY <2>1
      <4>. QED
          BY <4>1, PastWindow
    <3>2. 27 + 9 - 1 = 35 /\ 27 + 26 - 1 = 52 /\ 27 + 52 - 1 = 78
        OBVIOUS
    <3>. QED
        BY <3>1, <3>2 DEF C!Low
  <2>3. C!Cloud(highs, s) = C!Cloud(highs, t)
      BY <2>2 DEF C!Cloud, C!Middle2
  <2>4. C!Ichimoku(highs, s, closes).cloud = C!Cloud(highs, s)
      BY <1>2 DEF C!Ichimoku
  <2>5. C!Ichimoku(highs, t, closes).cloud = C!Cloud(highs, t)
      BY <1>2 DEF C!Ichimoku
  <2>. QED
      BY <2>3, <2>4, <2>5
<1>. QED
    BY <1>1, <1>2

-----------------------------------------------------------------------------

Closes(x) == [i \in DOMAIN x.highs |-> x.last]
PatternInv ==
    /\ input.fn = "cross" =>
           /\ input \in Inputs("cross")
           /\ result # <<>> =>
                  result = <<C!GoldenCross(input.closes), C!GoldenCross(<<input.next[1]>> \o input.closes),
                             C!GoldenCross(<<input.next[2]>> \o (<<input.next[1]>> \o input.closes))>>
    /\ input.fn = "box" =>
           /\ input \in Inputs("box")
           /\ result # <<>> =>
                  result = <<C!BoxBreakout(<<input.today>> \o input.bars),
                             C!BoxBreakout(<<input.next>> \o (<<input.today>> \o input.bars))>>
    /\ input.fn = "cloud" =>
           /\ input \in Inputs("cloud")
           /\ result # <<>> =>
                  result = <<C!Ichimoku(input.highs, input.lows, Closes(input)),
                             C!Ichimoku(input.highs, input.other, Closes(input))>>

\* ma_utils.py, indicator_ichimoku.py: whatever the prices of the next days, a golden cross that S8
\* takes today counts for two days more, a box is left only upwards, and the cloud today's price is
\* compared with is made of what was known twenty-six bars ago.
THEOREM PatternsAlwaysHold == Spec => []PatternsHold
<1>1. Init => PatternInv
    BY DEF Init, PatternInv
<1>2. PatternInv /\ [Next]_vars => PatternInv'
  <2>. SUFFICES ASSUME PatternInv, [Next]_vars PROVE PatternInv'
      OBVIOUS
  <2>1. CASE UNCHANGED vars
      BY <2>1 DEF vars, PatternInv
  <2>2. CASE Next
    <3>1. UNCHANGED input
        BY <2>2, EvaluatesOnce
    <3>2. CASE input.fn = "cross"
        BY <2>2, <3>1, <3>2, EvaluatesOnce DEF EvaluateCross, PatternInv
    <3>3. CASE input.fn = "box"
        BY <2>2, <3>1, <3>3, EvaluatesOnce DEF EvaluateBox, PatternInv
    <3>4. CASE input.fn = "cloud"
        BY <2>2, <3>1, <3>4, EvaluatesOnce DEF EvaluateCloud, PatternInv, Closes
    <3>5. CASE input.fn \notin {"cross", "box", "cloud"}
        BY <3>1, <3>5 DEF PatternInv
    <3>. QED
        BY <3>2, <3>3, <3>4, <3>5
  <2>. QED
      BY <2>1, <2>2
<1>3. PatternInv => PatternsHold
  <2>. SUFFICES ASSUME PatternInv PROVE PatternsHold
      OBVIOUS
  <2>1. ASSUME Of("cross") PROVE CrossStaysRecent
    <3>. DEFINE next == <<input.next[1]>> \o input.closes
                after == <<input.next[2]>> \o next
    <3>1. input \in Inputs("cross")
              /\ result = <<C!GoldenCross(input.closes), C!GoldenCross(next), C!GoldenCross(after)>>
        BY <2>1 DEF Of, PatternInv
    <3>2. input.closes \in Seq(Int) /\ input.next[1] \in Int /\ input.next[2] \in Int
        BY <3>1, DaysAreRead
    <3>3. C!GoldenCross(input.closes).today =>
              /\ C!GoldenCross(next).recent \/ C!Stretched(next)
              /\ C!GoldenCross(after).recent \/ C!Stretched(after)
        BY <3>2, CrossIsRecent
    <3>. HIDE DEF next, after
    <3>4. /\ result[1] = C!GoldenCross(input.closes) /\ result[2] = C!GoldenCross(next)
          /\ result[3] = C!GoldenCross(after)
        BY <3>1
    <3>. QED
        BY <3>3, <3>4 DEF CrossStaysRecent, next, after
  <2>2. ASSUME Of("box") PROVE BreakoutsClimb
    <3>1. /\ input \in Inputs("box")
          /\ result = <<C!BoxBreakout(<<input.today>> \o input.bars),
                        C!BoxBreakout(<<input.next>> \o (<<input.today>> \o input.bars))>>
        BY <2>2 DEF Of, PatternInv
    <3>2. /\ input.bars \in Seq(Bars) /\ input.today \in Bars /\ input.next \in Bars
          /\ 0 < input.today.low /\ input.today.close <= input.today.high
        BY <3>1, DaysAreRead DEF Bars
    <3>3. /\ result[1] = C!BoxBreakout(<<input.today>> \o input.bars)
          /\ result[2] = C!BoxBreakout(<<input.next>> \o (<<input.today>> \o input.bars))
        BY <3>1
    <3>. QED
        BY <3>2, <3>3, LeavesBoxHigher DEF BreakoutsClimb
  <2>3. ASSUME Of("cloud") PROVE CloudIsPast
    <3>1. /\ input \in Inputs("cloud")
          /\ result = <<C!Ichimoku(input.highs, input.lows, Closes(input)),
                        C!Ichimoku(input.highs, input.other, Closes(input))>>
        BY <2>3 DEF Of, PatternInv
    <3>2. /\ input.highs \in Seq(Int) /\ input.lows \in Seq(Int) /\ input.other \in Seq(Int)
          /\ Len(input.lows) = Len(input.other)
          /\ \A k \in DOMAIN input.lows : k > 26 => input.lows[k] = input.other[k]
        BY <3>1, DaysAreRead
    <3>3. Len(input.highs) \in Nat /\ Len(Closes(input)) \in Nat
      <4>1. Closes(input) \in Seq({input.last})
          BY <3>2, IsASeq DEF Closes
      <4>. QED
          BY <3>2, <4>1
    <3>4. C!Ichimoku(input.highs, input.lows, Closes(input)).cloud
              = C!Ichimoku(input.highs, input.other, Closes(input)).cloud
        BY <3>2, <3>3, CloudOfThePast
    <3>5. /\ result[1] = C!Ichimoku(input.highs, input.lows, Closes(input))
          /\ result[2] = C!Ichimoku(input.highs, input.other, Closes(input))
        BY <3>1
    <3>. QED
        BY <3>4, <3>5 DEF CloudIsPast
  <2>. QED
      BY <2>1, <2>2, <2>3 DEF PatternsHold, CrossStaysRecent, BreakoutsClimb, CloudIsPast
<1>. QED
    BY <1>1, <1>2, <1>3, PTL DEF Spec

-----------------------------------------------------------------------------
(* The lists of candidates: what a pool keeps of a ranking, and its order.   *)

LEMMA Least ==
    ASSUME NEW Left, Left \subseteq Nat, Left # {}
    PROVE  \E m \in Left : \A k \in Left : m <= k
<1>. DEFINE Q == OpToRel(<, Nat)
<1>1. IsWellFoundedOn(Q, Nat)
    BY NatLessThanWellFounded
<1>2. \A x, y \in Nat : y < x => <<y, x>> \in Q
    BY DEF OpToRel
<1>. HIDE DEF Q
<1>3. PICK x \in Left : \A y \in Left : ~ (<<y, x>> \in Q)
    BY <1>1, WFMin
<1>4. \A y \in Left : ~ (y < x)
    BY <1>2, <1>3
<1>. QED
    BY <1>4

\* The rows that were kept up to a row.
Grows(f, rows, which, m) ==
    f = [i \in 0..m |-> IF i = 0 THEN <<>>
                        ELSE IF rows[i] \in which THEN Append(f[i - 1], rows[i]) ELSE f[i - 1]]

LEMMA KeptGrows ==
    ASSUME NEW Rows, NEW rows \in Seq(Rows), NEW which
    PROVE  \E f : Grows(f, rows, which, Len(rows)) /\ R!Kept(rows, which) = f[Len(rows)]
<1>. DEFINE n == Len(rows)
            Some(m) == \E f : Grows(f, rows, which, m)
            Left == {m \in 0..n : ~Some(m)}
<1>1. n \in Nat
    OBVIOUS
<1>2. Left = {}
  <2>. SUFFICES ASSUME Left # {} PROVE FALSE
      OBVIOUS
  <2>0. Some(0)
    <3>1. Grows([i \in 0..0 |-> <<>>], rows, which, 0)
        BY DEF Grows
    <3>. QED
        BY <3>1
  <2>. HIDE DEF Some, n
  <2>1. PICK m \in Left : \A k \in Left : m <= k
    <3>1. Left \subseteq Nat
        BY <1>1
    <3>. HIDE DEF Left
    <3>. QED
        BY <3>1, Least
  <2>3. m \in 1..n /\ ~Some(m)
      BY <2>0, <1>1
  <2>4. PICK g : Grows(g, rows, which, m - 1)
    <3>1. Some(m - 1)
        BY <2>1, <2>3, <1>1
    <3>. QED
        BY <3>1 DEF Some
  <2>. DEFINE f == [i \in 0..m |-> IF i = m THEN IF rows[m] \in which THEN Append(g[m - 1], rows[m]) ELSE g[m - 1]
                                   ELSE g[i]]
  <2>5. Grows(f, rows, which, m)
    <3>1. g = [i \in 0..(m - 1) |-> IF i = 0 THEN <<>>
                        ELSE IF rows[i] \in which THEN Append(g[i - 1], rows[i]) ELSE g[i - 1]]
        BY <2>4 DEF Grows
    <3>2. m \in Nat /\ m # 0
        BY <2>3, <1>1
    <3>3. \A i \in 0..m : f[i] = IF i = 0 THEN <<>>
                        ELSE IF rows[i] \in which THEN Append(f[i - 1], rows[i]) ELSE f[i - 1]
      <4>. TAKE i \in 0..m
      <4>1. f[m] = IF rows[m] \in which THEN Append(g[m - 1], rows[m]) ELSE g[m - 1]
          BY <3>2
      <4>2. \A j \in 0..(m - 1) : f[j] = g[j]
          BY <3>2
      <4>. HIDE DEF f
      <4>3. CASE i = 0
          BY <4>2, <4>3, <3>1, <3>2
      <4>4. CASE i = m
        <5>1. f[m - 1] = g[m - 1]
            BY <4>2, <3>2
        <5>. QED
            BY <4>1, <4>4, <5>1, <3>2
      <4>5. CASE i \in 1..(m - 1)
        <5>1. g[i] = IF rows[i] \in which THEN Append(g[i - 1], rows[i]) ELSE g[i - 1]
          <6>1. i \in 0..(m - 1) /\ i # 0
              BY <4>5, <3>2
          <6>. QED
              BY <3>1, <6>1
        <5>2. f[i] = g[i] /\ f[i - 1] = g[i - 1]
            BY <4>2, <4>5, <3>2
        <5>. QED
            BY <4>5, <5>1, <5>2
      <4>. QED
          BY <4>3, <4>4, <4>5, <3>2
    <3>4. f = [i \in 0..m |-> f[i]]
        BY Zenon
    <3>. HIDE DEF f
    <3>5. f = [i \in 0..m |-> IF i = 0 THEN <<>>
                        ELSE IF rows[i] \in which THEN Append(f[i - 1], rows[i]) ELSE f[i - 1]]
        BY <3>3, <3>4
    <3>. QED
        BY <3>5 DEF Grows
  <2>. QED
      BY <2>3, <2>5 DEF Some
<1>3. \E f : Grows(f, rows, which, n)
  <2>. HIDE DEF Some
  <2>1. n \in 0..n
      BY <1>1
  <2>2. Some(n)
      BY <2>1, <1>2
  <2>. QED
      BY <2>2 DEF Some
<1>. DEFINE c == CHOOSE f : Grows(f, rows, which, n)
<1>4. Grows(c, rows, which, n)
    BY <1>3
<1>5. R!Kept(rows, which) = c[n]
    BY DEF R!Kept, Grows
<1>. QED
    BY <1>4, <1>5

LEMMA KeptRows ==
    ASSUME NEW Rows, NEW rows \in Seq(Rows), NEW which
    PROVE  LET kept == R!Kept(rows, which)
           IN /\ kept \in Seq(Rows)
              /\ \E at \in [1..Len(kept) -> 1..Len(rows)] :
                     /\ \A i \in 1..Len(kept) : kept[i] = rows[at[i]] /\ kept[i] \in which
                     /\ \A i, j \in 1..Len(kept) : i < j => at[i] < at[j]
<1>. DEFINE n == Len(rows)
            Follows(s, at, m) ==
                /\ s \in Seq(Rows) /\ at \in [1..Len(s) -> 1..m]
                /\ \A i \in 1..Len(s) : s[i] = rows[at[i]] /\ s[i] \in which
                /\ \A i, j \in 1..Len(s) : i < j => at[i] < at[j]
<1>1. PICK f : Grows(f, rows, which, n) /\ R!Kept(rows, which) = f[n]
    BY KeptGrows
<1>. DEFINE Some(m) == \E at : Follows(f[m], at, m)
            Left == {m \in 0..n : ~Some(m)}
<1>a. n \in Nat /\ rows \in [1..n -> Rows]
    BY LenProperties
<1>b. /\ f[0] = <<>>
      /\ \A m \in 1..n : f[m] = IF rows[m] \in which THEN Append(f[m - 1], rows[m]) ELSE f[m - 1]
  <2>1. f = [i \in 0..n |-> IF i = 0 THEN <<>>
                        ELSE IF rows[i] \in which THEN Append(f[i - 1], rows[i]) ELSE f[i - 1]]
      BY <1>1 DEF Grows
  <2>. HIDE DEF n
  <2>2. f[0] = <<>>
      BY <2>1, <1>a
  <2>3. ASSUME NEW m \in 1..n
        PROVE  f[m] = IF rows[m] \in which THEN Append(f[m - 1], rows[m]) ELSE f[m - 1]
    <3>1. m \in 0..n /\ m # 0
        BY <1>a
    <3>. QED
        BY <2>1, <3>1
  <2>. QED
      BY <2>2, <2>3
<1>2. Left = {}
  <2>. SUFFICES ASSUME Left # {} PROVE FALSE
      OBVIOUS
  <2>0. Some(0)
    <3>1. <<>> \in Seq(Rows) /\ Len(<<>>) = 0
        OBVIOUS
    <3>2. 1..0 = {}
        OBVIOUS
    <3>3. Follows(<<>>, [i \in {} |-> 0], 0)
        BY <3>1, <3>2
    <3>. QED
        BY <3>3, <1>b
  <2>. HIDE DEF Some, n
  <2>1. PICK m \in Left : \A k \in Left : m <= k
    <3>1. Left \subseteq Nat
        BY <1>a
    <3>. HIDE DEF Left
    <3>. QED
        BY <3>1, Least
  <2>3. m \in 1..n /\ ~Some(m)
      BY <2>0, <1>a
  <2>4. PICK at : Follows(f[m - 1], at, m - 1)
    <3>1. Some(m - 1)
        BY <2>1, <2>3, <1>a
    <3>. QED
        BY <3>1 DEF Some
  <2>5. CASE rows[m] \in which
    <3>. DEFINE s == f[m - 1]
                k == Len(s) + 1
                to == [i \in 1..k |-> IF i = k THEN m ELSE at[i]]
    <3>1. s \in Seq(Rows) /\ Len(s) \in Nat
        BY <2>4
    <3>2. f[m] = Append(s, rows[m])
        BY <1>b, <2>3, <2>5
    <3>3. rows[m] \in Rows
        BY <1>a, <2>3
    <3>4. /\ f[m] \in Seq(Rows) /\ Len(f[m]) = k
          /\ f[m][k] = rows[m] /\ \A i \in 1..Len(s) : f[m][i] = s[i]
        BY <3>1, <3>2, <3>3, AppendProperties
    <3>5. at \in [1..Len(s) -> 1..m - 1]
        BY <2>4
    <3>6. to \in [1..k -> 1..m]
        BY <3>1, <3>5, <2>3
    <3>7. \A i \in 1..k : f[m][i] = rows[to[i]] /\ f[m][i] \in which
      <4>. TAKE i \in 1..k
      <4>1. i \in 1..Len(s) \/ i = k
          BY <3>1
      <4>2. CASE i = k
          BY <4>2, <3>4, <2>5
      <4>3. CASE i \in 1..Len(s)
        <5>1. s[i] = rows[at[i]] /\ s[i] \in which
            BY <2>4, <4>3
        <5>2. to[i] = at[i]
            BY <4>3, <3>1
        <5>. QED
            BY <5>1, <5>2, <3>4, <4>3
      <4>. QED
          BY <4>1, <4>2, <4>3
    <3>8. \A i, j \in 1..k : i < j => to[i] < to[j]
      <4>1. \A i, j \in 1..Len(s) : i < j => at[i] < at[j]
          BY <2>4
      <4>2. m \in Nat
          BY <1>a, <2>3
      <4>. HIDE DEF s
      <4>3. \A i \in 1..Len(s) : to[i] = at[i] /\ at[i] \in Nat /\ at[i] < m
        <5>. TAKE i \in 1..Len(s)
        <5>1. to[i] = at[i]
            BY <3>1
        <5>2. at[i] \in 1..m - 1
            BY <3>5
        <5>. QED
            BY <5>1, <5>2, <4>2
      <4>4. to[k] = m
          BY <3>1
      <4>. HIDE DEF to
      <4>5. \A i, j \in 1..k : i < j => i \in 1..Len(s) /\ (j \in 1..Len(s) \/ j = k)
          BY <3>1
      <4>. QED
          BY <4>1, <4>3, <4>4, <4>5
    <3>9. Follows(f[m], to, m)
        BY <3>4, <3>6, <3>7, <3>8
    <3>. QED
        BY <3>9, <2>3 DEF Some
  <2>6. CASE rows[m] \notin which
    <3>1. f[m] = f[m - 1]
        BY <1>b, <2>3, <2>6
    <3>2. at \in [1..Len(f[m]) -> 1..m]
        BY <3>1, <2>3, <2>4
    <3>3. Follows(f[m], at, m)
        BY <3>1, <3>2, <2>4
    <3>. QED
        BY <3>3, <2>3 DEF Some
  <2>. QED
      BY <2>5, <2>6
<1>3. PICK at : Follows(f[n], at, n)
  <2>. HIDE DEF Some, n
  <2>1. Some(n)
      BY <1>2, <1>a
  <2>. QED
      BY <2>1 DEF Some
<1>. QED
    BY <1>1, <1>3

LEMMA UpToIsFinite == \A n \in Nat : IsFiniteSet(1..n) /\ Cardinality(1..n) = n
<1>. TAKE n \in Nat
<1>1. 1 \in Int /\ n \in Int
    OBVIOUS
<1>2. IsFiniteSet(1..n) /\ Cardinality(1..n) = IF 1 > n THEN 0 ELSE n - 1 + 1
    BY <1>1, FS_Interval
<1>3. (IF 1 > n THEN 0 ELSE n - 1 + 1) = n
    OBVIOUS
<1>. QED
    BY <1>2, <1>3

\* Rows of a set, each stock named once.
Lists(rows, Rows) ==
    rows \in Seq(Rows) /\ \A i, j \in 1..Len(rows) : rows[i].stk = rows[j].stk => i = j

LEMMA KeptLists ==
    ASSUME NEW Rows, NEW rows, Lists(rows, Rows), NEW which
    PROVE  /\ Lists(R!Kept(rows, which), Rows) /\ Lists(R!Kept(rows, which), which)
           /\ Len(R!Kept(rows, which)) <= Len(rows)
<1>. DEFINE kept == R!Kept(rows, which)
<1>1. rows \in Seq(Rows) /\ Len(rows) \in Nat
    BY DEF Lists
<1>2. /\ kept \in Seq(Rows)
      /\ \E at \in [1..Len(kept) -> 1..Len(rows)] :
             /\ \A i \in 1..Len(kept) : kept[i] = rows[at[i]] /\ kept[i] \in which
             /\ \A i, j \in 1..Len(kept) : i < j => at[i] < at[j]
    BY <1>1, KeptRows
<1>. HIDE DEF kept
<1>3. PICK at \in [1..Len(kept) -> 1..Len(rows)] :
          /\ \A i \in 1..Len(kept) : kept[i] = rows[at[i]] /\ kept[i] \in which
          /\ \A i, j \in 1..Len(kept) : i < j => at[i] < at[j]
    BY <1>2
<1>4. Len(kept) \in Nat /\ kept \in [1..Len(kept) -> Rows]
    BY <1>2
<1>5. \A i, j \in 1..Len(kept) : at[i] = at[j] => i = j
  <2>. TAKE i, j \in 1..Len(kept)
  <2>1. at[i] \in Int /\ at[j] \in Int /\ i \in Int /\ j \in Int
      BY <1>1, <1>3, <1>4
  <2>. QED
      BY <1>3, <2>1
<1>6. \A i, j \in 1..Len(kept) : kept[i].stk = kept[j].stk => i = j
  <2>1. \A i \in 1..Len(kept) : at[i] \in 1..Len(rows) /\ kept[i] = rows[at[i]]
      BY <1>3
  <2>2. \A i, j \in 1..Len(rows) : rows[i].stk = rows[j].stk => i = j
      BY DEF Lists
  <2>. QED
      BY <1>5, <2>1, <2>2
<1>7. kept \in Seq(which)
  <2>1. \A i \in 1..Len(kept) : kept[i] \in which
      BY <1>3
  <2>. QED
      BY <1>2, <1>4, <2>1
<1>8. Len(kept) <= Len(rows)
  <2>. SUFFICES ASSUME Len(rows) < Len(kept) PROVE FALSE
      BY <1>1, <1>4
  <2>1. /\ IsFiniteSet(1..Len(kept)) /\ Cardinality(1..Len(kept)) = Len(kept)
        /\ IsFiniteSet(1..Len(rows)) /\ Cardinality(1..Len(rows)) = Len(rows)
      BY <1>1, <1>4, UpToIsFinite
  <2>2. \E i, j \in 1..Len(kept) : i # j /\ at[i] = at[j]
      BY <2>1, FS_PigeonHole
  <2>. QED
      BY <2>2, <1>5
<1>. QED
    BY <1>2, <1>6, <1>7, <1>8 DEF kept, Lists

LEMMA FewerLists ==
    ASSUME NEW Rows, NEW rows, Lists(rows, Rows), NEW n \in Nat, n <= Len(rows)
    PROVE  Lists(SubSeq(rows, 1, n), Rows) /\ Len(SubSeq(rows, 1, n)) = n
<1>1. rows \in Seq(Rows) /\ Len(rows) \in Nat /\ \A i \in 1..Len(rows) : rows[i] \in Rows
    BY DEF Lists
<1>. DEFINE few == SubSeq(rows, 1, n)
<1>2. few \in Seq(Rows) /\ Len(few) = n /\ \A i \in 1..n : few[i] = rows[i]
  <2>1. \A i \in 1..n : rows[i] \in Rows
      BY <1>1
  <2>2. /\ few \in Seq(Rows) /\ Len(few) = IF 1 <= n THEN n - 1 + 1 ELSE 0
        /\ \A i \in 1..n - 1 + 1 : few[i] = rows[1 + i - 1]
      BY <2>1, SubSeqProperties
  <2>. QED
      BY <2>2
<1>. HIDE DEF few
<1>3. \A i, j \in 1..Len(rows) : rows[i].stk = rows[j].stk => i = j
    BY DEF Lists
<1>4. \A i, j \in 1..n : few[i].stk = few[j].stk => i = j
    BY <1>1, <1>2, <1>3
<1>. QED
    BY <1>2, <1>4 DEF few, Lists

LEMMA CutLists ==
    ASSUME Limit \in Nat, NEW Rows, NEW rows, Lists(rows, Rows)
    PROVE  Lists(R!Cut(rows), Rows) /\ Len(R!Cut(rows)) <= Limit
<1>. DEFINE n == IF Len(rows) < Limit THEN Len(rows) ELSE Limit
<1>1. n \in Nat /\ n <= Len(rows) /\ n <= Limit
    BY DEF Lists
<1>2. R!Cut(rows) = SubSeq(rows, 1, n)
    BY DEF R!Cut
<1>. QED
    BY <1>1, <1>2, FewerLists

LEMMA JoinedLists ==
    ASSUME NEW A, NEW B, NEW a, NEW b, Lists(a, A), Lists(b, B), \A x \in A, y \in B : x.stk # y.stk
    PROVE  Lists(a \o b, A \cup B)
<1>1. /\ a \in Seq(A) /\ b \in Seq(B) /\ Len(a) \in Nat /\ Len(b) \in Nat
      /\ \A i \in 1..Len(a) : a[i] \in A
      /\ \A i \in 1..Len(b) : b[i] \in B
    BY DEF Lists
<1>2. a \in Seq(A \cup B) /\ b \in Seq(A \cup B)
    BY <1>1, SeqMonotonic
<1>. DEFINE c == a \o b
<1>3. /\ c \in Seq(A \cup B) /\ Len(c) = Len(a) + Len(b)
      /\ \A i \in 1..Len(a) + Len(b) : c[i] = IF i <= Len(a) THEN a[i] ELSE b[i - Len(a)]
    BY <1>2, ConcatProperties
<1>. HIDE DEF c
<1>4. \A i \in 1..Len(c) : \/ i \in 1..Len(a) /\ c[i] = a[i] /\ c[i] \in A
                           \/ i - Len(a) \in 1..Len(b) /\ c[i] = b[i - Len(a)] /\ c[i] \in B
  <2>. TAKE i \in 1..Len(c)
  <2>1. i \in 1..Len(a) \/ (i - Len(a) \in 1..Len(b) /\ ~(i <= Len(a)) /\ i \in 1..Len(a) + Len(b))
      BY <1>1, <1>3
  <2>2. CASE i \in 1..Len(a)
      BY <1>1, <1>3, <2>2
  <2>3. CASE i - Len(a) \in 1..Len(b) /\ ~(i <= Len(a)) /\ i \in 1..Len(a) + Len(b)
      BY <1>1, <1>3, <2>3
  <2>. QED
      BY <2>1, <2>2, <2>3
<1>5. /\ \A i, j \in 1..Len(a) : a[i].stk = a[j].stk => i = j
      /\ \A i, j \in 1..Len(b) : b[i].stk = b[j].stk => i = j
    BY DEF Lists
<1>6. ASSUME NEW i \in 1..Len(c), NEW j \in 1..Len(c), c[i].stk = c[j].stk
      PROVE  i = j
  <2>1. CASE i \in 1..Len(a) /\ c[i] = a[i] /\ c[i] \in A
      BY <1>4, <1>5, <1>6, <2>1
  <2>2. CASE i - Len(a) \in 1..Len(b) /\ c[i] = b[i - Len(a)] /\ c[i] \in B
    <3>1. j - Len(a) \in 1..Len(b) /\ c[j] = b[j - Len(a)]
        BY <1>4, <1>6, <2>2
    <3>2. i - Len(a) = j - Len(a)
        BY <1>5, <1>6, <2>2, <3>1
    <3>3. i \in Int /\ j \in Int
        BY <1>1, <1>3
    <3>. QED
        BY <1>1, <3>2, <3>3
  <2>. QED
      BY <1>4, <2>1, <2>2
<1>. QED
    BY <1>3, <1>6 DEF c, Lists
\* A list of rows of another list is no longer than that.
LEMMA DrawnFrom ==
    ASSUME NEW A, NEW a, Lists(a, A), NEW B, NEW b, Lists(b, B), B \subseteq R!Range(a)
    PROVE  Len(b) <= Len(a)
<1>1. /\ Len(a) \in Nat /\ Len(b) \in Nat /\ DOMAIN a = 1..Len(a)
      /\ \A i \in 1..Len(b) : b[i] \in B
      /\ \A i, j \in 1..Len(b) : b[i].stk = b[j].stk => i = j
    BY DEF Lists
<1>2. \A i \in 1..Len(b) : \E j \in 1..Len(a) : b[i] = a[j]
    BY <1>1 DEF R!Range
<1>. DEFINE from == [i \in 1..Len(b) |-> CHOOSE j \in 1..Len(a) : b[i] = a[j]]
<1>3. from \in [1..Len(b) -> 1..Len(a)] /\ \A i \in 1..Len(b) : b[i] = a[from[i]]
    BY <1>2
<1>. HIDE DEF from
<1>. SUFFICES ASSUME Len(a) < Len(b) PROVE FALSE
    BY <1>1
<1>4. /\ IsFiniteSet(1..Len(b)) /\ Cardinality(1..Len(b)) = Len(b)
      /\ IsFiniteSet(1..Len(a)) /\ Cardinality(1..Len(a)) = Len(a)
    BY <1>1, UpToIsFinite
<1>5. \E i, j \in 1..Len(b) : i # j /\ from[i] = from[j]
  <2>1. from \in [1..Len(b) -> 1..Len(a)]
      BY <1>3
  <2>2. Cardinality(1..Len(a)) < Cardinality(1..Len(b))
      BY <1>4
  <2>3. IsFiniteSet(1..Len(b)) /\ IsFiniteSet(1..Len(a))
      BY <1>4
  <2>. QED
      BY <2>1, <2>2, <2>3, FS_PigeonHole
<1>. QED
    BY <1>1, <1>3, <1>5

LEMMA ScannedLists ==
    ASSUME Limit \in Nat \ {0}, NEW Rows, NEW s, NEW taken, Lists(taken, Rows)
    PROVE  Lists(R!Scanned(s, taken), Rows)
<1>. DEFINE stops == {i \in Limit..Len(taken) : ~R!Strong(taken[i])}
            seen == IF stops = {} THEN taken ELSE SubSeq(taken, 1, R!Min(stops))
            strong == {row \in R!Range(seen) : R!Strong(row)}
            normal == R!Range(seen) \ strong
<1>1. Lists(seen, Rows)
  <2>1. Len(taken) \in Nat
      BY DEF Lists
  <2>2. ASSUME stops # {} PROVE R!Min(stops) \in stops
    <3>1. stops \subseteq Nat
        OBVIOUS
    <3>. HIDE DEF stops
    <3>2. \E m \in stops : \A k \in stops : m <= k
        BY <2>2, <3>1, Least
    <3>. QED
        BY <3>2 DEF R!Min
  <2>3. ASSUME stops # {} PROVE Lists(SubSeq(taken, 1, R!Min(stops)), Rows)
    <3>1. R!Min(stops) \in Nat /\ R!Min(stops) <= Len(taken)
        BY <2>1, <2>2, <2>3
    <3>. HIDE DEF stops
    <3>. QED
        BY <3>1, FewerLists
  <2>. HIDE DEF stops
  <2>. QED
      BY <2>3
<1>. HIDE DEF seen
<1>2. Lists(R!Kept(seen, strong), strong) /\ Lists(R!Kept(seen, normal), normal)
    BY <1>1, KeptLists
<1>3. ASSUME NEW x \in strong, NEW y \in normal PROVE x.stk # y.stk
  <2>1. \A i, j \in 1..Len(seen) : seen[i].stk = seen[j].stk => i = j
      BY <1>1 DEF Lists
  <2>2. DOMAIN seen = 1..Len(seen)
      BY <1>1 DEF Lists
  <2>3. PICK i \in 1..Len(seen) : x = seen[i]
      BY <2>2 DEF R!Range
  <2>4. PICK j \in 1..Len(seen) : y = seen[j]
      BY <2>2 DEF R!Range
  <2>5. x # y
      OBVIOUS
  <2>. QED
      BY <2>1, <2>3, <2>4, <2>5
<1>4. strong \cup normal \subseteq Rows
    BY <1>1 DEF R!Range, Lists
<1>. HIDE DEF strong, normal
<1>5. Lists(R!Kept(seen, strong) \o R!Kept(seen, normal), strong \cup normal)
    BY <1>2, <1>3, JoinedLists
<1>6. Lists(R!Kept(seen, strong) \o R!Kept(seen, normal), Rows)
    BY <1>4, <1>5, SeqMonotonic DEF Lists
<1>7. Lists(R!Cut(R!Kept(seen, strong) \o R!Kept(seen, normal)), Rows) /\ Lists(R!Cut(taken), Rows)
    BY <1>6, CutLists
<1>8. R!Scanned(s, taken) \in {R!Cut(R!Kept(seen, strong) \o R!Kept(seen, normal)), taken, R!Cut(taken)}
  <2>1. R!Scanned(s, taken) = CASE s = "S4" -> R!Cut(R!Kept(seen, strong) \o R!Kept(seen, normal))
                                [] s = "S3" -> taken
                                [] OTHER -> R!Cut(taken)
      BY DEF R!Scanned, seen, strong, normal
  <2>. QED
      BY <2>1
<1>. QED
    BY <1>7, <1>8

\* The rows of a set that are shares.
LEMMA IndividualsAreShares ==
    ASSUME NEW Rows, NEW rows, Lists(rows, Rows), NEW named
    PROVE  Lists(R!Individuals(rows, named), {row \in Rows : row.stk \in Shares})
<1>. DEFINE which == {row \in R!Range(rows) : row.stk \in Shares}
<1>1. which \subseteq {row \in Rows : row.stk \in Shares}
    BY DEF R!Range, Lists
<1>2. Lists(R!Kept(rows, which), which)
    BY KeptLists
<1>3. Lists(R!Kept(rows, which), {row \in Rows : row.stk \in Shares})
  <2>. HIDE DEF which
  <2>. QED
      BY <1>1, <1>2, SeqMonotonic DEF Lists
<1>4. Lists(<<>>, {row \in Rows : row.stk \in Shares})
    BY DEF Lists
<1>. QED
    BY <1>3, <1>4 DEF R!Individuals

LEMMA QualifiedLists ==
    ASSUME Limit \in Nat \ {0}, NEW s, NEW ranking, NEW toss, NEW named, IsRanking(ranking), IsRanking(toss)
    PROVE  LET taken == {row \in R!Range(ranking) : R!Takes(s, row)}
               added == {row \in R!Range(toss) : R!Within(R!TossBand(s), row.flu)}
               pool == R!Qualified(s, ranking, toss, named)
           IN /\ Lists(pool, {row \in taken \cup added : row.stk \in Shares})
              /\ Len(pool) <= Limit
              /\ s \in {"S1", "S4", "S10", "S13"} => \A i \in 1..Len(pool) : R!Grade(pool[i]) # "REJECT"
<1>. DEFINE taken == {row \in R!Range(ranking) : R!Takes(s, row)}
            added == {row \in R!Range(toss) : R!Within(R!TossBand(s), row.flu)}
            unnamed == {row \in R!Range(toss) : /\ R!Within(R!TossBand(s), row.flu)
                                                /\ \A i \in DOMAIN ranking : ranking[i].stk # row.stk}
            shares == {row \in taken \cup added : row.stk \in Shares}
            first == R!Scanned(s, R!Kept(ranking, taken))
            more == R!Supplement(s, ranking, toss)
            all == R!Replenished(s, first, ranking, toss, named)
            kept == {row \in R!Range(all) : R!Grade(row) # "REJECT"}
            cool == {row \in R!Range(all) : row.rsi <= 72}
<1>1. Lists(ranking, R!Range(ranking)) /\ Lists(toss, R!Range(toss))
    BY DEF IsRanking, Lists, R!Range
<1>2. Lists(R!Kept(ranking, taken), taken) /\ Lists(R!Kept(toss, unnamed), unnamed)
    BY <1>1, KeptLists
<1>3. more = R!Kept(toss, unnamed)
    BY DEF R!Supplement
<1>4. Lists(first, taken) /\ Lists(more, unnamed)
  <2>. HIDE DEF taken, unnamed
  <2>. QED
      BY <1>2, <1>3, ScannedLists
<1>5. \A x \in R!Range(ranking), y \in unnamed : x.stk # y.stk
    BY DEF R!Range
<1>6. taken \subseteq R!Range(ranking) /\ unnamed \subseteq added
    OBVIOUS
<1>. HIDE DEF first, more
<1>7. Lists(all, shares) /\ Len(all) <= Limit
  <2>. DEFINE own == R!Individuals(first, named)
              others == R!Individuals(more, named)
  <2>1. Lists(own, {row \in taken : row.stk \in Shares}) /\ Lists(others, {row \in unnamed : row.stk \in Shares})
      BY <1>4, IndividualsAreShares
  <2>2. \A x \in {row \in taken : row.stk \in Shares}, y \in {row \in unnamed : row.stk \in Shares} : x.stk # y.stk
      BY <1>5, <1>6
  <2>3. {row \in taken : row.stk \in Shares} \cup {row \in unnamed : row.stk \in Shares} \subseteq shares
      BY <1>6
  <2>. HIDE DEF taken, unnamed, shares, own, others
  <2>4. Lists(own \o others, {row \in taken : row.stk \in Shares} \cup {row \in unnamed : row.stk \in Shares})
      BY <2>1, <2>2, JoinedLists
  <2>5. Lists(own \o others, shares)
      BY <2>3, <2>4, SeqMonotonic DEF Lists
  <2>6. all = R!Cut(own \o others)
      BY DEF R!Replenished, own, others, more
  <2>. QED
      BY <2>5, <2>6, CutLists
<1>8. Lists(ranking \o more, R!Range(ranking) \cup unnamed)
  <2>. HIDE DEF unnamed
  <2>. QED
      BY <1>1, <1>4, <1>5, JoinedLists
<1>. HIDE DEF all, unnamed
<1>9. R!Range(all) \subseteq shares /\ kept \subseteq shares /\ cool \subseteq shares
  <2>1. \A i \in DOMAIN all : all[i] \in shares
      BY <1>7 DEF Lists
  <2>2. R!Range(all) \subseteq shares
      BY <2>1 DEF R!Range
  <2>. QED
      BY <2>2
<1>. DEFINE graded == R!Kept(ranking \o more, kept)
<1>10. Lists(graded, kept)
    BY <1>8, KeptLists
<1>11. Len(graded) <= Len(all)
    BY <1>7, <1>10, DrawnFrom
<1>12. Lists(R!Kept(all, cool), cool) /\ Len(R!Kept(all, cool)) <= Len(all)
    BY <1>7, KeptLists
<1>. DEFINE pool == R!Qualified(s, ranking, toss, named)
<1>13. pool = CASE s \in {"S1", "S4", "S10", "S13"} -> graded
                [] s = "S15" -> R!Kept(all, cool)
                [] OTHER -> all
    BY DEF R!Qualified, all, first, more
<1>14. Lists(graded, shares) /\ Lists(R!Kept(all, cool), shares)
  <2>. HIDE DEF kept, cool, shares, graded
  <2>. QED
      BY <1>9, <1>10, <1>12, SeqMonotonic DEF Lists
<1>15. \A i \in 1..Len(graded) : R!Grade(graded[i]) # "REJECT"
    BY <1>10 DEF Lists
<1>16. Len(graded) \in Nat /\ Len(all) \in Nat /\ Len(R!Kept(all, cool)) \in Nat
    BY <1>7, <1>10, <1>12 DEF Lists
<1>. HIDE DEF graded, cool, kept, shares, pool
<1>17. /\ Lists(pool, shares) /\ Len(pool) <= Limit
       /\ s \in {"S1", "S4", "S10", "S13"} => \A i \in 1..Len(pool) : R!Grade(pool[i]) # "REJECT"
  <2>1. CASE s \in {"S1", "S4", "S10", "S13"}
    <3>1. pool = graded
        BY <1>13, <2>1
    <3>. QED
        BY <3>1, <1>7, <1>11, <1>14, <1>15, <1>16
  <2>2. CASE s = "S15"
    <3>1. pool = R!Kept(all, cool)
        BY <1>13, <2>2
    <3>. QED
        BY <3>1, <2>2, <1>7, <1>12, <1>14, <1>16
  <2>3. CASE s \notin {"S1", "S4", "S10", "S13", "S15"}
    <3>1. pool = all
        BY <1>13, <2>3
    <3>. QED
        BY <3>1, <2>3, <1>7
  <2>. QED
      BY <2>1, <2>2, <2>3
<1>. QED
    BY <1>17 DEF pool, shares


\* What Toss adds to a pool, and what a builder takes, rises or falls as the strategy asks.
LEMMA RowsOfBand ==
    ASSUME NEW s, NEW row, row.flu \in Int
    PROVE  /\ R!Within(R!TossBand(s), row.flu) =>
                  /\ s = "S14" => row.flu <= -30
                  /\ s \in {"S1", "S2", "S4", "S7", "S8", "S9", "S12", "S13", "S15"} => row.flu > 0
           /\ R!Takes(s, row) =>
                  /\ s = "S14" /\ row.flu < 0 => row.flu <= -30
                  /\ s \in {"S1", "S2", "S4", "S7", "S8", "S9", "S12", "S13", "S15"} => row.flu > 0
<1>1. /\ s = "S14" => R!TossBand(s) = <<-100, -30>>
      /\ s = "S4" => R!TossBand(s) = <<30, 200>>
      /\ s = "S7" => R!TossBand(s) = <<5, 100>>
      /\ s \in {"S8", "S9"} => R!TossBand(s) = <<5, 80>>
      /\ s = "S13" => R!TossBand(s) = <<20, 90>>
      /\ s \in {"S1", "S2", "S12", "S15"} => R!TossBand(s) = <<1, 0>>
    BY DEF R!TossBand, R!NoToss
<1>2. R!Within(R!TossBand(s), row.flu) =>
          /\ s = "S14" => row.flu <= -30
          /\ s \in {"S1", "S2", "S4", "S7", "S8", "S9", "S12", "S13", "S15"} => row.flu > 0
    BY <1>1 DEF R!Within
<1>3. s = "S14" /\ row.flu < 0 /\ R!Takes(s, row) => row.flu <= -30
    BY DEF R!Takes, R!BuildS14, R!Within
<1>4. ASSUME s = "S1", R!Takes(s, row) PROVE row.flu > 0
  <2>1. R!BuildS1(row)
      BY <1>4 DEF R!Takes
  <2>. QED
      BY <2>1 DEF R!BuildS1, R!Within
<1>5. ASSUME s = "S2", R!Takes(s, row) PROVE row.flu > 0
  <2>1. R!BuildS2(row)
      BY <1>5 DEF R!Takes
  <2>. QED
      BY <2>1 DEF R!BuildS2, R!Within
<1>6. ASSUME s = "S4", R!Takes(s, row) PROVE row.flu > 0
  <2>1. R!BuildS4(row)
      BY <1>6 DEF R!Takes
  <2>. QED
      BY <2>1 DEF R!BuildS4, R!Within
<1>7. ASSUME s = "S7", R!Takes(s, row) PROVE row.flu > 0
  <2>1. R!BuildS7(row)
      BY <1>7 DEF R!Takes
  <2>. QED
      BY <2>1 DEF R!BuildS7, R!Within
<1>8. ASSUME s = "S8", R!Takes(s, row) PROVE row.flu > 0
  <2>1. R!BuildS8(row)
      BY <1>8 DEF R!Takes
  <2>. QED
      BY <2>1 DEF R!BuildS8, R!Within
<1>9. ASSUME s = "S9", R!Takes(s, row) PROVE row.flu > 0
  <2>1. R!BuildS9(row)
      BY <1>9 DEF R!Takes
  <2>. QED
      BY <2>1 DEF R!BuildS9, R!Within
<1>10. ASSUME s = "S12", R!Takes(s, row) PROVE row.flu > 0
  <2>1. R!BuildS12(row)
      BY <1>10 DEF R!Takes
  <2>. QED
      BY <2>1 DEF R!BuildS12, R!Within
<1>11. ASSUME s = "S13", R!Takes(s, row) PROVE row.flu > 0
  <2>1. R!BuildS13(row)
      BY <1>11 DEF R!Takes
  <2>. QED
      BY <2>1 DEF R!BuildS13, R!Within
<1>12. ASSUME s = "S15", R!Takes(s, row) PROVE row.flu > 0
  <2>1. R!BuildS15(row)
      BY <1>12 DEF R!Takes
  <2>. QED
      BY <2>1 DEF R!BuildS15, R!Within
<1>. QED
    BY <1>2, <1>3, <1>4, <1>5, <1>6, <1>7, <1>8, <1>9, <1>10, <1>11, <1>12

LEMMA PoolHolds ==
    ASSUME NEW x \in Inputs("pool")
    PROVE  LET pool == R!Qualified(x.s, x.ranking, x.toss, x.named)
           IN /\ Len(pool) <= Limit
              /\ \A i, j \in DOMAIN pool : pool[i].stk = pool[j].stk => i = j
              /\ \A i \in DOMAIN pool :
                     /\ pool[i].stk \in Shares
                     /\ x.s \in {"S1", "S4", "S10", "S13"} => R!Grade(pool[i]) # "REJECT"
                     /\ x.s = "S14" => pool[i].flu <= -30
                     /\ x.s \in {"S1", "S2", "S4", "S7", "S8", "S9", "S12", "S13", "S15"} => pool[i].flu > 0
<1>. DEFINE pool == R!Qualified(x.s, x.ranking, x.toss, x.named)
            taken == {row \in R!Range(x.ranking) : R!Takes(x.s, row)}
            added == {row \in R!Range(x.toss) : R!Within(R!TossBand(x.s), row.flu)}
<1>1. /\ Limit \in Nat \ {0} /\ IsRanking(x.ranking) /\ IsRanking(x.toss)
      /\ x.s = "S14" => \A i \in DOMAIN x.ranking : x.ranking[i].flu < 0
    BY PoolsAreRead
<1>2. /\ Lists(pool, {row \in taken \cup added : row.stk \in Shares})
      /\ Len(pool) <= Limit
      /\ x.s \in {"S1", "S4", "S10", "S13"} => \A i \in 1..Len(pool) : R!Grade(pool[i]) # "REJECT"
    BY <1>1, QualifiedLists
<1>3. ASSUME NEW row \in taken
      PROVE  /\ x.s = "S14" => row.flu <= -30
             /\ x.s \in {"S1", "S2", "S4", "S7", "S8", "S9", "S12", "S13", "S15"} => row.flu > 0
  <2>1. row.flu \in Int /\ (x.s = "S14" => row.flu < 0)
      BY <1>1 DEF IsRanking, R!Range
  <2>. QED
      BY <2>1, RowsOfBand
<1>4. ASSUME NEW row \in added
      PROVE  /\ x.s = "S14" => row.flu <= -30
             /\ x.s \in {"S1", "S2", "S4", "S7", "S8", "S9", "S12", "S13", "S15"} => row.flu > 0
  <2>1. row.flu \in Int
      BY <1>1 DEF IsRanking, R!Range
  <2>. QED
      BY <2>1, RowsOfBand
<1>. HIDE DEF pool, taken, added
<1>5. /\ DOMAIN pool = 1..Len(pool)
      /\ \A i, j \in 1..Len(pool) : pool[i].stk = pool[j].stk => i = j
      /\ \A i \in 1..Len(pool) : pool[i] \in {row \in taken \cup added : row.stk \in Shares}
    BY <1>2 DEF Lists
<1>6. \A i \in DOMAIN pool :
          /\ pool[i].stk \in Shares
          /\ x.s \in {"S1", "S4", "S10", "S13"} => R!Grade(pool[i]) # "REJECT"
          /\ x.s = "S14" => pool[i].flu <= -30
          /\ x.s \in {"S1", "S2", "S4", "S7", "S8", "S9", "S12", "S13", "S15"} => pool[i].flu > 0
    BY <1>2, <1>3, <1>4, <1>5
<1>7. /\ Len(pool) <= Limit
      /\ \A i, j \in DOMAIN pool : pool[i].stk = pool[j].stk => i = j
    BY <1>2, <1>5
<1>. QED
    BY <1>6, <1>7 DEF pool

-----------------------------------------------------------------------------
(* Where a stock ranks.                                                    *)

LEMMA GreatestWeight ==
    ASSUME NEW strategies \in SUBSET S!Strategies, strategies # {}
    PROVE  R!Max({R!StrategyWeight(s) : s \in strategies}) \in 15..30
<1>. DEFINE weights == {R!StrategyWeight(s) : s \in strategies}
<1>1. \A s : R!StrategyWeight(s) \in {15, 18, 20, 25, 30}
    BY DEF R!StrategyWeight
<1>2. weights \subseteq {15, 18, 20, 25, 30} /\ weights # {}
    BY <1>1
<1>. HIDE DEF weights
<1>3. \E w \in weights : \A v \in weights : w >= v
  <2>1. CASE 30 \in weights
      BY <1>2, <2>1
  <2>2. CASE 30 \notin weights /\ 25 \in weights
      BY <1>2, <2>2
  <2>3. CASE 30 \notin weights /\ 25 \notin weights /\ 20 \in weights
      BY <1>2, <2>3
  <2>4. CASE 30 \notin weights /\ 25 \notin weights /\ 20 \notin weights /\ 18 \in weights
      BY <1>2, <2>4
  <2>5. CASE 30 \notin weights /\ 25 \notin weights /\ 20 \notin weights /\ 18 \notin weights
    <3>1. weights \subseteq {15}
        BY <1>2, <2>5
    <3>2. PICK w \in weights : TRUE
        BY <1>2
    <3>3. \A v \in weights : w >= v
        BY <3>1
    <3>. QED
        BY <3>3
  <2>. QED
      BY <2>1, <2>2, <2>3, <2>4, <2>5
<1>4. R!Max(weights) \in weights
    BY <1>3 DEF R!Max
<1>. QED
    BY <1>2, <1>4 DEF weights

LEMMA LiveScoreIsBounded == \A sources : R!LiveScore(sources) \in 0..100
<1>. TAKE sources
<1>1. \A k \in DOMAIN R!LiveWeight : (IF k \in sources THEN R!LiveWeight[k] ELSE 0) \in {0, R!LiveWeight[k]}
    OBVIOUS
<1>. QED
    BY <1>1 DEF R!LiveScore, R!LiveWeight

\* What the strategies and the age of its assessment add to the priority of a stock, and what it adds itself.
Shared(strategies, age) ==
    R!Max({R!StrategyWeight(s) : s \in strategies})
    + (CASE age <= 10 -> 15 [] age <= 30 -> 10 [] age <= 60 -> 5 [] OTHER -> 0)
    + R!Min({5 * R!Cardinality(strategies), 10})
    + (IF strategies \cap {"S1", "S2", "S4", "S13"} # {} THEN 5 ELSE 0)
Own(row) == R!GradeBonus(R!Grade(row)) + (R!LiquidityScore(row) * 15) \div 100

LEMMA PriorityIsBounded ==
    ASSUME NEW strategies \in SUBSET S!Strategies, strategies # {}, NEW row, NEW age, NEW sources
    PROVE  /\ Shared(strategies, age) \in 15..60 /\ Own(row) \in Int
           /\ \E live \in 0..300 :
                  R!WatchlistPriority(strategies, row, TRUE, age, sources)
                      = LET all == 10 * (Shared(strategies, age) + Own(row)) + live IN IF all >= 0 THEN all ELSE 0
<1>. DEFINE weight == R!Max({R!StrategyWeight(s) : s \in strategies})
            fresh == CASE age <= 10 -> 15 [] age <= 30 -> 10 [] age <= 60 -> 5 [] OTHER -> 0
            many == R!Min({5 * R!Cardinality(strategies), 10})
            urgent == IF strategies \cap {"S1", "S2", "S4", "S13"} # {} THEN 5 ELSE 0
            grade == R!GradeBonus(R!Grade(row))
            liquid == (R!LiquidityScore(row) * 15) \div 100
            live == R!Min({3 * R!LiveScore(sources), 300})
<1>1. weight \in 15..30
    BY GreatestWeight
<1>2. fresh \in 0..15
    OBVIOUS
<1>3. many \in 0..10
  <2>1. IsFiniteSet(S!Strategies)
    <3>. DEFINE of == <<"S1", "S2", "S3", "S4", "S5", "S6", "S7", "S8", "S9", "S10", "S11", "S12", "S13",
                        "S14", "S15", "S16">>
    <3>1. of \in [1..16 -> S!Strategies] /\ \A s \in S!Strategies : \E i \in 1..16 : of[i] = s
        BY DEF S!Strategies, S!DayStrategies, S!SwingStrategies
    <3>2. IsFiniteSet(1..16)
        BY UpToIsFinite
    <3>. HIDE DEF of
    <3>3. of \in Surjection(1..16, S!Strategies)
        BY <3>1 DEF Surjection
    <3>. QED
        BY <3>2, <3>3, FS_Surjection
  <2>2. Cardinality(strategies) \in Nat
      BY <2>1, FS_Subset, FS_CardinalityType
  <2>3. 5 * R!Cardinality(strategies) \in Nat
    <3>1. R!Cardinality(strategies) = Cardinality(strategies)
        BY DEF R!Cardinality, Cardinality
    <3>. QED
        BY <2>2, <3>1
  <2>4. many = IF 5 * R!Cardinality(strategies) <= 10 THEN 5 * R!Cardinality(strategies) ELSE 10
      BY <2>3, LeastOf DEF R!Min
  <2>. QED
      BY <2>3, <2>4
<1>4. urgent \in 0..5
    OBVIOUS
<1>5. grade \in Int
    BY DEF R!GradeBonus
<1>6. liquid \in Int
  <2>1. R!LiquidityScore(row) \in {90, 70, 50, 30, 60, 40}
      BY DEF R!LiquidityScore
  <2>. QED
      BY <2>1
<1>7. live \in 0..300
  <2>1. 3 * R!LiveScore(sources) \in 0..300
      BY LiveScoreIsBounded
  <2>2. live = IF 3 * R!LiveScore(sources) <= 300 THEN 3 * R!LiveScore(sources) ELSE 300
      BY <2>1, LeastOf DEF R!Min
  <2>. QED
      BY <2>1, <2>2
<1>8. R!WatchlistPriority(strategies, row, TRUE, age, sources)
          = R!Max({10 * (weight + grade + fresh + liquid + many + urgent) + live, 0})
  <2>. DEFINE aged == CASE ~TRUE -> 5 [] age <= 10 -> 15 [] age <= 30 -> 10 [] age <= 60 -> 5 [] OTHER -> 0
              graded == R!GradeBonus(IF TRUE THEN R!Grade(row) ELSE "C")
              liquids == ((IF TRUE THEN R!LiquidityScore(row) ELSE 50) * 15) \div 100
  <2>1. aged = fresh /\ graded = grade /\ liquids = liquid
      OBVIOUS
  <2>2. R!WatchlistPriority(strategies, row, TRUE, age, sources)
            = R!Max({10 * (weight + graded + aged + liquids + many + urgent) + live, 0})
      BY DEF R!WatchlistPriority
  <2>. HIDE DEF weight, graded, aged, liquids, many, urgent, live, fresh, grade, liquid
  <2>. QED
      BY <2>1, <2>2
<1>. HIDE DEF weight, fresh, many, urgent, grade, liquid, live
<1>9. 10 * (weight + grade + fresh + liquid + many + urgent) + live
          = 10 * (weight + fresh + many + urgent + (grade + liquid)) + live
    BY <1>1, <1>2, <1>3, <1>4, <1>5, <1>6, <1>7
<1>. DEFINE total == 10 * (weight + fresh + many + urgent + (grade + liquid)) + live
<1>10. total \in Int /\ weight + fresh + many + urgent \in 15..60 /\ grade + liquid \in Int
    BY <1>1, <1>2, <1>3, <1>4, <1>5, <1>6, <1>7
<1>. HIDE DEF total
<1>11. R!Max({total, 0}) = IF total >= 0 THEN total ELSE 0
    BY <1>10, GreatestOf DEF R!Max
<1>12. R!WatchlistPriority(strategies, row, TRUE, age, sources) = IF total >= 0 THEN total ELSE 0
    BY <1>8, <1>9, <1>11 DEF total
<1>. QED
  <2>1. Shared(strategies, age) = weight + fresh + many + urgent /\ Own(row) = grade + liquid
      BY DEF Shared, Own, weight, fresh, many, urgent, grade, liquid
  <2>2. total = 10 * (Shared(strategies, age) + Own(row)) + live
      BY <2>1 DEF total
  <2>. QED
      BY <1>7, <1>10, <1>12, <2>1, <2>2

LEMMA RejectedRanksBelow ==
    ASSUME NEW x \in Inputs("rank")
    PROVE  R!WatchlistPriority(x.of.strategies, x.bad, TRUE, x.of.age, x.more)
               < R!WatchlistPriority(x.of.strategies, x.good, TRUE, x.of.age, x.of.sources)
<1>1. /\ x.of.strategies \in SUBSET S!Strategies /\ x.of.strategies # {}
      /\ R!Grade(x.bad) = "REJECT" /\ R!Grade(x.good) # "REJECT"
    BY RanksAreRead
<1>2. Own(x.bad) <= -17 /\ Own(x.bad) \in Int
  <2>1. R!GradeBonus(R!Grade(x.bad)) = -30
      BY <1>1 DEF R!GradeBonus
  <2>2. R!LiquidityScore(x.bad) \in {90, 70, 50, 30, 60, 40}
      BY DEF R!LiquidityScore
  <2>. QED
      BY <2>1, <2>2 DEF Own
<1>3. Own(x.good) >= 14 /\ Own(x.good) \in Int
  <2>1. R!Grade(x.good) \in {"A", "B", "C"}
      BY <1>1 DEF R!Grade
  <2>2. R!GradeBonus(R!Grade(x.good)) \in {25, 18, 10}
      BY <2>1 DEF R!GradeBonus
  <2>3. R!LiquidityScore(x.good) \in {90, 70, 50, 30, 60, 40}
      BY DEF R!LiquidityScore
  <2>. QED
      BY <2>2, <2>3 DEF Own
<1>. DEFINE common == Shared(x.of.strategies, x.of.age)
<1>4. PICK live \in 0..300 : R!WatchlistPriority(x.of.strategies, x.bad, TRUE, x.of.age, x.more)
                = LET all == 10 * (common + Own(x.bad)) + live IN IF all >= 0 THEN all ELSE 0
    BY <1>1, PriorityIsBounded
<1>5. PICK more \in 0..300 : R!WatchlistPriority(x.of.strategies, x.good, TRUE, x.of.age, x.of.sources)
                = LET all == 10 * (common + Own(x.good)) + more IN IF all >= 0 THEN all ELSE 0
    BY <1>1, PriorityIsBounded
<1>6. common \in 15..60
    BY <1>1, PriorityIsBounded
<1>. HIDE DEF common
<1>7. (LET all == 10 * (common + Own(x.bad)) + live IN IF all >= 0 THEN all ELSE 0)
          < LET all == 10 * (common + Own(x.good)) + more IN IF all >= 0 THEN all ELSE 0
    BY <1>2, <1>3, <1>6
<1>. QED
    BY <1>4, <1>5, <1>7

\* The candidates_builder's lists.
PoolInv ==
    /\ input \in Inputs(input.fn)
    /\ Of("pool") => result = <<R!Qualified(input.s, input.ranking, input.toss, input.named)>>
    /\ Of("rank") =>
           result = <<R!WatchlistPriority(input.of.strategies, input.bad, TRUE, input.of.age, input.more),
                      R!WatchlistPriority(input.of.strategies, input.good, TRUE, input.of.age, input.of.sources)>>

LEMMA PoolIsInvariant == Spec => []PoolInv
<1>1. Init => PoolInv
    BY DEF Init, PoolInv, Of
<1>2. PoolInv /\ [Next]_vars => PoolInv'
  <2>. SUFFICES ASSUME PoolInv, [Next]_vars PROVE PoolInv'
      OBVIOUS
  <2>1. CASE Next
    <3>1. /\ result = <<>> /\ UNCHANGED input
          /\ input.fn = "pool" => EvaluatePool
          /\ input.fn = "rank" => EvaluateRank
        BY <2>1, EvaluatesOnce
    <3>. QED
        BY <3>1 DEF PoolInv, Of, EvaluatePool, EvaluateRank
  <2>2. CASE UNCHANGED vars
      BY <2>2 DEF PoolInv, Of, vars
  <2>. QED
      BY <2>1, <2>2
<1>. QED
    BY <1>1, <1>2, PTL DEF Spec

\* Whatever the rankings and Toss say, a strategy's pool holds its shares, each once and as the
\* strategy asks, and a rejected stock is watched after every other (candidates_builder.py).
THEOREM PoolsAlwaysQualified == Spec => []PoolsAreQualified
<1>1. PoolInv => PoolsAreQualified
  <2>. SUFFICES ASSUME PoolInv PROVE PoolsAreQualified
      OBVIOUS
  <2>1. PoolIsQualified
    <3>. SUFFICES ASSUME Of("pool") PROVE PoolIsQualified
        BY DEF PoolIsQualified
    <3>1. input \in Inputs("pool")
        BY DEF PoolInv, Of
    <3>2. result[1] = R!Qualified(input.s, input.ranking, input.toss, input.named)
        BY DEF PoolInv
    <3>. QED
        BY <3>1, <3>2, PoolHolds DEF PoolIsQualified
  <2>2. RejectedNeverOutranks
    <3>. SUFFICES ASSUME Of("rank") PROVE result[1] < result[2]
        BY DEF RejectedNeverOutranks
    <3>1. input \in Inputs("rank")
        BY DEF PoolInv, Of
    <3>2. /\ result[1] = R!WatchlistPriority(input.of.strategies, input.bad, TRUE, input.of.age, input.more)
          /\ result[2] = R!WatchlistPriority(input.of.strategies, input.good, TRUE, input.of.age, input.of.sources)
      <4>. DEFINE low == R!WatchlistPriority(input.of.strategies, input.bad, TRUE, input.of.age, input.more)
                  high == R!WatchlistPriority(input.of.strategies, input.good, TRUE, input.of.age,
                                              input.of.sources)
      <4>1. result = <<low, high>>
          BY DEF PoolInv
      <4>. HIDE DEF low, high
      <4>2. result[1] = low /\ result[2] = high
          BY <4>1
      <4>. QED
          BY <4>2 DEF low, high
    <3>. QED
        BY <3>1, <3>2, RejectedRanksBelow
  <2>. QED
      BY <2>1, <2>2 DEF PoolsAreQualified
<1>. QED
    BY <1>1, PoolIsInvariant, PTL

-----------------------------------------------------------------------------
(* What /score answers: the tables of its rule score are those of the      *)
(* queue.                                                                  *)

LEMMA SameTables ==
    /\ \A x, rows : S!AtLeast(x, rows) = D!AtLeast(x, rows) /\ S!Above(x, rows) = D!Above(x, rows)
                    /\ S!Between(x, rows) = D!Between(x, rows)
    /\ \A x, most : S!Clamp(x, most) = D!Clamp(x, most)
    /\ \A few : S!Min(few) = D!Min(few) /\ S!Max(few) = D!Max(few)
<1>1. \A few : S!Min(few) = D!Min(few) /\ S!Max(few) = D!Max(few)
    BY DEF S!Min, D!Min, S!Max, D!Max
<1>2. \A rows, hit : S!PointsOf(rows, hit) = D!PointsOf(rows, hit)
    BY <1>1 DEF S!PointsOf, D!PointsOf
<1>3. \A x, rows : S!AtLeast(x, rows) = D!AtLeast(x, rows)
    BY <1>2 DEF S!AtLeast, D!AtLeast
<1>4. \A x, rows : S!Above(x, rows) = D!Above(x, rows)
    BY <1>2 DEF S!Above, D!Above
<1>5. \A x, rows : S!Between(x, rows) = D!Between(x, rows)
    BY <1>2 DEF S!Between, D!Between
<1>6. \A x, most : S!Clamp(x, most) = D!Clamp(x, most)
    BY <1>1 DEF S!Clamp, D!Clamp
<1>. QED
    BY <1>1, <1>3, <1>4, <1>5, <1>6

\* What a bonus and a penalty come to, for a reading of /score.
Asked(in) ==
    /\ in.s \in S!Strategies /\ in.zone.low = 0 /\ in.minute \in Int /\ in.value = 0 /\ in.sector = 0
    /\ in.toss = [short |-> 0, margin |-> 0, severe |-> FALSE, caution |-> FALSE]

LEMMA AskedBonuses ==
    ASSUME NEW in, Asked(in), NEW regime
    PROVE  /\ S!ZoneBonus(in) = 0 /\ S!TossBonus(in) = 0
           /\ S!TimeBonus(in.s, in.minute) \in {0, 5}
           /\ in.s \in {"S3", "S5", "S16"} => S!TimeBonus(in.s, in.minute) = 0
           /\ S!RegimeBonus(in.s, regime) \in 0..5
           /\ in.s \in {"S3", "S5", "S12"} => S!RegimeBonus(in.s, regime) = 0
           /\ S!RiskPenalty(in, regime) \in Nat
           /\ S!Flu(in) \in Int /\ S!Flu(in) <= 1000 /\ in.cap \in Int /\ (in.cap # None => in.cap >= 1500)
                => S!RiskPenalty(in, regime) <= 15
<1>1. S!ZoneBonus(in) = 0
    BY DEF S!ZoneBonus, Asked
<1>2. S!TossBonus(in) = 0
  <2>1. S!AtLeast(0, <<<<100, 8>>, <<50, 4>>>>) = 0
      BY SameTables, TwoAtLeast
  <2>. QED
      BY <2>1 DEF S!TossBonus, S!If, Asked
<1>3. S!TimeBonus(in.s, in.minute) \in {0, 5}
    BY DEF S!TimeBonus, S!If
<1>4. in.s \in {"S3", "S5", "S16"} => S!TimeBonus(in.s, in.minute) = 0
  <2>1. ASSUME in.s \in {"S3", "S5", "S16"} PROVE S!TimeBonus(in.s, in.minute) = S!If(0 <= in.minute /\ in.minute < 0, 5)
      BY <2>1 DEF S!TimeBonus
  <2>. QED
      BY <2>1 DEF S!If, Asked
<1>5. S!RegimeBonus(in.s, regime) \in 0..5
    BY DEF S!RegimeBonus, S!If
<1>6. in.s \in {"S3", "S5", "S12"} => S!RegimeBonus(in.s, regime) = 0
    BY DEF S!RegimeBonus, S!If
<1>. DEFINE heat == S!Above(S!Flu(in), <<<<1500, 20>>, <<1000, 10>>>>)
            hot == S!If(S!Flu(in) > 2500, 20)
            fall == S!If(S!Flu(in) < (IF regime = "bear" THEN -800 ELSE -500), 15)
            small == IF in.cap = None THEN 0 ELSE IF in.cap < 100 THEN 25 ELSE S!If(in.cap < 500, 15)
<1>7. /\ heat = IF S!Flu(in) > 1500 THEN 20 ELSE IF S!Flu(in) > 1000 THEN 10 ELSE 0
      /\ hot = IF S!Flu(in) > 2500 THEN 20 ELSE 0
      /\ fall \in {0, 15} /\ small \in {0, 15, 25}
    BY SameTables, TwoAbove DEF S!If
<1>8. S!If(0 < in.value /\ in.value < 1000, 10) = 0 /\ S!If(in.sector >= (IF regime = "bull" THEN 4 ELSE 3), 15) = 0
    BY DEF S!If, Asked
<1>9. S!RiskPenalty(in, regime) =
        (IF regime = "bull" THEN heat \div 2 ELSE heat) + fall + (IF regime = "bull" THEN hot \div 2 ELSE hot)
        + S!If(0 < in.value /\ in.value < 1000, 10)
        + S!If(in.sector >= (IF regime = "bull" THEN 4 ELSE 3), 15) + small
    BY DEF S!RiskPenalty
<1>10. S!Flu(in) \in Int /\ S!Flu(in) <= 1000 => heat = 0 /\ hot = 0
    BY <1>7
<1>11. (in.cap # None => in.cap >= 1500) /\ in.cap \in Int => small = 0
    BY DEF S!If
<1>. HIDE DEF heat, hot, fall, small
<1>12. S!RiskPenalty(in, regime) \in Nat
  <2>1. heat \in {0, 10, 20} /\ hot \in {0, 20}
      BY <1>7
  <2>. QED
      BY <2>1, <1>7, <1>8, <1>9
<1>13. ASSUME S!Flu(in) \in Int, S!Flu(in) <= 1000, in.cap \in Int, in.cap # None => in.cap >= 1500
       PROVE  S!RiskPenalty(in, regime) <= 15
    BY <1>7, <1>8, <1>9, <1>10, <1>11, <1>13
<1>. QED
    BY <1>1, <1>2, <1>3, <1>4, <1>5, <1>6, <1>12, <1>13

\* The sum of what a reading of /score is given.
LEMMA AskedScore ==
    ASSUME NEW in, Asked(in), S!BasePoints(in) \in Int, S!LinearPoints(in) \in Int
    PROVE  \E cond \in {0, 5, 10}, time \in {0, 5}, bonus \in 0..5, risk \in Nat :
             /\ S!RuleScore(in) =
                  LET exact == S!Clamp(100 * (S!BasePoints(in) + cond + time + bonus - risk) + S!LinearPoints(in),
                                       10000)
                  IN 10 * ((exact + 5) \div 10)
             /\ in.cond = 0 => cond = 0
             /\ in.cond = 4 => cond = 10
             /\ in.s \in {"S3", "S5", "S16"} => time = 0
             /\ in.s \in {"S3", "S5", "S12"} => bonus = 0
             /\ S!Flu(in) \in Int /\ S!Flu(in) <= 1000 /\ in.cap \in Int /\ (in.cap # None => in.cap >= 1500)
                  => risk <= 15
<1>. DEFINE regime == S!Regime(in.s, in.ctx)
            cond == S!AtLeast(in.cond, <<<<4, 10>>, <<3, 5>>>>)
            time == S!TimeBonus(in.s, in.minute)
            bonus == S!RegimeBonus(in.s, regime)
            risk == S!RiskPenalty(in, regime)
            points == S!BasePoints(in) + S!ZoneBonus(in) + cond + time + bonus + S!TossBonus(in) - risk
<1>1. S!RuleScore(in) = LET exact == S!Clamp(100 * points + S!LinearPoints(in), 10000)
                        IN 10 * ((exact + 5) \div 10)
    BY DEF S!RuleScore
<1>2. /\ S!ZoneBonus(in) = 0 /\ S!TossBonus(in) = 0
      /\ time \in {0, 5} /\ bonus \in 0..5 /\ risk \in Nat
      /\ in.s \in {"S3", "S5", "S16"} => time = 0
      /\ in.s \in {"S3", "S5", "S12"} => bonus = 0
      /\ S!Flu(in) \in Int /\ S!Flu(in) <= 1000 /\ in.cap \in Int /\ (in.cap # None => in.cap >= 1500)
            => risk <= 15
    BY AskedBonuses
<1>3. cond \in {0, 5, 10} /\ (in.cond = 0 => cond = 0) /\ (in.cond = 4 => cond = 10)
    BY SameTables, TwoAtLeast
<1>. HIDE DEF cond, time, bonus, risk
<1>4. points = S!BasePoints(in) + cond + time + bonus - risk
    BY <1>2, <1>3
<1>. HIDE DEF points
<1>. QED
    BY <1>1, <1>2, <1>3, <1>4

\* The parts of the score of accumulation, each within its points.
LEMMA AccumulationIsBounded ==
    ASSUME NEW candles
    PROVE  S!AccumulationScore(candles) \in 0..3000
<1>1. S!VolumeStructure(candles) \in Nat
  <2>1. S!AtLeast(S!UpDownRatio(candles), <<<<140, 1200>>, <<115, 800>>>>) \in {0, 800, 1200}
      BY SameTables, TwoAtLeast
  <2>. QED
      BY <2>1 DEF S!VolumeStructure, S!If
<1>. DEFINE cur == candles[1].cur
            width == S!Rise(cur + S!HighOf(candles, S!BoxDays) - S!LowOf(candles, 1, S!BoxDays), cur)
            before == S!LowOf(candles, S!HalfDays + 1, 2 * S!HalfDays)
            rising == before > 0 /\ 100 * S!LowOf(candles, 1, S!HalfDays) > 98 * before
            box == S!Between(width, <<<<800, 3500, 1800>>, <<3501, 5000, 1000>>>>)
            points == box + S!If(rising, 1200) + S!VolumeStructure(candles)
<1>2. S!AccumulationScore(candles) = (S!Min({5000, points}) * 30) \div 50
    BY DEF S!AccumulationScore
<1>3. box \in {0, 1000, 1800}
    BY SameTables, TwoBetween
<1>. HIDE DEF box
<1>4. S!If(rising, 1200) \in {0, 1200}
    BY DEF S!If
<1>. HIDE DEF rising
<1>5. points \in Nat
    BY <1>1, <1>3, <1>4
<1>. HIDE DEF points
<1>. DEFINE least == S!Min({5000, points})
<1>6. least = IF 5000 <= points THEN 5000 ELSE points
    BY <1>5, SameTables, LeastCounts
<1>7. S!AccumulationScore(candles) = (least * 30) \div 50
    BY <1>2
<1>. HIDE DEF least
<1>8. least \in Nat /\ least <= 5000
    BY <1>5, <1>6
<1>9. \A n \in Nat : n <= 5000 => (n * 30) \div 50 \in 0..3000
    OBVIOUS
<1>. QED
    BY <1>7, <1>8, <1>9

LEMMA SupplyIsBounded ==
    ASSUME NEW daily, NEW flow
    PROVE  S!SupplyScore(daily, flow) \in 0..25
<1>. DEFINE sum == S!AtLeast(daily.latest, <<<<130, 5>>, <<115, 3>>>>)
                   + S!AtLeast(daily.avg5, <<<<125, 5>>, <<112, 3>>>>)
                   + S!If(daily.avg20 >= 110, 4) + S!If(daily.strongDays >= 4, 3)
                   + S!If(flow.smart > 0, 5) + S!If(flow.foreign > 0 /\ flow.institution > 0, 3)
                   + S!If(flow.program > 0, 2) + S!If(flow.programChange > 0, 1)
<1>1. S!SupplyScore(daily, flow) = S!Min({25, sum})
    BY DEF S!SupplyScore
<1>2. /\ S!AtLeast(daily.latest, <<<<130, 5>>, <<115, 3>>>>) \in Nat
      /\ S!AtLeast(daily.avg5, <<<<125, 5>>, <<112, 3>>>>) \in Nat
    BY SameTables, TwoAtLeast
<1>4. sum \in Nat
  <2>1. /\ S!If(daily.avg20 >= 110, 4) \in Nat /\ S!If(daily.strongDays >= 4, 3) \in Nat
        /\ S!If(flow.smart > 0, 5) \in Nat /\ S!If(flow.foreign > 0 /\ flow.institution > 0, 3) \in Nat
        /\ S!If(flow.program > 0, 2) \in Nat /\ S!If(flow.programChange > 0, 1) \in Nat
      BY DEF S!If
  <2>. QED
      BY <1>2, <2>1
<1>. HIDE DEF sum
<1>5. S!Min({25, sum}) = IF 25 <= sum THEN 25 ELSE sum
    BY <1>4, SameTables, LeastCounts
<1>. QED
    BY <1>1, <1>4, <1>5

LEMMA TriggerIsBounded ==
    ASSUME NEW candles, NEW strength, NEW bid
    PROVE  S!TriggerScore(candles, strength, bid) \in 0..2000
<1>1. S!AtLeast(strength, <<<<120, 800>>, <<110, 400>>>>) \in {0, 400, 800}
    BY SameTables, TwoAtLeast
<1>. DEFINE high == S!HighOf(candles, S!BoxDays)
            near == S!Rise(candles[1].cur, high)
            last == S!If(high > 0 /\ -400 <= near /\ near <= 300, 300)
<1>2. S!If(bid >= 130, 500) \in {0, 500} /\ S!If(S!VolumeRatio(candles) >= 150, 400) \in {0, 400}
      /\ last \in {0, 300}
    BY DEF S!If
<1>3. S!TriggerScore(candles, strength, bid) =
        S!AtLeast(strength, <<<<120, 800>>, <<110, 400>>>>) + S!If(bid >= 130, 500)
        + S!If(S!VolumeRatio(candles) >= 150, 400) + last
    BY DEF S!TriggerScore
<1>. HIDE DEF last
<1>. QED
    BY <1>1, <1>2, <1>3

LEMMA RiskIsBounded ==
    ASSUME NEW candles, NEW cap, NEW value
    PROVE  S!RiskScore(candles, cap, value) \in 0..1000
<1>. DEFINE cur == candles[1].cur
            close(i) == IF i <= Len(candles) THEN candles[i].cur ELSE 0
            run == S!Rise(cur, close(6)) > 2500 \/ S!Rise(cur, close(S!HalfDays + 1)) > 3500
            size == S!If(cap # 0 /\ (cap < 1500 \/ cap > 10000), 700)
            traded == S!If(0 < value /\ value < 20, 400)
            ran == S!If(run, 600)
<1>1. S!RiskScore(candles, cap, value) = S!Max({0, 1000 - size - traded - ran})
    BY DEF S!RiskScore
<1>2. size \in {0, 700} /\ traded \in {0, 400} /\ ran \in {0, 600}
    BY DEF S!If
<1>. HIDE DEF size, traded, ran
<1>. DEFINE rest == 1000 - size - traded - ran
<1>3. rest \in Int /\ rest <= 1000
    BY <1>2
<1>. HIDE DEF rest
<1>4. S!Max({0, rest}) = IF 0 >= rest THEN 0 ELSE rest
    BY <1>3, SameTables, GreatestCounts
<1>5. S!Max({0, rest}) \in 0..1000
    BY <1>3, <1>4
<1>. QED
    BY <1>1, <1>5 DEF rest

\* A stock that is TRIGGERED has bars, and its parts come to eighty points.
Enough(acc, supply, trigger, risk) ==
    /\ acc \in 0..3000 /\ supply \in 0..2500 /\ trigger \in 0..2000 /\ risk \in 0..1000
    /\ acc + supply + trigger + risk >= 8000
LEMMA TriggeredIsEnough ==
    ASSUME NEW p, S!S16Of(p).state = "TRIGGERED"
    PROVE  /\ ~(Len(p.candles) < Lookback)
           /\ Enough(S!S16Of(p).acc, S!S16Of(p).supply, S!S16Of(p).trigger, S!S16Of(p).risk)
<1>. DEFINE strength == [p.daily EXCEPT !.latest = IF @ = 0 THEN p.str ELSE @,
                                        !.avg5 = IF @ = 0 THEN p.str ELSE @]
            points == S!SupplyScore(strength, p.flow)
            in == [candles |-> p.candles, strength |-> p.str, bid |-> p.bid, cap |-> p.cap, value |-> p.value,
                   supply |-> points]
            acc == S!AccumulationScore(p.candles)
            supply == 100 * S!Clamp(points, 25)
            trigger == S!TriggerScore(p.candles, p.str, p.bid)
            risk == S!RiskScore(p.candles, p.cap, p.value)
            total == acc + supply + trigger + risk
            state == S!StateOf(total, trigger, risk, S!Levels(p.candles).rr)
<1>1. S!S16Of(p) = S!Metrics(in)
    BY DEF S!S16Of
<1>2. /\ in.candles = p.candles /\ in.strength = p.str /\ in.bid = p.bid /\ in.cap = p.cap
      /\ in.value = p.value /\ in.supply = points
    OBVIOUS
<1>3. S!Metrics(in) = IF Len(p.candles) < Lookback
                      THEN [state |-> "REJECTED", acc |-> 0, supply |-> 0, trigger |-> 0, risk |-> 0]
                      ELSE [state |-> state, acc |-> acc, supply |-> supply, trigger |-> trigger, risk |-> risk]
    BY <1>2 DEF S!Metrics
<1>. HIDE DEF strength
<1>4. acc \in 0..3000 /\ points \in 0..25 /\ trigger \in 0..2000 /\ risk \in 0..1000
    BY AccumulationIsBounded, SupplyIsBounded, TriggerIsBounded, RiskIsBounded
<1>. HIDE DEF in, acc, points, trigger, risk
<1>5. supply \in 0..2500
  <2>1. S!Clamp(points, 25) = points
      BY <1>4, SameTables, Clamped
  <2>. QED
      BY <1>4, <2>1
<1>. HIDE DEF supply
<1>6. state = "TRIGGERED" => total >= 8000
    BY DEF S!StateOf
<1>. HIDE DEF state
<1>7. ~(Len(p.candles) < Lookback)
    BY <1>1, <1>3
<1>8. S!S16Of(p) = [state |-> state, acc |-> acc, supply |-> supply, trigger |-> trigger, risk |-> risk]
    BY <1>1, <1>3, <1>7
<1>9. /\ S!S16Of(p).state = state /\ S!S16Of(p).acc = acc /\ S!S16Of(p).supply = supply
      /\ S!S16Of(p).trigger = trigger /\ S!S16Of(p).risk = risk
    BY <1>8
<1>10. acc + supply + trigger + risk >= 8000
    BY <1>6, <1>9
<1>. QED
  <2>1. Enough(acc, supply, trigger, risk)
      BY <1>4, <1>5, <1>10 DEF Enough
  <2>. QED
      BY <1>7, <1>9, <2>1


\* The parts of a reading that is TRIGGERED count in full.
LEMMA WithinIsKept ==
    ASSUME NEW most \in Nat, NEW n \in Int, 0 <= n, n <= most
    PROVE  S!Clamp(n, most) = n
<1>1. S!Clamp(n, most) = D!Clamp(n, most)
    BY SameTables
<1>2. D!Clamp(n, most) = IF n < 0 THEN 0 ELSE IF n > most THEN most ELSE n
    BY Clamped
<1>. QED
    BY <1>1, <1>2

LEMMA EnoughCounts ==
    ASSUME NEW acc, NEW supply, NEW trigger, NEW risk, Enough(acc, supply, trigger, risk)
    PROVE  /\ S!Clamp(acc, 3000) = acc /\ S!Clamp(supply, 2500) = supply
           /\ S!Clamp(trigger, 2000) = trigger /\ S!Clamp(risk, 1000) = risk
           /\ acc + supply + trigger + risk \in Int /\ acc + supply + trigger + risk >= 8000
<1>1. acc \in 0..3000 /\ supply \in 0..2500 /\ trigger \in 0..2000 /\ risk \in 0..1000
    BY DEF Enough
<1>2. acc + supply + trigger + risk >= 8000
    BY DEF Enough
<1>3. S!Clamp(acc, 3000) = acc
  <2>1. 3000 \in Nat /\ acc \in Int /\ 0 <= acc /\ acc <= 3000
      BY <1>1
  <2>. QED
      BY <2>1, WithinIsKept
<1>4. S!Clamp(supply, 2500) = supply
  <2>1. 2500 \in Nat /\ supply \in Int /\ 0 <= supply /\ supply <= 2500
      BY <1>1
  <2>. QED
      BY <2>1, WithinIsKept
<1>5. S!Clamp(trigger, 2000) = trigger
  <2>1. 2000 \in Nat /\ trigger \in Int /\ 0 <= trigger /\ trigger <= 2000
      BY <1>1
  <2>. QED
      BY <2>1, WithinIsKept
<1>6. S!Clamp(risk, 1000) = risk
  <2>1. 1000 \in Nat /\ risk \in Int /\ 0 <= risk /\ risk <= 1000
      BY <1>1
  <2>. QED
      BY <2>1, WithinIsKept
<1>7. acc + supply + trigger + risk \in Int
    BY <1>1
<1>. QED
    BY <1>2, <1>3, <1>4, <1>5, <1>6, <1>7

\* A stock that is TRIGGERED and that nothing of the risk penalises passes the rule score of S16.
LEMMA TriggeredScores ==
    ASSUME NEW p, S!S16Of(p).state = "TRIGGERED", p.minute \in Int, p.flu \in Int, p.flu <= 1000,
           p.cap \in Int, p.cap >= 1500
    PROVE  ~S!ShouldSkipAi(S!RuleScore(S!SignalOf(p, "S16", S!S16Of(p))), "S16")
<1>. DEFINE in == S!SignalOf(p, "S16", S!S16Of(p))
<1>1. Enough(S!S16Of(p).acc, S!S16Of(p).supply, S!S16Of(p).trigger, S!S16Of(p).risk)
    BY TriggeredIsEnough
<1>2. /\ Asked(in) /\ in.s = "S16" /\ in.cond = 4 /\ in.cap = p.cap
      /\ in.flu = p.flu /\ in.sigFlu = p.flu
    BY DEF Asked, S!SignalOf, S!Strategies, S!DayStrategies, S!SwingStrategies
<1>3. /\ in.acc = S!S16Of(p).acc /\ in.supply = S!S16Of(p).supply
      /\ in.trigger = S!S16Of(p).trigger /\ in.risk = S!S16Of(p).risk
    BY DEF S!SignalOf
<1>. HIDE DEF in
<1>4. S!Flu(in) \in Int /\ S!Flu(in) <= 1000
    BY <1>2 DEF S!Flu
<1>5. S!BasePoints(in) = 0
    BY <1>2 DEF S!BasePoints
<1>6. S!LinearPoints(in) \in Int /\ S!LinearPoints(in) >= 8000 /\ S!BasePoints(in) \in Int
  <2>1. Enough(in.acc, in.supply, in.trigger, in.risk)
      BY <1>1, <1>3
  <2>2. S!LinearPoints(in) = S!Clamp(in.acc, 3000) + S!Clamp(in.supply, 2500) + S!Clamp(in.trigger, 2000)
                             + S!Clamp(in.risk, 1000)
      BY <1>2 DEF S!LinearPoints
  <2>3. /\ S!Clamp(in.acc, 3000) = in.acc /\ S!Clamp(in.supply, 2500) = in.supply
        /\ S!Clamp(in.trigger, 2000) = in.trigger /\ S!Clamp(in.risk, 1000) = in.risk
        /\ in.acc + in.supply + in.trigger + in.risk \in Int
        /\ in.acc + in.supply + in.trigger + in.risk >= 8000
      BY <2>1, EnoughCounts
  <2>4. S!LinearPoints(in) = in.acc + in.supply + in.trigger + in.risk
      BY <2>2, <2>3
  <2>. QED
      BY <1>5, <2>3, <2>4
<1>7. PICK cond \in {0, 5, 10}, time \in {0, 5}, bonus \in 0..5, risk \in Nat :
         /\ S!RuleScore(in) =
              LET exact == S!Clamp(100 * (S!BasePoints(in) + cond + time + bonus - risk) + S!LinearPoints(in),
                                   10000)
              IN 10 * ((exact + 5) \div 10)
         /\ in.cond = 4 => cond = 10
         /\ S!Flu(in) \in Int /\ S!Flu(in) <= 1000 /\ in.cap \in Int /\ (in.cap # None => in.cap >= 1500)
              => risk <= 15
    BY <1>2, <1>6, AskedScore
<1>8. cond = 10 /\ risk <= 15
    BY <1>2, <1>4, <1>7
<1>. DEFINE sum == 100 * (S!BasePoints(in) + cond + time + bonus - risk) + S!LinearPoints(in)
            exact == S!Clamp(sum, 10000)
<1>9. sum \in Int /\ sum >= 7500
    BY <1>5, <1>6, <1>8
<1>10. S!RuleScore(in) = 10 * ((exact + 5) \div 10)
    BY <1>7
<1>. HIDE DEF sum
<1>11. exact = IF sum < 0 THEN 0 ELSE IF sum > 10000 THEN 10000 ELSE sum
    BY <1>9, SameTables, Clamped
<1>12. exact \in Int /\ exact >= 7500
    BY <1>9, <1>11
<1>. HIDE DEF exact
<1>13. S!RuleScore(in) \in Int /\ S!RuleScore(in) >= 7500
  <2>1. \A e \in Int : e >= 7500 => 10 * ((e + 5) \div 10) \in Int /\ 10 * ((e + 5) \div 10) >= 7500
      OBVIOUS
  <2>. QED
      BY <1>10, <1>12, <2>1
<1>. QED
    BY <1>13 DEF S!ShouldSkipAi, S!Threshold, in

-----------------------------------------------------------------------------
(* What /score reads, and what it answers.                                 *)

LEMMA SnapshotIsRead ==
    ASSUME NEW x \in Inputs("stock"), NEW p, p = S!CollectSnapshot(x)
    PROVE  /\ p.fresh = S!Quoted(x).fresh /\ p.flow = x.chart.flow /\ p.bars = x.chart.bars
           /\ p.candles = x.chart.candles /\ p.minute \in Int /\ p.flu \in Int /\ p.cap \in Int
<1>. DEFINE quoted == S!Quoted(x)
<1>1. DOMAIN quoted = {"cur", "hoga", "flu", "vol", "bid", "str", "online", "cap", "fresh"}
    BY DEF S!Quoted
<1>2. quoted.flu \in Int /\ quoted.cap \in Int
  <2>. DEFINE tick == IF x.tick = <<>> THEN [cur |-> 0, rate |-> 0, volume |-> 0, age |-> None] ELSE x.tick[1]
              cur == IF tick.cur # 0 THEN tick.cur ELSE x.lastClose
  <2>1. quoted.flu = S!SnapshotRate(tick.rate, cur, x.prevClose)
      BY DEF S!Quoted
  <2>2. quoted.cap = IF x.cap = None THEN 0 ELSE x.cap
      BY DEF S!Quoted
  <2>3. x.lastClose \in Int /\ x.prevClose \in Int /\ x.cap \in Int
      BY StocksAreRead
  <2>4. tick.cur \in Int /\ tick.rate \in Int
      BY StocksAreRead
  <2>. HIDE DEF tick
  <2>5. cur \in Int
      BY <2>3, <2>4
  <2>. HIDE DEF cur
  <2>6. \A a, b \in Int : b > 0 => ((a - b) * 10000) \div b \in Int
      BY DivClimbs
  <2>7. S!SnapshotRate(tick.rate, cur, x.prevClose) \in Int
      BY <2>3, <2>4, <2>5, <2>6 DEF S!SnapshotRate
  <2>. QED
      BY <2>1, <2>2, <2>3, <2>7
<1>3. p = [f \in DOMAIN quoted \cup DOMAIN x.chart |-> IF f \in DOMAIN quoted THEN quoted[f] ELSE x.chart[f]]
    BY DEF S!CollectSnapshot
<1>4. DOMAIN x.chart = ChartFields /\ x.chart.minute \in Int
    BY StocksAreRead
<1>. HIDE DEF quoted
<1>5. p.fresh = quoted.fresh /\ p.flu = quoted.flu /\ p.cap = quoted.cap
    BY <1>1, <1>3
<1>6. p.flow = x.chart.flow /\ p.bars = x.chart.bars /\ p.candles = x.chart.candles /\ p.minute = x.chart.minute
    BY <1>1, <1>3, <1>4 DEF ChartFields
<1>. QED
    BY <1>2, <1>4, <1>5, <1>6 DEF quoted

\* What a strategy answers, if it does.
LEMMA StockAnswers ==
    ASSUME NEW x, NEW ai, NEW p, p = S!CollectSnapshot(x)
    PROVE  /\ \A s \in DOMAIN S!ScoreStock(x, ai) :
                 /\ s \in S!Strategies /\ S!Matches(p, s)
                 /\ S!ScoreOneSignal(p, s, ai) # "none"
                 /\ S!ScoreStock(x, ai)[s] = S!ScoreOneSignal(p, s, ai)
           /\ \A s \in S!Strategies :
                 ~(p.cur <= 0 /\ p.bars = 0) /\ S!Matches(p, s) /\ S!ScoreOneSignal(p, s, ai) # "none"
                     => s \in DOMAIN S!ScoreStock(x, ai)
<1>. DEFINE matched == IF p.cur <= 0 /\ p.bars = 0 THEN {} ELSE {s \in S!Strategies : S!Matches(p, s)}
            answers == [s \in matched |-> S!ScoreOneSignal(p, s, ai)]
            given == {s \in DOMAIN answers : answers[s] # "none"}
<1>1. S!ScoreStock(x, ai) = S!Given(answers)
    BY DEF S!ScoreStock
<1>2. DOMAIN answers = matched /\ \A s \in matched : answers[s] = S!ScoreOneSignal(p, s, ai)
    OBVIOUS
<1>. HIDE DEF answers
<1>3. S!ScoreStock(x, ai) = [s \in given |-> answers[s]]
    BY <1>1 DEF S!Given, S!Restrict
<1>4. \A s \in matched : s \in S!Strategies /\ S!Matches(p, s)
    OBVIOUS
<1>5. ~(p.cur <= 0 /\ p.bars = 0) => \A s \in S!Strategies : S!Matches(p, s) => s \in matched
    OBVIOUS
<1>. HIDE DEF matched
<1>6. \A s : s \in given <=> s \in matched /\ S!ScoreOneSignal(p, s, ai) # "none"
    BY <1>2
<1>. HIDE DEF given
<1>. QED
    BY <1>2, <1>3, <1>4, <1>5, <1>6

\* An answer is one of four, and an entry is Claude's, on sources none of which is stale.
LEMMA ReadinessIsGuarded ==
    ASSUME NEW action, NEW p, NEW enableAi
    PROVE  /\ S!Readiness(action, p, enableAi) \in {"ENTER", "ENTER_CANDIDATE", "HOLD", "AVOID"}
           /\ S!Readiness(action, p, enableAi) = "ENTER" =>
                 action = "ENTER" /\ enableAi /\ \A x \in S!Sources : p.fresh[x] # "cancel"
           /\ S!ProgramDrops(p.flow) =>
                 S!Readiness(action, p, enableAi) \notin {"ENTER", "ENTER_CANDIDATE"}
<1>. DEFINE first == IF action = "ENTER" THEN IF enableAi THEN "ENTER" ELSE "ENTER_CANDIDATE"
                     ELSE IF action = "HOLD" THEN "HOLD" ELSE "AVOID"
            stale == \E x \in S!Sources : p.fresh[x] = "cancel"
            afterStale == IF stale /\ first = "ENTER" THEN "HOLD" ELSE first
<1>1. S!Readiness(action, p, enableAi) =
        IF S!ProgramDrops(p.flow) /\ afterStale \in {"ENTER", "ENTER_CANDIDATE"} THEN "HOLD" ELSE afterStale
    BY DEF S!Readiness
<1>2. /\ first \in {"ENTER", "ENTER_CANDIDATE", "HOLD", "AVOID"}
      /\ first = "ENTER" => action = "ENTER" /\ enableAi
    OBVIOUS
<1>. HIDE DEF first
<1>3. /\ afterStale \in {"ENTER", "ENTER_CANDIDATE", "HOLD", "AVOID"}
      /\ afterStale = "ENTER" => first = "ENTER" /\ ~stale
    BY <1>2
<1>4. ~stale => \A x \in S!Sources : p.fresh[x] # "cancel"
    OBVIOUS
<1>. HIDE DEF afterStale, stale
<1>. QED
    BY <1>1, <1>2, <1>3, <1>4

\* What is not too old, or was not read, is not older than its limit.
LEMMA NotTooOld ==
    ASSUME NEW age \in Int, NEW kind \in {"hoga", "tick", "strength", "vi_active", "vi_released"},
           S!Freshness(age, kind) # "cancel"
    PROVE  /\ kind = "hoga" => age <= 2000
           /\ kind \in {"tick", "vi_active"} => age <= 5000
           /\ kind = "vi_released" => age <= 20000
<1>1. age = None \/ ~(age > S!Cutoffs[kind].cancel)
    BY DEF S!Freshness
<1>2. /\ kind = "hoga" => S!Cutoffs[kind].cancel = 2000
      /\ kind \in {"tick", "vi_active"} => S!Cutoffs[kind].cancel = 5000
      /\ kind = "vi_released" => S!Cutoffs[kind].cancel = 20000
    BY DEF S!Cutoffs
<1>. QED
    BY <1>1, <1>2, NoneIsApart

\* The inputs the theorem is of, and what they became.
StockInv ==
    /\ input \in Inputs(input.fn)
    /\ Of("stock") => result = <<S!ScoreStock(input, input.ai)>>
LEMMA StockIsInvariant == Spec => []StockInv
<1>1. Init => StockInv
    BY DEF Init, StockInv, Of
<1>2. StockInv /\ [Next]_vars => StockInv'
  <2>. SUFFICES ASSUME StockInv, [Next]_vars PROVE StockInv'
      OBVIOUS
  <2>1. CASE Next
    <3>1. result = <<>> /\ UNCHANGED input /\ (input.fn = "stock" => EvaluateStock)
        BY <2>1, EvaluatesOnce
    <3>. QED
        BY <3>1 DEF StockInv, Of, EvaluateStock
  <2>2. CASE UNCHANGED vars
      BY <2>2 DEF StockInv, Of, vars
  <2>. QED
      BY <2>1, <2>2
<1>. QED
    BY <1>1, <1>2, PTL DEF Spec

LEMMA AnswerOfStock ==
    ASSUME StockInv, Of("stock")
    PROVE  input \in Inputs("stock") /\ result[1] = S!ScoreStock(input, input.ai)
<1>. DEFINE answers == S!ScoreStock(input, input.ai)
<1>1. input \in Inputs("stock") /\ result = <<answers>>
    BY DEF StockInv, Of
<1>. HIDE DEF answers
<1>2. result[1] = answers
    BY <1>1
<1>. QED
    BY <1>1, <1>2 DEF answers

LEMMA FreshStocks == StockInv => EnterIsFresh
<1>. SUFFICES ASSUME StockInv, Of("stock"), NEW s \in DOMAIN result[1], result[1][s] = "ENTER"
              PROVE  /\ input.ai = "ENTER" /\ input.hogaAge <= 2000
                     /\ (input.tick # <<>> => input.tick[1].age <= 5000)
                     /\ input.viAge <= (IF input.viActive THEN 5000 ELSE 20000)
    BY DEF EnterIsFresh
<1>. DEFINE p == S!CollectSnapshot(input)
            fresh == S!Quoted(input).fresh
<1>1. input \in Inputs("stock") /\ result[1] = S!ScoreStock(input, input.ai)
    BY AnswerOfStock
<1>2. S!ScoreOneSignal(p, s, input.ai) = "ENTER"
    BY <1>1, StockAnswers
<1>3. p.fresh = fresh
    BY <1>1, SnapshotIsRead
<1>4. S!Readiness(S!ActionOf(input.ai), p, input.ai # "off") = "ENTER"
    BY <1>2 DEF S!ScoreOneSignal
<1>5. S!ActionOf(input.ai) = "ENTER" /\ input.ai # "off" /\ \A x \in S!Sources : p.fresh[x] # "cancel"
    BY <1>4, ReadinessIsGuarded
<1>6. input.ai = "ENTER"
    BY <1>5 DEF S!ActionOf
<1>. HIDE DEF p
<1>7. fresh.tick # "cancel" /\ fresh.hoga # "cancel" /\ fresh.vi # "cancel"
    BY <1>3, <1>5 DEF S!Sources
<1>8. /\ fresh.hoga = S!Freshness(input.hogaAge, "hoga")
      /\ fresh.vi = S!Freshness(input.viAge, IF input.viActive THEN "vi_active" ELSE "vi_released")
      /\ input.tick # <<>> => fresh.tick = S!Freshness(input.tick[1].age, "tick")
    BY DEF S!Quoted
<1>. HIDE DEF fresh
<1>9. /\ input.hogaAge \in Int /\ input.viAge \in Int
      /\ input.tick # <<>> => input.tick[1].age \in Int
    BY <1>1, StocksAreRead
<1>10. input.hogaAge <= 2000
    BY <1>7, <1>8, <1>9, NotTooOld
<1>11. input.tick # <<>> => input.tick[1].age <= 5000
    BY <1>7, <1>8, <1>9, NotTooOld
<1>12. input.viAge <= (IF input.viActive THEN 5000 ELSE 20000)
  <2>1. CASE input.viActive
    <3>1. S!Freshness(input.viAge, "vi_active") # "cancel"
        BY <1>7, <1>8, <2>1
    <3>2. input.viAge <= 5000
        BY <1>9, <3>1, NotTooOld
    <3>. QED
        BY <2>1, <3>2
  <2>2. CASE ~input.viActive
    <3>1. S!Freshness(input.viAge, "vi_released") # "cancel"
        BY <1>7, <1>8, <2>2
    <3>2. input.viAge <= 20000
        BY <1>9, <3>1, NotTooOld
    <3>. QED
        BY <2>2, <3>2
  <2>. QED
      BY <2>1, <2>2
<1>. QED
    BY <1>6, <1>10, <1>11, <1>12

LEMMA HeldBackStocks == StockInv => ProgramSellersHoldBack
<1>. SUFFICES ASSUME StockInv, Of("stock"), S!ProgramDrops(input.chart.flow), NEW s \in DOMAIN result[1]
              PROVE  result[1][s] \notin {"ENTER", "ENTER_CANDIDATE"}
    BY DEF ProgramSellersHoldBack
<1>. DEFINE p == S!CollectSnapshot(input)
<1>1. input \in Inputs("stock") /\ result[1] = S!ScoreStock(input, input.ai)
    BY AnswerOfStock
<1>2. result[1][s] = S!ScoreOneSignal(p, s, input.ai)
    BY <1>1, StockAnswers
<1>3. S!ProgramDrops(p.flow)
    BY <1>1, SnapshotIsRead
<1>4. S!Readiness(S!ActionOf(input.ai), p, input.ai # "off") \notin {"ENTER", "ENTER_CANDIDATE"}
    BY <1>3, ReadinessIsGuarded
<1>. QED
    BY <1>2, <1>4 DEF S!ScoreOneSignal

LEMMA TriggeredStocks == StockInv => TriggeredPassesRule
<1>. SUFFICES ASSUME StockInv, Of("stock"), NEW p, p = S!CollectSnapshot(input), S!Matches(p, "S16"),
                     p.cap >= 1500, p.flu <= 1000, ~S!ProgramDrops(p.flow)
              PROVE  "S16" \in DOMAIN result[1]
    BY DEF TriggeredPassesRule
<1>1. input \in Inputs("stock") /\ result[1] = S!ScoreStock(input, input.ai)
    BY AnswerOfStock
<1>2. /\ p.bars = input.chart.bars /\ p.candles = input.chart.candles
      /\ p.minute \in Int /\ p.flu \in Int /\ p.cap \in Int
    BY <1>1, SnapshotIsRead
<1>3. S!S16Of(p).state = "TRIGGERED"
    BY DEF S!Matches
<1>4. ~S!ShouldSkipAi(S!RuleScore(S!SignalOf(p, "S16", S!S16Of(p))), "S16")
    BY <1>2, <1>3, TriggeredScores
<1>5. p.bars # 0
  <2>1. ~(Len(p.candles) < Lookback)
      BY <1>3, TriggeredIsEnough
  <2>2. Lookback \in Nat \ {0} /\ (input.chart.bars = 0 => Len(input.chart.candles) = 0)
      BY <1>1, StocksAreRead
  <2>. QED
      BY <1>2, <2>1, <2>2
<1>6. S!ScoreOneSignal(p, "S16", input.ai) # "none"
  <2>1. S!Readiness(S!ActionOf(input.ai), p, input.ai # "off") # "none"
      BY ReadinessIsGuarded
  <2>. QED
      BY <1>4, <2>1 DEF S!ScoreOneSignal
<1>7. "S16" \in S!Strategies
    BY DEF S!Strategies, S!SwingStrategies
<1>. QED
    BY <1>1, <1>5, <1>6, <1>7, StockAnswers

\* stockScore.py: whatever is read of a stock, /score answers ENTER only on Claude's word and on fresh
\* sources and never while programs sell, and answers with S16 whenever it is TRIGGERED and the scorer
\* finds no penalty.
THEOREM StockAnswersAlwaysHold == Spec => []StockAnswersHold
<1>1. StockInv => StockAnswersHold
    BY FreshStocks, HeldBackStocks, TriggeredStocks DEF StockAnswersHold
<1>. QED
    BY <1>1, StockIsInvariant, PTL

=============================================================================
