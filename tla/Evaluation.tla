----------------------------- MODULE Evaluation -----------------------------
(***************************************************************************)
(* The parts of the engine that only compute.  One step computes the       *)
(* result of an input; where a property compares two results, the input    *)
(* says how the second one differs.                                        *)
(***************************************************************************)
EXTENDS Integers, Sequences

CONSTANTS None, NoText,         \* a missing number, below every other, and a missing text
          Fee, ZoneGate, BoxPeriod, Lookback, FamilyRouting,
          FamilyTable,          \* the family of a strategy, for the answers of Claude
          Shares, Limit,        \* the stocks that are shares, the length of a pool
          Inputs(_)             \* the inputs of a part

VARIABLES input, result
vars == <<input, result>>

T == INSTANCE TpSl
D == INSTANCE Decision
Z == INSTANCE Zones
P == INSTANCE Prices
O == INSTANCE PositionRules
K == INSTANCE AiContract WITH None <- NoText, NoScore <- None, FamilyOf <- FamilyTable, FamilyRouting <- TRUE
R == INSTANCE CandidateRanking WITH QualityFilter <- TRUE
C == INSTANCE Scans
X == INSTANCE ExecutionQuality
S == INSTANCE StockScore

-----------------------------------------------------------------------------
(* How the second input of a pair differs. *)

\* The reading that is raised: never lowered.
RaisedDecision(d) ==
    CASE d.field = "strength" -> [d EXCEPT !.m.strength.avg = S!Max({@, d.to})]
      [] d.field = "bid" -> [d EXCEPT !.m.hoga.bid = S!Max({@, d.to})]
      [] d.field = "rr" -> [d EXCEPT !.sig.rr = S!Max({@, d.to})]
      [] d.field = "ai" -> [d EXCEPT !.ai.score = S!Max({@, d.to})]
      [] OTHER -> d

Weaker(answer, weakness) ==
    CASE weakness = "action" -> [answer EXCEPT !.action = IF @ = "ENTER" THEN "HOLD" ELSE "CANCEL"]
      [] weakness = "confidence" -> [answer EXCEPT !.confidence = IF @ = "HIGH" THEN "MEDIUM" ELSE "LOW"]
      [] weakness = "score" -> [answer EXCEPT !.score = IF @ \in 1..1000 THEN 0 ELSE @]
Riskier(in, risk) ==
    CASE risk = "chase" -> [in EXCEPT !.chase = @ + 30]  [] risk = "heat" -> [in EXCEPT !.heat = 90]
      [] risk = "stale" -> [in EXCEPT !.stale = TRUE]    [] risk = "spread" -> [in EXCEPT !.spread = 60]
      [] risk = "candidate" -> [in EXCEPT !.candidate = IF @ = "A" THEN "B" ELSE "C"]
      [] risk = "rescued" -> [in EXCEPT !.rescued = TRUE]
      [] risk = "execution" -> [in EXCEPT !.execution = "REJECT"]

Worse(in, how, by) ==
    CASE how = "ask" -> [in EXCEPT !.book[1].ask = @ + by]
      [] how = "sell" -> [in EXCEPT !.book[1].sell = @ + by]
      [] how = "price" -> [in EXCEPT !.price = @ - by]
      [] how = "context" -> [in EXCEPT !.gap = @ + by, !.extension = @ + by]

\* What was read gets worse, what was not stays so.
Less(x, by) == IF x = None THEN None ELSE x - by
WeakerGap(in, how, by) ==
    CASE how = "strength" -> [in EXCEPT !.strength = @ - by]
      [] how = "bid" -> [in EXCEPT !.bid = Less(@, by)]
      [] how = "rr" -> [in EXCEPT !.rr = Less(@, by)]
      [] how = "age" -> [in EXCEPT !.age = Less(@, -by)]
      [] how = "ageless" -> [in EXCEPT !.age = None]
      [] how = "decay" -> [in EXCEPT !.decay = Less(@, by)]
      [] how = "extension" -> [in EXCEPT !.extension = @ + by]
      [] how = "grade" -> [in EXCEPT !.grade = "REJECT"]
      [] how = "vwap" -> [in EXCEPT !.vwap = "BELOW_VWAP"]

\* The reading that is raised: what was read, never what was not.
Raised(in, field, to) ==
    CASE field = "live" /\ in.live # None -> [in EXCEPT !.live = S!Max({@, to})]
      [] field = "tick" /\ in.tick # <<>> -> [in EXCEPT !.tick[1].str = S!Max({@, to})]
      [] field = "rest" -> [in EXCEPT !.rest = S!Max({@, to})]
      [] field = "ratio" -> [in EXCEPT !.same.ratio = S!Max({@, to})]
      [] field = "partial" -> [in EXCEPT !.partial = S!Max({@, to})]
      [] OTHER -> in

-----------------------------------------------------------------------------
(* What the theorems ask of the inputs: numbers are numbers, and what is   *)
(* missing is told from what was read.                                     *)

ASSUME NoneIsApart == None \in Int /\ None < 0 /\ NoText \notin {"ENTER", "HOLD", "CANCEL"}

HasFields(record, fields) == record = [f \in DOMAIN record |-> record[f]] /\ DOMAIN record = fields

\* Claude's answer to a signal: the confidence that is weakened is one of the prompt's.
AnswerFields == {"action", "confidence", "score", "family", "setup", "confirmations", "flags", "quality",
                 "prices", "type"}
ASSUME AnswersAreRead ==
    \A x \in Inputs("answer") :
        /\ HasFields(x.in, AnswerFields) /\ x.in.score \in Int
        /\ x.in.confidence \in {NoText, "HIGH", "MEDIUM", "LOW"}
        /\ x.weakness \in {"action", "confidence", "score"}


\* A fall, and a trailing stop as TpSl and the reassessments before leave it.
ASSUME TrailsAreRead ==
    \A x \in Inputs("trail") :
        /\ HasFields(x.in, {"s", "stored", "cur", "ma20", "ma60", "rsi", "minuteRsi", "hist", "prev", "stoch",
                            "vwap", "hoga", "strength"})
        /\ x.lower \in Int /\ x.lower <= x.in.cur /\ x.in.stored \in 7..40 \cup {None}
        /\ \A f \in {"cur", "ma20", "ma60", "rsi", "minuteRsi", "hist", "prev", "stoch", "vwap"} : x.in[f] \in Int

\* What is raised of a reading was read: the strength, the bids and the volume, or a rise of the price
\* from ten percent on.
ReadingFields ==
    {"s", "cur", "flu", "online", "minute", "strength", "cntr", "hoga", "local", "cap", "sigBid", "sigFlu",
     "gap", "vol", "surge", "rsi", "pullback", "body", "flag", "cloud", "days", "cond", "second", "mode",
     "conc", "gain", "atr", "rr", "raw", "amount", "market", "value", "sector", "acc", "supply", "trigger",
     "risk", "toss", "zone", "ctx"}
ASSUME ReadingsAreRaised ==
    \A x \in Inputs("score") :
        /\ HasFields(x.in, ReadingFields) /\ x.in.s \in D!Strategies
        /\ \A f \in {"flu", "strength", "cntr", "hoga", "local", "sigBid", "vol", "surge", "raw", "amount",
                     "acc", "supply", "trigger", "risk"} : x.in[f] \in Int
        /\ x.field \in {"cntr", "hoga", "vol", "flu"} /\ x.low \in Nat /\ x.high \in Nat /\ x.low <= x.high
        /\ x.field = "cntr" => 0 < x.low
        /\ x.field = "flu" => 1000 <= x.low

\* A signal with what rule_score reads of it, and the book it was compared with; only two strategies
\* send a spread and a chase risk of their own.
ASSUME DecisionsAreRead ==
    \A x \in Inputs("decide") :
        /\ x.sig.s \in S!Strategies /\ x.ai.score \in Int
        /\ x.sig.flu \in Int /\ x.sig.ctx.kospi \in Int /\ x.sig.ctx.kosdaq \in Int
        /\ x.m.hoga.age # None => x.m.hoga.bid \in Nat
        /\ x.sig.reading = [f \in DOMAIN x.sig.reading |-> x.sig.reading[f]]
        /\ {"s", "raw", "amount", "acc", "supply", "trigger", "risk"} \subseteq DOMAIN x.sig.reading
        /\ \A f \in {"raw", "amount", "acc", "supply", "trigger", "risk"} : x.sig.reading[f] \in Int
        /\ x.sig.chase \in Nat
        /\ x.sig.s \notin {"S10", "S13"} => x.sig.chase = 50 /\ x.sig.spread = None

\* A position is held over night at a price, with a book of quantities or none.
ASSUME OvernightsAreRead ==
    \A x \in Inputs("overnight") :
        /\ HasFields(x.in, {"s", "base", "entry", "cur", "last", "strength", "book", "flu", "rsi", "averages"})
        /\ x.lower \in Nat \ {0} /\ x.fall \in Nat
        /\ \A f \in {"base", "entry", "cur", "strength", "flu", "rsi"} : x.in[f] \in Int
        /\ x.in.book # <<>> => x.in.book[1].sell \in Int /\ x.in.book[1].buy \in Int
        /\ x.in.averages # <<>> => \A i \in 1..3 : x.in.averages[i] \in Int

\* A book of both sides, and minute bars whose highs and volumes add up to numbers.
ASSUME QualitiesAreRead ==
    \A x \in Inputs("quality") :
        /\ HasFields(x.in, {"s", "price", "book", "bars", "gap", "extension"})
        /\ x.in.s \in {"S1", "S4", "S10", "S13"}
        /\ x.in.price \in Int /\ x.in.gap \in Int /\ x.in.extension \in Int
        /\ x.in.book = <<x.in.book[1]>> /\ HasFields(x.in.book[1], {"ask", "bid", "sell", "buy"})
        /\ LET best == x.in.book[1]
           IN best.ask \in Int /\ best.bid \in Int /\ best.sell \in Nat \ {0} /\ best.buy \in Nat
        /\ X!Traded(x.in.bars) \in Int /\ X!Paid(x.in.bars) \in Int
        /\ x.in.bars # <<>> => X!DayHigh(x.in.bars) \in Int
        /\ Len(x.in.bars) >= 3 => \A i \in 1..3 : x.in.bars[i].low \in Int
        /\ x.how \in {"ask", "sell", "price", "context"} /\ x.by \in Nat

\* A gap of which a reading gets worse and is still a reading.
ASSUME GapsAreRead ==
    \A x \in Inputs("gap") :
        /\ HasFields(x.in, {"gap", "strength", "bid", "rr", "early", "age", "decay", "extension", "grade",
                            "vwap", "firstLow"})
        /\ \A f \in {"gap", "strength", "bid", "rr", "age", "decay", "extension"} : x.in[f] \in Int
        /\ x.how \in {"strength", "bid", "rr", "age", "ageless", "decay", "extension", "grade", "vwap"}
        /\ x.by \in Nat
        /\ \A f \in {"bid", "rr", "decay"} : x.in[f] # None => x.in[f] - x.by # None
        /\ x.in.age # None => x.in.age \in Nat

\* What /score reads of a stock: numbers, ages, and a chart whose candles are none where it has no bars.
ChartFields ==
    {"bars", "ma5", "ma20", "ma60", "rsi", "high250", "high20", "low20", "vi", "viDynamic", "instFrgn",
     "frgn3", "cross", "minute", "daily", "flow", "value", "candles", "cloud"}
ASSUME StocksAreRead ==
    /\ Lookback \in Nat \ {0}
    /\ \A x \in Inputs("stock") :
           /\ {x.lastClose, x.prevClose, x.hogaAge, x.viAge, x.cap, x.chart.minute, x.chart.value} \subseteq Int
           /\ x.tick # <<>> => {x.tick[1].cur, x.tick[1].rate, x.tick[1].age} \subseteq Int
           /\ DOMAIN x.chart = ChartFields
           /\ x.chart.bars = 0 => Len(x.chart.candles) = 0

\* Rankings that name a stock once, the one of the falls falls alone.
IsRanking(rows) ==
    /\ rows \in Seq({rows[i] : i \in DOMAIN rows})
    /\ \A i \in DOMAIN rows : rows[i].flu \in Int
    /\ \A i, j \in DOMAIN rows : rows[i].stk = rows[j].stk => i = j
ASSUME PoolsAreRead ==
    /\ Limit \in Nat \ {0}
    /\ \A x \in Inputs("pool") :
           /\ IsRanking(x.ranking) /\ IsRanking(x.toss)
           /\ x.s = "S14" => \A i \in DOMAIN x.ranking : x.ranking[i].flu < 0

\* Two stocks of the same strategies, of which one was rejected.
ASSUME RanksAreRead ==
    \A x \in Inputs("rank") :
        /\ x.of.strategies \subseteq S!Strategies /\ x.of.strategies # {}
        /\ R!Grade(x.bad) = "REJECT" /\ R!Grade(x.good) # "REJECT"

\* Days that follow each other: closes, bars of which today's has a range around its close, and two
\* courses of the lows that were the same until twenty-six days ago.
ASSUME DaysAreRead ==
    /\ \A x \in Inputs("cross") : x.closes \in Seq(Int) /\ x.next[1] \in Int /\ x.next[2] \in Int
    /\ \A x \in Inputs("box") :
           /\ x.bars \in Seq([open : Int, close : Int, high : Int, low : Int])
           /\ x.today \in [open : Int, close : Int, high : Int, low : Int]
           /\ x.next \in [open : Int, close : Int, high : Int, low : Int]
           /\ 0 < x.today.low /\ x.today.close <= x.today.high
    /\ \A x \in Inputs("cloud") :
           /\ x.highs \in Seq(Int) /\ x.lows \in Seq(Int) /\ x.other \in Seq(Int) /\ Len(x.other) = Len(x.lows)
           /\ \A i \in DOMAIN x.lows : i > 26 => x.lows[i] = x.other[i]

-----------------------------------------------------------------------------

\* What is evaluated.
Parts == {"tpsl", "zone", "score", "stock", "decide", "ticks", "size", "pool", "rank", "answer", "trail",
              "reversal", "overnight", "cross", "box", "cloud", "profile", "quality", "gap", "scan"}

Init == result = <<>> /\ \E fn \in Parts : input \in Inputs(fn) /\ input.fn = fn

EvaluateTpSl == input.fn = "tpsl" /\ result' = <<T!CalcTpSl(input)>>
EvaluateZones == input.fn = "zone" /\ result' = <<Z!WithZones(input)>>
EvaluateScore ==
    /\ input.fn = "score"
    /\ result' = <<D!RuleScore([input.in EXCEPT ![input.field] = input.low]),
                  D!RuleScore([input.in EXCEPT ![input.field] = input.high])>>
EvaluateStock == input.fn = "stock" /\ result' = <<S!ScoreStock(input, input.ai)>>
DecideOn(d) == D!Decide(d.sig, d.m, d.ai)
EvaluateDecision ==
    input.fn = "decide" /\ LET pair == <<input, RaisedDecision(input)>> IN result' = [i \in 1..2 |-> DecideOn(pair[i])]
EvaluateTicks ==
    /\ input.fn = "ticks"
    /\ result' = <<P!Normalize([f \in {"cur", "tp1", "tp2", "sl"} |-> input[f]])>>
EvaluateSize ==
    input.fn = "size" /\ result' = <<D!Tier(input.in), D!Tier(Riskier(input.in, input.risk))>>

EvaluatePool ==
    /\ input.fn = "pool"
    /\ result' = <<R!Qualified(input.s, input.ranking, input.toss, input.named)>>
EvaluateRank ==
    /\ input.fn = "rank"
    /\ result' = <<R!WatchlistPriority(input.of.strategies, input.bad, TRUE, input.of.age, input.more),
                  R!WatchlistPriority(input.of.strategies, input.good, TRUE, input.of.age, input.of.sources)>>

EvaluateAnswer ==
    /\ input.fn = "answer"
    /\ result' = <<K!Decided(input.in, input.s), K!Decided(Weaker(input.in, input.weakness), input.s)>>
EvaluateTrail ==
    /\ input.fn = "trail"
    /\ result' = <<O!TrailingPct(input.in, TRUE), O!TrailingPct([input.in EXCEPT !.cur = input.lower], TRUE),
                  O!TrailingPct(input.in, FALSE), O!Bias(input.in)>>
EvaluateReversal == input.fn = "reversal" /\ result' = <<O!Reversed(input.in)>>
EvaluateOvernight ==
    /\ input.fn = "overnight"
    /\ result' = <<O!Verdict(input.in),
                  O!Verdict([input.in EXCEPT !.cur = input.lower, !.flu = @ - input.fall])>>

EvaluateCross ==
    /\ input.fn = "cross"
    /\ LET later == <<input.next[1]>> \o input.closes
       IN result' = <<C!GoldenCross(input.closes), C!GoldenCross(later), C!GoldenCross(<<input.next[2]>> \o later)>>
EvaluateBox ==
    /\ input.fn = "box"
    /\ LET bars == <<input.today>> \o input.bars
       IN result' = <<C!BoxBreakout(bars), C!BoxBreakout(<<input.next>> \o bars)>>
EvaluateCloud ==
    /\ input.fn = "cloud"
    /\ LET closes == [i \in DOMAIN input.highs |-> input.last]
       IN result' = <<C!Ichimoku(input.highs, input.lows, closes), C!Ichimoku(input.highs, input.other, closes)>>
EvaluateProfile ==
    /\ input.fn = "profile"
    /\ result' = <<C!Adjusted(input.bracket, C!Profile(input.levels, input.cur))>>
EvaluateQuality ==
    /\ input.fn = "quality"
    /\ result' = <<X!Assessed(input.in), X!Assessed(Worse(input.in, input.how, input.by))>>
EvaluateGap ==
    /\ input.fn = "gap"
    /\ LET weaker == WeakerGap(input.in, input.how, input.by)
       IN result' = <<X!EntryPolicy(input.in), X!EntryPolicy(weaker), X!GapMode(input.in), X!GapMode(weaker)>>
EvaluateScan ==
    input.fn = "scan" /\ result' = <<C!Scan(input.in), C!Scan(Raised(input.in, input.field, input.to))>>

Next == /\ result = <<>>
        /\ (EvaluateTpSl \/ EvaluateZones \/ EvaluateScore \/ EvaluateStock \/ EvaluateDecision \/ EvaluateTicks
            \/ EvaluateSize \/ EvaluatePool \/ EvaluateRank
            \/ EvaluateAnswer \/ EvaluateTrail \/ EvaluateReversal \/ EvaluateOvernight
            \/ EvaluateCross \/ EvaluateBox \/ EvaluateCloud \/ EvaluateProfile
            \/ EvaluateQuality \/ EvaluateGap \/ EvaluateScan)
        /\ UNCHANGED input

Spec == Init /\ [][Next]_vars

Of(fn) == result # <<>> /\ input.fn = fn

-----------------------------------------------------------------------------
\* Whatever the chart, a bracket that may be entered has its stop below the price and its
\* target above it, after every cap, floor, consolidation and weak-MACD adjustment.
BracketHolds ==
    Of("tpsl") /\ ~result[1].skip =>
        0 < result[1].sl /\ result[1].sl < input.cur /\ input.cur < result[1].tp1

\* A trailing stop that will run is armed above the entry and no higher than the target.
TrailWithinTarget ==
    Of("tpsl") /\ result[1].trail > 0 /\ ~result[1].skip =>
        input.cur < result[1].act /\ result[1].act <= result[1].tp1

\* The stops the day strategies choose stay within what the policy of the strategy tolerates:
\* calc_tp_sl never vetoes its own bracket.
StopWithinPolicy == Of("tpsl") /\ input.s \in {"S1", "S2", "S4"} => ~result[1].vetoed

\* A zone of supports lies below the price and a zone of resistances above it, however wide the
\* band and however close the levels, and neither is empty.
ZonesSurroundPrice ==
    Of("zone") =>
        LET zones == result[1].zones
        IN /\ zones.buy # Z!NoZone => zones.buy.low < zones.buy.high /\ zones.buy.high < 1000 * input.cur
           /\ zones.sell # Z!NoZone => 1000 * input.cur < zones.sell.low /\ zones.sell.low < zones.sell.high

\* The stop of a zone of one or two supports is below both: it is met after the supports broke.
\* (Three supports that are merged one after the other may lie further apart than the stop.)
StopIsUnderSupports ==
    Of("zone") =>
        LET anchors == result[1].zones.buy.anchors
        IN Len(anchors) <= 2 => \A i \in DOMAIN anchors : result[1].stop < anchors[i]

\* The rule score never falls when the strength, the bid ratio or the volume of a signal grows.
StrongerNeverLowers == Of("score") /\ input.field # "flu" => result[1] <= result[2]

\* Above ten percent, a higher rise of the price never raises the rule score.
OverheatedNeverGains == Of("score") /\ input.field = "flu" => result[1] >= result[2]

\* /score answers ENTER only when Claude did, and no source it read was stale.
EnterIsFresh ==
    Of("stock") /\ (\E s \in DOMAIN result[1] : result[1][s] = "ENTER") =>
        /\ input.ai = "ENTER" /\ input.hogaAge <= 2000
        /\ (input.tick # <<>> => input.tick[1].age <= 5000)
        /\ input.viAge <= (IF input.viActive THEN 5000 ELSE 20000)

\* While programs sell, /score recommends no entry, with or without Claude.
ProgramSellersHoldBack ==
    Of("stock") /\ S!ProgramDrops(input.chart.flow) =>
        \A s \in DOMAIN result[1] : result[1][s] \notin {"ENTER", "ENTER_CANDIDATE"}

\* A stock whose accumulation is TRIGGERED also passes the rule score of S16, unless a penalty
\* of the scorer applies: the two tables agree.
TriggeredPassesRule ==
    Of("stock") =>
        LET p == S!CollectSnapshot(input)
        IN S!Matches(p, "S16") /\ p.cap >= 1500 /\ p.flu <= 1000 /\ ~S!ProgramDrops(p.flow)
               => "S16" \in DOMAIN result[1]

\* An ENTER rests on three readings of the websocket that were fresh when they were read: nothing
\* that came from REST or from the signal, and nothing stale, ever reaches an order.
EnterRestsOnWebsocket ==
    Of("decide") /\ result[1].action = "ENTER" =>
        /\ \A k \in {"tick", "hoga", "strength"} :
               D!Freshness(input.m[k].age, k) = "fresh" /\ input.m[k].age <= 3000
        /\ result[1].freshness = "PASS"

\* A stronger execution, order book, reward or answer of Claude never turns an ENTER away and
\* never makes it smaller.
StrongerKeepsEnter ==
    Of("decide") /\ result[1].action = "ENTER" =>
        result[2].action = "ENTER" /\ result[1].tier <= result[2].tier

\* Prices of Claude an ENTER keeps are around the entry, if the signal has one, after they were moved
\* to ticks, and their reward passes the gate of the strategy in the regime of the market.
EnterBeatsItsGate ==
    Of("decide") /\ result[1].action = "ENTER" =>
        LET ai == result[1].p.ai
        IN /\ result[1].p.cur > 0 /\ (ai.tp1 # 0 \/ ai.sl # 0) =>
                  0 < ai.sl /\ ai.sl < result[1].p.cur /\ result[1].p.cur < ai.tp1
           /\ ~D!RrTooLow(input.sig, result[1].rr)

\* More chasing, heat or spread, a worse candidate, stale data or a rescue never make an entry larger.
RiskierNeverLarger == Of("size") => result[2] <= result[1]

\* The sizes process_one computes never go beyond a quarter, and beyond zero only where the
\* strategy sends its own spread and chase risk: the fields that would raise them are never set.
SizesStaySmall ==
    Of("decide") => result[1].tier <= (IF input.sig.s \in {"S10", "S13"} THEN 1 ELSE 0)

\* Moved to ticks, a target and a stop that are a tick or more away keep their side of the price.
BracketSurvivesTicks ==
    Of("ticks") /\ input.tp1 - input.cur >= P!TickSize(input.tp1)
    /\ input.cur - input.sl >= P!TickSize(input.cur) =>
        result[1].sl < result[1].cur /\ result[1].cur < result[1].tp1

\* Whichever source a stock of a pool came from, the broker's ranking or Toss, it is one share
\* named once, a graded pool holds none that was rejected, the pool of S14 holds only falls and
\* the pools of a band only rises.
PoolIsQualified ==
    Of("pool") =>
        /\ Len(result[1]) <= Limit
        /\ \A i, j \in DOMAIN result[1] : result[1][i].stk = result[1][j].stk => i = j
        /\ \A i \in DOMAIN result[1] :
               /\ result[1][i].stk \in Shares
               /\ input.s \in {"S1", "S4", "S10", "S13"} => R!Grade(result[1][i]) # "REJECT"
               /\ input.s = "S14" => result[1][i].flu <= -30
               /\ input.s \in {"S1", "S2", "S4", "S7", "S8", "S9", "S12", "S13", "S15"} => result[1][i].flu > 0

\* Of two stocks of the same strategies, assessed as long ago, one that was rejected never ranks
\* above one that was not, whatever the live rankings say of it.
RejectedNeverOutranks == Of("rank") => result[1] < result[2]

\* In live family routing an entry rests on an answer for this very signal: of its family and
\* setup, with a score and the lists the contract asks for, whatever path led to the entry.
EnterIsForThisSignal ==
    Of("answer") /\ result[1].action = "ENTER" =>
        /\ input.in.family = FamilyTable[input.s] /\ input.in.setup = input.s
        /\ input.in.score \in 0..1000 /\ input.in.confirmations = "list"

\* A weaker answer never enters where the stronger one did not, of data it does not call blocked
\* (of blocked data an ENTER is refused, and a sure HOLD promoted).
WeakerAnswerNeverEnters ==
    Of("answer") /\ input.in.quality # "BLOCKED" => (result[2].action = "ENTER" => result[1].action = "ENTER")

\* A fall of the price never makes the reassessment widen the trailing stop.
FallNeverWidens == Of("trail") => result[2] <= result[1]

\* A position whose bias is TIGHTEN trails no wider than it would without having been reassessed,
\* also where the strategy's tier would have replaced a stored default.  (A bias of TRIM or CAUTIOUS
\* promises less: it starts from the stored default and widens the stop of a day strategy.)
TightenedIsTighter == Of("trail") /\ result[4] = "TIGHTEN" => result[1] <= result[3]

\* Where neither the execution strength nor the book is known, a price that falls is no reversal:
\* both are read as neutral there, unlike over night, where a book that was not read costs points.
SilenceIsNoReversal == Of("reversal") /\ input.in.strengths = <<>> /\ input.in.book = <<>> => ~result[1]

\* A position that is closed for the night at one price is not held at a lower one.
FallIsNotHeld == Of("overnight") /\ input.lower < input.in.cur => (result[2].hold => result[1].hold)

\* A golden cross that S8 takes today it still takes on the next two days, unless the averages
\* have run more than five percent apart by then.
CrossStaysRecent ==
    Of("cross") /\ result[1].today =>
        LET later == <<input.next[1]>> \o input.closes
        IN /\ result[2].recent \/ C!Stretched(later)
           /\ result[3].recent \/ C!Stretched(<<input.next[2]>> \o later)

\* A box cannot be left twice at one price: a breakout on the day after a breakout closes above
\* the high of that day, which by then is part of the box.
BreakoutsClimb == Of("box") /\ result[1] /\ result[2] => input.next.close > input.today.high

\* The newest twenty-six bars never move the cloud today's price is compared with.
CloudIsPast == Of("cloud") => result[1].cloud = result[2].cloud

\* Traded volume raises a target or a stop and never lowers one; the stop stays below the entry
\* and the target above it, and the ratio S7 to S13 publish with them never falls.
ProfileKeepsBracket ==
    Of("profile") =>
        /\ input.bracket.sl <= result[1].sl /\ result[1].sl < result[1].entry
        /\ result[1].entry < result[1].tp1 /\ input.bracket.tp1 <= result[1].tp1
        /\ input.bracket.rr <= result[1].rr

\* A wider spread, more sellers, a lower price, a larger gap or extension never gets a better
\* grade of execution (of a book with both sides: one without bids counts as neutral).
GradeOrder == [A |-> 0, B |-> 1, C |-> 2, REJECT |-> 3]
WorseBookNeverBetter == Of("quality") => GradeOrder[result[1].grade] <= GradeOrder[result[2].grade]

\* A weaker, older or more extended gap never gets a bolder policy nor a bolder mode from S1.
PolicyOrder == [ENTER_CANDIDATE |-> 0, HOLD_RECHECK |-> 1, CANCEL |-> 2]
ModeOrder == [NORMAL |-> 0, AUTO_SMALL |-> 0, HOLD_RECHECK |-> 1, SHADOW |-> 2]
WeakerGapNeverBolder ==
    Of("gap") => /\ PolicyOrder[result[1]] <= PolicyOrder[result[2]]
                 /\ ModeOrder[result[3]] <= ModeOrder[result[4]]

\* A candidate that a strategy passes is still passed, with no lower a score, when more of its buyers
\* or of its volume is read: except that above 300 S7 sees it heated, and that a tick above 100
\* takes the place of the average of the latest ones, whatever that was (strategy_1_*.py to
\* strategy_15_*.py, S2 aside).
StrongerStaysPassed ==
    Of("scan") /\ result[1].accepted /\ ~(input.field = "tick" /\ input.in.live # None) =>
        result[2].accepted /\ result[2].score >= result[1].score

-----------------------------------------------------------------------------
(* What the run checks.                                                    *)

\* From the rule that computes it to the ticks of the exchange, every step that changes a bracket
\* (calc_tp_sl, apply_volume_profile_rr, normalize_signal_prices) keeps target and stop on their sides.
BracketsHold ==
    /\ BracketHolds /\ TrailWithinTarget /\ StopWithinPolicy
    /\ ProfileKeepsBracket /\ BracketSurvivesTicks

\* The zones calc_tp_sl adds lie on their sides of the price, the stop of a zone under its supports
\* (box_zone_engine.py).
ZonesHold == ZonesSurroundPrice /\ StopIsUnderSupports

\* The tables of the rule score agree at their edges: more demand never counts less, nor a rise
\* beyond ten percent more (scorer.py).
ScoreIsMonotone == StrongerNeverLowers /\ OverheatedNeverGains

\* /score answers ENTER on fresh sources only, recommends no stock that programs sell, and scores what
\* it finds TRIGGERED as high as the strategy asks (stockScore.py).
StockAnswersHold == EnterIsFresh /\ ProgramSellersHoldBack /\ TriggeredPassesRule

\* An ENTER of process_one rests on fresh readings of the websocket, on prices of Claude's around
\* the entry and on a reward the gate does not find too low; its size stays at the tiers that the
\* fields a strategy sends allow.
EnterIsEarned == EnterRestsOnWebsocket /\ EnterBeatsItsGate /\ SizesStaySmall

\* A better reading never costs an entry, a riskier one never enlarges it (process_one,
\* position_sizing.py).
RiskNeverPays == StrongerKeepsEnter /\ RiskierNeverLarger

\* Claude's answer enters only the signal it was asked about, and of data it does not call blocked
\* only as far as it is sure (_validate_family_ai_contract, _maybe_promote_hold_to_enter).
AnswerIsBound == EnterIsForThisSignal /\ WeakerAnswerNeverEnters

\* A fall of the price alone never makes the rules on an open position more patient, a bias of TIGHTEN
\* none of its stops wider, and strengths and a book that were not read no reversal
\* (position_reassessment.py, downtrend_detector.py, overnight_scorer.py).
DeclineNeverHolds == FallNeverWidens /\ TightenedIsTighter /\ SilenceIsNoReversal /\ FallIsNotHeld

\* What a strategy's pool holds, and before what it is watched, is what the strategy asked for
\* (candidates_builder.py).
PoolsAreQualified == PoolIsQualified /\ RejectedNeverOutranks

\* The windows of the chart patterns move with the bars: what was seen today is seen tomorrow one
\* bar older, and nothing of today enters the past (ma_utils.py, indicator_ichimoku.py).
PatternsHold == CrossStaysRecent /\ BreakoutsClimb /\ CloudIsPast

\* A worse book never gets a better grade, nor a weaker gap of S1 a bolder policy or mode, in any
\* order of the reasons (execution_quality.py, _s1_entry_policy).
WorseNeverBolder == WorseBookNeverBetter /\ WeakerGapNeverBolder
=============================================================================
