---------------------------- MODULE MCEvaluation ----------------------------
(***************************************************************************)
(* Inputs of the parts that only compute, on both sides of the bounds of   *)
(* the tables they meet.                                                   *)
(***************************************************************************)
EXTENDS Evaluation, TLC

NoNumber == -100000
Unread == ""
FamiliesOfTwo == ("S8" :> "G04") @@ ("S14" :> "G07")

-----------------------------------------------------------------------------
(* Charts and levels for calc_tp_sl. *)

Charts == {[highs |-> <<>>, lows |-> <<>>],
           [highs |-> <<1000, 1020, 1000, 996, 980, 960>>, lows |-> <<996, 980, 988, 960, 984, 940>>],
           [highs |-> <<1000, 1040, 1000, 1088, 1080, 1200, 1100>>,
            lows |-> <<996, 992, 998, 996, 990, 1000, 990>>],
           [highs |-> <<960, 980, 940, 960, 900, 920>>, lows |-> <<940, 900, 920, 800, 880, 860>>]}

Levels == [fn |-> "tpsl", s |-> "S16", cur |-> 1000, minRr |-> 1300, highs |-> <<>>, lows |-> <<>>,
           atr |-> 0, ma5 |-> 990, ma20 |-> 0, ma60 |-> 0, bb |-> 0, prev |-> 0, vi |-> 0,
           clow |-> 0, chigh |-> 0, cloud |-> 0, kijun |-> 0, weak |-> FALSE, zonePoor |-> FALSE]

SwingLevels ==
    {[Levels EXCEPT !.s = s, !.highs = c.highs, !.lows = c.lows, !.atr = atr, !.ma20 = ma20,
                    !.ma60 = ma60, !.bb = bb, !.cloud = cloud, !.weak = weak] :
        s \in S!SwingStrategies, c \in Charts, atr \in {0, 2, 12, 60}, ma20 \in {0, 900, 1010},
        ma60 \in {0, 1016}, bb \in {0, 1008, 1080}, cloud \in {0, 994, 970}, weak \in BOOLEAN}
DayLevels ==
    {[Levels EXCEPT !.s = s, !.highs = c.highs, !.lows = c.lows, !.cur = cur, !.atr = atr,
                    !.ma5 = ma5, !.prev = prev, !.vi = vi, !.clow = clow, !.chigh = chigh] :
        s \in S!DayStrategies, c \in Charts, cur \in {1000, 1026}, atr \in {0, 12, 60},
        ma5 \in {0, 984, 1001}, prev \in {0, 980, 996}, vi \in {0, 1008, 1040},
        clow \in {0, 976, 990}, chigh \in {0, 1030}}

\* Supports and resistances close enough to be merged, and bands wider than their distance.
ZoneLevels ==
    {[fn |-> "zone", s |-> s, cur |-> 1000, highs |-> c.highs, lows |-> c.lows, atr |-> atr, ma5 |-> ma5,
      ma20 |-> ma20, ma60 |-> ma60, bbUpper |-> bbUpper, bbLower |-> bbLower] :
        s \in {"S8", "S9", "S13", "S14", "S15"}, c \in Charts, atr \in {0, 12, 60},
        ma5 \in {0, 984, 999}, ma20 \in {0, 970, 1010}, ma60 \in {0, 955}, bbUpper \in {0, 1001, 1080},
        bbLower \in {0, 966}}

-----------------------------------------------------------------------------
(* Readings for rule_score, of which one is raised. *)

Steps == [cntr |-> <<60, 95, 100, 105, 111, 121, 131, 151>>, hoga |-> <<50, 121, 131, 151, 201>>,
          vol |-> <<0, 100, 120, 130, 150, 200, 300, 501, 1001>>,
          flu |-> <<1000, 1001, 1500, 1501, 2500, 2501, 2900>>]
Contexts == [kospi : {None, 100, -60, 0}, kosdaq : {None}, kospiExp : {None}, kosdaqExp : {None},
             market : {""}, kospiFlow : {0}, kosdaqFlow : {0}]
Reading(s, flu, online, ctx) ==
    [s |-> s, cur |-> 1000, flu |-> flu, online |-> online, minute |-> 600, strength |-> 100,
     cntr |-> 112, hoga |-> 140, local |-> None, cap |-> None, sigBid |-> 125, sigFlu |-> flu,
     gap |-> 300, vol |-> 160, surge |-> 0, rsi |-> 52, pullback |-> 150, body |-> 72, flag |-> TRUE,
     cloud |-> 150, days |-> 2, cond |-> 3, second |-> FALSE, mode |-> "", conc |-> 0, gain |-> 0,
     atr |-> 120, rr |-> 1800, raw |-> 90, amount |-> 20, market |-> "001", value |-> 0, sector |-> 0,
     acc |-> 2000, supply |-> 1500, trigger |-> 1400, risk |-> 1000,
     toss |-> [short |-> 60, margin |-> 0, severe |-> FALSE, caution |-> FALSE],
     zone |-> [low |-> 0, high |-> 0, strength |-> 0, anchors |-> 0], ctx |-> ctx]
RaisedReadings ==
    UNION {{[fn |-> "score", field |-> f, low |-> Steps[f][k], high |-> Steps[f][k + 1],
             in |-> Reading(s, flu, online, ctx)] :
                k \in 1..Len(Steps[f]) - 1, s \in S!Strategies, flu \in {-900, 200, 400},
                online \in BOOLEAN, ctx \in Contexts} : f \in DOMAIN Steps}

-----------------------------------------------------------------------------
(* What /score reads of a stock. *)

Candles(last, latest) ==
    <<[cur |-> last, open |-> 960, high |-> last, low |-> 950, vol |-> latest]>>
    \o [i \in 1..5 |-> [cur |-> 950 + 2 * i, open |-> 940 + 4 * i, high |-> 1000, low |-> 800, vol |-> 100]]
\* A fall out of a wide box: a trigger without accumulation.
Falling == <<[cur |-> 1000, open |-> 1010, high |-> 1000, low |-> 400, vol |-> 400]>>
           \o [i \in 1..5 |-> [cur |-> 900, open |-> 940, high |-> 1000, low |-> 400 + 50 * i, vol |-> 100]]
Flow(change) == [smart |-> 1, foreign |-> 1, institution |-> 1, program |-> change,
                 programChange |-> change, quantity |-> 0, quantityChange |-> 0]
Daily == [latest |-> 0, avg5 |-> 0, avg20 |-> 112, strongDays |-> 4]

Chart == [bars |-> 120, ma5 |-> 995, ma20 |-> 980, ma60 |-> 950, rsi |-> 55, high250 |-> 1000,
          high20 |-> 1000, low20 |-> 900, vi |-> 1010, viDynamic |-> TRUE, instFrgn |-> TRUE,
          frgn3 |-> TRUE, cross |-> TRUE, minute |-> 880, daily |-> Daily, flow |-> Flow(1),
          value |-> 30, candles |-> Candles(1000, 200),
          cloud |-> [above |-> TRUE, chikou |-> TRUE, kijun |-> TRUE, thickness |-> 50]]
Read == [fn |-> "stock", ai |-> "ENTER", token |-> TRUE, lastClose |-> 1000, prevClose |-> 990,
         lastVolume |-> 100, volMa20 |-> 100, tick |-> <<>>, hoga |-> 155, restHoga |-> 155,
         hogaAge |-> 500, strength |-> 135, strengthFromWs |-> TRUE, viAge |-> None,
         viActive |-> FALSE, cap |-> 3000, chart |-> Chart]
Tick(rate, volume, age) == <<[cur |-> 1000, rate |-> rate, volume |-> volume, age |-> age]>>

ReadTimes ==
    {[Read EXCEPT !.ai = ai, !.tick = Tick(350, 350, tickAge), !.hogaAge = hogaAge,
                  !.viAge = viAge, !.viActive = active, !.chart.flow = Flow(change)] :
        ai \in {"ENTER", "HOLD", "CANCEL", "timeout", "error", "off"},
        tickAge \in {None, 1000, 4000, 5001}, hogaAge \in {None, 900, 1500, 2001},
        viAge \in {None, 6000, 20001}, active \in BOOLEAN, change \in {1, -1}}
ReadValues ==
    {[Read EXCEPT !.tick = IF rate = None THEN <<>> ELSE Tick(rate, volume, 0), !.strength = strength,
                  !.hoga = hoga, !.chart.rsi = rsi, !.chart.minute = minute, !.cap = cap,
                  !.chart.candles = candles] :
        rate \in {None, 50, 350, 600, 1600}, volume \in {0, 160, 350},
        strength \in {None, 118, 125, 151}, hoga \in {None, 140, 205},
        rsi \in {None, 30, 55}, minute \in {600, 880}, cap \in {None, 3000},
        candles \in {Candles(980, 250), Candles(1000, 250), Falling}}

-----------------------------------------------------------------------------
(* Signals, market data and answers of Claude for process_one. *)

Calm == [kospi |-> 0, kosdaq |-> None, kospiExp |-> None, kosdaqExp |-> None, market |-> "",
         kospiFlow |-> 0, kosdaqFlow |-> 0]
Signal(s) ==
    [s |-> s, age |-> 1000, cur |-> 1000, tp1 |-> 1100, sl |-> 960, str |-> 125, bid |-> 155, flu |-> 200,
     rr |-> 2300, zoneRr |-> None, fallback |-> FALSE, policy |-> "ENTER_CANDIDATE", recheck |-> FALSE,
     execution |-> "A", chase |-> IF s \in {"S10", "S13"} THEN 0 ELSE 50,
     spread |-> IF s \in {"S10", "S13"} THEN 5 ELSE None,
     programs |-> Flow(1), flow |-> [slope |-> 1, latest |-> 1, turn |-> "up"], ctx |-> Calm,
     reading |-> [Reading(s, 200, TRUE, Calm) EXCEPT !.minute = 880, !.vol = 350, !.cond = 4]]
Market == [tick |-> [age |-> 1000, str |-> 125, flu |-> 200], hoga |-> [age |-> 500, bid |-> 155],
           strength |-> [age |-> 1000, avg |-> 125], vi |-> [age |-> 1000, active |-> FALSE],
           restStr |-> None, restBid |-> None, online |-> TRUE, minute |-> 880,
           session |-> "main_market", sessionGuard |-> TRUE]
Answer == [action |-> "ENTER", sure |-> TRUE, score |-> 8200, tp1 |-> 0, tp2 |-> 0, sl |-> 0]
Decision(s) == [fn |-> "decide", field |-> "none", to |-> 0, sig |-> Signal(s), m |-> Market, ai |-> Answer]

\* What has no time stamp was not read.
TickAged(age) == IF age = None THEN [age |-> None, str |-> 0, flu |-> 0] ELSE [Market.tick EXCEPT !.age = age]
HogaAged(age) == [age |-> age, bid |-> IF age = None THEN None ELSE 155]
StrengthAged(age) == [age |-> age, avg |-> IF age = None THEN 0 ELSE 125]

DecideTimes ==
    {[Decision(s) EXCEPT !.sig.age = age, !.m.tick = TickAged(tick), !.m.hoga = HogaAged(hoga),
                         !.m.strength = StrengthAged(strength), !.m.restStr = str, !.m.restBid = bid,
                         !.m.sessionGuard = ~late, !.m.session = IF late THEN "closed" ELSE "main_market"] :
        s \in {"S1", "S7", "S8", "S12"}, age \in {None, 1000, 30001}, tick \in {None, 1000, 4000, 5001},
        hoga \in {None, 500, 1500, 2001}, strength \in {None, 3001, 1000, 10001}, str \in {None, 125},
        bid \in {None, 155}, late \in BOOLEAN}
Raises == [strength |-> <<112, 121, 135>>, bid |-> <<70, 131, 210>>, rr |-> <<1300, 1600, 3000>>,
           ai |-> <<7000, 8000, 9500>>]
DecideRaised ==
    {[Decision(s) EXCEPT !.field = f, !.to = Raises[f][k], !.ai.action = action, !.sig.ctx.kospi = kospi,
                         !.m.strength.avg = str, !.m.hoga.bid = bid, !.sig.rr = rr, !.ai.score = sure] :
        f \in DOMAIN Raises, k \in 1..3, s \in S!Strategies, action \in {"ENTER", "HOLD"}, kospi \in {0, 100},
        str \in {95, 125}, bid \in {60, 155}, rr \in {1200, 2300}, sure \in {6000, 8200}}
DecidePrices ==
    {[Decision(s) EXCEPT !.sig.cur = cur, !.sig.tp1 = cur + tp1, !.sig.sl = cur - sl, !.sig.rr = rr,
                         !.ai.tp1 = IF to = 0 THEN 0 ELSE cur + to, !.ai.tp2 = IF far = 0 THEN 0 ELSE cur + far,
                         !.ai.sl = IF stop = 0 THEN 0 ELSE cur - stop, !.sig.policy = policy] :
        s \in {"S1", "S8", "S13"}, cur \in {1000, 2003}, tp1 \in {1, 100}, sl \in {3, 40},
        rr \in {None, 900, 2300}, to \in {0, -10, 1, 40, 200}, far \in {0, 30}, stop \in {0, 1, 50, -10},
        policy \in {"ENTER_CANDIDATE", "HOLD_RECHECK", "CANCEL"}}
\* The price was dropped with the tick it came from.
Priceless ==
    {[Decision(s) EXCEPT !.sig.cur = 0, !.sig.tp1 = 0, !.sig.sl = 0, !.ai.tp1 = to, !.ai.sl = stop] :
        s \in {"S1", "S8", "S13"}, to \in {0, 940, 1040}, stop \in {0, 960}}

Sizes ==
    {[fn |-> "size", risk |-> risk,
      in |-> [s |-> s, execution |-> "B", candidate |-> candidate, chase |-> chase, regime |-> "bull",
              aiScore |-> score, ruleScore |-> score, amount |-> amount, spread |-> 5, stop |-> stop,
              atr |-> 200, strategies |-> many, heat |-> 60, stale |-> FALSE, rescued |-> FALSE,
              policy |-> policy, rr |-> rr, quality |-> 75]] :
        risk \in {"chase", "heat", "stale", "spread", "candidate", "rescued", "execution"},
        s \in {"S1", "S8", "S10", "S15"}, candidate \in {"A", "B", "C"}, chase \in {0, 29, 50},
        score \in {5000, 8000, 10000}, amount \in {None, 100}, stop \in {100, 250}, many \in {1, 3},
        policy \in {"none", "momentum_chase_size_down"}, rr \in {1100, 2000}}
Brackets == {[fn |-> "ticks", cur |-> cur, tp1 |-> cur + up, tp2 |-> 0, sl |-> cur - down] :
                cur \in {1998, 2000, 2003, 4997, 4998, 5005, 5015, 19994, 20025, 20050, 49975, 199950},
                up \in {1, 5, 10, 15, 50, 75, 100, 150}, down \in {1, 5, 10, 15, 50, 75, 100, 150}}

-----------------------------------------------------------------------------
(* Rankings of candidates; "f" is a fund Toss does not name as one.        *)

Row(stk, flu, strength, amount, cap) ==
    [stk |-> stk, flu |-> flu, price |-> 1, surge |-> 50, strength |-> strength, foreign |-> TRUE,
     institution |-> flu > 0, program |-> flu, streak |-> flu > 30, rsi |-> 50 + flu \div 2,
     fund |-> FALSE, halted |-> FALSE, amount |-> amount, qty |-> 0, cap |-> cap]
Rises == {10, 40, 90, 160}
RankingsOf(s) ==
    LET sign == IF s = "S14" THEN -1 ELSE 1
        rows(stk) == {Row(stk, sign * flu, strength, 100, cap) :
                          flu \in Rises, strength \in {100, 120}, cap \in {0, 500}}
        weak(stk) == {row \in rows(stk) : row.strength = 100 /\ row.cap = 0}
    IN  {<<>>} \cup {<<one, Row("f", sign * 40, 120, 100, 0), three>> : one \in weak("a"), three \in rows("b")}
TossRanking == {<<Row("f", 40, 0, 300, 0), Row("a", a, 0, 200, 0), Row("c", c, 0, amount, 0)>> :
                    a \in {-40, 40}, c \in {-40, 40}, amount \in {40, 100}}
PoolsOf(strategies) ==
    UNION {{[fn |-> "pool", s |-> s, ranking |-> ranking, toss |-> toss, named |-> named] :
                ranking \in RankingsOf(s), toss \in TossRanking, named \in {TRUE}} : s \in strategies}
Unnamed == {[fn |-> "pool", s |-> s, ranking |-> <<Row("a", 40, 100, 100, 0)>>, toss |-> <<>>, named |-> FALSE] :
                s \in {"S1", "S8"}}

AgesAndSources == [strategies : {{"S4"}, {"S12"}, {"S8", "S14"}, {"S1", "S3", "S10"}},
                   age : {0, 20}, sources : {{}, {"balance"}}]
Candidates == {[Row("a", 40, 100, amount, cap) EXCEPT !.halted = halted] :
                   amount \in {0, 40, 60, 100, 1000}, cap \in {0, 500, 700, 3000}, halted \in BOOLEAN}
Rejected == {row \in Candidates : R!Grade(row) = "REJECT"}
Ranks == {[fn |-> "rank", bad |-> bad, good |-> good, more |-> more, of |-> of] :
              bad \in Rejected, good \in Candidates \ Rejected,
              more \in {{}, DOMAIN R!LiveWeight}, of \in AgesAndSources}

-----------------------------------------------------------------------------
(* Answers of Claude, each with a weaker one.                              *)

Weaknesses == {"action", "confidence", "score"}
AnswersOf(scores) ==
    {[fn |-> "answer", s |-> s, weakness |-> weakness,
      in |-> [action |-> action, confidence |-> confidence, score |-> score, family |-> family, setup |-> setup,
              confirmations |-> confirmations, flags |-> "list", quality |-> quality, prices |-> "some",
              type |-> "none"]] :
        s \in {"S8", "S14", "S99"}, weakness \in Weaknesses, action \in {"", "ENTER", "HOLD", "CANCEL", "BUY"},
        confidence \in {"", "HIGH", "MEDIUM", "LOW"}, score \in scores, family \in {"", "G04"},
        setup \in {"S8", "S14"}, confirmations \in {"", "list"}, quality \in {"", "OK", "BLOCKED"}}

-----------------------------------------------------------------------------
(* Readings of an open position, and the fall that follows.                *)

Trails ==
    {[fn |-> "trail", lower |-> 96,
      in |-> [s |-> s, stored |-> stored, cur |-> cur, ma20 |-> ma20, ma60 |-> 99, rsi |-> rsi,
              minuteRsi |-> minute, hist |-> hist, prev |-> 2, stoch |-> stoch, vwap |-> vwap,
              hoga |-> hoga, strength |-> strength]] :
        s \in {"S1", "S7", "S12"}, stored \in {None, 11, 15, 16, 25}, cur \in {98, 101}, ma20 \in {None, 97, 100},
        rsi \in {None, 35}, minute \in {None, 40, 60}, hist \in {None, 1, 3}, stoch \in {None, 85},
        vwap \in {None, 100}, hoga \in {None, 110, 130}, strength \in {100, 110}}
Books == {<<>>, <<[sell |-> 10, buy |-> 0]>>, <<[sell |-> 0, buy |-> 10]>>, <<[sell |-> 18, buy |-> 10]>>,
          <<[sell |-> 10, buy |-> 21]>>}
Reversals ==
    {[fn |-> "reversal", in |-> [strengths |-> strengths, book |-> book, entry |-> entry, cur |-> cur, flu |-> flu]] :
        strengths \in {<<>>, <<60>>, <<60, 60, 60, 90>>, <<80, 80>>, <<110, 112, 109, 120>>},
        book \in Books, entry \in {0, 1000}, cur \in {980, 987, 1010}, flu \in {-160, -60, 0}}
Overnights ==
    {[fn |-> "overnight", lower |-> lower, fall |-> fall,
      in |-> [s |-> s, base |-> base, entry |-> 1000, cur |-> cur, last |-> 1000, strength |-> strength,
              book |-> book, flu |-> flu, rsi |-> rsi, averages |-> averages]] :
        s \in {"S1", "S3", "S8"}, base \in {50, 70, 90}, cur \in {985, 1000, 1025}, lower \in {970, 980},
        fall \in {0, 200}, strength \in {100, 130}, book \in Books, flu \in {-50, 150}, rsi \in {None, 55},
        averages \in {<<>>, <<1010, 1000, 990>>, <<980, 990, 1000>>}}

-----------------------------------------------------------------------------
(* Daily bars, newest first, and the bars that follow them.                *)

Flat(n, x) == [i \in 1..n |-> x]
Crossings == {[fn |-> "cross", closes |-> <<a, b, c, d>> \o Flat(24, 100), next |-> <<x, y>>] :
                  a \in {90, 100, 104, 140}, b \in {90, 100, 104}, c \in {96, 100, 110}, d \in {96, 100, 110},
                  x \in {80, 100, 104, 140}, y \in {80, 100, 104, 140}}

Bar(open, close) ==
    [open |-> open, close |-> close, high |-> S!Max({open, close}) + 1, low |-> S!Min({open, close}) - 1]
Boxes == {[fn |-> "box", today |-> Bar(open, close), next |-> Bar(open2, close2),
           bars |-> <<Bar(last, 102)>> \o Flat(17, [open |-> 101, close |-> 102, high |-> top, low |-> 100])] :
              open \in {103, 106}, close \in {105, 107, 110}, open2 \in {104, 109}, close2 \in {106, 110, 112},
              last \in {101, 105}, top \in {103, 105, 109}}

Bars78(newest, older) == [i \in 1..80 |-> IF i <= 26 THEN newest ELSE older + (i % 7)]
Clouds == {[fn |-> "cloud", highs |-> Bars78(high, older + wide), lows |-> Bars78(low, older),
            other |-> Bars78(other, older), last |-> last] :
               high \in {100, 140}, low \in {80, 99}, other \in {60, 98}, older \in {70, 90, 110},
               wide \in {0, 3, 20}, last \in {80, 95, 120}}

Level(low, high, ratio) == [low |-> low, high |-> high, ratio |-> ratio]
TradedAt == {Level(900, 950, 5), Level(980, 995, 5), Level(960, 990, 9), Level(1010, 1040, 3),
             Level(1030, 1080, 8), Level(1200, 1300, 8)}
Profiles == {[fn |-> "profile", cur |-> cur, levels |-> levels,
              bracket |-> [entry |-> 1000, tp1 |-> tp1, sl |-> sl, rr |-> (900 * (tp1 - 1000)) \div (1000 - sl)]] :
                 cur \in {970, 1000, 1020, 1250}, levels \in SUBSET TradedAt, tp1 \in {1020, 1100},
                 sl \in {900, 970}}

-----------------------------------------------------------------------------
(* Books and minute bars, with one reading made worse.                     *)

Minute(high, low, close) == [high |-> high, low |-> low, close |-> close, vol |-> 10]
MinuteBars == {<<>>, <<Minute(1000, 990, 999)>>,
               <<Minute(1000, 999, 1000), Minute(1001, 999, 999), Minute(1000, 998, 1000)>>,
               <<Minute(1010, 990, 997), Minute(1020, 1000, 1010), Minute(1030, 1010, 1020), Minute(1000, 980, 1000)>>,
               <<Minute(985, 970, 980), Minute(1040, 1010, 1020), Minute(1060, 1020, 1030), Minute(1000, 990, 1000)>>}
Books4 == {<<[ask |-> ask, bid |-> 1000, sell |-> sell, buy |-> buy]>> :
                           ask \in {1001, 1004, 1008}, sell \in {10, 20, 28}, buy \in {10, 16, 25}}
WorseBy == [ask |-> 4, sell |-> 12, price |-> 25, context |-> 450]
Qualities ==
    {[fn |-> "quality", how |-> how, by |-> WorseBy[how],
      in |-> [s |-> s, price |-> price, book |-> book, bars |-> bars, gap |-> gap, extension |-> extension]] :
        how \in {"ask", "sell", "price", "context"}, s \in {"S1", "S4", "S10", "S13"}, price \in {975, 985, 1000},
        book \in Books4, bars \in MinuteBars, gap \in {300, 800}, extension \in {0, 200}}

WeakerBy == [strength |-> 50, bid |-> 140, rr |-> 40, age |-> 6000, ageless |-> 0, decay |-> 3000,
             extension |-> 150, grade |-> 0, vwap |-> 0]
Gaps ==
    {[fn |-> "gap", how |-> how, by |-> WeakerBy[how],
      in |-> [gap |-> gap, strength |-> strength, bid |-> bid, rr |-> rr, early |-> early, age |-> age,
              decay |-> decay, extension |-> extension, grade |-> grade, vwap |-> vwap, firstLow |-> FALSE]] :
        how \in {"strength", "bid", "rr", "age", "ageless", "decay", "extension", "grade", "vwap"},
        gap \in {250, 310, 600, 900, 1300}, strength \in {120, 165}, bid \in {None, 140, 190},
        rr \in {None, 90, 130}, early \in BOOLEAN, age \in {10000, 16000}, decay \in {None, 0, -3500},
        extension \in {0, 120}, grade \in {"A", "REJECT"}, vwap \in {"UNKNOWN", "ABOVE_VWAP"}}

-----------------------------------------------------------------------------
(* Candidates of the strategies, of which one reading is raised.           *)

BigBar == [open |-> 1000, high |-> 1032, low |-> 998, close |-> 1030]
Signs == {"program", "foreign", "institution", "above", "tenkan", "bullish", "chikou", "hour", "hourAbove",
          "setup", "breakout", "macd", "stoch"}
Scanned(s, flu, tick, live, partial, same) ==
    [s |-> s, tick |-> IF tick = None THEN <<>> ELSE <<[str |-> tick, flu |-> flu]>>, live |-> live,
     rest |-> 116, cur |-> 1030, close |-> 1030, open |-> 1000, index |-> None, partial |-> partial,
     same |-> same, bid |-> 130, smart |-> 1, program |-> -1, signs |-> Signs, flu |-> flu,
     days |-> IF s = "S11" THEN 3 ELSE 2, net |-> 100, lastNet |-> 30, bars |-> 25, bar |-> BigBar, top |-> 1030,
     ma5 |-> 1000, ma20 |-> 1000, ma60 |-> 990, ma120 |-> 0, rsi |-> IF s = "S14" THEN 3500 ELSE 5500,
     atr |-> 200, themeFlu |-> 200, theme |-> <<0, 100, 300, 500>>,
     cross |-> [today |-> FALSE, recent |-> TRUE], average |-> 10, off5 |-> 100, off20 |-> 500,
     grade |-> "A", range |-> 500, extension |-> 100, band |-> 60]
ScanRaises == [live |-> <<110, 140, 300>>, tick |-> <<101, 118, 140>>, rest |-> <<117, 121, 135>>,
               ratio |-> <<110, 160, 240>>, partial |-> <<140, 200, 350>>]
Scanning ==
    {[fn |-> "scan", field |-> f, to |-> ScanRaises[f][k],
      in |-> Scanned(s, flu, tick, live, partial, [ratio |-> ratio, complete |-> complete, failed |-> FALSE])] :
        f \in DOMAIN ScanRaises, k \in 1..3,
        s \in {"S1", "S3", "S4", "S5", "S6", "S7", "S8", "S9", "S10", "S11", "S12", "S13", "S14", "S15"},
        flu \in {200, 450}, tick \in {None, 99, 121}, live \in {None, 106, 119}, partial \in {110, 320},
        ratio \in {50, 220}, complete \in BOOLEAN}

-----------------------------------------------------------------------------
InputsOf(fn) ==
    CASE fn = "tpsl"      -> SwingLevels \cup DayLevels
      [] fn = "zone"      -> ZoneLevels
      [] fn = "score"     -> RaisedReadings
      [] fn = "stock"     -> ReadTimes \cup ReadValues
      [] fn = "decide"    -> DecideTimes \cup DecideRaised \cup DecidePrices \cup Priceless
      [] fn = "ticks"     -> Brackets
      [] fn = "size"      -> Sizes
      [] fn = "pool"      -> PoolsOf(S!Strategies \ {"S16"}) \cup Unnamed
      [] fn = "rank"      -> Ranks
      [] fn = "answer"    -> AnswersOf({0, 790, 800, 1001, None})
      [] fn = "trail"     -> Trails
      [] fn = "reversal"  -> Reversals
      [] fn = "overnight" -> Overnights
      [] fn = "cross"     -> Crossings
      [] fn = "box"       -> Boxes
      [] fn = "cloud"     -> Clouds
      [] fn = "profile"   -> Profiles
      [] fn = "quality"   -> Qualities
      [] fn = "gap"       -> Gaps
      [] fn = "scan"      -> Scanning
=============================================================================
