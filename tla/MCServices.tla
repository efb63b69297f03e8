----------------------------- MODULE MCServices -----------------------------
(***************************************************************************)
(* A small instance of each service.                                       *)
(***************************************************************************)
EXTENDS Services, TLC

CONSTANTS s1, s2, s3, r1, r2

-----------------------------------------------------------------------------
(* Signals, rankings, windows and limits.                                  *)

S1of(stock) == [stock |-> stock, strategy |-> "S1"]
TwoBatches == {<<S1of(s2), S1of(s1)>>, <<[stock |-> s1, strategy |-> "S4"]>>}
OneTheme == (s1 :> "") @@ (s2 :> "chips")

Row(stk, flu) == [stk |-> stk, flu |-> flu, price |-> 1, surge |-> 50, strength |-> 100, foreign |-> FALSE,
                  institution |-> FALSE, program |-> 0, streak |-> FALSE, rsi |-> 50, fund |-> FALSE,
                  halted |-> FALSE, amount |-> 100, qty |-> 1, cap |-> 1000]
RankingsOfTwo == {<<>>, <<Row(s1, 40), Row(s2, 60)>>}
TossRankingOfOne == {<<Row(s3, 50)>>, <<Row(s2, 50)>>}
LiveRankingsOfThree ==
    {[s \in {s1, s2, s3} |-> {}], [s \in {s1, s2, s3} |-> IF s = s2 THEN {"liquidity"} ELSE {"foreign"}]}
PreMarketBuilders == <<"S1">>
IntradayBuilders == <<"S4", "S12">>

\* Units of five minutes counted from 13:00; the instance runs from 14:00, the last
\* cycle that may begin with the windows of the day still open, to the close.
Others == <<"S7", "S3", "S4", "S5", "S6", "S10", "S11", "S8", "S9", "S13", "S14", "S15", "S16">>
Tags == {"S12"} \cup {Others[i] : i \in DOMAIN Others}
ScheduleOrder == Append(Others, "S12")
WindowOpens == [s \in Tags |-> IF s = "S12" THEN 18 ELSE 0]
WindowCloses == [s \in Tags |-> CASE s = "S12" -> 26 [] s = "S6" -> 0
                                  [] s \in {"S4", "S10", "S13", "S15", "S16"} -> 18 [] OTHER -> 12]
ScanTimeout == [s \in Tags |-> IF s \in {"S8", "S9"} THEN 2 ELSE 1]
Afternoon == [from |-> 12, until |-> 27]

FewPrices == {-1, 2}
OneCall == [primary |-> 1]
DayRequests == {[kind |-> "daily", target |-> n] : n \in {1, 2}}
DayTtl == [daily |-> 2]
MinuteRequests == {[kind |-> "minute", target |-> 0]}
MinuteTtl == [minute |-> 1]

-----------------------------------------------------------------------------
\* The notices alone.
AlertSpec == Init /\ part = "notifier" /\ [][Next]_vars

Twins == Permutations({r1, r2})
=============================================================================
