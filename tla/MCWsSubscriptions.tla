------------------------- MODULE MCWsSubscriptions -------------------------
(***************************************************************************)
(* An account of four items, which has room for one stock of each type     *)
(* that a session streams.                                                 *)
(***************************************************************************)
EXTENDS WsSubscriptions

CONSTANTS a, b

\* Two scenarios, since all disturbances together are too many states: in one the
\* candidates change, there and back again (the bound Moves), while both tasks subscribe,
\* in the other the session does, answers are lost and items are read while they are
\* being replaced.
Moves == 2
VARIABLES churn,    \* which of the two
          moves     \* the changes of the candidates that are still to come

TwoRankings == {<<a, b>>, <<b>>}
ShortDay == <<"pre_market", "main_market", "closed">>

ScenarioInit ==
    /\ Init
    /\ \/ churn = TRUE /\ moves = Moves
       \/ churn = FALSE /\ moves = 0 /\ ranking = <<a, b>>
ScenarioNext ==
    /\ Next
    /\ churn => hour' = hour /\ lost' = 0 /\ ~ReadInTheGap
    /\ IF ranking' = ranking THEN moves' = moves ELSE moves > 0 /\ moves' = moves - 1
    /\ churn' = churn
ScenarioSpec == ScenarioInit /\ [][ScenarioNext]_<<vars, churn, moves>> /\ Fairness
===========================================================================
