-------------------------- MODULE PositionLedger --------------------------
(***************************************************************************)
(* What the life of a position should look like to somebody who reads      *)
(* trading_signals and the telegram channel: a signal is opened once or    *)
(* dropped, it takes a partial profit at most once, it is closed once, and *)
(* a SELL for the whole position is announced at most once, only after the *)
(* position was closed.                                                    *)
(***************************************************************************)
CONSTANT Positions

VARIABLES stage,      \* "waiting" | "open" | "partial" | "closed" | "dropped"
          announced   \* SELLs announced for the whole position

vars == <<stage, announced>>

Init == /\ stage = [p \in Positions |-> "waiting"]
        /\ announced = [p \in Positions |-> 0]

Stages == {"waiting", "open", "partial", "closed", "dropped"}

Moves == {<<"waiting", "open">>, <<"waiting", "dropped">>, <<"open", "partial">>,
          <<"open", "closed">>, <<"partial", "closed">>}

\* One commit moves any number of positions, each by one legal move.
Commit == /\ stage' \in [Positions -> Stages]
          /\ \A p \in Positions : \/ stage'[p] = stage[p]
                                  \/ <<stage[p], stage'[p]>> \in Moves
          /\ UNCHANGED announced

Announce(p) == /\ stage[p] = "closed"
               /\ announced[p] = 0
               /\ announced' = [announced EXCEPT ![p] = 1]
               /\ UNCHANGED stage

Next == Commit \/ \E p \in Positions : Announce(p)

Spec == Init /\ [][Next]_vars
===========================================================================
