------------------------- MODULE MCSignalPipeline -------------------------
(***************************************************************************)
(* Three candidates: two strategies of one family and one of another.      *)
(***************************************************************************)
EXTENDS SignalPipeline, TLC

CONSTANTS j1, p1, p2, A, S8, S9, S14, G04, G07

MCSignals == {j1, p1, p2}
MCStocks == {A}
MCStrategies == {S8, S9, S14}
MCFamilies == {G04, G07}
MCFamilyOf == S8 :> G04 @@ S9 :> G04 @@ S14 :> G07
MCJavaSignals == {j1}

\* Smaller sets, for the runs whose faults multiply the states: a candidate
\* of each origin, and two scan runs of the scanner.
OneOfEach == {j1, p1}
TwoScans == {p1, p2}

\* All candidates are of one stock; ThreeStrategies makes them rivals, in
\* SameStrategy p1 and p2 repeat one strategy in two scan runs.
OneStock == [s \in Signals |-> A]
ThreeStrategies == [s \in Signals |-> CASE s = j1 -> S8 [] s = p1 -> S9 [] s = p2 -> S14]
SameStrategy == [s \in Signals |-> IF s = j1 THEN S8 ELSE S9]
===========================================================================
