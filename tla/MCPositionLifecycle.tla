------------------------ MODULE MCPositionLifecycle ------------------------
(***************************************************************************)
(* Prices around an entry of 100: below the stop, between stop and         *)
(* activation, and on both sides of the trailing thresholds (5% below a    *)
(* peak of 108 is 102) and of the two targets.                             *)
(***************************************************************************)
EXTENDS PositionLifecycle

CONSTANTS x, y

OnePosition == {x}
TwoPositions == {x, y}

AllPrices == {89, 101, 102, 108, 110, 120}
SomePrices == {89, 102, 108, 110, 120}
FewPrices == {89, 102, 110}
TwoPrices == {89, 110}
===========================================================================
