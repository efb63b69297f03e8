----------------------------- MODULE MarketData -----------------------------
(***************************************************************************)
(* redis_reader.py: the age of what the websocket listener stored of a     *)
(* stock, in milliseconds, and what an age says about its use.             *)
(***************************************************************************)
EXTENDS Integers

CONSTANT None   \* a missing number, below every other

Cutoffs ==
    [hoga |-> [caution |-> 1000, cancel |-> 2000], tick |-> [caution |-> 3000, cancel |-> 5000],
     strength |-> [caution |-> 5000, cancel |-> 10000],
     vi_active |-> [caution |-> 3000, cancel |-> 5000],
     vi_released |-> [caution |-> 10000, cancel |-> 20000]]

\* The age of what was read, None when there is nothing or no time stamp.
Freshness(age, kind) ==
    IF age = None THEN "missing"
    ELSE IF age > Cutoffs[kind].cancel THEN "cancel"
    ELSE IF age > Cutoffs[kind].caution THEN "caution" ELSE "fresh"

ViFreshness(vi) == Freshness(vi.age, IF vi.active THEN "vi_active" ELSE "vi_released")

\* The net buying of programs is negative and falls, in amount or in quantity.
ProgramDrops(flow) ==
    \/ flow.programChange < 0 /\ flow.program <= 0
    \/ flow.quantityChange < 0 /\ flow.quantity <= 0
=============================================================================
