------------------------------- MODULE Prices -------------------------------
(***************************************************************************)
(* price_utils.py: the prices of a signal are moved to the ticks of the    *)
(* exchange.  Prices are natural numbers, 0 where a signal has none.       *)
(***************************************************************************)
EXTENDS Integers

TickSize(price) ==
    CASE price < 2000 -> 1
      [] price >= 2000 /\ price < 5000 -> 5
      [] price >= 5000 /\ price < 20000 -> 10
      [] price >= 20000 /\ price < 50000 -> 50
      [] price >= 50000 /\ price < 200000 -> 100
      [] price >= 200000 /\ price < 500000 -> 500
      [] price >= 500000 -> 1000

Down(price) == (price \div TickSize(price)) * TickSize(price)
Up(price) == Down(price + TickSize(price) - 1)

\* Half a tick goes to the even number of ticks, as round() does.
Nearest(price) ==
    LET tick == TickSize(price)
        ticks == price \div tick
        twice == 2 * (price % tick)
    IN tick * (IF twice > tick \/ (twice = tick /\ ticks % 2 = 1) THEN ticks + 1 ELSE ticks)

\* A target that falls back on the entry goes up instead, a stop goes down.
Normalize(signal) ==
    LET cur == Nearest(signal.cur)
        target(price) == IF cur > 0 /\ Nearest(price) <= cur THEN Up(price) ELSE Nearest(price)
        stop(price) == IF cur > 0 /\ Nearest(price) >= cur THEN Down(price) ELSE Nearest(price)
    IN [cur |-> cur, tp1 |-> target(signal.tp1), tp2 |-> target(signal.tp2), sl |-> stop(signal.sl)]
=============================================================================
