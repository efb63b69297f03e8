------------------------- MODULE EntryReservation -------------------------
(***************************************************************************)
(* What cross-strategy arbitration promises (ai-engine/queue_worker.py,    *)
(* _apply_cross_strategy_arbitration): while a stock is reserved, no       *)
(* signal but the holder has been let through as an ENTER for it.  The     *)
(* reservation is a lease: it may lapse at any time, and a lapsed stock    *)
(* can be reserved again.  A holder whose reservation is made but not      *)
(* answered is turned away itself, and the stock stays reserved for        *)
(* nobody until the lease lapses.                                          *)
(***************************************************************************)

CONSTANTS Signals, Stocks, StockOf, NoSignal

VARIABLES holder,    \* the signal that holds the stock's lease, or NoSignal
          admitted   \* the ENTERs let through since the lease was taken

vars == <<holder, admitted>>

TypeOK == /\ holder \in [Stocks -> Signals \cup {NoSignal}]
          /\ admitted \in [Stocks -> SUBSET Signals]

Init == /\ holder = [k \in Stocks |-> NoSignal]
        /\ admitted = [k \in Stocks |-> {}]

Admit(s) == LET k == StockOf[s] IN
            /\ holder[k] = NoSignal
            /\ holder' = [holder EXCEPT ![k] = s]
            /\ admitted' = [admitted EXCEPT ![k] = {s}]

Forfeit(s) == LET k == StockOf[s] IN
              /\ holder[k] = NoSignal
              /\ holder' = [holder EXCEPT ![k] = s]
              /\ UNCHANGED admitted

Lapse(k) == /\ holder[k] # NoSignal
            /\ holder' = [holder EXCEPT ![k] = NoSignal]
            /\ admitted' = [admitted EXCEPT ![k] = {}]

Next == \/ \E s \in Signals : Admit(s) \/ Forfeit(s)
        \/ \E k \in Stocks : Lapse(k)

Spec == Init /\ [][Next]_vars
===========================================================================
