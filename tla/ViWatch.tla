------------------------------ MODULE ViWatch ------------------------------
(***************************************************************************)
(* The watch for a pullback after a volatility interruption (VI):          *)
(* write_vi of the websocket listener records what the exchange says and   *)
(* queues a watch of each release; vi_watch_worker.py takes the watches    *)
(* one at a time, checks the pullback (check_vi_pullback of strategy S2)   *)
(* and queues again what is not decided.  A push that a client sends twice *)
(* after a time-out is left out, and the supplement is one step.           *)
(***************************************************************************)
EXTENDS Integers, Sequences, FiniteSets

CONSTANTS Stocks,
          RawPrices,       \* the VI prices as the exchange sends them, perhaps signed, never 0
          WatchFor,        \* how long a watch lasts, watch_until
          ReleaseLease,    \* _VI_RELEASE_QUEUE_DEDUP_SEC, _SUPPLEMENT_DEDUP_SEC
          SupplementAge,   \* _SUPPLEMENT_RELEASE_MAX_AGE_MS
          SignalLease,     \* the scanner's dedup key
          QueueBound,      \* bound: watches waiting at once
          Horizon          \* bound: the instants that are modelled

VARIABLES now, open, vi, lease, queue, hand, signalled

vars == <<now, open, vi, lease, queue, hand, signalled>>

\* What the theorem assumes: a release keeps its lease longer than it is watched.
Configured ==
    /\ RawPrices \subseteq Int \ {0}
    /\ WatchFor \in Nat /\ ReleaseLease \in Nat /\ WatchFor < ReleaseLease
    /\ IsFiniteSet(Stocks)

Abs(x) == IF x < 0 THEN -x ELSE x
NoStatus == ""
Unseen == [price |-> 0, status |-> NoStatus, releasedAt |-> 0]
Watch(stock, price) == [stock |-> stock, price |-> price, until |-> now + WatchFor]

Init ==
    /\ now = 1 /\ open = TRUE
    /\ vi = [stock \in Stocks |-> Unseen]
    /\ lease = [key \in Stocks \X (RawPrices \cup {Abs(p) : p \in RawPrices}) |-> 0]
    /\ queue = <<>> /\ hand = <<>>
    /\ signalled = [stock \in Stocks |-> 0]

Free(key) == lease[key] <= now
Taken(key) == [lease EXCEPT ![key] = now + ReleaseLease]

\* What write_vi stores of an event.
Recorded(stock, price, status) ==
    [price |-> price, status |-> status,
     releasedAt |-> IF status = "released" THEN now ELSE vi[stock].releasedAt]

\* A VI begins: the stored price is the price as sent.
Triggered(stock, price) ==
    /\ vi' = [vi EXCEPT ![stock] = Recorded(stock, price, "active")]
    /\ UNCHANGED <<now, open, lease, queue, hand, signalled>>

\* (mutant) A release is queued without its key.
QueueReleaseUnkeyed(stock, price, failure) ==
    /\ lease' = lease
    /\ queue' = IF open /\ failure = "none"
                THEN <<Watch(stock, Abs(price))>> \o queue ELSE queue

\* The tail of write_vi: nothing outside the window of S2, or when the insert
\* of the event fails first; the key before the push, which may fail.
QueueRelease(stock, price, failure) ==
    LET key   == <<stock, Abs(price)>>
        taken == open /\ failure # "insert" /\ Free(key)
    IN  /\ lease' = IF taken THEN Taken(key) ELSE lease
        /\ queue' = IF taken /\ failure # "push"
                    THEN <<Watch(stock, Abs(price))>> \o queue ELSE queue

\* A VI ends, or its snapshot is sent again after a new subscription.
Released(stock, price, failure) ==
    /\ Len(queue) < QueueBound
    /\ vi' = [vi EXCEPT ![stock] = Recorded(stock, price, "released")]
    /\ QueueRelease(stock, price, failure)
    /\ UNCHANGED <<now, open, hand, signalled>>

-----------------------------------------------------------------------------
Pop ==
    /\ hand = <<>> /\ queue # <<>>
    /\ hand' = <<queue[Len(queue)]>>
    /\ queue' = SubSeq(queue, 1, Len(queue) - 1)
    /\ UNCHANGED <<now, open, vi, lease, signalled>>

\* _is_stale_release_item: a later VI of the stock has another price; a signed
\* price is not compared.
Superseded(item) ==
    vi[item.stock].price > 0 /\ item.price > 0 /\ vi[item.stock].price # item.price

\* The worker discards, publishes or queues again the watch it holds.  What
\* check_vi_pullback finds is open: "unmet", a signal, or one that may not be
\* published.  (It asks for the volume at the interruption, which nothing in the
\* code records, so that of the code S2 finds no signal.)
Check(outcome) ==
    /\ hand # <<>>
    /\ LET item == hand[1]
           live == open /\ ~Superseded(item) /\ now <= item.until
           fresh == live /\ outcome = "signal" /\ signalled[item.stock] <= now
       IN  /\ signalled' = IF fresh THEN [signalled EXCEPT ![item.stock] = now + SignalLease]
                           ELSE signalled
           /\ queue' = IF live /\ outcome = "unmet" THEN <<item>> \o queue ELSE queue
    /\ hand' = <<>>
    /\ UNCHANGED <<now, open, vi, lease>>

\* An exception or a crash after the pop: the watch is gone.
Lose ==
    /\ hand # <<>>
    /\ hand' = <<>>
    /\ UNCHANGED <<now, open, vi, lease, queue, signalled>>

\* What _supplement_from_pool restores: a release of the last minute that is
\* not signalled and whose key, of the price as stored, is free.
Missed(stock) ==
    /\ signalled[stock] <= now
    /\ vi[stock].price # 0 /\ vi[stock].status = "released"
    /\ now - vi[stock].releasedAt <= SupplementAge
    /\ Free(<<stock, vi[stock].price>>)

\* The queue is empty: the worker looks through the pool of S2 candidates, key
\* before push, up to the one whose push fails.
Supplement(pool, failed) ==
    /\ hand = <<>> /\ queue = <<>> /\ open
    /\ LET found  == {stock \in pool : Missed(stock)}
           pushed == found \ failed
       IN  /\ found # {}
           /\ lease' = [key \in DOMAIN lease |->
                  IF \E stock \in found : key = <<stock, vi[stock].price>>
                  THEN now + ReleaseLease ELSE lease[key]]
           /\ \E order \in [1..Cardinality(pushed) -> pushed] :
                 /\ \A i, j \in DOMAIN order : order[i] = order[j] => i = j
                 /\ queue' = [i \in DOMAIN order |-> Watch(order[i], vi[order[i]].price)]
    /\ UNCHANGED <<now, open, vi, hand, signalled>>

\* 14:50, the end of the window of S2.
CloseWindow ==
    /\ open /\ open' = FALSE
    /\ UNCHANGED <<now, vi, lease, queue, hand, signalled>>

Tick ==
    /\ now < Horizon
    /\ now' = now + 1
    /\ UNCHANGED <<open, vi, lease, queue, hand, signalled>>

Next ==
    \/ \E stock \in Stocks, price \in RawPrices :
          \/ Triggered(stock, price)
          \/ \E failure \in {"none", "insert", "push"} : Released(stock, price, failure)
    \/ Pop
    \/ \E outcome \in {"unmet", "signal", "barred"} : Check(outcome)
    \/ Lose
    \/ \E pool \in SUBSET Stocks, failed \in {{}} \cup {{stock} : stock \in Stocks} :
          Supplement(pool, failed)
    \/ CloseWindow
    \/ Tick

Spec == Init /\ [][Next]_vars

-----------------------------------------------------------------------------
Waiting == {hand[i] : i \in DOMAIN hand} \cup {queue[i] : i \in DOMAIN queue}
Places(item) ==
    Cardinality({i \in DOMAIN queue : queue[i].stock = item.stock /\ queue[i].price = item.price
                                       /\ now <= queue[i].until})
    + Cardinality({i \in DOMAIN hand : hand[i].stock = item.stock /\ hand[i].price = item.price
                                       /\ now <= hand[i].until})

\* The listener writes a release again after each subscription and the worker
\* restores it from the pool; under each key, stock and price, it is watched at
\* most once at a time all the same.  (A price with a minus sign has two keys, as
\* write_vi drops the sign and the supplement keeps it: two watches, one of each.)
OneWatchPerRelease == \A item \in Waiting : Places(item) <= 1
============================================================================
