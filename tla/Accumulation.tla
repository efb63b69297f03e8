---------------------------- MODULE Accumulation ----------------------------
(***************************************************************************)
(* The daily watch of S16, strategy_16_accumulation.py and                 *)
(* s16_accumulation_state.py: each scan evaluates the candidates one by    *)
(* one, keeps what it knows of each in Redis, queues a trigger for those   *)
(* that break out after days of accumulation, and hands the oldest         *)
(* triggers to the scanner.  The scanner's timeout cancels a scan anywhere.*)
(***************************************************************************)
EXTENDS Integers, Sequences, FiniteSets

CONSTANTS Stocks,
          DayLength,        \* instants of a calendar day
          MinObserveDays, SignalLimit,
          WatchTtl,         \* instants a watch lives without an evaluation
          TriggerTtl,       \* S16_TRIGGER_DEDUP_TTL_SEC
          Horizon           \* bound: the instants that are modelled

VARIABLES now, watch, triggered, queue, scan, handed, seenOn

vars == <<now, watch, triggered, queue, scan, handed, seenOn>>

NoState == ""
Unwatched == [state |-> NoState, first |-> 0, until |-> 0]

\* What the theorem assumes: a day has a length, and what is counted is a number.
Configured == DayLength \in Nat \ {0} /\ MinObserveDays \in Nat /\ WatchTtl \in Nat /\ TriggerTtl \in Nat

Day(t) == t \div DayLength
Resting == [pc |-> "idle", todo |-> {}, popped |-> <<>>, code |-> <<>>]

Init ==
    /\ now = 0
    /\ watch = [stock \in Stocks |-> Unwatched]
    /\ triggered = [stock \in Stocks |-> [day |-> -1, until |-> 0]]
    /\ queue = <<>>
    /\ scan = Resting
    /\ handed = {}
    /\ seenOn = {}

\* _read_candidate_codes: the pools and the universe at the start of the scan.
Start(codes) ==
    /\ scan.pc = "idle"
    /\ scan' = [Resting EXCEPT !.pc = "evaluate", !.todo = codes]
    /\ UNCHANGED <<now, watch, triggered, queue, handed, seenOn>>

\* (mutant) The watch of a stock never lapses.
FirstSeenEver(stock) == IF watch[stock].state # NoState THEN watch[stock].first ELSE 0

\* The first sight of a stock, as long as its watch has not lapsed; the days it
\* was rejected on count as well.
FirstSeen(stock) ==
    IF watch[stock].state # NoState /\ now < watch[stock].until THEN watch[stock].first ELSE now

ObservedDays(first) == Day(now) - Day(first) + 1

\* SETNX of s16:triggered:{stock}:{day}.
KeyFree(stock) == triggered[stock].day # Day(now) \/ triggered[stock].until <= now

\* _evaluate_code up to enqueue_trigger: the state of the metrics is saved
\* whatever it is, and the day's key is taken before the push.
Evaluate(stock, state) ==
    /\ scan.pc = "evaluate" /\ stock \in scan.todo
    /\ LET first == FirstSeen(stock)
           ripe  == state = "TRIGGERED" /\ ObservedDays(first) >= MinObserveDays
           fresh == ripe /\ KeyFree(stock)
       IN  /\ watch' = [watch EXCEPT ![stock] = [state |-> state, first |-> first, until |-> now + WatchTtl]]
           /\ triggered' = IF fresh
                           THEN [triggered EXCEPT ![stock] = [day |-> Day(now), until |-> now + TriggerTtl]]
                           ELSE triggered
           /\ scan' = [scan EXCEPT !.todo = @ \ {stock},
                                   !.code = IF fresh THEN <<[stock |-> stock, at |-> now, kept |-> TRUE]>> ELSE <<>>,
                                   !.pc = IF fresh THEN "push" ELSE "evaluate"]
           /\ seenOn' = seenOn \cup {<<stock, Day(now)>>}
    /\ UNCHANGED <<now, queue, handed>>

Push ==
    /\ scan.pc = "push"
    /\ queue' = scan.code \o queue
    /\ scan' = [scan EXCEPT !.pc = "evaluate", !.code = <<>>]
    /\ UNCHANGED <<now, watch, triggered, handed, seenOn>>

\* pop_trigger: whoever queued it and on whatever day; one whose risk-reward is
\* too low counts against the limit and is dropped.
PopTrigger(kept) ==
    /\ scan.pc = "evaluate" /\ scan.todo = {}
    /\ queue # <<>> /\ Len(scan.popped) < SignalLimit
    /\ scan' = [scan EXCEPT !.popped = Append(@, [queue[Len(queue)] EXCEPT !.kept = kept])]
    /\ queue' = SubSeq(queue, 1, Len(queue) - 1)
    /\ UNCHANGED <<now, watch, triggered, handed, seenOn>>

Finish ==
    /\ scan.pc = "evaluate" /\ scan.todo = {}
    /\ queue = <<>> \/ Len(scan.popped) = SignalLimit
    /\ handed' = handed \cup {[stock |-> scan.popped[i].stock, at |-> scan.popped[i].at, on |-> Day(now)] :
                                 i \in {j \in DOMAIN scan.popped : scan.popped[j].kept}}
    /\ scan' = Resting
    /\ UNCHANGED <<now, watch, triggered, queue, seenOn>>

\* strategy_runner's timeout: the scan stops between two calls, and what it
\* popped, or was about to push, is lost.
Cancel ==
    /\ scan.pc # "idle"
    /\ scan' = Resting
    /\ UNCHANGED <<now, watch, triggered, queue, handed, seenOn>>

Tick ==
    /\ now < Horizon
    /\ now' = now + 1
    /\ UNCHANGED <<watch, triggered, queue, scan, handed, seenOn>>

Next ==
    \/ \E codes \in SUBSET Stocks : Start(codes)
    \/ \E stock \in Stocks, state \in {"REJECTED", "TRIGGERED"} : Evaluate(stock, state)
    \/ Push
    \/ \E kept \in BOOLEAN : PopTrigger(kept)
    \/ Finish
    \/ Cancel
    \/ Tick

Spec == Init /\ [][Next]_vars

-----------------------------------------------------------------------------
\* S16_MIN_OBSERVE_DAYS: whatever reaches the scanner broke out on a later day
\* than one it was evaluated on, although queue, watch and key lapse on clocks
\* of their own and a scan may stop anywhere.
HandedAfterObservation ==
    \A h \in handed : \E d \in 0..(Day(h.at) - MinObserveDays + 1) : <<h.stock, d>> \in seenOn

\* The key of the day: two breakouts of a stock on one day that reach the
\* scanner were found a lease apart, by however many scans.
TriggersAreSpaced ==
    \A g, h \in handed :
        g.stock = h.stock /\ g.at < h.at /\ Day(g.at) = Day(h.at) => h.at - g.at >= TriggerTtl

\* The triggers of S16 come after days of observation, and one at a time.
TriggersHold == HandedAfterObservation /\ TriggersAreSpaced
=============================================================================
