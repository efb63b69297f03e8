------------------------------ MODULE ScanCycle ------------------------------
(***************************************************************************)
(* The scheduler of strategy_runner.py: each cycle dispatches the          *)
(* strategies whose window is open, all at once but for the semaphore,     *)
(* under the broker token it loaded; a scan that waits for the semaphore   *)
(* is not looked at again, and one cycle ends before the next begins.  A   *)
(* cycle without a token, or that the session filter turns away, scans     *)
(* nothing.                                                                *)
(***************************************************************************)
EXTENDS Integers, Sequences, FiniteSets, Functions

CONSTANTS Order,           \* _SCHEDULE's strategies, in its order
          Opens, Closes,   \* their windows, in units of time
          TimeoutOf,       \* _strategy_timeout_sec, in units of time
          Slots,           \* MAX_CONCURRENT_STRATEGIES
          Pause,           \* the longest time between two cycles
          AtClose,            \* the strategy that scans when all others have closed
          ForceClose,      \* FORCE_CLOSE_TIME
          Day,             \* [from, until]: the instants of the instance
          SetbackBound     \* setbacks that are counted

Strategies == Range(Order)

\* setbacks counts the tokens that were replaced and the cycles that were turned away in the
\* window of the close; exhausted says that the latter went on beyond SetbackBound.
VARIABLES now, pending, running, started, resume, setbacks, exhausted, scanned, late

vars == <<now, pending, running, started, resume, setbacks, exhausted, scanned, late>>

-----------------------------------------------------------------------------
InWindow(s, t) == Opens[s] <= t /\ t <= Closes[s]
ActiveAt(t) == SelectSeq(Order, LAMBDA s : InWindow(s, t))
Active == ActiveAt(now)
Idle == pending = <<>> /\ running = {}

\* A cycle that begins at t is over by `end` if each of its scans uses all of its time: its
\* strategies fill the slots w times at most, and no time-out is longer than d.
OverBy(t, end) ==
    \E w \in 0..Len(ActiveAt(t)), d \in {TimeoutOf[s] : s \in Strategies} :
        /\ Len(ActiveAt(t)) <= w * Slots
        /\ \A i \in DOMAIN ActiveAt(t) : TimeoutOf[ActiveAt(t)[i]] <= d
        /\ t + w * d <= end

\* The schedules the theorem about the cycle is of.  The last cycle that can begin with one of the
\* day's strategies is over by FORCE_CLOSE_TIME.  While the window of the close is open there is
\* time for a cycle after each setback: the one after the k-th begins by due[k].
Configured ==
    /\ Slots \in Nat \ {0} /\ Pause \in Nat /\ SetbackBound \in Nat /\ ForceClose \in Int
    /\ TimeoutOf \in [Strategies -> Nat \ {0}] /\ AtClose \in Strategies
    /\ Opens[AtClose] \in Int /\ Closes[AtClose] \in Int
    /\ Day.from \in Int /\ Day.until \in Int /\ Day.from <= Day.until /\ Day.from <= Opens[AtClose]
    /\ \A t \in Day.from..Day.until :
           /\ ActiveAt(t) \in Seq(Strategies)
           /\ InWindow(AtClose, t) => \E i \in DOMAIN ActiveAt(t) : ActiveAt(t)[i] = AtClose
           /\ (\E i \in DOMAIN ActiveAt(t) : ActiveAt(t)[i] # AtClose) => OverBy(t, ForceClose)
    /\ \E due \in [0..SetbackBound + 1 -> Opens[AtClose]..Closes[AtClose] + Pause] :
           /\ due[SetbackBound] <= Closes[AtClose]
           /\ \A i, j \in 0..SetbackBound + 1 : i <= j => due[i] <= due[j]
           /\ \A t \in Day.from..Day.until :
                  /\ t < Opens[AtClose] => OverBy(t, due[0] - Pause)
                  /\ \A k \in 0..SetbackBound :
                         Opens[AtClose] <= t /\ t <= due[k] => OverBy(t, due[k + 1] - Pause)

Init ==
    /\ now = Day.from /\ resume = Day.from
    /\ pending = <<>> /\ running = {} /\ started = 0
    /\ setbacks = 0 /\ exhausted = FALSE /\ scanned = {} /\ late = FALSE

\* _run_once: the windows and the token are read once for the cycle.
BeginCycle ==
    /\ Idle /\ resume <= now /\ Active # <<>>
    /\ pending' = Active /\ started' = setbacks
    /\ UNCHANGED <<now, running, resume, setbacks, exhausted, scanned, late>>

\* _run_once returns where kiwoom:token is missing or cannot be read, or where the session
\* filter does not allow the run; the loop sleeps as after a cycle.
SkipCycle ==
    /\ Idle /\ resume <= now /\ Active # <<>>
    /\ resume' \in {now, now + Pause}
    /\ IF ~InWindow(AtClose, now) THEN UNCHANGED <<setbacks, exhausted>>
       ELSE IF setbacks < SetbackBound THEN setbacks' = setbacks + 1 /\ UNCHANGED exhausted
       ELSE exhausted' = TRUE /\ UNCHANGED setbacks
    /\ UNCHANGED <<now, pending, running, started, scanned, late>>

\* run_strategy_scanner sleeps after each cycle.
Rest(rest, scans) ==
    IF rest = <<>> /\ scans = {} THEN resume' \in {now, now + Pause} ELSE UNCHANGED resume

\* _push_signals: the results of a token that was replaced are discarded.
PublishResult(s) ==
    late' = (late \/ (setbacks = started /\ s # AtClose /\ now > ForceClose))

FreeSlot == Cardinality(running) < Slots

\* (mutant) Nothing ends a scan that hangs before its server drops the call.
RunsUntilDropped(s) == ForceClose + 1

RunsUntil(s) == now + TimeoutOf[s]

\* The next in order takes a slot; a scan without candidates answers at once.
Start ==
    /\ pending # <<>> /\ FreeSlot
    /\ pending' = Tail(pending)
    /\ scanned' = IF setbacks = started THEN scanned \cup ({Head(pending)} \cap {AtClose}) ELSE scanned
    /\ \/ /\ running' = running \cup {[s |-> Head(pending), until |-> RunsUntil(Head(pending))]}
          /\ UNCHANGED <<resume, late>>
       \/ /\ PublishResult(Head(pending))
          /\ UNCHANGED running
          /\ Rest(pending', running)
    /\ UNCHANGED <<now, started, setbacks, exhausted>>

Ended(scan) ==
    /\ running' = running \ {scan}
    /\ Rest(pending, running')
    /\ UNCHANGED <<now, pending, started, setbacks, exhausted>>

\* A scan that used all of its time answers in its last moment.
Finish(scan) == scan \in running /\ scan.until = now /\ PublishResult(scan.s) /\ Ended(scan) /\ UNCHANGED scanned

\* wait_for cancels it, the slot is free again.
TimeOut(scan) == scan \in running /\ scan.until = now /\ UNCHANGED <<scanned, late>> /\ Ended(scan)

\* The orchestrator replaces the token.
RefreshToken ==
    /\ setbacks < SetbackBound
    /\ setbacks' = setbacks + 1
    /\ UNCHANGED <<now, pending, running, started, resume, exhausted, scanned, late>>

\* Time passes when nothing is due: no slot is free for who waits, no scan is at its
\* time-out, no cycle is to begin.
Tick ==
    /\ now < Day.until
    /\ pending = <<>> \/ ~FreeSlot
    /\ \A scan \in running : scan.until > now
    /\ ~(Idle /\ resume <= now /\ Active # <<>>)
    /\ now' = now + 1
    /\ UNCHANGED <<pending, running, started, resume, setbacks, exhausted, scanned, late>>

Next ==
    \/ BeginCycle \/ SkipCycle \/ Start \/ RefreshToken \/ Tick
    \/ \E scan \in running : Finish(scan) \/ TimeOut(scan)

Spec == Init /\ [][Next]_vars

-----------------------------------------------------------------------------
\* Although a cycle looks at the windows once and its scans queue for the semaphore, none of the
\* day's strategies publishes after FORCE_CLOSE_TIME, if every scan uses all of its time (_run_once,
\* _run_strategy_with_semaphore).
NoLateEntries == ~late

\* The strategy of the close, whose window opens when a cycle of all others may have just begun,
\* is scanned under a token that was current when its scan began, if no more than SetbackBound
\* tokens were replaced and cycles turned away (_run_once, _push_signals).
CloseIsScanned == now > Closes[AtClose] => AtClose \in scanned \/ exhausted

\* The cycle neither runs into the close nor past its own window.
CycleHolds == NoLateEntries /\ CloseIsScanned
=============================================================================
