----------------------------- MODULE RestCalls -----------------------------
(***************************************************************************)
(* The REST calls of one transaction (TR) of the broker: http_utils.py     *)
(* merges the equal requests of concurrent scans into one task, charges    *)
(* it to the scan that started it, spaces the calls in the process and,    *)
(* with KiwoomRateLimiter.java, over a Redis key, and tries again after an *)
(* error.  The scanner's timeout cancels a scan while others wait with it. *)
(***************************************************************************)
EXTENDS Integers, FiniteSets

CONSTANTS Scans,
          Budget,          \* calls a scan may make
          Interval,        \* the interval of the TR, local and in Redis
          WaitFor,         \* KIWOOM_GLOBAL_RATE_LIMIT_WAIT_MS
          Backoff,         \* KIWOOM_GLOBAL_RATE_LIMIT_UNAVAILABLE_BACKOFF_MS
          MaxRetries,
          TaskBound,       \* bound: requests started
          Horizon          \* bound: the instants that are modelled

VARIABLES now, scan, tasks, inflight, lastLocal, lock, redisUp, disabledUntil,
          last, tight

vars == <<now, scan, tasks, inflight, lastLocal, lock, redisUp, disabledUntil, last, tight>>

\* The settings are durations and counts.
Configured == Budget \in Nat /\ Interval \in Nat /\ WaitFor \in Nat /\ Backoff \in Nat

NoTask == 0
Fresh == [pc |-> "running", task |-> NoTask, left |-> Budget, timedOut |-> FALSE]

Init ==
    /\ now = 0
    /\ scan = [s \in Scans |-> Fresh]
    /\ tasks = <<>>
    /\ inflight = NoTask
    /\ lastLocal = -Interval /\ lock = 0 /\ redisUp = TRUE
    /\ disabledUntil = [p \in {"python", "java"} |-> 0]
    /\ last = -Interval /\ tight = FALSE

Ended == {"ok", "none", "budget", "cancelled"}
Set(t, pc) ==
    IF pc \in Ended THEN [tasks EXCEPT ![t] = [@ EXCEPT !.pc = pc, !.attempt = 0, !.deadline = 0]]
    ELSE [tasks EXCEPT ![t].pc = pc]

\* coalesce_request: the unfinished task of the key, or a new one of this scan.
Fetch(s) ==
    /\ scan[s].pc = "running"
    /\ LET started == inflight = NoTask \/ tasks[inflight].pc \in Ended
           id      == Cardinality(DOMAIN tasks) + 1
       IN  /\ started => id <= TaskBound
           /\ tasks' = IF started
                       THEN [t \in 1..id |-> IF t < id THEN tasks[t]
                             ELSE [pc |-> "charge", owner |-> s, attempt |-> 0, deadline |-> 0, pending |-> TRUE]]
                       ELSE tasks
           /\ inflight' = IF started THEN id ELSE inflight
           /\ scan' = [scan EXCEPT ![s].pc = "waiting", ![s].task = inflight']
    /\ UNCHANGED <<now, lastLocal, lock, redisUp, disabledUntil, last, tight>>

\* The task's done callback removes whatever the key now holds.
Forget(t) ==
    /\ tasks[t].pc \in Ended /\ tasks[t].pending
    /\ tasks' = [tasks EXCEPT ![t].pending = FALSE]
    /\ inflight' = NoTask
    /\ UNCHANGED <<now, scan, lastLocal, lock, redisUp, disabledUntil, last, tight>>

\* _consume_call_budget: the scan that started the task pays, even when it is gone.
Charge(t) ==
    /\ tasks[t].pc = "charge"
    /\ LET s == tasks[t].owner
       IN  IF scan[s].left <= 0
           THEN tasks' = Set(t, "budget") /\ UNCHANGED scan
           ELSE tasks' = Set(t, "local") /\ scan' = [scan EXCEPT ![s].left = @ - 1]
    /\ UNCHANGED <<now, inflight, lastLocal, lock, redisUp, disabledUntil, last, tight>>

\* acquire: the lock of the TR and the interval since the last local call.
Pace(t) ==
    /\ tasks[t].pc = "local" /\ now - lastLocal >= Interval
    /\ lastLocal' = now
    /\ tasks' = [Set(t, "global") EXCEPT ![t].deadline = now + WaitFor]
    /\ UNCHANGED <<now, scan, inflight, lock, redisUp, disabledUntil, last, tight>>

Grants(granted) ==
    /\ last' = IF granted THEN now ELSE last
    /\ tight' = (tight \/ (granted /\ now - last < Interval))

\* (mutant) Without Redis the call goes out.
ReserveOpen(p) ==
    LET free == lock <= now
    IN  /\ IF redisUp /\ free
           THEN lock' = now + Interval ELSE UNCHANGED lock
        /\ Grants(~redisUp \/ free)
        /\ UNCHANGED disabledUntil

\* _acquire_global and acquireGlobal: SET NX PX of the TR's key; without Redis no
\* call of the process goes out for the backoff.
Reserve(p) ==
    LET asks == now >= disabledUntil[p]
        free == asks /\ redisUp /\ lock <= now
    IN  /\ lock' = IF free THEN now + Interval ELSE lock
        /\ Grants(free)
        /\ disabledUntil' = IF asks /\ ~redisUp
                            THEN [disabledUntil EXCEPT ![p] = now + Backoff] ELSE disabledUntil

\* The task asks for the key, asks again or gives up: the call is dropped.
AskGlobal(t) ==
    /\ tasks[t].pc = "global"
    /\ Reserve("python")
    /\ LET granted == redisUp /\ now >= disabledUntil["python"] /\ lock <= now
           refused == ~redisUp \/ now < disabledUntil["python"] \/ now >= tasks[t].deadline
       IN  /\ granted \/ refused
           /\ tasks' = Set(t, IF granted THEN "sent" ELSE "none")
    /\ UNCHANGED <<now, scan, inflight, lastLocal, redisUp>>

\* A call of the Java services, whose local semaphore is refilled by a timer.
JavaCall ==
    /\ Reserve("java")
    /\ UNCHANGED <<now, scan, tasks, inflight, lastLocal, redisUp>>

\* kiwoom_post: 429 and HTTP errors are tried again, everything else ends it.
Respond(t, result) ==
    /\ tasks[t].pc = "sent"
    /\ tasks' = IF result = "http_error" /\ tasks[t].attempt < MaxRetries
                THEN [Set(t, "charge") EXCEPT ![t].attempt = @ + 1]
                ELSE Set(t, IF result = "ok" THEN "ok" ELSE "none")
    /\ UNCHANGED <<now, scan, inflight, lastLocal, lock, redisUp, disabledUntil, last, tight>>

\* A waiter takes the answer of its task; an exhausted budget ends its scan.
Answer(s) ==
    /\ scan[s].pc = "waiting" /\ tasks[scan[s].task].pc \in Ended
    /\ LET result == tasks[scan[s].task].pc
       IN  scan' = [scan EXCEPT ![s].pc = IF result \in {"ok", "none"} THEN "running" ELSE result,
                                ![s].task = NoTask]
    /\ UNCHANGED <<now, tasks, inflight, lastLocal, lock, redisUp, disabledUntil, last, tight>>

\* (mutant) Without the shield the cancellation reaches the task.
AfterCancelUnshielded(t) ==
    IF tasks[t].pc \in Ended THEN tasks ELSE Set(t, "cancelled")

\* asyncio.shield: the task goes on without the waiter.
AfterCancel(t) == tasks

\* strategy_runner's timeout.
Timeout(s) ==
    /\ scan[s].pc = "waiting"
    /\ tasks' = AfterCancel(scan[s].task)
    /\ scan' = [scan EXCEPT ![s].pc = "cancelled", ![s].timedOut = TRUE, ![s].task = NoTask]
    /\ UNCHANGED <<now, inflight, lastLocal, lock, redisUp, disabledUntil, last, tight>>

\* begin_call_budget: the next scan of the strategy.
Restart(s) ==
    /\ scan[s].pc \in {"cancelled", "budget"}
    /\ scan' = [scan EXCEPT ![s] = Fresh]
    /\ UNCHANGED <<now, tasks, inflight, lastLocal, lock, redisUp, disabledUntil, last, tight>>

Redis ==
    /\ redisUp' = ~redisUp
    /\ UNCHANGED <<now, scan, tasks, inflight, lastLocal, lock, disabledUntil, last, tight>>

Tick ==
    /\ now < Horizon
    /\ now' = now + 1
    /\ UNCHANGED <<scan, tasks, inflight, lastLocal, lock, redisUp, disabledUntil, last, tight>>

Next ==
    \/ \E s \in Scans : Fetch(s) \/ Answer(s) \/ Timeout(s) \/ Restart(s)
    \/ \E t \in DOMAIN tasks :
          \/ Forget(t) \/ Charge(t) \/ Pace(t) \/ AskGlobal(t)
          \/ \E result \in {"ok", "http_error", "error"} : Respond(t, result)
    \/ JavaCall
    \/ Redis
    \/ Tick

Spec == Init /\ [][Next]_vars

-----------------------------------------------------------------------------
\* "Redis coordination is the dispatch authority": two calls of the TR, of either
\* process, are an interval apart, also while Redis fails and comes back.
GrantsAreSpaced == ~tight

\* coalesce_request's shield: a scan is cancelled by its own timeout only, never
\* by that of another scan that waits for the same request.
CancelledAlone == \A s \in Scans : scan[s].pc = "cancelled" => scan[s].timedOut
=============================================================================
