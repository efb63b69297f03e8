------------------------------ MODULE AiGateway ------------------------------
(***************************************************************************)
(* ai_gateway.create_message and its callers in analyzer.py: every call of *)
(* Claude reads the block that a limit error leaves in Redis, is sent, is  *)
(* recorded in ai_api_usage, and may be cut by its caller's time-out at    *)
(* any of these awaits.  The callers turn whatever comes of it into advice *)
(* to enter (or to exit), and everything but an answer into the contrary.  *)
(***************************************************************************)
EXTENDS Integers, FiniteSets

CONSTANTS Workers,     \* the coroutines that may be in a call at one time
          Kinds,       \* of {"primary", "recheck", "score", "exit"}
          Limits,      \* the daily limits of the kinds that have one
          BlockTtl,    \* _BLOCK_TTL_SEC, in units of time
          Horizon      \* the last instant of the instance, within one day

VARIABLES now,
          used,        \* claude:daily_calls and claude:daily_hold_recheck_calls
          blocked,     \* when claude:api_blocked expires
          call,        \* each worker's last call
          hits         \* limit errors met since the block began

vars == <<now, used, blocked, call, hits>>

\* What the theorems assume: some workers, and limits and a block that are numbers.
Configured ==
    /\ IsFiniteSet(Workers) /\ Workers # {}
    /\ Limits \in [DOMAIN Limits -> Nat] /\ BlockTtl \in Nat

-----------------------------------------------------------------------------
\* What the provider answers: advice in JSON, text that is none, or one of two errors.
Answers == {"yes", "no", "text"}
Errors == {"limit", "error"}
IsSignal(w) == call[w].kind # "exit"

\* success and error count the audit rows of the call, cut is what its time-out
\* interrupted, lost tells that a write of an audit row failed, blind that no block was read.
NewCall(k) == [kind |-> k, at |-> "block", begun |-> now, answer |-> "none", advice |-> "none",
               success |-> 0, error |-> 0, cut |-> "nothing", lost |-> FALSE, blind |-> FALSE]
At(w, points) == call[w].at \in points
Become(w, next) == call' = [call EXCEPT ![w] = next]

Init ==
    /\ now = 0 /\ used = [k \in DOMAIN Limits |-> 0] /\ blocked = 0 /\ hits = 0
    /\ call = [w \in Workers |-> [NewCall("exit") EXCEPT !.at = "rest", !.cut = "budget"]]

\* What is left of a call that ended, and what its caller makes of it.
Ended(w, advice) == [call[w] EXCEPT !.at = "rest", !.begun = 0, !.blind = FALSE, !.advice = advice]

\* (mutant) A time-out leaves the decision to the rule score.
AfterTimeoutByRule == "yes"

AfterTimeout == "no"

\* analyze_signal: the row of an answer that is no JSON is corrected first.
AfterSignal(w) ==
    IF call[w].answer = "text" THEN [call[w] EXCEPT !.at = "mark"]
    ELSE Ended(w, IF call[w].answer = "yes" THEN "yes" ELSE "no")

\* analyze_exit leaves the row of an unusable answer as it is.
AfterExit(w) == Ended(w, IF call[w].answer = "yes" THEN "yes" ELSE "no")

AfterAnswer(w) == IF IsSignal(w) THEN AfterSignal(w) ELSE AfterExit(w)

-----------------------------------------------------------------------------
\* check_daily_limit: one Lua script compares and counts; when Redis fails the call is allowed.
Begin(w, k) ==
    /\ At(w, {"rest"}) /\ Become(w, NewCall(k))
    /\ \/ k \in DOMAIN Limits /\ used[k] < Limits[k] /\ used' = [used EXCEPT ![k] = @ + 1]
       \/ UNCHANGED used
    /\ UNCHANGED <<now, blocked, hits>>

\* evaluate_ai_decision: above the limit nothing is asked and nothing entered.
OverBudget(w, k) ==
    /\ At(w, {"rest"}) /\ k \in DOMAIN Limits /\ used[k] >= Limits[k]
    /\ Become(w, [NewCall(k) EXCEPT !.at = "rest", !.begun = 0, !.advice = "no", !.cut = "budget"])
    /\ UNCHANGED <<now, used, blocked, hits>>

\* (mutant) Only the signals look for the block.
StoppedSignalsOnly(w) == blocked > now /\ IsSignal(w)

Stopped(w) == blocked > now

\* _blocked_reason; a block that cannot be read is none.
ReadBlock(w) ==
    /\ At(w, {"block"})
    /\ \/ Become(w, [call[w] EXCEPT !.at = IF Stopped(w) THEN "failed" ELSE "sent"])
       \/ Become(w, [call[w] EXCEPT !.at = "sent", !.blind = TRUE])
    /\ UNCHANGED <<now, used, blocked, hits>>

Answered(w, answer) ==
    /\ At(w, {"sent"})
    /\ Become(w, [call[w] EXCEPT !.answer = answer,
                                 !.at = CASE answer \in Answers -> "answered"
                                          [] answer = "limit" -> "limited" [] OTHER -> "failed"])
    /\ hits' = IF answer = "limit" /\ blocked > now /\ ~call[w].blind THEN hits + 1 ELSE hits
    /\ UNCHANGED <<now, used, blocked>>

\* A limit error blocks every caller; a Redis that fails keeps no block.
StoreBlock(w) ==
    /\ At(w, {"limited"}) /\ Become(w, [call[w] EXCEPT !.at = "failed"])
    /\ \/ blocked' = now + BlockTtl /\ hits' = IF blocked > now THEN hits ELSE 0
       \/ UNCHANGED <<blocked, hits>>
    /\ UNCHANGED <<now, used>>

\* _record of an error that is raised again, and of a call that was cut.
RecordError(w) ==
    /\ At(w, {"failed", "cancelled"})
    /\ LET end == Ended(w, IF At(w, {"failed"}) THEN "no" ELSE AfterTimeout) IN
       \/ Become(w, [end EXCEPT !.error = @ + 1])
       \/ Become(w, [end EXCEPT !.lost = TRUE])
    /\ UNCHANGED <<now, used, blocked, hits>>

RecordSuccess(w) ==
    /\ At(w, {"answered"})
    /\ \/ Become(w, [AfterAnswer(w) EXCEPT !.success = 1])
       \/ Become(w, [AfterAnswer(w) EXCEPT !.lost = TRUE])
    /\ UNCHANGED <<now, used, blocked, hits>>

\* mark_response_unusable turns the row of the call, if there is one.
Mark(w) ==
    /\ At(w, {"mark"})
    /\ \/ Become(w, [Ended(w, "no") EXCEPT !.success = 0, !.error = @ + call[w].success])
       \/ Become(w, [Ended(w, "no") EXCEPT !.lost = TRUE])
    /\ UNCHANGED <<now, used, blocked, hits>>

\* wait_for cancels the call at the await it is in.  Sent or recorded, it is recorded as
\* cut, also when its row was written already; elsewhere nothing more is written.  Only
\* /score waits for the marking under a time-out.
Cut(w) ==
    /\ \/ At(w, {"sent"}) /\ Become(w, [call[w] EXCEPT !.at = "cancelled", !.cut = "sent"])
       \/ /\ At(w, {"answered"})
          /\ \E rows \in {0, 1} :
                 Become(w, [call[w] EXCEPT !.at = "cancelled", !.cut = "record", !.success = rows])
       \/ /\ At(w, {"block", "limited", "failed"} \cup IF call[w].kind = "score" THEN {"mark"} ELSE {})
          /\ Become(w, [Ended(w, AfterTimeout) EXCEPT !.cut = "elsewhere"])
    /\ UNCHANGED <<now, used, blocked, hits>>

\* A call is shorter than a unit of time: it may see one instant pass.
Tick ==
    /\ now < Horizon /\ now' = now + 1
    /\ \A w \in Workers : ~At(w, {"rest"}) => call[w].begun = now
    /\ UNCHANGED <<used, blocked, call, hits>>

Next ==
    \/ \E w \in Workers, k \in Kinds : Begin(w, k) \/ OverBudget(w, k)
    \/ \E w \in Workers : ReadBlock(w) \/ StoreBlock(w) \/ RecordError(w) \/ RecordSuccess(w) \/ Mark(w) \/ Cut(w)
    \/ \E w \in Workers, answer \in Answers \cup Errors : Answered(w, answer)
    \/ Tick

Spec == Init /\ [][Next]_vars

-----------------------------------------------------------------------------
\* Claude's advice is followed only if it gave it: a call that was cut, refused, unreadable
\* or in error never ends in an entry or an exit (_ai_failure_cancel, analyze_exit).
AdviceWasGiven ==
    \A w \in Workers : At(w, {"rest"}) /\ call[w].advice = "yes" => call[w].answer = "yes" /\ call[w].cut = "nothing"

\* Once a limit error has stored its block, the only calls that can still meet the limit
\* are those the other workers had under way: each meets it once, then reads the block.
BlockStopsTheRest == hits < Cardinality(Workers)

\* Unless a write failed or the time-out fell on an audit await, a signal's call leaves one
\* row, and that row says SUCCESS exactly if its answer could be used.
AuditTellsOutcome ==
    \A w \in Workers :
        At(w, {"rest"}) /\ IsSignal(w) /\ ~call[w].lost /\ call[w].cut \in {"nothing", "sent"} =>
            /\ call[w].success + call[w].error = 1
            /\ call[w].success = 1 <=> call[w].cut = "nothing" /\ call[w].answer \in {"yes", "no"}

\* What one call leaves in Redis and in the audit table, the others and the reader can rely on.
RecordsHold == BlockStopsTheRest /\ AuditTellsOutcome
=============================================================================
