------------------------------ MODULE Notifier ------------------------------
(***************************************************************************)
(* The way of a notice to the users: the producers push it on              *)
(* telegram_queue, whose items the engine's worker scores, or straight on  *)
(* ai_scored_queue; the telegram bot (handlers/signals.js) takes the       *)
(* latter one at a time, claims the notices of a position event, limits    *)
(* the signals of a minute and sends to every chat.                        *)
(***************************************************************************)
EXTENDS Integers, Sequences, FiniteSets

CONSTANTS Chats,
          Events,          \* what a keyed notice (SELL_SIGNAL, HOLD_WATCH, ...) is about
          SendLease,       \* USER_SEND_DEDUP_TTL_SEC and its siblings
          Minute, MaxSignalsPerMin,
          MaxDefers, DeferFor,
          EmitBound,       \* bound: notices produced
          Horizon          \* bound: the instants that are modelled

VARIABLES now, emitted, telegramQueue, scoredQueue, hand, claims, limiter,
          deferred, sent, admitted, skipped, orphans, unlocked

vars == <<now, emitted, telegramQueue, scoredQueue, hand, claims, limiter,
          deferred, sent, admitted, skipped, orphans, unlocked>>

\* The notices by how BROADCAST_HANDLERS treats them: keyed, without a key, with
\* a handler that returns null, and those that it does not know.
Keyed == {"SELL_SIGNAL"}
Plain == {"DAILY_REPORT"}
Muted == {"NEWS_ALERT"}
Scored == {"SIGNAL", "OVERNIGHT_RISK_ALERT"}
NoEvent == "none"

\* The settings are counts and durations, and no event is called as none is.
Configured ==
    /\ SendLease \in Nat /\ Minute \in Nat /\ MaxSignalsPerMin \in Nat
    /\ DeferFor \in Nat /\ NoEvent \notin Events

Notice(kind, event) ==
    [id |-> IF event = NoEvent THEN 0 ELSE emitted + 1, kind |-> kind, event |-> event, decision |-> "", defers |-> 0]
Resting == [pc |-> "idle"]

Init ==
    /\ now = 0 /\ emitted = 0
    /\ telegramQueue = <<>> /\ scoredQueue = <<>>
    /\ hand = Resting
    /\ claims = [event \in Events |-> 0]
    /\ limiter = [count |-> 0, start |-> 0]
    /\ deferred = {}
    /\ sent = {} /\ admitted = <<>> /\ skipped = {} /\ orphans = {} /\ unlocked = {}

-----------------------------------------------------------------------------
\* pushScoredQueue, push_score_only_queue: straight to the bot.
EmitScored(notice) ==
    /\ emitted < EmitBound /\ emitted' = emitted + 1
    /\ scoredQueue' = <<notice>> \o scoredQueue
    /\ UNCHANGED <<now, telegramQueue, hand, claims, limiter, deferred, sent, admitted, skipped, orphans, unlocked>>

\* pushTelegramQueue: signals, the daily report and the warning of 08:30.
EmitTelegram(notice) ==
    /\ emitted < EmitBound /\ emitted' = emitted + 1
    /\ telegramQueue' = <<notice>> \o telegramQueue
    /\ UNCHANGED <<now, scoredQueue, hand, claims, limiter, deferred, sent, admitted, skipped, orphans, unlocked>>

\* process_one: the daily report is passed on; all else is scored as a signal.
Work(decision) ==
    /\ telegramQueue # <<>>
    /\ LET item == telegramQueue[Len(telegramQueue)]
       IN  scoredQueue' = <<IF item.kind \in Plain THEN item
                            ELSE [item EXCEPT !.decision = decision]>> \o scoredQueue
    /\ telegramQueue' = SubSeq(telegramQueue, 1, Len(telegramQueue) - 1)
    /\ UNCHANGED <<now, emitted, hand, claims, limiter, deferred, sent, admitted, skipped, orphans, unlocked>>

-----------------------------------------------------------------------------
Broadcast(item, claimed) ==
    [pc |-> "send", item |-> item, todo |-> Chats, ok |-> 0, failed |-> 0, at |-> now, claimed |-> claimed]

\* popScoredQueue and the first branch of processItem: a notice with a handler is
\* claimed (SET NX) and broadcast; when the claim fails it is sent without one, and
\* one that the client sends again after a lost reply finds its own key.
TakeNotice(claim) ==
    /\ hand.pc = "idle" /\ scoredQueue # <<>>
    /\ LET item   == scoredQueue[Len(scoredQueue)]
           free   == item.kind \in Plain \/ claims[item.event] <= now
           taken  == item.kind \in Keyed /\ claim # "failed" /\ free
           passed == claim = "failed" \/ (free /\ ~(taken /\ claim = "resent"))
       IN  /\ item.kind \in Keyed \cup Plain
           /\ claims' = IF taken THEN [claims EXCEPT ![item.event] = now + SendLease] ELSE claims
           /\ hand' = IF passed THEN Broadcast(item, taken) ELSE Resting
           /\ skipped' = IF passed THEN skipped ELSE skipped \cup {[kind |-> item.kind, event |-> item.event]}
           /\ orphans' = IF taken /\ ~passed THEN orphans \cup {item.event} ELSE orphans
    /\ scoredQueue' = SubSeq(scoredQueue, 1, Len(scoredQueue) - 1)
    /\ UNCHANGED <<now, emitted, telegramQueue, limiter, deferred, sent, admitted, unlocked>>

\* _checkRateLimit: the window starts with the first signal after the last one ended.
Window ==
    IF now - limiter.start >= Minute THEN [count |-> 0, start |-> now] ELSE limiter

\* The rest of processItem: what is no ENTER is skipped, whatever its type; a
\* signal beyond the limit is deferred in memory, at most MaxDefers times.
TakeSignal ==
    /\ hand.pc = "idle" /\ scoredQueue # <<>>
    /\ LET item  == scoredQueue[Len(scoredQueue)]
           enter == item.decision = "ENTER"
           room  == Window.count < MaxSignalsPerMin
       IN  /\ item.kind \notin Keyed \cup Plain
           /\ limiter' = IF ~enter THEN limiter
                         ELSE [Window EXCEPT !.count = IF room THEN @ + 1 ELSE @]
           /\ hand' = IF enter /\ room THEN Broadcast(item, FALSE) ELSE Resting
           /\ admitted' = IF enter /\ room THEN Append(admitted, now) ELSE admitted
           /\ deferred' = IF enter /\ ~room /\ item.defers < MaxDefers
                          THEN deferred \cup {[item |-> [item EXCEPT !.defers = @ + 1],
                                               due |-> now + DeferFor]}
                          ELSE deferred
           /\ skipped' = IF enter THEN skipped ELSE skipped \cup {[kind |-> item.kind, event |-> item.event]}
    /\ scoredQueue' = SubSeq(scoredQueue, 1, Len(scoredQueue) - 1)
    /\ UNCHANGED <<now, emitted, telegramQueue, claims, sent, orphans, unlocked>>

\* sendMessageWithRetry for one chat after the other, each its own try.
Send(chat, ok) ==
    /\ hand.pc = "send" /\ chat \in hand.todo
    /\ hand' = [hand EXCEPT !.todo = @ \ {chat}, !.ok = IF ok THEN @ + 1 ELSE @,
                            !.failed = IF ok THEN @ ELSE @ + 1]
    /\ sent' = IF ok /\ hand.item.kind \in Keyed
               THEN sent \cup {[id |-> hand.item.id, event |-> hand.item.event, chat |-> chat,
                                   at |-> hand.at, claimed |-> hand.claimed]}
               ELSE sent
    /\ UNCHANGED <<now, emitted, telegramQueue, scoredQueue, claims, limiter, deferred, admitted, skipped, orphans, unlocked>>

\* (mutant) The claim is given back as soon as one chat was not reached.
ReleasesOnFailure == hand.item.kind \in Keyed /\ hand.failed > 0

\* The claim is given back when no chat was reached, whoever holds it.
Releases == hand.item.kind \in Keyed /\ hand.ok = 0

\* The end of a broadcast; _releaseUserSend may fail, and then the claim stays.
Finish(released) ==
    /\ hand.pc = "send" /\ hand.todo = {}
    /\ claims' = IF Releases /\ released THEN [claims EXCEPT ![hand.item.event] = 0] ELSE claims
    /\ unlocked' = IF Releases /\ released /\ ~hand.claimed THEN unlocked \cup {hand.item.event} ELSE unlocked
    /\ orphans' = IF Releases /\ ~released /\ hand.claimed THEN orphans \cup {hand.item.event} ELSE orphans
    /\ hand' = Resting
    /\ UNCHANGED <<now, emitted, telegramQueue, scoredQueue, limiter, deferred, sent, admitted, skipped>>

\* The timer of _deferScoredItem.
Requeue(d) ==
    /\ d.due <= now
    /\ deferred' = deferred \ {d}
    /\ scoredQueue' = <<d.item>> \o scoredQueue
    /\ UNCHANGED <<now, emitted, telegramQueue, hand, claims, limiter, sent, admitted, skipped, orphans, unlocked>>

\* The bot restarts: what it held and what it deferred is gone, the claim stays.
Crash ==
    /\ hand # Resting \/ deferred # {}
    /\ orphans' = IF hand.pc = "send" THEN orphans \cup {hand.item.event} ELSE orphans
    /\ hand' = Resting /\ deferred' = {} /\ admitted' = <<>>
    /\ limiter' = [count |-> 0, start |-> now]
    /\ UNCHANGED <<now, emitted, telegramQueue, scoredQueue, claims, sent, skipped, unlocked>>

Tick ==
    /\ now < Horizon
    /\ now' = now + 1
    /\ UNCHANGED <<emitted, telegramQueue, scoredQueue, hand, claims, limiter, deferred, sent, admitted, skipped, orphans, unlocked>>

Next ==
    \/ \E event \in Events : EmitScored(Notice("SELL_SIGNAL", event))
    \/ EmitScored(Notice("NEWS_ALERT", NoEvent))
    \/ \E kind \in Scored \cup Plain : EmitTelegram(Notice(kind, NoEvent))
    \/ \E decision \in {"ENTER", "BLOCK"} : Work(decision)
    \/ \E claim \in {"answered", "failed", "resent"} : TakeNotice(claim)
    \/ TakeSignal
    \/ \E chat \in Chats, ok \in BOOLEAN : Send(chat, ok)
    \/ \E released \in BOOLEAN : Finish(released)
    \/ \E d \in deferred : Requeue(d)
    \/ Crash
    \/ Tick

Spec == Init /\ [][Next]_vars

-----------------------------------------------------------------------------
\* buildUserSendDedupKey: while its claim lasts, a position event reaches a chat
\* once, however often it is produced and whichever of the sends fail; unless one
\* that was sent without a claim failed and gave the other's claim back.
SentOncePerLease ==
    \A a, b \in sent :
        /\ a.event = b.event /\ a.chat = b.chat
        /\ a.claimed /\ b.claimed /\ a.id < b.id /\ a.event \notin unlocked
        => b.at - a.at >= SendLease

\* _releaseUserSend: what is skipped as a duplicate did reach a chat before, unless
\* its claim was orphaned: the bot stopped while it was sending, the release of a
\* broadcast that reached nobody failed, or the claim was sent twice.
DuplicateWasSent ==
    \A item \in skipped :
        item.kind \in Keyed => item.event \in {s.event : s \in sent} \cup orphans

\* MAX_SIGNALS_PER_MIN holds per window, not per minute: any minute between two
\* restarts sees at most two windows' worth of signals.
BurstBounded ==
    \A i \in DOMAIN admitted :
        Cardinality({j \in DOMAIN admitted : admitted[j] \in (admitted[i] - Minute + 1)..admitted[i]})
            <= 2 * MaxSignalsPerMin

\* OvernightRiskScheduler: the warning that it publishes is not thrown away.
RiskAlertIsShown == \A item \in skipped : item.kind # "OVERNIGHT_RISK_ALERT"

\* A notice arrives once per lease, is skipped after it arrived or by an orphaned claim, and
\* few arrive in a minute.
NoticesHold == SentOncePerLease /\ DuplicateWasSent /\ BurstBounded
=============================================================================
