-------------------------- MODULE WsSubscriptions --------------------------
(***************************************************************************)
(* Which stocks the broker streams to the websocket listener. Each trading *)
(* session wants a set of stocks for each realtime type; the listener      *)
(* compares it with what the broker acknowledged on this connection, kept  *)
(* in Redis under ws:subscribed, and sends REG or REMOVE for what differs. *)
(* Answers do not name their request: they are matched in order, per kind  *)
(* of request (trnm). Up to two tasks send; a third applies the answers    *)
(* and a fourth expires requests that stay unanswered.                     *)
(*                                                                         *)
(* An action is the code between two awaits. The broker is external: it    *)
(* answers the requests of a connection in order and refuses what would    *)
(* register more than Total items. The legacy groups 6 to 9 are left out:  *)
(* their wanted set is empty and nothing is ever registered in them.       *)
(***************************************************************************)
EXTENDS Integers, Sequences, FiniteSets

CONSTANTS
    Codes,          \* stocks
    All,            \* the item "" of 1h, which stands for every stock
    Rankings,       \* the lists _get_ranked_candidates may return
    Day,            \* the sessions that follow each other, at most one day
    GroupMax,       \* WS_GROUP_MAX_ITEMS
    Total,          \* WS_TOTAL_REG_ITEMS
    ProgramItems,   \* WS_PROGRAM_REG_ITEMS
    Dynamic,        \* WS_DYNAMIC_REG_ENABLED
    MaxLost,        \* bound: answers and Redis calls lost on one connection
    MaxInFlight     \* bound: requests not yet answered

Auction == {"pre_market", "opening_auction"}
Market == {"main_market", "closing_auction", "after_preopen", "after_market"}
Active == Auction \cup Market
Sessions == Active \cup {"post_quiet", "closed"}

ASSUME ConstantsAssumption ==
    /\ Rankings \subseteq Seq(Codes)
    /\ All \notin Codes
    /\ Day \in Seq(Sessions) /\ Day # <<>>
    /\ GroupMax \in Nat \ {0} /\ Total \in Nat \ {0} /\ ProgramItems \in Nat
    /\ Dynamic \in BOOLEAN
    /\ MaxLost \in Nat /\ MaxInFlight \in Nat \ {0}

VARIABLES
    hour,       \* the clock, as a position in Day
    ranking,    \* what the candidate keys of Redis hold
    link,       \* is there a connection that has logged in?
    started,    \* is the first subscription of this connection done?
    phase,      \* current_phase of _phase_watcher
    seen,       \* subscribed_set of _watchlist_poller, empty without one
    task,       \* the tasks that run _subscribe_by_phase
    acked,      \* ws:subscribed:{type}:{group}
    recording,  \* the answered request whose items are being written there
    pending,    \* _pending_ws_controls, oldest first
    wire,       \* requests the broker has not served
    replies,    \* answers the listener has not handled
    server,     \* external: what is registered on this connection
    lost        \* history: answers and Redis calls lost since login

client == <<started, phase, seen>>
vars == <<hour, ranking, link, client, task, acked, recording, pending, wire,
          replies, server, lost>>

Types == {"0B", "0H", "1h", "0D", "0w"}
Kinds == {"REG", "REMOVE"}
Items == Codes \cup {All}
Requests == [trnm : Kinds, type : Types, items : SUBSET Items]
NoRequest == [trnm |-> "REMOVE", type |-> "0H", items |-> {}]
Tasks == {"phase"} \cup IF Dynamic THEN {"watchlist"} ELSE {}
Asleep == [pc |-> "sleep", session |-> "closed", codes |-> {}, steps |-> <<>>,
           request |-> NoRequest]
Nothing == [t \in Types |-> {}]
NonePending == [k \in Kinds |-> <<>>]

TypeOK ==
    /\ hour \in 1..Len(Day) /\ phase \in Sessions
    /\ ranking \in Rankings
    /\ link \in BOOLEAN /\ started \in BOOLEAN /\ lost \in 0..MaxLost
    /\ seen \subseteq Codes
    /\ task \in [Tasks -> [pc : {"sleep", "compare", "send"},
                           session : Sessions,
                           codes : SUBSET Codes,
                           steps : Seq(Types \X SUBSET Items),
                           request : Requests]]
    /\ acked \in [Types -> SUBSET Items]
    /\ recording \in Requests
    /\ pending \in [Kinds -> Seq(Requests)]
    /\ wire \in Seq(Requests)
    /\ replies \in Seq([trnm : Kinds, ok : BOOLEAN])
    /\ server \in [Types -> SUBSET Items]
----------------------------------------------------------------------------
(* What a session wants.                                                   *)

\* market_session.current_session
session == Day[hour]

Least(m, n) == IF m <= n THEN m ELSE n
AtLeast0(n) == IF n >= 0 THEN n ELSE 0

\* Python's list[:n]
Top(list, n) == {list[i] : i \in 1..Least(n, Len(list))}

\* (mutant) Only the limit of a group is looked at.
PerTypeOfGroup == GroupMax

PerType == Least(GroupMax, (Total - 1) \div 3)
ProgramCount == Least(ProgramItems, AtLeast0(Total - 3))
PrimaryCount == Least(GroupMax, (Total - 1 - ProgramCount) \div 2)

Wanted(s, list) ==
    CASE s \in Auction ->
           [Nothing EXCEPT !["0B"] = Top(list, PerType),
                           !["0D"] = Top(list, PerType),
                           !["0H"] = Top(list, PerType), !["1h"] = {All}]
      [] s \in Market ->
           [Nothing EXCEPT !["0B"] = Top(list, PrimaryCount),
                           !["0D"] = Top(list, PrimaryCount),
                           !["0w"] = Top(list, Least(ProgramCount, GroupMax)),
                           !["1h"] = {All}]
      [] OTHER -> Nothing

\* (mutant) The expected-price subscription is never released.
SequenceKeeping0H(s) == CASE s \in Auction -> <<"0B", "0D", "0H", "1h">>
                          [] s \in Market -> <<"0B", "0D", "0w", "1h">>
                          [] OTHER -> <<"0B", "0H", "1h", "0D", "0w">>

\* The order in which _subscribe_by_phase goes through the types; outside the
\* auctions it releases 0H last, in a quiet session it releases everything.
Sequence(s) == CASE s \in Auction -> <<"0B", "0D", "0H", "1h">>
                 [] s \in Market -> <<"0B", "0D", "0w", "1h", "0H">>
                 [] OTHER -> <<"0B", "0H", "1h", "0D", "0w">>

Plan(s, list) == [i \in 1..Len(Sequence(s)) |->
                     <<Sequence(s)[i], Wanted(s, list)[Sequence(s)[i]]>>]

Registered(held) ==
    Cardinality(held["0B"]) + Cardinality(held["0H"]) + Cardinality(held["1h"])
      + Cardinality(held["0D"]) + Cardinality(held["0w"])

\* A REG replaces the group, a REMOVE takes items out of it.
Applied(held, r) ==
    [held EXCEPT ![r.type] = IF r.trnm = "REG" THEN r.items ELSE @ \ r.items]

\* Whether the next answer, or Redis call, is lost.
Losses == {0} \cup IF lost < MaxLost THEN {1} ELSE {}

\* (mutant) The wildcard is counted among the candidates.
CodesetOfItems(list) == {list[i] : i \in 1..Len(list)} \cup {All}

\* The candidates of a list, in no order.
Codeset(list) == {list[i] : i \in 1..Len(list)}
----------------------------------------------------------------------------
Init ==
    /\ hour = 1
    /\ ranking \in Rankings
    /\ link = FALSE /\ started = FALSE /\ lost = 0
    /\ phase = session
    /\ seen = {}
    /\ task = [t \in Tasks |-> Asleep]
    /\ acked = Nothing /\ server = Nothing
    /\ recording = NoRequest
    /\ pending = NonePending
    /\ wire = <<>> /\ replies = <<>>

(* The clock and the candidate engine. *)

Tick ==
    /\ hour < Len(Day)
    /\ hour' = hour + 1
    /\ UNCHANGED <<ranking, link, client, task, acked, recording, pending, wire,
                   replies, server, lost>>

Rerank ==
    /\ ranking' \in Rankings \ {ranking}
    /\ UNCHANGED <<hour, link, client, task, acked, recording, pending, wire,
                   replies, server, lost>>

(* The connection. *)

Work(s, codes) == [Asleep EXCEPT !.pc = "compare", !.session = s,
                                 !.codes = codes, !.steps = Plan(s, ranking)]

\* _reset_local_subscription_sets: a delete that raises leaves the items of its type.
Reset ==
    \E kept \in {types \in SUBSET Types : Cardinality(types) <= MaxLost} :
        /\ acked' = [t \in Types |-> IF t \in kept THEN acked[t] ELSE {}]
        /\ lost' = Cardinality(kept)

\* (mutant) The requests of the last connection are still waited for.
LoginKeepingPending ==
    /\ ~link
    /\ link' = TRUE
    /\ started' = FALSE
    /\ Reset
    /\ task' = [task EXCEPT !["phase"] = Work(session, {})]
    /\ UNCHANGED <<hour, ranking, phase, seen, recording, pending, wire, replies,
                   server>>

\* A LOGIN that succeeded: the tracking of the last connection is cleared and
\* the first subscription starts.
Login ==
    /\ ~link
    /\ link' = TRUE
    /\ started' = FALSE
    /\ Reset
    /\ pending' = NonePending
    /\ task' = [task EXCEPT !["phase"] = Work(session, {})]
    /\ UNCHANGED <<hour, ranking, phase, seen, recording, wire, replies, server>>

\* The connection ends, or a send finds that it has: every task is cancelled,
\* and the broker forgets the connection's registrations.
Drop ==
    /\ link
    /\ link' = FALSE
    /\ task' = [t \in Tasks |-> Asleep]
    /\ wire' = <<>> /\ replies' = <<>>
    /\ server' = Nothing
    /\ recording' = NoRequest
    /\ UNCHANGED <<hour, ranking, client, acked, pending, lost>>

(* The tasks that subscribe. *)

\* _phase_watcher wakes up: a new session, or a refresh of an active one.
WakePhase ==
    /\ link /\ started
    /\ task["phase"].pc = "sleep"
    /\ session # phase \/ phase \in Active
    /\ task' = [task EXCEPT !["phase"] = Work(session, {})]
    /\ UNCHANGED <<hour, ranking, link, client, acked, recording, pending, wire,
                   replies, server, lost>>

\* _watchlist_poller wakes up and finds other candidates than it saw last.
WakeWatchlist ==
    /\ Dynamic /\ link /\ started
    /\ task["watchlist"].pc = "sleep"
    /\ ranking # <<>> /\ Codeset(ranking) # seen
    /\ session \in Active
    /\ task' = [task EXCEPT !["watchlist"] = Work(session, Codeset(ranking))]
    /\ UNCHANGED <<hour, ranking, link, client, acked, recording, pending, wire,
                   replies, server, lost>>

\* The next type of the plan: nothing to do if the acknowledged items are the
\* wanted ones. A read that raises counts as no items.
Compare(t) ==
    /\ task[t].pc = "compare" /\ task[t].steps # <<>>
    /\ \E fails \in Losses :
         LET type == Head(task[t].steps)[1]
             items == Head(task[t].steps)[2]
             current == IF fails = 1 THEN {} ELSE acked[type]
             request == IF items = {}
                        THEN [trnm |-> "REMOVE", type |-> type, items |-> current]
                        ELSE [trnm |-> "REG", type |-> type, items |-> items]
         IN /\ task' = [task EXCEPT
                 ![t].steps = Tail(@),
                 ![t].pc = IF current = items THEN "compare" ELSE "send",
                 ![t].request = IF current = items THEN NoRequest ELSE request]
            /\ lost' = lost + fails
    /\ UNCHANGED <<hour, ranking, link, client, acked, recording, pending, wire,
                   replies, server>>

\* _send_ws_control, once the lock is free and the pauses are over.
Send(t) ==
    /\ task[t].pc = "send"
    /\ Len(wire) + Len(replies) < MaxInFlight
    /\ pending' = [pending EXCEPT ![task[t].request.trnm] =
                     Append(@, task[t].request)]
    /\ wire' = Append(wire, task[t].request)
    /\ task' = [task EXCEPT ![t].pc = "compare", ![t].request = NoRequest]
    /\ UNCHANGED <<hour, ranking, link, client, acked, recording, replies,
                   server, lost>>

\* The plan is done. After the first one the other tasks start, and the phase
\* watcher takes the session it finds then for the subscribed one.
Finish(t) ==
    /\ task[t].pc = "compare" /\ task[t].steps = <<>>
    /\ IF ~started
       THEN /\ started' = TRUE
            /\ phase' = session
            /\ seen' = IF Dynamic THEN Codeset(ranking) ELSE {}
       ELSE /\ phase' = IF t = "phase" THEN task[t].session ELSE phase
            /\ seen' = IF t = "watchlist" THEN task[t].codes ELSE seen
            /\ UNCHANGED started
    /\ task' = [task EXCEPT ![t] = Asleep]
    /\ UNCHANGED <<hour, ranking, link, acked, recording, pending, wire,
                   replies, server, lost>>

(* The broker. *)

Serve ==
    /\ wire # <<>>
    /\ wire' = Tail(wire)
    /\ \E silent \in Losses :
         LET accept == Registered(Applied(server, Head(wire))) <= Total
         IN /\ server' = IF accept THEN Applied(server, Head(wire)) ELSE server
            /\ replies' = IF silent = 1 THEN replies
                          ELSE Append(replies, [trnm |-> Head(wire).trnm,
                                                ok |-> accept])
            /\ lost' = lost + silent
    /\ UNCHANGED <<hour, ranking, link, client, task, acked, recording, pending>>

(* The tasks that receive. *)

\* _apply_ws_control_ack: the oldest pending request of this kind is taken for
\* the answered one. If the broker granted a REG its items are replaced, first by
\* a delete: when that raises, whether it was done or not, nothing is added.
HandleAck ==
    /\ replies # <<>> /\ recording = NoRequest
    /\ replies' = Tail(replies)
    /\ LET k == Head(replies).trnm
           request == Head(pending[k])
       IN /\ pending' = [pending EXCEPT ![k] = IF @ = <<>> THEN @ ELSE Tail(@)]
          /\ IF pending[k] = <<>> \/ ~Head(replies).ok
             THEN UNCHANGED <<acked, recording, lost>>
             ELSE \E fails \in IF k = "REG" THEN Losses ELSE {0} :
                  \E done \in IF fails = 1 THEN BOOLEAN ELSE {k = "REG"} :
                    /\ acked' = IF done THEN [acked EXCEPT ![request.type] = {}] ELSE acked
                    /\ recording' = IF fails = 1 THEN NoRequest ELSE request
                    /\ lost' = lost + fails
    /\ UNCHANGED <<hour, ranking, link, client, task, wire, server>>

\* Then the items are added at once, or lost if that raises.
AddItems ==
    /\ recording.trnm = "REG"
    /\ recording' = NoRequest
    /\ \E fails \in Losses :
         /\ acked' = IF fails = 1 THEN acked
                     ELSE [acked EXCEPT ![recording.type] = @ \cup recording.items]
         /\ lost' = lost + fails
    /\ UNCHANGED <<hour, ranking, link, client, task, pending, wire, replies, server>>

\* Those of a REMOVE are removed one by one, whichever raise.
RemoveItem ==
    /\ recording # NoRequest /\ recording.trnm = "REMOVE"
    /\ \E item \in recording.items, fails \in Losses :
         /\ acked' = IF fails = 1 THEN acked
                     ELSE [acked EXCEPT ![recording.type] = @ \ {item}]
         /\ recording' = IF recording.items = {item} THEN NoRequest
                         ELSE [recording EXCEPT !.items = @ \ {item}]
         /\ lost' = lost + fails
    /\ UNCHANGED <<hour, ranking, link, client, task, pending, wire, replies, server>>

\* _ack_timeout_watcher: the oldest request of a kind went unanswered too long.
Expire(k) ==
    /\ link /\ started
    /\ pending[k] # <<>>
    /\ pending' = [pending EXCEPT ![k] = Tail(@)]
    /\ lost < MaxLost
    /\ lost' = lost + 1
    /\ UNCHANGED <<hour, ranking, link, client, task, acked, recording, wire,
                   replies, server>>

Step(t) == Compare(t) \/ Send(t) \/ Finish(t)

Next == \/ Tick \/ Rerank \/ Login \/ Drop
        \/ WakePhase \/ WakeWatchlist
        \/ \E t \in Tasks : Step(t)
        \/ Serve \/ HandleAck \/ AddItems \/ RemoveItem
        \/ \E k \in Kinds : Expire(k)

Spec == Init /\ [][Next]_vars

\* The connect loop, the timers, the broker and the receive loop go on; a
\* task whose awaits return does too.
Fairness ==
    /\ WF_vars(WakePhase) /\ WF_vars(WakeWatchlist)
    /\ \A t \in Tasks : WF_vars(Compare(t)) /\ WF_vars(Send(t)) /\ WF_vars(Finish(t))
    /\ WF_vars(Serve) /\ WF_vars(HandleAck)
    /\ WF_vars(AddItems) /\ WF_vars(RemoveItem)

FairSpec == Spec /\ Fairness
----------------------------------------------------------------------------
(* Properties.                                                             *)

Idle == wire = <<>> /\ replies = <<>> /\ recording = NoRequest

\* What a session wants fits the account, however the limits are set.
PlanFits == Registered(Wanted(session, ranking)) <= Total

\* Matching answers in order is enough as long as each request is answered in
\* time: once nothing is under way, Redis says what the broker streams.
AckedMatchesServer == link /\ lost = 0 /\ Idle => acked = server

\* A comparison between the delete and the add of an answer finds nothing acknowledged
\* and registers the items again. The refreshes are minutes apart and the gap is one
\* call of Redis: sooner or later they miss it.
ReadInTheGap == recording.trnm = "REG" /\ \E t \in Tasks : Compare(t)

\* On a connection that stays up and in step, when session and candidates stop changing
\* and the refreshes miss the gap, exactly the wanted items are registered and nothing
\* more is sent.
Converges ==
    \A r \in Rankings :
        /\ <>[](link /\ lost = 0 /\ session \in Active /\ ranking = r)
        /\ <>[][~ReadInTheGap]_vars
        => <>[](server = Wanted(session, r) /\ Idle)
===========================================================================
