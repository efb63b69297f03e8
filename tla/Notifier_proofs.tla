--------------------------- MODULE Notifier_proofs ---------------------------
(***************************************************************************)
(* What the telegram bot promises of its notices, whatever the producers,  *)
(* the failures and the restarts: one per event, chat and lease, nothing   *)
(* skipped as a duplicate of what never arrived, two windows' worth of     *)
(* signals in a minute.                                                    *)
(***************************************************************************)
EXTENDS Notifier, SequenceTheorems, FiniteSetTheorems, WellFoundedInduction, TLAPS

----------------------------------------------------------------------------
(* The invariant.                                                          *)

Decisions == {"", "ENTER", "BLOCK"}
NoticesOf(kinds, events) == [id : Nat, kind : kinds, event : events, decision : Decisions, defers : Nat]
Unkeyed == NoticesOf(Plain \cup Muted \cup Scored, {NoEvent})
Notices == NoticesOf(Keyed, Events) \cup Unkeyed
Hands == [pc : {"send"}, item : Notices, todo : SUBSET Chats, ok : Nat, failed : Nat, at : Nat,
          claimed : BOOLEAN]

TypeOK ==
    /\ now \in Nat /\ emitted \in Nat
    /\ telegramQueue \in Seq(Unkeyed) /\ scoredQueue \in Seq(Notices)
    /\ hand \in {Resting} \cup Hands
    /\ claims \in [Events -> Nat]
    /\ limiter \in [count : Nat, start : Nat]
    /\ deferred \subseteq [item : Unkeyed, due : Nat]
    /\ sent \subseteq [id : Nat, event : Events, chat : Chats, at : Nat, claimed : BOOLEAN]
    /\ admitted \in Seq(Nat)

\* The bot has a keyed notice in hand.
KeyedHand == hand.pc = "send" /\ hand.item.kind \in Keyed

\* The keyed notices wait in the order of their production, which all that were produced
\* before them have left.
Waiting == {i \in 1..Len(scoredQueue) : scoredQueue[i].kind \in Keyed}
QueueInv ==
    /\ \A i \in Waiting : scoredQueue[i].id <= emitted
    /\ \A i, j \in Waiting : i < j => scoredQueue[i].id > scoredQueue[j].id
Before(id) == id <= emitted /\ \A i \in Waiting : scoredQueue[i].id > id

OrderInv ==
    /\ QueueInv
    /\ \A a \in sent : Before(a.id)
    /\ KeyedHand => Before(hand.item.id) /\ \A a \in sent : a.id <= hand.item.id

\* Unless someone without a claim gave it back, the claim of what was sent stands or its
\* lease is over; whoever claims the event next does so after that.
LeaseInv ==
    /\ KeyedHand => hand.at <= now
    /\ KeyedHand /\ hand.claimed => claims[hand.item.event] >= hand.at + SendLease
    /\ KeyedHand => \A a \in sent : a.id = hand.item.id => hand.ok > 0
    /\ \A a \in sent : a.claimed /\ a.event \notin unlocked =>
           claims[a.event] >= a.at + SendLease \/ now >= a.at + SendLease
    /\ KeyedHand /\ hand.claimed =>
           \A a \in sent : /\ a.claimed /\ a.event \notin unlocked
                           /\ a.event = hand.item.event /\ a.id # hand.item.id
                           => hand.at >= a.at + SendLease
    /\ SentOncePerLease

\* A claim is held for what is in hand, was sent, or was lost with the bot.
Reached == {a.event : a \in sent}
ClaimInv ==
    /\ KeyedHand /\ hand.ok > 0 => hand.item.event \in Reached
    /\ \A event \in Events : claims[event] > 0 =>
           event \in Reached \cup orphans \/ (KeyedHand /\ hand.claimed /\ hand.item.event = event)
    /\ DuplicateWasSent

\* The signals of the window are the last ones admitted; those of the window before are no
\* more than a window's worth, and all others came a minute before this window.
Others == 1..(Len(admitted) - limiter.count)
BurstInv ==
    /\ limiter.count <= MaxSignalsPerMin /\ limiter.count <= Len(admitted) /\ limiter.start <= now
    /\ \A k \in 1..Len(admitted) : admitted[k] <= now
    /\ \A k \in Others : admitted[k] <= limiter.start
    /\ \A k \in Others : k + MaxSignalsPerMin <= Len(admitted) - limiter.count
                             => admitted[k] + Minute <= limiter.start
    /\ \A i, j \in 1..Len(admitted) : j >= i + 2 * MaxSignalsPerMin => admitted[j] - admitted[i] >= Minute

Inv == TypeOK /\ OrderInv /\ LeaseInv /\ ClaimInv /\ BurstInv

----------------------------------------------------------------------------
(* Notices and queues.                                                     *)

LEMMA HandType == TypeOK => (hand.pc = "send" <=> hand \in Hands) /\ (hand.pc = "idle" <=> hand = Resting)
BY DEF TypeOK, Hands, Resting

LEMMA KindType ==
    /\ Unkeyed \subseteq Notices
    /\ \A n \in Notices : /\ n.id \in Nat
                          /\ n.kind \in Keyed => n.event \in Events
                          /\ n.kind \notin Keyed => n \in Unkeyed
BY DEF Notices, Unkeyed, NoticesOf, Keyed, Plain, Muted, Scored

\* A signal decided on or deferred once more.
LEMMA UnkeyedType ==
    ASSUME NEW n \in Unkeyed
    PROVE  /\ n.kind \notin Keyed
           /\ \A d \in {"ENTER", "BLOCK"} : [n EXCEPT !.decision = d] \in Unkeyed
           /\ [n EXCEPT !.defers = @ + 1] \in Unkeyed
<1>1. n.kind \notin Keyed
  BY DEF Unkeyed, NoticesOf, Keyed, Plain, Muted, Scored
<1>2. ASSUME NEW d \in {"ENTER", "BLOCK"} PROVE [n EXCEPT !.decision = d] \in Unkeyed
  <2>1. PICK e \in Decisions : e = d
    BY Zenon DEF Decisions
  <2>2. [n EXCEPT !.decision = e] \in Unkeyed
    BY DEF Unkeyed, NoticesOf
  <2>. QED BY <2>1, <2>2
<1>3. [n EXCEPT !.defers = @ + 1] \in Unkeyed
  <2>1. n.defers + 1 \in Nat
    BY DEF Unkeyed, NoticesOf
  <2>2. PICK k \in Nat : k = n.defers + 1
    BY <2>1
  <2>3. [n EXCEPT !.defers = k] \in Unkeyed
    BY DEF Unkeyed, NoticesOf
  <2>. QED BY <2>2, <2>3
<1>. QED BY <1>1, <1>2, <1>3

LEMMA NoticeType ==
    ASSUME TypeOK, Configured
    PROVE  /\ \A event \in Events : /\ Notice("SELL_SIGNAL", event) \in Notices
                                    /\ Notice("SELL_SIGNAL", event).id = emitted + 1
           /\ \A kind \in Scored \cup Plain \cup Muted : Notice(kind, NoEvent) \in Unkeyed
<1>1. \A event \in Events : event # NoEvent
  BY DEF Configured
<1>2. emitted + 1 \in Nat
  BY DEF TypeOK
<1>3. PICK undecided \in Decisions : undecided = ""
  BY Zenon DEF Decisions
<1>4. \A kind, event : Notice(kind, event) =
          [id |-> IF event = NoEvent THEN 0 ELSE emitted + 1, kind |-> kind, event |-> event,
           decision |-> undecided, defers |-> 0]
  BY <1>3, Zenon DEF Notice
<1>. QED BY <1>1, <1>2, <1>4 DEF Notices, Unkeyed, NoticesOf, Keyed

\* A notice joins the queue at its head.
LEMMA Pushed ==
    ASSUME NEW S, NEW q \in Seq(S), NEW x \in S
    PROVE  /\ <<x>> \o q \in Seq(S) /\ Len(<<x>> \o q) = Len(q) + 1
           /\ (<<x>> \o q)[1] = x
           /\ \A i \in 1..(Len(q) + 1) : i # 1 => i - 1 \in 1..Len(q) /\ (<<x>> \o q)[i] = q[i - 1]
<1>1. <<x>> \in Seq(S) /\ Len(<<x>>) = 1 /\ <<x>>[1] = x /\ Len(q) \in Nat
  OBVIOUS
<1>2. /\ <<x>> \o q \in Seq(S) /\ Len(<<x>> \o q) = 1 + Len(q)
      /\ \A i \in 1..(1 + Len(q)) : (<<x>> \o q)[i] = IF i <= 1 THEN <<x>>[i] ELSE q[i - 1]
  BY <1>1, ConcatProperties
<1>. DEFINE r == <<x>> \o q
<1>. HIDE DEF r
<1>3. /\ r \in Seq(S) /\ Len(r) = 1 + Len(q)
      /\ \A i \in 1..(1 + Len(q)) : r[i] = IF i <= 1 THEN <<x>>[i] ELSE q[i - 1]
  BY <1>2 DEF r
<1>4. r \in Seq(S) /\ Len(r) = Len(q) + 1 /\ r[1] = x
  BY <1>1, <1>3
<1>5. \A i \in 1..(Len(q) + 1) : i # 1 => i - 1 \in 1..Len(q) /\ r[i] = q[i - 1]
  BY <1>1, <1>3
<1>. QED BY <1>4, <1>5 DEF r

\* It leaves the queue at its end.
LEMMA Popped ==
    ASSUME NEW S, NEW q \in Seq(S), q # <<>>
    PROVE  /\ Len(q) \in Nat \ {0} /\ q[Len(q)] \in S
           /\ SubSeq(q, 1, Len(q) - 1) \in Seq(S) /\ Len(SubSeq(q, 1, Len(q) - 1)) = Len(q) - 1
           /\ \A i \in 1..(Len(q) - 1) : SubSeq(q, 1, Len(q) - 1)[i] = q[i]
<1>1. Len(q) \in Nat \ {0} /\ \A i \in 1..Len(q) : q[i] \in S
  BY EmptySeq, ElementOfSeq
<1>. DEFINE n == Len(q) - 1
<1>2. n \in Nat /\ \A i \in 1..n : q[i] \in S
  BY <1>1
<1>3. q[Len(q)] \in S
  BY <1>1
<1>. HIDE DEF n
<1>4. /\ SubSeq(q, 1, n) \in Seq(S) /\ Len(SubSeq(q, 1, n)) = IF 1 <= n THEN n - 1 + 1 ELSE 0
      /\ \A i \in 1..(n - 1 + 1) : SubSeq(q, 1, n)[i] = q[1 + i - 1]
  BY <1>2, SubSeqProperties
<1>5. Len(SubSeq(q, 1, n)) = n
  BY <1>2, <1>4
<1>6. \A i \in 1..n : SubSeq(q, 1, n)[i] = q[i]
  BY <1>2, <1>4
<1>. QED BY <1>1, <1>3, <1>4, <1>5, <1>6 DEF n
\* The notice that popScoredQueue takes, and the queue without it.
LEMMA Taken ==
    ASSUME TypeOK, scoredQueue # <<>>, scoredQueue' = SubSeq(scoredQueue, 1, Len(scoredQueue) - 1)
    PROVE  /\ scoredQueue[Len(scoredQueue)] \in Notices
           /\ scoredQueue' \in Seq(Notices)
BY Popped DEF TypeOK

LEMMA BroadcastType ==
    ASSUME TypeOK, NEW item \in Notices, NEW claimed \in BOOLEAN
    PROVE  Broadcast(item, claimed) \in Hands
BY DEF TypeOK, Broadcast, Hands

LEMMA WindowType ==
    TypeOK => /\ Window \in [count : Nat, start : Nat]
              /\ [Window EXCEPT !.count = @ + 1] \in [count : Nat, start : Nat]
<1>. SUFFICES ASSUME TypeOK
              PROVE  /\ Window \in [count : Nat, start : Nat]
                     /\ [Window EXCEPT !.count = @ + 1] \in [count : Nat, start : Nat]
  OBVIOUS
<1>1. Window \in [count : Nat, start : Nat]
  BY DEF TypeOK, Window
<1>2. PICK w \in [count : Nat, start : Nat] : w = Window
  BY <1>1
<1>3. [w EXCEPT !.count = @ + 1] \in [count : Nat, start : Nat]
  OBVIOUS
<1>. QED BY <1>2, <1>3

LEMMA InitInv == Configured /\ Init => Inv
<1>. SUFFICES ASSUME Configured, Init PROVE Inv
  OBVIOUS
<1>1. TypeOK
  BY DEF Init, TypeOK
<1>2. ~KeyedHand /\ Waiting = {} /\ Others = {} /\ Len(admitted) = 0
  <2>1. Len(scoredQueue) = 0 /\ Len(admitted) = 0 /\ limiter.count = 0 /\ hand.pc = "idle"
    BY DEF Init, Resting
  <2>. QED BY <2>1 DEF KeyedHand, Waiting, Others
<1>3. OrderInv
  BY <1>2 DEF Init, OrderInv, QueueInv
<1>4. LeaseInv
  BY <1>2 DEF Init, LeaseInv, SentOncePerLease
<1>5. ClaimInv
  BY <1>2 DEF Init, ClaimInv, DuplicateWasSent
<1>6. BurstInv
  BY <1>2 DEF Init, BurstInv, Configured
<1>. QED BY <1>1, <1>3, <1>4, <1>5, <1>6 DEF Inv

LEMMA StepTypeOK == Configured /\ TypeOK /\ [Next]_vars => TypeOK'
<1>. SUFFICES ASSUME Configured, TypeOK, [Next]_vars PROVE TypeOK'
  OBVIOUS
<1>0. SendLease \in Nat /\ DeferFor \in Nat /\ now \in Nat /\ emitted \in Nat
  BY DEF Configured, TypeOK
<1>1. ASSUME NEW notice \in Notices, EmitScored(notice) PROVE TypeOK'
  <2>1. scoredQueue' \in Seq(Notices)
    BY <1>1, Pushed DEF EmitScored, TypeOK
  <2>. QED BY <1>0, <1>1, <2>1 DEF EmitScored, TypeOK
<1>2. ASSUME NEW notice \in Unkeyed, EmitTelegram(notice) PROVE TypeOK'
  <2>1. telegramQueue' \in Seq(Unkeyed)
    BY <1>2, Pushed DEF EmitTelegram, TypeOK
  <2>. QED BY <1>0, <1>2, <2>1 DEF EmitTelegram, TypeOK
<1>3. ASSUME NEW decision \in {"ENTER", "BLOCK"}, Work(decision) PROVE TypeOK'
  <2>1. telegramQueue[Len(telegramQueue)] \in Unkeyed /\ telegramQueue' \in Seq(Unkeyed)
    BY <1>3, Popped DEF Work, TypeOK
  <2>2. PICK item \in Unkeyed : item = telegramQueue[Len(telegramQueue)]
    BY <2>1
  <2>3. PICK x \in Unkeyed : scoredQueue' = <<x>> \o scoredQueue
    BY <1>3, <2>2, UnkeyedType DEF Work
  <2>4. scoredQueue' \in Seq(Notices)
    BY <2>3, KindType, Pushed DEF TypeOK
  <2>. QED BY <1>3, <2>1, <2>4 DEF Work, TypeOK
<1>4. ASSUME NEW claim, TakeNotice(claim) PROVE TypeOK'
  <2>1. scoredQueue[Len(scoredQueue)] \in Notices /\ scoredQueue' \in Seq(Notices)
    BY <1>4, Taken DEF TakeNotice
  <2>2. PICK item \in Notices : item = scoredQueue[Len(scoredQueue)]
    BY <2>1
  <2>3. claims' \in [Events -> Nat]
    <3>1. claims' = claims \/ (item.event \in Events /\ claims' = [claims EXCEPT ![item.event] = now + SendLease])
      BY <1>4, <2>2, KindType DEF TakeNotice
    <3>2. now + SendLease \in Nat
      BY <1>0
    <3>. QED BY <3>1, <3>2 DEF TypeOK
  <2>4. hand' \in {Resting} \cup Hands
    BY <1>4, <2>2, BroadcastType DEF TakeNotice
  <2>. QED BY <1>4, <2>1, <2>3, <2>4 DEF TakeNotice, TypeOK
<1>5. ASSUME TakeSignal PROVE TypeOK'
  <2>1. scoredQueue[Len(scoredQueue)] \in Notices /\ scoredQueue' \in Seq(Notices)
    BY <1>5, Taken DEF TakeSignal
  <2>2. PICK item \in Notices : item = scoredQueue[Len(scoredQueue)]
    BY <2>1
  <2>3. item \in Unkeyed
    BY <1>5, <2>2, KindType DEF TakeSignal
  <2>4. limiter' \in [count : Nat, start : Nat]
    <3>1. PICK v, w \in [count : Nat, start : Nat] : v = Window /\ w = [v EXCEPT !.count = @ + 1]
      BY WindowType
    <3>2. limiter' \in {limiter, v, w}
      BY <1>5, <3>1 DEF TakeSignal
    <3>. QED BY <3>2 DEF TypeOK
  <2>5. hand' \in {Resting} \cup Hands
    BY <1>5, <2>2, BroadcastType DEF TakeSignal
  <2>6. admitted' \in Seq(Nat)
    BY <1>0, <1>5, AppendProperties DEF TakeSignal, TypeOK
  <2>7. deferred' \subseteq [item : Unkeyed, due : Nat]
    <3>1. PICK x \in Unkeyed : x = [item EXCEPT !.defers = @ + 1]
      BY <2>3, UnkeyedType
    <3>2. deferred' \subseteq deferred \cup {[item |-> x, due |-> now + DeferFor]}
      BY <1>5, <2>2, <3>1 DEF TakeSignal
    <3>3. [item |-> x, due |-> now + DeferFor] \in [item : Unkeyed, due : Nat]
      BY <1>0
    <3>. QED BY <3>2, <3>3 DEF TypeOK
  <2>. QED BY <1>5, <2>1, <2>4, <2>5, <2>6, <2>7 DEF TakeSignal, TypeOK
<1>6. ASSUME NEW chat \in Chats, NEW ok \in BOOLEAN, Send(chat, ok) PROVE TypeOK'
  <2>1. hand \in Hands
    BY <1>6, HandType DEF Send
  <2>2. hand' \in Hands
    <3>1. PICK m, n \in Nat : hand' = [hand EXCEPT !.todo = @ \ {chat}, !.ok = m, !.failed = n]
      <4>1. hand.ok \in Nat /\ hand.failed \in Nat
        BY <2>1 DEF Hands
      <4>2. \E m, n \in Nat : /\ m = IF ok THEN hand.ok + 1 ELSE hand.ok
                              /\ n = IF ok THEN hand.failed ELSE hand.failed + 1
        BY <4>1
      <4>. QED BY <1>6, <4>2 DEF Send
    <3>. QED BY <2>1, <3>1 DEF Hands
  <2>3. sent' \subseteq [id : Nat, event : Events, chat : Chats, at : Nat, claimed : BOOLEAN]
    <3>1. hand.item \in Notices /\ hand.at \in Nat /\ hand.claimed \in BOOLEAN
      BY <2>1 DEF Hands
    <3>2. hand.item.kind \in Keyed =>
             [id |-> hand.item.id, event |-> hand.item.event, chat |-> chat, at |-> hand.at,
              claimed |-> hand.claimed] \in [id : Nat, event : Events, chat : Chats, at : Nat, claimed : BOOLEAN]
      BY <3>1, KindType
    <3>. QED BY <1>6, <3>2 DEF Send, TypeOK
  <2>. QED BY <1>6, <2>2, <2>3 DEF Send, TypeOK
<1>7. CASE \E released \in BOOLEAN : Finish(released)
  <2>1. hand.pc = "send" => hand.item \in Notices
    BY HandType DEF Hands
  <2>2. claims' \in [Events -> Nat]
    BY <1>7, <2>1, KindType DEF Finish, Releases, TypeOK
  <2>. QED BY <1>7, <2>2 DEF Finish, TypeOK
<1>8. ASSUME NEW d \in deferred, Requeue(d) PROVE TypeOK'
  <2>1. d.item \in Notices
    BY KindType DEF TypeOK
  <2>2. scoredQueue' \in Seq(Notices)
    BY <1>8, <2>1, Pushed DEF Requeue, TypeOK
  <2>. QED BY <1>8, <2>2 DEF Requeue, TypeOK
<1>9. CASE Crash
  BY <1>0, <1>9 DEF Crash, TypeOK
<1>10. CASE Tick
  BY <1>0, <1>10 DEF Tick, TypeOK
<1>11. CASE UNCHANGED vars
  BY <1>11 DEF vars, TypeOK
<1>12. /\ \A event \in Events : Notice("SELL_SIGNAL", event) \in Notices
       /\ Notice("NEWS_ALERT", NoEvent) \in Notices
       /\ \A kind \in Scored \cup Plain : Notice(kind, NoEvent) \in Unkeyed
  BY NoticeType, KindType DEF Muted
<1>. QED BY <1>1, <1>2, <1>3, <1>4, <1>5, <1>6, <1>7, <1>8, <1>9, <1>10, <1>11, <1>12 DEF Next
----------------------------------------------------------------------------
(* The order of the keyed notices.                                         *)

\* What is pushed comes after everything else, or has no key.
LEMMA PushedInOrder ==
    ASSUME TypeOK, QueueInv, NEW x \in Notices, scoredQueue' = <<x>> \o scoredQueue,
           emitted' \in Nat, emitted' >= emitted, x.kind \in Keyed => x.id = emitted + 1 /\ emitted' = emitted + 1
    PROVE  QueueInv' /\ \A id \in Nat : Before(id) => Before(id)'
<1>1. /\ scoredQueue \in Seq(Notices) /\ Len(scoredQueue) \in Nat /\ emitted \in Nat
      /\ Len(scoredQueue') = Len(scoredQueue) + 1 /\ scoredQueue'[1] = x
      /\ \A i \in 1..(Len(scoredQueue) + 1) : i # 1 =>
             i - 1 \in 1..Len(scoredQueue) /\ scoredQueue'[i] = scoredQueue[i - 1]
  BY Pushed DEF TypeOK
<1>2. \A i \in 1..Len(scoredQueue) : scoredQueue[i].id \in Nat
  BY <1>1, ElementOfSeq, KindType
<1>. DEFINE New(i) == i = 1 /\ scoredQueue'[i].id = emitted + 1 /\ emitted' = emitted + 1
            Old(i) == i > 1 /\ i - 1 \in Waiting /\ scoredQueue'[i].id = scoredQueue[i - 1].id
<1>3. ASSUME NEW i \in Waiting' PROVE i \in Nat /\ (New(i) \/ Old(i))
  <2>1. i \in 1..(Len(scoredQueue) + 1) /\ scoredQueue'[i].kind \in Keyed
    BY <1>1 DEF Waiting
  <2>2. CASE i = 1
    BY <1>1, <2>1, <2>2
  <2>3. CASE i # 1
    BY <1>1, <2>1, <2>3 DEF Waiting
  <2>. QED BY <2>2, <2>3
<1>4. \A i \in Waiting : scoredQueue[i].id \in Nat /\ scoredQueue[i].id <= emitted /\ i \in Nat
  BY <1>2 DEF QueueInv, Waiting
<1>5. ASSUME NEW i \in Waiting' PROVE scoredQueue'[i].id <= emitted'
  <2>1. CASE New(i)
    BY <1>1, <2>1
  <2>2. CASE Old(i)
    <3>1. /\ scoredQueue[i - 1].id \in Nat /\ scoredQueue[i - 1].id <= emitted
          /\ scoredQueue'[i].id = scoredQueue[i - 1].id
      BY <1>4, <2>2
    <3>2. \A k, l \in Nat : k <= l /\ l <= emitted' /\ emitted' \in Nat => k <= emitted'
      OBVIOUS
    <3>3. emitted \in Nat
      BY <1>1
    <3>. QED BY <3>1, <3>2, <3>3
  <2>. QED BY <1>3, <2>1, <2>2
<1>6. ASSUME NEW i \in Waiting', NEW j \in Waiting', i < j
      PROVE  scoredQueue'[i].id > scoredQueue'[j].id
  <2>1. i \in Nat /\ j \in Nat /\ i >= 1
    BY <1>1 DEF Waiting
  <2>2. j - 1 \in Waiting /\ scoredQueue'[j].id = scoredQueue[j - 1].id
    <3>1. ~New(j)
      BY <1>6, <2>1
    <3>. QED BY <1>3, <3>1
  <2>3. scoredQueue[j - 1].id \in Nat /\ scoredQueue[j - 1].id <= emitted
    BY <1>4, <2>2
  <2>4. CASE New(i)
    <3>1. emitted \in Nat /\ \A k \in Nat : k <= emitted => emitted + 1 > k
      BY <1>1
    <3>2. emitted + 1 > scoredQueue[j - 1].id
      BY <2>3, <3>1
    <3>. QED BY <2>2, <2>4, <3>2
  <2>5. CASE Old(i)
    <3>1. i - 1 \in Waiting /\ scoredQueue'[i].id = scoredQueue[i - 1].id /\ i - 1 < j - 1
      <4>1. i - 1 < j - 1
        BY <1>6, <2>1
      <4>. QED BY <2>5, <4>1
    <3>. QED BY <2>2, <3>1 DEF QueueInv
  <2>. QED BY <1>3, <2>4, <2>5
<1>7. ASSUME NEW id \in Nat, Before(id) PROVE Before(id)'
  <2>1. id <= emitted /\ \A i \in Waiting : scoredQueue[i].id > id
    BY <1>7 DEF Before
  <2>2. ASSUME NEW i \in Waiting' PROVE scoredQueue'[i].id > id
    <3>1. CASE New(i)
      BY <1>1, <2>1, <3>1
    <3>2. CASE Old(i)
      BY <2>1, <3>2
    <3>. QED BY <1>3, <3>1, <3>2
  <2>3. id <= emitted'
    BY <1>1, <2>1
  <2>. QED BY <2>2, <2>3 DEF Before
<1>. QED BY <1>5, <1>6, <1>7 DEF QueueInv

\* What is taken comes before all that stays.
LEMMA PoppedInOrder ==
    ASSUME TypeOK, QueueInv, scoredQueue # <<>>, emitted' = emitted,
           scoredQueue' = SubSeq(scoredQueue, 1, Len(scoredQueue) - 1),
           NEW item, item = scoredQueue[Len(scoredQueue)]
    PROVE  /\ QueueInv' /\ \A id : Before(id) => Before(id)'
           /\ item.kind \in Keyed => /\ Before(item.id)'
                                     /\ \A id : Before(id) => item.id > id
<1>1. /\ Len(scoredQueue) \in Nat \ {0} /\ Len(scoredQueue') = Len(scoredQueue) - 1
      /\ \A i \in 1..(Len(scoredQueue) - 1) : scoredQueue'[i] = scoredQueue[i]
  BY Popped DEF TypeOK
<1>2. \A i \in Waiting' : i \in Waiting /\ scoredQueue'[i] = scoredQueue[i] /\ i < Len(scoredQueue)
  BY <1>1 DEF Waiting
<1>3. QueueInv'
  BY <1>2 DEF QueueInv
<1>4. \A id : Before(id) => Before(id)'
  BY <1>2 DEF Before
<1>5. ASSUME item.kind \in Keyed
      PROVE  Before(item.id)' /\ \A id : Before(id) => item.id > id
  <2>1. Len(scoredQueue) \in Waiting
    BY <1>1, <1>5 DEF Waiting
  <2>2. \A i \in Waiting' : scoredQueue'[i].id > item.id
    BY <1>2, <2>1 DEF QueueInv
  <2>3. item.id <= emitted'
    BY <2>1 DEF QueueInv
  <2>4. item' = item => Before(item.id)'
    BY <2>2, <2>3 DEF Before
  <2>. QED BY <2>1, <2>2, <2>3 DEF Before
<1>. QED BY <1>3, <1>4, <1>5
\* The queue stays as it is, whatever is produced for the other one.
LEMMA StaysInOrder ==
    ASSUME TypeOK, QueueInv, scoredQueue' = scoredQueue, emitted' \in Nat, emitted' >= emitted
    PROVE  QueueInv' /\ \A id \in Nat : Before(id) => Before(id)'
<1>1. Waiting' = Waiting /\ emitted \in Nat
  BY DEF Waiting, TypeOK
<1>2. \A i \in Waiting : scoredQueue[i].id \in Nat
  BY ElementOfSeq, KindType DEF TypeOK, Waiting
<1>3. QueueInv'
  <2>1. ASSUME NEW i \in Waiting PROVE scoredQueue[i].id <= emitted'
    <3>1. scoredQueue[i].id \in Nat /\ scoredQueue[i].id <= emitted
      BY <1>2 DEF QueueInv
    <3>. QED BY <1>1, <3>1
  <2>. QED BY <1>1, <2>1 DEF QueueInv
<1>4. ASSUME NEW id \in Nat, Before(id) PROVE Before(id)'
  <2>1. id <= emitted'
    BY <1>1, <1>4 DEF Before
  <2>. QED BY <1>1, <1>4, <2>1 DEF Before
<1>. QED BY <1>3, <1>4

\* A step that sends nothing and takes up nothing that has a key.
LEMMA OrderKept ==
    ASSUME TypeOK, OrderInv, QueueInv', \A id \in Nat : Before(id) => Before(id)',
           sent' = sent, hand' = hand \/ ~KeyedHand'
    PROVE  OrderInv'
<1>1. \A a \in sent : a.id \in Nat
  BY DEF TypeOK
<1>2. KeyedHand => hand.item.id \in Nat
  BY HandType, KindType DEF Hands, KeyedHand
<1>3. \A a \in sent : Before(a.id)'
  <2>1. ASSUME NEW a \in sent PROVE Before(a.id)'
    <3>1. PICK id \in Nat : id = a.id
      BY <1>1
    <3>2. Before(id)
      BY <3>1 DEF OrderInv
    <3>3. Before(id)'
      BY <3>2
    <3>. QED BY <3>1, <3>3 DEF Before
  <2>. QED BY <2>1
<1>4. CASE ~KeyedHand'
  BY <1>3, <1>4 DEF OrderInv, Before
<1>5. CASE KeyedHand' /\ hand' = hand
  <2>1. KeyedHand
    BY <1>5 DEF KeyedHand
  <2>2. PICK id \in Nat : id = hand.item.id
    BY <1>2, <2>1
  <2>3. Before(id)
    BY <2>1, <2>2 DEF OrderInv
  <2>4. Before(id)'
    BY <2>3
  <2>5. Before(hand.item.id)'
    BY <1>5, <2>2, <2>4 DEF Before
  <2>6. \A a \in sent' : a.id <= hand'.item.id
    BY <1>5, <2>1 DEF OrderInv
  <2>7. \A a \in sent' : Before(a.id)'
    BY <1>3 DEF Before
  <2>. QED BY <2>5, <2>6, <2>7 DEF OrderInv
<1>. QED BY <1>4, <1>5

LEMMA StepOrderInv == Configured /\ TypeOK /\ OrderInv /\ [Next]_vars => OrderInv'
<1>. SUFFICES ASSUME Configured, TypeOK, OrderInv, [Next]_vars PROVE OrderInv'
  OBVIOUS
<1>0. QueueInv /\ emitted \in Nat
  BY DEF OrderInv, TypeOK
<1>1. ASSUME NEW event \in Events, EmitScored(Notice("SELL_SIGNAL", event)) PROVE OrderInv'
  <2>1. PICK x \in Notices : x = Notice("SELL_SIGNAL", event) /\ x.id = emitted + 1
    BY NoticeType
  <2>2. /\ scoredQueue' = <<x>> \o scoredQueue /\ emitted' = emitted + 1
        /\ sent' = sent /\ hand' = hand
    BY <1>1, <2>1 DEF EmitScored
  <2>. QED BY <1>0, <2>1, <2>2, PushedInOrder, OrderKept
<1>2. ASSUME EmitScored(Notice("NEWS_ALERT", NoEvent)) PROVE OrderInv'
  <2>1. PICK x \in Unkeyed : x = Notice("NEWS_ALERT", NoEvent)
    BY NoticeType DEF Muted
  <2>2. /\ scoredQueue' = <<x>> \o scoredQueue /\ emitted' = emitted + 1
        /\ sent' = sent /\ hand' = hand
    BY <1>2, <2>1 DEF EmitScored
  <2>3. x \in Notices /\ x.kind \notin Keyed
    BY KindType, UnkeyedType
  <2>. QED BY <1>0, <2>2, <2>3, PushedInOrder, OrderKept
<1>3. ASSUME NEW notice, EmitTelegram(notice) PROVE OrderInv'
  BY <1>0, <1>3, StaysInOrder, OrderKept DEF EmitTelegram
<1>4. ASSUME NEW decision \in {"ENTER", "BLOCK"}, Work(decision) PROVE OrderInv'
  <2>1. PICK item \in Unkeyed : item = telegramQueue[Len(telegramQueue)]
    BY <1>4, Popped DEF Work, TypeOK
  <2>2. PICK x \in Unkeyed : scoredQueue' = <<x>> \o scoredQueue
    BY <1>4, <2>1, UnkeyedType DEF Work
  <2>3. x \in Notices /\ x.kind \notin Keyed
    BY KindType, UnkeyedType
  <2>4. emitted' = emitted /\ sent' = sent /\ hand' = hand
    BY <1>4 DEF Work
  <2>5. QueueInv' /\ \A id \in Nat : Before(id) => Before(id)'
    BY <1>0, <2>2, <2>3, <2>4, PushedInOrder
  <2>. QED BY <2>4, <2>5, OrderKept
<1>5. ASSUME NEW claim, TakeNotice(claim) PROVE OrderInv'
  <2>1. PICK item : item = scoredQueue[Len(scoredQueue)]
    OBVIOUS
  <2>2. PICK claimed \in BOOLEAN : hand' = Resting \/ hand' = Broadcast(item, claimed)
    BY <1>5, <2>1 DEF TakeNotice
  <2>3. /\ scoredQueue # <<>> /\ emitted' = emitted /\ sent' = sent
        /\ scoredQueue' = SubSeq(scoredQueue, 1, Len(scoredQueue) - 1)
    BY <1>5 DEF TakeNotice
  <2>4. /\ QueueInv' /\ \A id \in Nat : Before(id) => Before(id)'
        /\ item.kind \in Keyed => Before(item.id)' /\ \A id : Before(id) => item.id > id
    BY <1>0, <2>1, <2>3, PoppedInOrder
  <2>5. CASE ~KeyedHand'
    BY <2>3, <2>4, <2>5, OrderKept
  <2>6. CASE KeyedHand'
    <3>1. hand'.item = item /\ item.kind \in Keyed
      BY <2>2, <2>6 DEF KeyedHand, Resting, Broadcast
    <3>2. Before(hand.item.id)'
      BY <2>4, <3>1 DEF Before
    <3>3. item.id \in Nat
      BY <2>1, <2>3, Taken, KindType
    <3>4. ASSUME NEW a \in sent PROVE a.id <= item.id /\ Before(a.id)'
      <4>1. PICK id \in Nat : id = a.id
        BY DEF TypeOK
      <4>2. Before(id)
        BY <4>1 DEF OrderInv
      <4>3. item.id > id /\ Before(id)'
        BY <2>4, <3>1, <4>2
      <4>4. a.id <= item.id
        BY <3>3, <4>1, <4>3
      <4>. QED BY <4>1, <4>3, <4>4 DEF Before
    <3>5. \A a \in sent' : a.id <= hand'.item.id
      BY <2>3, <3>1, <3>4
    <3>6. \A a \in sent' : Before(a.id)'
      BY <2>3, <3>4 DEF Before
    <3>. QED BY <2>4, <3>2, <3>5, <3>6 DEF OrderInv
  <2>. QED BY <2>5, <2>6
<1>6. ASSUME TakeSignal PROVE OrderInv'
  <2>1. PICK item : item = scoredQueue[Len(scoredQueue)]
    OBVIOUS
  <2>2. item.kind \notin Keyed /\ hand' \in {Resting, Broadcast(item, FALSE)}
    BY <1>6, <2>1 DEF TakeSignal
  <2>3. ~KeyedHand'
    BY <1>6, <2>1, <2>2 DEF TakeSignal, KeyedHand, Broadcast, Resting
  <2>4. QueueInv' /\ \A id \in Nat : Before(id) => Before(id)'
    BY <1>0, <1>6, PoppedInOrder DEF TakeSignal
  <2>. QED BY <1>6, <2>3, <2>4, OrderKept DEF TakeSignal
<1>7. ASSUME NEW chat \in Chats, NEW ok \in BOOLEAN, Send(chat, ok) PROVE OrderInv'
  <2>1. /\ hand.pc = "send" /\ scoredQueue' = scoredQueue /\ emitted' = emitted
        /\ hand'.pc = "send" /\ hand'.item = hand.item
    BY <1>7, HandType DEF Send, Hands
  <2>2. QueueInv' /\ \A id \in Nat : Before(id) => Before(id)'
    BY <1>0, <2>1, StaysInOrder
  <2>3. CASE ~KeyedHand
    <3>1. sent' = sent
      BY <1>7, <2>3 DEF Send, KeyedHand
    <3>2. ~KeyedHand'
      BY <2>1, <2>3 DEF KeyedHand
    <3>. QED BY <2>2, <3>1, <3>2, OrderKept
  <2>4. CASE KeyedHand
    <3>1. PICK id \in Nat : id = hand.item.id
      BY <2>1, HandType, KindType DEF Hands
    <3>2. \A a \in sent' : a \in sent \/ a.id = id
      BY <1>7, <3>1 DEF Send
    <3>3. Before(id)'
      BY <2>2, <2>4, <3>1 DEF OrderInv
    <3>4. Before(hand.item.id)'
      BY <2>1, <3>1, <3>3 DEF Before
    <3>5. ASSUME NEW a \in sent' PROVE Before(a.id)' /\ a.id <= id
      <4>1. CASE a.id = id
        BY <3>3, <4>1 DEF Before
      <4>2. CASE a \in sent
        <5>1. PICK k \in Nat : k = a.id
          BY <4>2 DEF TypeOK
        <5>2. Before(k) /\ k <= id
          BY <2>4, <3>1, <4>2, <5>1 DEF OrderInv
        <5>3. Before(k)'
          BY <2>2, <5>2
        <5>. QED BY <5>1, <5>2, <5>3 DEF Before
      <4>. QED BY <3>2, <4>1, <4>2
    <3>6. \A a \in sent' : a.id <= hand'.item.id
      BY <2>1, <3>1, <3>5
    <3>7. \A a \in sent' : Before(a.id)'
      BY <3>5 DEF Before
    <3>. QED BY <2>2, <3>4, <3>6, <3>7 DEF OrderInv
  <2>. QED BY <2>3, <2>4
<1>8. CASE \E released \in BOOLEAN : Finish(released)
  <2>1. ~KeyedHand'
    BY <1>8 DEF Finish, KeyedHand, Resting
  <2>. QED BY <1>0, <1>8, <2>1, StaysInOrder, OrderKept DEF Finish
<1>9. ASSUME NEW d \in deferred, Requeue(d) PROVE OrderInv'
  <2>1. d.item \in Notices /\ d.item.kind \notin Keyed
    BY KindType, UnkeyedType DEF TypeOK
  <2>. QED BY <1>0, <1>9, <2>1, PushedInOrder, OrderKept DEF Requeue
<1>10. CASE Crash
  <2>1. ~KeyedHand'
    BY <1>10 DEF Crash, KeyedHand, Resting
  <2>. QED BY <1>0, <1>10, <2>1, StaysInOrder, OrderKept DEF Crash
<1>11. CASE Tick
  BY <1>0, <1>11, StaysInOrder, OrderKept DEF Tick
<1>12. CASE UNCHANGED vars
  BY <1>0, <1>12, StaysInOrder, OrderKept DEF vars
<1>. QED BY <1>1, <1>2, <1>3, <1>4, <1>5, <1>6, <1>7, <1>8, <1>9, <1>10, <1>11, <1>12 DEF Next
----------------------------------------------------------------------------
(* The lease of a claim.                                                   *)

\* What was sent, and what is in hand.
LEMMA SentType ==
    ASSUME TypeOK
    PROVE  /\ \A a \in sent : a.id \in Nat /\ a.at \in Nat /\ a.event \in Events /\ claims[a.event] \in Nat
           /\ KeyedHand => /\ hand.item.id \in Nat /\ hand.item.event \in Events /\ hand.at \in Nat
                           /\ hand.ok \in Nat /\ hand.claimed \in BOOLEAN
                           /\ claims[hand.item.event] \in Nat
<1>1. \A a \in sent : a.id \in Nat /\ a.at \in Nat /\ a.event \in Events /\ claims[a.event] \in Nat
  BY DEF TypeOK
<1>2. ASSUME KeyedHand
      PROVE  /\ hand.item.id \in Nat /\ hand.item.event \in Events /\ hand.at \in Nat
             /\ hand.ok \in Nat /\ hand.claimed \in BOOLEAN
  <2>1. hand \in Hands /\ hand.item.kind \in Keyed
    BY <1>2, HandType DEF KeyedHand
  <2>2. hand.item \in Notices
    BY <2>1 DEF Hands
  <2>. QED BY <2>1, <2>2, KindType DEF Hands
<1>3. KeyedHand => claims[hand.item.event] \in Nat
  BY <1>2 DEF TypeOK
<1>. QED BY <1>1, <1>2, <1>3

\* The claim of what was sent stands, or its lease is over.
Stands(a) == claims[a.event] >= a.at + SendLease \/ now >= a.at + SendLease

LEMMA StandsOn ==
    ASSUME Configured, TypeOK, now' \in Nat, now' >= now, NEW a \in sent, Stands(a), claims'[a.event] = claims[a.event]
    PROVE  Stands(a)'
<1>1. SendLease \in Nat /\ now \in Nat /\ a.at \in Nat
  BY SentType DEF Configured, TypeOK
<1>. QED BY <1>1 DEF Stands

\* Nothing is sent, taken up or given back.
LEMMA LeaseKept ==
    ASSUME Configured, TypeOK, LeaseInv, now' \in Nat, now' >= now, sent' = sent, claims' = claims,
           unlocked \subseteq unlocked', hand' = hand \/ ~KeyedHand'
    PROVE  LeaseInv'
<1>1. KeyedHand' => hand' = hand /\ KeyedHand
  BY DEF KeyedHand
<1>2. KeyedHand' => hand'.at <= now'
  <2>1. KeyedHand => hand.at \in Nat /\ now \in Nat
    BY SentType DEF TypeOK
  <2>2. KeyedHand => hand.at <= now'
    BY <2>1 DEF LeaseInv
  <2>. QED BY <1>1, <2>2
<1>3. KeyedHand' /\ hand'.claimed => claims'[hand'.item.event] >= hand'.at + SendLease
  BY <1>1 DEF LeaseInv
<1>4. KeyedHand' => \A a \in sent' : a.id = hand'.item.id => hand'.ok > 0
  BY <1>1 DEF LeaseInv
<1>5. \A a \in sent' : a.claimed /\ a.event \notin unlocked' =>
          claims'[a.event] >= a.at + SendLease \/ now' >= a.at + SendLease
  BY StandsOn DEF LeaseInv, Stands
<1>6. KeyedHand' /\ hand'.claimed =>
          \A a \in sent' : /\ a.claimed /\ a.event \notin unlocked'
                           /\ a.event = hand'.item.event /\ a.id # hand'.item.id
                           => hand'.at >= a.at + SendLease
  BY <1>1 DEF LeaseInv
<1>7. SentOncePerLease'
  BY DEF LeaseInv, SentOncePerLease
<1>. QED BY <1>2, <1>3, <1>4, <1>5, <1>6, <1>7 DEF LeaseInv

LEMMA StepLeaseInv == Configured /\ TypeOK /\ OrderInv /\ LeaseInv /\ [Next]_vars => LeaseInv'
<1>. SUFFICES ASSUME Configured, TypeOK, OrderInv, LeaseInv, [Next]_vars PROVE LeaseInv'
  OBVIOUS
<1>0. now \in Nat /\ SendLease \in Nat
  BY DEF Configured, TypeOK
<1>1. ASSUME NEW notice, EmitScored(notice) PROVE LeaseInv'
  BY <1>0, <1>1, LeaseKept DEF EmitScored
<1>2. ASSUME NEW notice, EmitTelegram(notice) PROVE LeaseInv'
  BY <1>0, <1>2, LeaseKept DEF EmitTelegram
<1>3. ASSUME NEW decision, Work(decision) PROVE LeaseInv'
  BY <1>0, <1>3, LeaseKept DEF Work
<1>4. ASSUME NEW claim, TakeNotice(claim) PROVE LeaseInv'
  <2>1. PICK item \in Notices : item = scoredQueue[Len(scoredQueue)]
    BY <1>4, Taken DEF TakeNotice
  <2>2. sent' = sent /\ unlocked' = unlocked /\ now' = now
    BY <1>4 DEF TakeNotice
  <2>3. CASE hand' = Resting /\ claims' = claims
    <3>2. ~KeyedHand'
      BY <2>3 DEF KeyedHand, Resting
    <3>. QED BY <1>0, <2>2, <2>3, <3>2, LeaseKept
  <2>4. CASE ~(hand' = Resting /\ claims' = claims)
    <3>. DEFINE claimed == item.kind \in Keyed /\ claim # "failed" /\ claims[item.event] <= now
    <3>1. /\ \/ hand' = Resting
             \/ /\ hand'.pc = "send" /\ hand'.item = item /\ hand'.at = now /\ hand'.ok = 0
                /\ hand'.claimed = claimed
          /\ claims' = IF claimed THEN [claims EXCEPT ![item.event] = now + SendLease] ELSE claims
      BY <1>4, <2>1, <2>4 DEF TakeNotice, Broadcast, Keyed, Plain
    <3>16. KeyedHand' => hand' # Resting
      BY DEF KeyedHand, Resting
    <3>2. \A a \in sent : Before(a.id)
      BY DEF OrderInv
    <3>3. item.kind \in Keyed => item.id \in Nat /\ item.event \in Events /\ \A a \in sent : item.id > a.id
      <4>1. QueueInv /\ scoredQueue # <<>> /\ emitted' = emitted
            /\ scoredQueue' = SubSeq(scoredQueue, 1, Len(scoredQueue) - 1)
        BY <1>4 DEF TakeNotice, OrderInv
      <4>. QED BY <2>1, <3>2, <4>1, KindType, PoppedInOrder
    <3>4. \A a \in sent : a.id \in Nat
      BY SentType
    <3>5. KeyedHand' => item.kind \in Keyed
      BY <3>1, <3>16 DEF KeyedHand
    <3>6. KeyedHand' /\ hand'.claimed => claimed
      BY <3>1, <3>16
    <3>. HIDE DEF claimed
    <3>7. KeyedHand' => hand'.at <= now'
      BY <1>0, <2>2, <3>1, <3>16
    <3>8. claimed => item.event \in Events /\ claims[item.event] <= now
      BY <3>3 DEF claimed
    <3>9. claimed => claims'[item.event] = now + SendLease
      BY <3>1, <3>8 DEF TypeOK
    <3>10. KeyedHand' /\ hand'.claimed => claims'[hand'.item.event] >= hand'.at + SendLease
      BY <1>0, <3>1, <3>6, <3>9, <3>16
    <3>11. KeyedHand' => \A a \in sent' : a.id = hand'.item.id => hand'.ok > 0
      BY <2>2, <3>1, <3>3, <3>4, <3>5, <3>16
    <3>12. ASSUME NEW a \in sent, a.claimed, a.event \notin unlocked
           PROVE  /\ claims'[a.event] >= a.at + SendLease \/ now >= a.at + SendLease
                  /\ claimed /\ a.event = item.event => now >= a.at + SendLease
      <4>1. a.at \in Nat /\ a.event \in Events /\ claims[a.event] \in Nat
        BY SentType
      <4>2. claims[a.event] >= a.at + SendLease \/ now >= a.at + SendLease
        BY <3>12 DEF LeaseInv
      <4>3. CASE claimed /\ a.event = item.event
        <5>1. claims[a.event] <= now
          BY <3>8, <4>3
        <5>2. now >= a.at + SendLease
          BY <1>0, <4>1, <4>2, <5>1
        <5>. QED BY <5>2
      <4>4. CASE ~(claimed /\ a.event = item.event)
        <5>1. claims'[a.event] = claims[a.event]
          BY <3>1, <3>8, <4>1, <4>4 DEF TypeOK
        <5>. QED BY <4>2, <4>4, <5>1
      <4>. QED BY <4>3, <4>4
    <3>13. \A a \in sent' : a.claimed /\ a.event \notin unlocked' =>
               claims'[a.event] >= a.at + SendLease \/ now' >= a.at + SendLease
      BY <2>2, <3>12
    <3>14. KeyedHand' /\ hand'.claimed =>
               \A a \in sent' : /\ a.claimed /\ a.event \notin unlocked'
                                /\ a.event = hand'.item.event /\ a.id # hand'.item.id
                                => hand'.at >= a.at + SendLease
      BY <2>2, <3>1, <3>6, <3>12, <3>16
    <3>15. SentOncePerLease'
      BY <2>2 DEF LeaseInv, SentOncePerLease
    <3>. QED BY <3>7, <3>10, <3>11, <3>13, <3>14, <3>15 DEF LeaseInv
  <2>. QED BY <2>3, <2>4
<1>5. CASE TakeSignal
  <2>1. ~KeyedHand'
    BY <1>5 DEF TakeSignal, KeyedHand, Broadcast, Resting
  <2>. QED BY <1>0, <1>5, <2>1, LeaseKept DEF TakeSignal
<1>6. ASSUME NEW chat \in Chats, NEW ok \in BOOLEAN, Send(chat, ok) PROVE LeaseInv'
  <2>1. /\ hand.pc = "send" /\ hand \in Hands /\ now' = now /\ claims' = claims /\ unlocked' = unlocked
        /\ hand' = [hand EXCEPT !.todo = @ \ {chat}, !.ok = IF ok THEN @ + 1 ELSE @,
                                !.failed = IF ok THEN @ ELSE @ + 1]
    BY <1>6, HandType DEF Send
  <2>2. /\ hand'.pc = "send" /\ hand'.item = hand.item /\ hand'.at = hand.at /\ hand'.claimed = hand.claimed
        /\ hand'.ok = IF ok THEN hand.ok + 1 ELSE hand.ok
    BY <2>1 DEF Hands
  <2>3. KeyedHand' = KeyedHand
    BY <2>1, <2>2 DEF KeyedHand
  <2>4. CASE ~KeyedHand
    <3>1. sent' = sent
      BY <1>6, <2>4 DEF Send, KeyedHand
    <3>. QED BY <1>0, <2>1, <2>3, <2>4, <3>1, LeaseKept
  <2>5. CASE KeyedHand
    <3>1. /\ hand.item.id \in Nat /\ hand.item.event \in Events /\ hand.at \in Nat /\ hand.ok \in Nat
          /\ claims[hand.item.event] \in Nat
      BY <2>5, SentType
    <3>2. hand'.ok >= hand.ok /\ (ok => hand'.ok > 0) /\ hand'.ok \in Nat
      BY <2>2, <3>1
    <3>3. ASSUME NEW a \in sent', a \notin sent
          PROVE  /\ a.id = hand.item.id /\ a.event = hand.item.event /\ a.at = hand.at
                 /\ a.claimed = hand.claimed /\ ok
      BY <1>6, <3>3 DEF Send
    <3>4. \A a \in sent : a.id \in Nat /\ a.id <= hand.item.id
      BY <2>5, SentType DEF OrderInv
    <3>5. KeyedHand' => hand'.at <= now'
      BY <2>1, <2>2, <2>5 DEF LeaseInv
    <3>6. KeyedHand' /\ hand'.claimed => claims'[hand'.item.event] >= hand'.at + SendLease
      BY <2>1, <2>2, <2>5 DEF LeaseInv
    <3>7. \A a \in sent' : a.id = hand'.item.id => hand'.ok > 0
      <4>1. \A a \in sent : a.id = hand.item.id => hand.ok > 0
        BY <2>5 DEF LeaseInv
      <4>2. hand.ok > 0 => hand'.ok > 0
        BY <3>1, <3>2
      <4>. QED BY <2>2, <3>2, <3>3, <4>1, <4>2
    <3>8. \A a \in sent' : a.claimed /\ a.event \notin unlocked' =>
              claims'[a.event] >= a.at + SendLease \/ now' >= a.at + SendLease
      <4>1. hand.claimed => claims[hand.item.event] >= hand.at + SendLease
        BY <2>5 DEF LeaseInv
      <4>. QED BY <2>1, <3>3, <4>1 DEF LeaseInv
    <3>9. hand'.claimed =>
              \A a \in sent' : /\ a.claimed /\ a.event \notin unlocked'
                               /\ a.event = hand'.item.event /\ a.id # hand'.item.id
                               => hand'.at >= a.at + SendLease
      BY <2>1, <2>2, <2>5, <3>3 DEF LeaseInv
    <3>10. SentOncePerLease'
      <4>. SUFFICES ASSUME NEW a \in sent', NEW b \in sent', a.event = b.event, a.chat = b.chat,
                           a.claimed, b.claimed, a.id < b.id, a.event \notin unlocked'
                    PROVE  b.at - a.at >= SendLease
        BY DEF SentOncePerLease
      <4>1. CASE a \in sent /\ b \in sent
        BY <2>1, <4>1 DEF LeaseInv, SentOncePerLease
      <4>2. CASE a \in sent /\ b \notin sent
        <5>1. a.id # hand.item.id
          BY <3>1, <3>3, <3>4, <4>2
        <5>2. hand.at >= a.at + SendLease
          BY <2>1, <2>5, <3>3, <4>2, <5>1 DEF LeaseInv
        <5>3. a.at \in Nat
          BY <4>2, SentType
        <5>4. b.at = hand.at
          BY <3>3, <4>2
        <5>. QED BY <1>0, <3>1, <5>2, <5>3, <5>4
      <4>3. CASE a \notin sent
        <5>1. b.id <= hand.item.id /\ b.id \in Nat
          BY <3>1, <3>3, <3>4
        <5>. QED BY <3>1, <3>3, <4>3, <5>1
      <4>. QED BY <4>1, <4>2, <4>3
    <3>. QED BY <3>5, <3>6, <3>7, <3>8, <3>9, <3>10 DEF LeaseInv
  <2>. QED BY <2>4, <2>5
<1>7. ASSUME NEW released \in BOOLEAN, Finish(released) PROVE LeaseInv'
  <2>1. ~KeyedHand' /\ hand.pc = "send" /\ sent' = sent /\ now' = now
    BY <1>7 DEF Finish, KeyedHand, Resting
  <2>2. CASE ~(Releases /\ released)
    BY <1>0, <1>7, <2>1, <2>2, LeaseKept DEF Finish
  <2>3. CASE Releases /\ released
    <3>1. KeyedHand /\ hand.ok = 0
      BY <2>1, <2>3 DEF Releases, KeyedHand
    <3>2. claims' = [claims EXCEPT ![hand.item.event] = 0]
      BY <1>7, <2>3 DEF Finish
    <3>3. unlocked' = IF ~hand.claimed THEN unlocked \cup {hand.item.event} ELSE unlocked
      BY <1>7, <2>3 DEF Finish
    <3>4. hand.at \in Nat /\ hand.at <= now
      BY <3>1, SentType DEF LeaseInv
    <3>5. ASSUME NEW a \in sent, a.claimed, a.event \notin unlocked'
          PROVE  claims'[a.event] >= a.at + SendLease \/ now >= a.at + SendLease
      <4>1. a.at \in Nat /\ a.event \in Events /\ a.event \notin unlocked
        BY <3>3, <3>5, SentType
      <4>2. CASE a.event = hand.item.event
        <5>1. hand.claimed
          BY <3>3, <3>5, <4>2
        <5>2. a.id # hand.item.id
          BY <3>1 DEF LeaseInv
        <5>3. hand.at >= a.at + SendLease
          BY <3>1, <3>5, <4>1, <4>2, <5>1, <5>2 DEF LeaseInv
        <5>. QED BY <1>0, <3>4, <4>1, <5>3
      <4>3. CASE a.event # hand.item.event
        <5>1. claims'[a.event] = claims[a.event]
          BY <3>2, <4>1, <4>3 DEF TypeOK
        <5>. QED BY <3>5, <4>1, <5>1 DEF LeaseInv
      <4>. QED BY <4>2, <4>3
    <3>6. SentOncePerLease'
      BY <2>1, <3>3 DEF LeaseInv, SentOncePerLease
    <3>. QED BY <2>1, <3>5, <3>6 DEF LeaseInv
  <2>. QED BY <2>2, <2>3
<1>8. ASSUME NEW d \in deferred, Requeue(d) PROVE LeaseInv'
  BY <1>0, <1>8, LeaseKept DEF Requeue
<1>9. CASE Crash
  <2>1. ~KeyedHand'
    BY <1>9 DEF Crash, KeyedHand, Resting
  <2>. QED BY <1>0, <1>9, <2>1, LeaseKept DEF Crash
<1>10. CASE Tick
  BY <1>0, <1>10, LeaseKept DEF Tick
<1>11. CASE UNCHANGED vars
  BY <1>0, <1>11, LeaseKept DEF vars
<1>. QED BY <1>1, <1>2, <1>3, <1>4, <1>5, <1>6, <1>7, <1>8, <1>9, <1>10, <1>11 DEF Next
----------------------------------------------------------------------------
(* The claims and the duplicates.                                          *)

\* No claim is taken and nothing keyed is skipped; what leaves the hand is an orphan.
LEMMA ClaimKept ==
    ASSUME ClaimInv, claims' = claims, sent' = sent, orphans \subseteq orphans',
           \A item \in skipped' : item.kind \in Keyed => item \in skipped,
           hand' = hand \/ (~KeyedHand' /\ (KeyedHand => hand.item.event \in orphans'))
    PROVE  ClaimInv'
<1>1. Reached' = Reached
  BY DEF Reached
<1>2. KeyedHand' => KeyedHand /\ hand' = hand
  BY DEF KeyedHand
<1>3. KeyedHand => (KeyedHand' /\ hand' = hand) \/ hand.item.event \in orphans'
  BY DEF KeyedHand
<1>4. KeyedHand' /\ hand'.ok > 0 => hand'.item.event \in Reached'
  BY <1>1, <1>2 DEF ClaimInv
<1>5. \A event \in Events : claims'[event] > 0 =>
          event \in Reached' \cup orphans' \/ (KeyedHand' /\ hand'.claimed /\ hand'.item.event = event)
  BY <1>1, <1>3 DEF ClaimInv
<1>6. DuplicateWasSent'
  BY DEF ClaimInv, DuplicateWasSent
<1>. QED BY <1>4, <1>5, <1>6 DEF ClaimInv

LEMMA StepClaimInv == Configured /\ TypeOK /\ ClaimInv /\ [Next]_vars => ClaimInv'
<1>. SUFFICES ASSUME Configured, TypeOK, ClaimInv, [Next]_vars PROVE ClaimInv'
  OBVIOUS
<1>1. ASSUME NEW notice, EmitScored(notice) PROVE ClaimInv'
  BY <1>1, ClaimKept DEF EmitScored
<1>2. ASSUME NEW notice, EmitTelegram(notice) PROVE ClaimInv'
  BY <1>2, ClaimKept DEF EmitTelegram
<1>3. ASSUME NEW decision, Work(decision) PROVE ClaimInv'
  BY <1>3, ClaimKept DEF Work
<1>4. ASSUME NEW claim, TakeNotice(claim) PROVE ClaimInv'
  <2>1. PICK item \in Notices : item = scoredQueue[Len(scoredQueue)]
    BY <1>4, Taken DEF TakeNotice
  <2>. DEFINE free == item.kind \in Plain \/ claims[item.event] <= now
              taken == item.kind \in Keyed /\ claim # "failed" /\ free
              passed == claim = "failed" \/ (free /\ ~(taken /\ claim = "resent"))
  <2>2. /\ item.kind \in Keyed \cup Plain /\ sent' = sent /\ Reached' = Reached
        /\ hand.pc = "idle" /\ ~KeyedHand
        /\ claims' = IF taken THEN [claims EXCEPT ![item.event] = now + SendLease] ELSE claims
        /\ hand' = IF passed THEN Broadcast(item, taken) ELSE Resting
        /\ skipped' \subseteq skipped \cup {[kind |-> item.kind, event |-> item.event]}
        /\ passed => skipped' = skipped
        /\ orphans' = IF taken /\ ~passed THEN orphans \cup {item.event} ELSE orphans
    BY <1>4, <2>1 DEF TakeNotice, Reached, KeyedHand
  <2>3. item.kind \in Keyed => item.event \in Events
    BY KindType
  <2>4. KeyedHand' <=> passed /\ item.kind \in Keyed
    BY <2>2 DEF KeyedHand, Broadcast, Resting
  <2>5. KeyedHand' => hand'.item = item /\ hand'.ok = 0 /\ hand'.claimed = taken
    BY <2>2, <2>4 DEF Broadcast
  <2>6. ASSUME NEW event \in Events, claims'[event] > 0
        PROVE  event \in Reached \cup orphans' \/ (KeyedHand' /\ hand'.claimed /\ hand'.item.event = event)
    <3>1. CASE taken /\ event = item.event
      <4>1. passed \/ event \in orphans'
        BY <2>2, <3>1
      <4>. QED BY <2>4, <2>5, <3>1, <4>1
    <3>2. CASE ~(taken /\ event = item.event)
      <4>1. claims[event] > 0
        BY <2>2, <2>6, <3>2 DEF TypeOK
      <4>2. event \in Reached \cup orphans
        BY <2>2, <4>1 DEF ClaimInv
      <4>. QED BY <2>2, <4>2
    <3>. QED BY <3>1, <3>2
  <2>7. ASSUME ~passed, item.kind \in Keyed PROVE item.event \in Reached \cup orphans'
    <3>1. CASE taken
      BY <2>2, <2>7, <3>1
    <3>2. CASE ~taken
      <4>1. ~free
        BY <2>7, <3>2
      <4>2. claims[item.event] > 0
        BY <2>3, <2>7, <4>1 DEF TypeOK
      <4>. QED BY <2>2, <2>3, <2>7, <4>2 DEF ClaimInv
    <3>. QED BY <3>1, <3>2
  <2>8. DuplicateWasSent'
    <3>1. orphans \subseteq orphans'
      BY <2>2
    <3>2. ASSUME NEW x \in skipped', x.kind \in Keyed PROVE x.event \in Reached \cup orphans'
      <4>1. CASE x \in skipped
        BY <3>1, <3>2, <4>1 DEF ClaimInv, DuplicateWasSent, Reached
      <4>2. CASE x \notin skipped
        <5>1. x = [kind |-> item.kind, event |-> item.event] /\ ~passed
          BY <2>2, <3>2, <4>2
        <5>. QED BY <2>7, <3>2, <5>1
      <4>. QED BY <4>1, <4>2
    <3>. QED BY <2>2, <3>2 DEF DuplicateWasSent, Reached
  <2>. QED BY <2>2, <2>5, <2>6, <2>8 DEF ClaimInv
<1>5. CASE TakeSignal
  <2>1. ~KeyedHand' /\ ~KeyedHand
    BY <1>5 DEF TakeSignal, KeyedHand, Broadcast, Resting
  <2>2. PICK item : item = scoredQueue[Len(scoredQueue)]
    OBVIOUS
  <2>3. item.kind \notin Keyed /\ skipped' \subseteq skipped \cup {[kind |-> item.kind, event |-> item.event]}
    BY <1>5, <2>2 DEF TakeSignal
  <2>4. \A x \in skipped' : x.kind \in Keyed => x \in skipped
    BY <2>3
  <2>. QED BY <1>5, <2>1, <2>4, ClaimKept DEF TakeSignal
<1>6. ASSUME NEW chat \in Chats, NEW ok \in BOOLEAN, Send(chat, ok) PROVE ClaimInv'
  <2>1. /\ hand.pc = "send" /\ hand \in Hands
        /\ claims' = claims /\ skipped' = skipped /\ orphans' = orphans
        /\ hand'.claimed = hand.claimed
        /\ hand' = [hand EXCEPT !.todo = @ \ {chat}, !.ok = IF ok THEN @ + 1 ELSE @,
                                !.failed = IF ok THEN @ ELSE @ + 1]
    BY <1>6, HandType DEF Send, Hands
  <2>2. hand'.pc = "send" /\ hand'.item = hand.item /\ hand'.ok = IF ok THEN hand.ok + 1 ELSE hand.ok
    BY <2>1 DEF Hands
  <2>3. sent \subseteq sent' /\ Reached \subseteq Reached'
    BY <1>6 DEF Send, Reached
  <2>4. KeyedHand' = KeyedHand
    BY <2>1, <2>2 DEF KeyedHand
  <2>5. KeyedHand /\ hand'.ok > 0 => hand.item.event \in Reached'
    <3>1. KeyedHand /\ ok => hand.item.event \in Reached'
      BY <1>6 DEF Send, Reached, KeyedHand
    <3>2. KeyedHand /\ ~ok /\ hand'.ok > 0 => hand.item.event \in Reached
      BY <2>2 DEF ClaimInv
    <3>. QED BY <2>3, <3>1, <3>2
  <2>6. DuplicateWasSent'
    BY <2>1, <2>3 DEF ClaimInv, DuplicateWasSent
  <2>. QED BY <2>1, <2>2, <2>3, <2>4, <2>5, <2>6 DEF ClaimInv
<1>7. ASSUME NEW released \in BOOLEAN, Finish(released) PROVE ClaimInv'
  <2>1. /\ hand.pc = "send" /\ ~KeyedHand' /\ sent' = sent /\ skipped' = skipped /\ orphans \subseteq orphans'
        /\ Reached' = Reached
    BY <1>7 DEF Finish, KeyedHand, Resting, Reached
  <2>2. DuplicateWasSent'
    BY <2>1 DEF ClaimInv, DuplicateWasSent
  <2>3. ASSUME NEW event \in Events, claims'[event] > 0
        PROVE  event \in Reached \cup orphans'
    <3>1. CASE Releases /\ released
      <4>1. claims' = [claims EXCEPT ![hand.item.event] = 0]
        BY <1>7, <3>1 DEF Finish
      <4>2. event # hand.item.event /\ claims[event] > 0
        BY <2>3, <4>1 DEF TypeOK
      <4>. QED BY <2>1, <4>2 DEF ClaimInv
    <3>2. CASE Releases /\ ~released
      <4>1. claims' = claims /\ (hand.claimed => hand.item.event \in orphans')
        BY <1>7, <3>2 DEF Finish
      <4>. QED BY <2>1, <2>3, <4>1 DEF ClaimInv
    <3>3. CASE ~Releases
      <4>1. claims' = claims
        BY <1>7, <3>3 DEF Finish
      <4>2. KeyedHand => hand.ok > 0
        BY <3>3, SentType DEF Releases, KeyedHand
      <4>. QED BY <2>1, <2>3, <4>1, <4>2 DEF ClaimInv
    <3>. QED BY <3>1, <3>2, <3>3
  <2>. QED BY <2>1, <2>2, <2>3 DEF ClaimInv
<1>8. ASSUME NEW d \in deferred, Requeue(d) PROVE ClaimInv'
  BY <1>8, ClaimKept DEF Requeue
<1>9. CASE Crash
  <2>1. ~KeyedHand' /\ (KeyedHand => hand.item.event \in orphans') /\ orphans \subseteq orphans'
    BY <1>9 DEF Crash, KeyedHand, Resting
  <2>. QED BY <1>9, <2>1, ClaimKept DEF Crash
<1>10. CASE Tick
  BY <1>10, ClaimKept DEF Tick
<1>11. CASE UNCHANGED vars
  BY <1>11, ClaimKept DEF vars
<1>. QED BY <1>1, <1>2, <1>3, <1>4, <1>5, <1>6, <1>7, <1>8, <1>9, <1>10, <1>11 DEF Next

----------------------------------------------------------------------------
(* The limit of a minute.                                                  *)

\* The facts of the window, of a count and a start.
Windowed(count, start, times, t) ==
    /\ count <= MaxSignalsPerMin /\ count <= Len(times) /\ start <= t
    /\ \A k \in 1..Len(times) : times[k] <= t
    /\ \A k \in 1..(Len(times) - count) : times[k] <= start
    /\ \A k \in 1..(Len(times) - count) : k + MaxSignalsPerMin <= Len(times) - count => times[k] + Minute <= start
    /\ \A i, j \in 1..Len(times) : j >= i + 2 * MaxSignalsPerMin => times[j] - times[i] >= Minute

LEMMA BurstIsWindowed == BurstInv <=> Windowed(limiter.count, limiter.start, admitted, now)
BY DEF BurstInv, Windowed, Others

\* A new window begins where the last one ended.
LEMMA WindowBegins ==
    ASSUME Configured, NEW count \in Nat, NEW start \in Nat, NEW times \in Seq(Nat), NEW t \in Nat,
           Windowed(count, start, times, t), t - start >= Minute
    PROVE  Windowed(0, t, times, t)
<1>1. /\ MaxSignalsPerMin \in Nat /\ Minute \in Nat /\ Len(times) \in Nat
      /\ \A k \in 1..Len(times) : times[k] \in Nat
  BY ElementOfSeq DEF Configured
<1>2. \A k \in 1..Len(times) : times[k] <= t
  BY DEF Windowed
<1>3. ASSUME NEW k \in 1..Len(times), k + MaxSignalsPerMin <= Len(times)
      PROVE  times[k] + Minute <= t
  <2>1. k \in 1..(Len(times) - count)
    BY <1>1, <1>3 DEF Windowed
  <2>2. times[k] <= start
    BY <2>1 DEF Windowed
  <2>. QED BY <1>1, <2>2
<1>. QED BY <1>1, <1>2, <1>3 DEF Windowed

\* A signal is admitted while there is room.
LEMMA WindowFills ==
    ASSUME Configured, NEW count \in Nat, NEW start \in Nat, NEW times \in Seq(Nat), NEW t \in Nat,
           Windowed(count, start, times, t), count < MaxSignalsPerMin
    PROVE  Windowed(count + 1, start, Append(times, t), t)
<1>. DEFINE n == Len(times)
            new == Append(times, t)
<1>1. /\ MaxSignalsPerMin \in Nat /\ Minute \in Nat /\ n \in Nat
      /\ \A k \in 1..n : times[k] \in Nat
  BY ElementOfSeq DEF Configured
<1>2. Len(new) = n + 1 /\ new[n + 1] = t /\ \A k \in 1..n : new[k] = times[k]
  BY AppendProperties
<1>3. /\ count <= n /\ start <= t /\ \A k \in 1..n : times[k] <= t
      /\ \A k \in 1..(n - count) : times[k] <= start
      /\ \A k \in 1..(n - count) : k + MaxSignalsPerMin <= n - count => times[k] + Minute <= start
      /\ \A i, j \in 1..n : j >= i + 2 * MaxSignalsPerMin => times[j] - times[i] >= Minute
  BY DEF Windowed
<1>. HIDE DEF n, new
<1>4. Len(new) - (count + 1) = n - count /\ \A k \in 1..(n - count) : k \in 1..n
  BY <1>1, <1>2
<1>5. \A k \in 1..(n + 1) : new[k] <= t
  <2>1. \A k \in 1..(n + 1) : k = n + 1 \/ k \in 1..n
    BY <1>1
  <2>. QED BY <1>2, <1>3, <2>1
<1>6. ASSUME NEW i \in 1..(n + 1), NEW j \in 1..(n + 1), j >= i + 2 * MaxSignalsPerMin
      PROVE  new[j] - new[i] >= Minute
  <2>1. i \in 1..n
    BY <1>1, <1>6
  <2>2. CASE j = n + 1
    <3>1. i \in 1..(n - count) /\ i + MaxSignalsPerMin <= n - count
      BY <1>1, <1>6, <2>2
    <3>2. times[i] + Minute <= start
      BY <1>3, <3>1
    <3>. QED BY <1>1, <1>2, <1>3, <2>1, <2>2, <3>2
  <2>3. CASE j \in 1..n
    BY <1>2, <1>3, <1>6, <2>1, <2>3
  <2>. QED BY <1>1, <2>2, <2>3
<1>7. count + 1 <= MaxSignalsPerMin /\ count + 1 <= Len(new)
  BY <1>1, <1>2, <1>3
<1>. QED BY <1>2, <1>3, <1>4, <1>5, <1>6, <1>7 DEF Windowed, new
\* Time passes.
LEMMA WindowAges ==
    ASSUME Configured, TypeOK, BurstInv, now' \in Nat, now' >= now, limiter' = limiter, admitted' = admitted
    PROVE  BurstInv'
<1>1. /\ now \in Nat /\ limiter.start \in Nat /\ limiter.start <= now
      /\ \A k \in 1..Len(admitted) : admitted[k] \in Nat /\ admitted[k] <= now
  BY ElementOfSeq DEF TypeOK, BurstInv
<1>2. limiter.start <= now' /\ \A k \in 1..Len(admitted) : admitted[k] <= now'
  BY <1>1
<1>. QED BY <1>2 DEF BurstInv, Others

LEMMA StepBurstInv == Configured /\ TypeOK /\ BurstInv /\ [Next]_vars => BurstInv'
<1>. SUFFICES ASSUME Configured, TypeOK, BurstInv, [Next]_vars PROVE BurstInv'
  OBVIOUS
<1>0. now \in Nat
  BY DEF TypeOK
<1>1. ASSUME NEW notice, EmitScored(notice) PROVE BurstInv'
  BY <1>0, <1>1, WindowAges DEF EmitScored
<1>2. ASSUME NEW notice, EmitTelegram(notice) PROVE BurstInv'
  BY <1>0, <1>2, WindowAges DEF EmitTelegram
<1>3. ASSUME NEW decision, Work(decision) PROVE BurstInv'
  BY <1>0, <1>3, WindowAges DEF Work
<1>4. ASSUME NEW claim, TakeNotice(claim) PROVE BurstInv'
  BY <1>0, <1>4, WindowAges DEF TakeNotice
<1>5. CASE TakeSignal
  <2>1. PICK w \in [count : Nat, start : Nat] : w = Window
    BY WindowType
  <2>2. Windowed(limiter.count, limiter.start, admitted, now)
        /\ limiter.count \in Nat /\ limiter.start \in Nat /\ admitted \in Seq(Nat) /\ now \in Nat
    BY BurstIsWindowed DEF TypeOK
  <2>3. Windowed(w.count, w.start, admitted, now)
    <3>1. CASE now - limiter.start >= Minute
      BY <2>1, <2>2, <3>1, WindowBegins DEF Window
    <3>2. CASE ~(now - limiter.start >= Minute)
      BY <2>1, <2>2, <3>2 DEF Window
    <3>. QED BY <3>1, <3>2
  <2>4. now' = now
    BY <1>5 DEF TakeSignal
  <2>5. \/ limiter' = limiter /\ admitted' = admitted
        \/ limiter' = w /\ admitted' = admitted
        \/ /\ w.count < MaxSignalsPerMin
           /\ limiter' = [w EXCEPT !.count = @ + 1] /\ admitted' = Append(admitted, now)
    <3>1. CASE w.count < MaxSignalsPerMin
      BY <1>5, <2>1, <3>1 DEF TakeSignal
    <3>2. CASE ~(w.count < MaxSignalsPerMin)
      BY <1>5, <2>1, <3>2 DEF TakeSignal
    <3>. QED BY <3>1, <3>2
  <2>6. Windowed(limiter'.count, limiter'.start, admitted', now')
    <3>1. CASE limiter' = limiter /\ admitted' = admitted
      BY <2>2, <2>4, <3>1
    <3>2. CASE limiter' = w /\ admitted' = admitted
      BY <2>3, <2>4, <3>2
    <3>3. CASE /\ w.count < MaxSignalsPerMin
               /\ limiter' = [w EXCEPT !.count = @ + 1] /\ admitted' = Append(admitted, now)
      <4>1. limiter'.count = w.count + 1 /\ limiter'.start = w.start
        BY <3>3
      <4>2. Windowed(w.count + 1, w.start, Append(admitted, now), now)
        BY <2>2, <2>3, <3>3, WindowFills
      <4>. QED BY <2>4, <3>3, <4>1, <4>2
    <3>. QED BY <2>5, <3>1, <3>2, <3>3
  <2>. QED BY <2>6 DEF BurstInv, Windowed, Others
<1>6. ASSUME NEW chat, NEW ok, Send(chat, ok) PROVE BurstInv'
  BY <1>0, <1>6, WindowAges DEF Send
<1>7. CASE \E released \in BOOLEAN : Finish(released)
  BY <1>0, <1>7, WindowAges DEF Finish
<1>8. ASSUME NEW d \in deferred, Requeue(d) PROVE BurstInv'
  BY <1>0, <1>8, WindowAges DEF Requeue
<1>9. CASE Crash
  <2>1. /\ limiter'.count = 0 /\ limiter'.start = now /\ Len(admitted') = 0 /\ now' = now
        /\ MaxSignalsPerMin \in Nat
    BY <1>9 DEF Crash, Configured
  <2>. QED BY <1>0, <2>1 DEF BurstInv, Others
<1>10. CASE Tick
  BY <1>0, <1>10, WindowAges DEF Tick
<1>11. CASE UNCHANGED vars
  BY <1>0, <1>11, WindowAges DEF vars
<1>. QED BY <1>1, <1>2, <1>3, <1>4, <1>5, <1>6, <1>7, <1>8, <1>9, <1>10, <1>11 DEF Next

\* The first of some positions.
LEMMA Least ==
    ASSUME NEW T, T \subseteq Nat, T # {}
    PROVE  \E m \in T : \A k \in T : m <= k
<1>. DEFINE R == OpToRel(<, Nat)
<1>1. IsWellFoundedOn(R, Nat)
  BY NatLessThanWellFounded
<1>2. \A x, y \in Nat : y < x => <<y, x>> \in R
  BY DEF OpToRel
<1>. HIDE DEF R
<1>3. PICK x \in T : \A y \in T : ~ (<<y, x>> \in R)
  BY <1>1, WFMin
<1>4. \A y \in T : ~ (y < x)
  BY <1>2, <1>3
<1>5. \A y \in T : x <= y
  BY <1>4
<1>. QED BY <1>5

\* Signals that are two windows' worth apart are a minute apart, so a minute holds no more.
LEMMA BurstFollows == Configured /\ TypeOK /\ BurstInv => BurstBounded
<1>. SUFFICES ASSUME Configured, TypeOK, BurstInv, NEW i \in DOMAIN admitted
              PROVE  Cardinality({j \in DOMAIN admitted : admitted[j] \in (admitted[i] - Minute + 1)..admitted[i]})
                         <= 2 * MaxSignalsPerMin
  BY DEF BurstBounded
<1>. DEFINE T == {j \in DOMAIN admitted : admitted[j] \in (admitted[i] - Minute + 1)..admitted[i]}
            width == 2 * MaxSignalsPerMin
<1>1. /\ MaxSignalsPerMin \in Nat /\ Minute \in Nat /\ width \in Nat
      /\ DOMAIN admitted = 1..Len(admitted) /\ Len(admitted) \in Nat
      /\ \A k \in 1..Len(admitted) : admitted[k] \in Nat
  BY ElementOfSeq, LenProperties DEF Configured, TypeOK
<1>2. T \subseteq Nat
  BY <1>1
<1>3. CASE T = {}
  <2>1. Cardinality(T) = 0
    BY <1>3, FS_EmptySet
  <2>. HIDE DEF T, width
  <2>2. Cardinality(T) <= width
    BY <1>1, <2>1
  <2>. QED BY <2>2 DEF T, width
<1>4. CASE T # {}
  <2>1. PICK m \in T : \A k \in T : m <= k
    BY <1>2, <1>4, Least
  <2>2. m \in Nat /\ m + width - 1 \in Int
    BY <1>1, <1>2
  <2>3. ASSUME NEW k \in T PROVE k \in m..(m + width - 1)
    <3>1. k \in Nat /\ m <= k
      BY <1>2, <2>1
    <3>2. admitted[k] - admitted[m] < Minute
      BY <1>1
    <3>3. ~(k >= m + width)
      BY <1>1, <3>2 DEF BurstInv
    <3>. QED BY <1>1, <2>2, <3>1, <3>3
  <2>4. T \in SUBSET (m..(m + width - 1))
    BY <2>3
  <2>. HIDE DEF T, width
  <2>5. PICK last \in Int : last = m + width - 1
    BY <2>2
  <2>6. IsFiniteSet(m..last) /\ Cardinality(m..last) = IF m > last THEN 0 ELSE last - m + 1
    BY <2>2, FS_Interval
  <2>7. Cardinality(m..last) <= width /\ Cardinality(m..last) \in Nat
    BY <1>1, <2>2, <2>5, <2>6
  <2>8. Cardinality(T) <= Cardinality(m..last) /\ Cardinality(T) \in Nat
    BY <2>4, <2>5, <2>6, FS_Subset, FS_CardinalityType
  <2>9. Cardinality(T) <= width
    BY <1>1, <2>7, <2>8
  <2>. QED BY <2>9 DEF T, width
<1>. QED BY <1>3, <1>4

----------------------------------------------------------------------------
(* The theorem.                                                            *)

\* What handlers/signals.js promises of every notice: an event reaches a chat once per
\* lease, unless a send without a claim gave the claim back; what is skipped as a
\* duplicate was sent or was in hand when the bot stopped; and no minute between two
\* restarts sees more than two windows' worth of signals.  It holds for any number of
\* chats and events, with sends and Redis failing at any time.
THEOREM NoticesAlwaysHold == ASSUME Configured PROVE Spec => []NoticesHold
<1>1. Init => Inv
  BY InitInv
<1>2. Inv /\ [Next]_vars => Inv'
  BY StepTypeOK, StepOrderInv, StepLeaseInv, StepClaimInv, StepBurstInv DEF Inv
<1>3. Inv => NoticesHold
  BY BurstFollows DEF Inv, LeaseInv, ClaimInv, NoticesHold
<1>. QED BY <1>1, <1>2, <1>3, PTL DEF Spec
=============================================================================
