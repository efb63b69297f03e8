----------------------- MODULE WsSubscriptions_proofs -----------------------
(***************************************************************************)
(* Type correctness of WsSubscriptions, that a session's plan fits the     *)
(* account for every choice of the limits, and that the acknowledgements,  *)
(* matched in order, keep the listener in step with the broker.            *)
(***************************************************************************)
EXTENDS WsSubscriptions, FiniteSetTheorems, SequenceTheorems, TLAPS

----------------------------------------------------------------------------
(* The plan of a session.                                                  *)

\* The first n candidates are at most n.
LEMMA TopSize ==
    ASSUME NEW list \in Seq(Codes), NEW n \in Nat
    PROVE  /\ Top(list, n) \subseteq Codes
           /\ IsFiniteSet(Top(list, n))
           /\ Cardinality(Top(list, n)) \in Nat
           /\ Cardinality(Top(list, n)) <= n
<1>. DEFINE m == Least(n, Len(list))
            f == [i \in 1..m |-> list[i]]
<1>1. m \in Nat /\ m <= n /\ m <= Len(list)
  BY DEF Least
<1>2. IsFiniteSet(1..m) /\ Cardinality(1..m) = m
  BY <1>1, FS_Interval
<1>3. f \in Surjection(1..m, Top(list, n))
  BY DEF Surjection, Top
<1>5. IsFiniteSet(Top(list, n)) /\ Cardinality(Top(list, n)) <= Cardinality(1..m)
  <2>. HIDE DEF f
  <2>. QED BY <1>2, <1>3, FS_Surjection
<1>6. Cardinality(Top(list, n)) \in Nat
  BY <1>5, FS_CardinalityType
<1>7. Top(list, n) \subseteq Codes
  BY <1>1 DEF Top
<1>. QED BY <1>1, <1>2, <1>5, <1>6, <1>7

\* The shares are numbers, and together with the wildcard within Total.
LEMMA Shares ==
    /\ PerType \in Nat /\ 3 * PerType + 1 <= Total
    /\ ProgramCount \in Nat /\ Least(ProgramCount, GroupMax) \in Nat
    /\ Least(ProgramCount, GroupMax) <= ProgramCount
    /\ PrimaryCount \in Nat /\ 2 * PrimaryCount + ProgramCount + 1 <= Total
BY ConstantsAssumption DEF PerType, ProgramCount, PrimaryCount, Least, AtLeast0

\* A session wants at most Total items.
LEMMA WantedFits ==
    ASSUME NEW s \in Sessions, NEW list \in Seq(Codes)
    PROVE  Registered(Wanted(s, list)) <= Total
<1>1. Cardinality({}) = 0 /\ Cardinality({All}) = 1
  BY FS_EmptySet, FS_Singleton
<1>2. Total \in Nat \ {0}
  BY ConstantsAssumption
<1>. DEFINE held == Wanted(s, list)
<1>3. CASE s \in Auction
  <2>. DEFINE p == Cardinality(Top(list, PerType))
  <2>1. /\ held["0B"] = Top(list, PerType) /\ held["0D"] = Top(list, PerType)
        /\ held["0H"] = Top(list, PerType) /\ held["1h"] = {All}
        /\ held["0w"] = {}
    <3>1. s \notin Market
      BY <1>3 DEF Auction, Market
    <3>. QED BY <1>3, <3>1 DEF Wanted, Nothing, Types
  <2>2. p \in Nat /\ p <= PerType
    BY Shares, TopSize
  <2>3. Registered(held) = p + p + 1 + p + 0
    BY <1>1, <2>1 DEF Registered
  <2>. HIDE DEF p, held
  <2>4. Registered(held) <= Total
    BY <2>2, <2>3, <1>2, Shares
  <2>. QED BY <2>4 DEF held
<1>4. CASE s \in Market
  <2>. DEFINE p == Cardinality(Top(list, PrimaryCount))
              q == Cardinality(Top(list, Least(ProgramCount, GroupMax)))
  <2>1. s \notin Auction
    BY <1>4 DEF Auction, Market
  <2>2. /\ held["0B"] = Top(list, PrimaryCount)
        /\ held["0D"] = Top(list, PrimaryCount)
        /\ held["0w"] = Top(list, Least(ProgramCount, GroupMax))
        /\ held["1h"] = {All} /\ held["0H"] = {}
    BY <1>4, <2>1 DEF Wanted, Nothing, Types
  <2>3. p \in Nat /\ p <= PrimaryCount /\ q \in Nat /\ q <= ProgramCount
    <3>1. q \in Nat /\ q <= Least(ProgramCount, GroupMax)
      BY Shares, TopSize
    <3>2. p \in Nat /\ p <= PrimaryCount
      BY Shares, TopSize
    <3>. HIDE DEF p, q
    <3>. QED BY <3>1, <3>2, Shares
  <2>4. Registered(held) = p + 0 + 1 + p + q
    BY <1>1, <2>2 DEF Registered
  <2>. HIDE DEF p, q, held
  <2>5. Registered(held) <= Total
    BY <2>3, <2>4, <1>2, Shares
  <2>. QED BY <2>5 DEF held
<1>5. CASE s \notin Active
  <2>1. held = Nothing
    BY <1>5 DEF Wanted, Active
  <2>2. Registered(held) = 0
    BY <1>1, <2>1 DEF Registered, Nothing, Types
  <2>. QED BY <2>2, <1>2
<1>. QED BY <1>3, <1>4, <1>5 DEF Active

----------------------------------------------------------------------------
(* The requests and the tasks.                                             *)

\* What a session wants, and its plan, are well typed.
LEMMA PlanType ==
    ASSUME NEW s \in Sessions, NEW list \in Seq(Codes)
    PROVE  /\ Wanted(s, list) \in [Types -> SUBSET Items]
           /\ Plan(s, list) \in Seq(Types \X SUBSET Items)
<1>1. /\ Top(list, PerType) \subseteq Codes
      /\ Top(list, PrimaryCount) \subseteq Codes
      /\ Top(list, Least(ProgramCount, GroupMax)) \subseteq Codes
  BY Shares, TopSize
<1>2. Wanted(s, list) \in [Types -> SUBSET Items]
  <2>1. Auction \cap Market = {}
    BY DEF Auction, Market
  <2>2. Nothing \in [Types -> SUBSET Items] /\ {All} \in SUBSET Items
    BY DEF Nothing, Items
  <2>3. CASE s \in Auction
    BY <1>1, <2>1, <2>2, <2>3 DEF Wanted, Items, Types
  <2>4. CASE s \in Market
    BY <1>1, <2>1, <2>2, <2>4 DEF Wanted, Items, Types
  <2>5. CASE s \notin Auction /\ s \notin Market
    BY <2>2, <2>5 DEF Wanted
  <2>. QED BY <2>3, <2>4, <2>5
<1>3. Sequence(s) \in Seq(Types)
  <2>1. Auction \cap Market = {}
    BY DEF Auction, Market
  <2>2. CASE s \in Auction
    <3>1. s \notin Market
      BY <2>1, <2>2
    <3>. QED BY <2>2, <3>1 DEF Sequence, Types
  <2>3. CASE s \in Market
    BY <2>1, <2>3 DEF Sequence, Types
  <2>4. CASE s \notin Auction /\ s \notin Market
    BY <2>4 DEF Sequence, Types
  <2>. QED BY <2>2, <2>3, <2>4
<1>. DEFINE n == Len(Sequence(s))
<1>4. n \in Nat /\ \A i \in 1..n : Sequence(s)[i] \in Types
  BY <1>3
<1>5. \A i \in 1..n : <<Sequence(s)[i], Wanted(s, list)[Sequence(s)[i]]>>
                        \in Types \X SUBSET Items
  BY <1>2, <1>4
<1>. QED BY <1>2, <1>4, <1>5 DEF Plan

\* A request applied to what is held gives a set of items for each type.
LEMMA AppliedType ==
    ASSUME NEW held \in [Types -> SUBSET Items], NEW r \in Requests
    PROVE  Applied(held, r) \in [Types -> SUBSET Items]
BY DEF Applied, Requests

\* A set of types is finite.
LEMMA TypesFinite ==
    ASSUME NEW kept \in SUBSET Types
    PROVE  IsFiniteSet(kept) /\ Cardinality(kept) \in Nat
<1>1. IsFiniteSet({"0B", "0H", "1h", "0D", "0w"})
  <2>1. IsFiniteSet({"0B", "0H", "1h", "0D"})
    <3>1. IsFiniteSet({"0B", "0H", "1h"})
      <4>1. IsFiniteSet({"0B", "0H"})
        <5>1. IsFiniteSet({"0B"})
          BY FS_Singleton
        <5>2. IsFiniteSet({"0B"} \cup {"0H"})
          BY <5>1, FS_AddElement, Zenon
        <5>3. {"0B"} \cup {"0H"} = {"0B", "0H"}
          OBVIOUS
        <5>. QED BY <5>2, <5>3
      <4>2. IsFiniteSet({"0B", "0H"} \cup {"1h"})
        BY <4>1, FS_AddElement, Zenon
      <4>3. {"0B", "0H"} \cup {"1h"} = {"0B", "0H", "1h"}
        OBVIOUS
      <4>. QED BY <4>2, <4>3
    <3>2. IsFiniteSet({"0B", "0H", "1h"} \cup {"0D"})
      BY <3>1, FS_AddElement, Zenon
    <3>3. {"0B", "0H", "1h"} \cup {"0D"} = {"0B", "0H", "1h", "0D"}
      OBVIOUS
    <3>. QED BY <3>2, <3>3
  <2>2. IsFiniteSet({"0B", "0H", "1h", "0D"} \cup {"0w"})
    BY <2>1, FS_AddElement, Zenon
  <2>3. {"0B", "0H", "1h", "0D"} \cup {"0w"} = {"0B", "0H", "1h", "0D", "0w"}
    OBVIOUS
  <2>. QED BY <2>2, <2>3
<1>2. IsFiniteSet(Types)
  BY <1>1 DEF Types
<1>. QED BY <1>2, FS_Subset, FS_CardinalityType

\* The session the clock shows is one of the day.
LEMMA SessionType ==
    hour \in 1..Len(Day) => session \in Sessions
BY ConstantsAssumption DEF session

Plans == Seq(Types \X SUBSET Items)

Workers == [pc : {"sleep", "compare", "send"}, session : Sessions,
            codes : SUBSET Codes, steps : Plans, request : Requests]

\* A task that sleeps, and one that starts.
LEMMA WorkType ==
    ASSUME TypeOK, NEW codes \in SUBSET Codes
    PROVE  /\ Asleep \in Workers
           /\ Work(session, codes) \in Workers
<1>1. NoRequest \in Requests
  BY DEF NoRequest, Requests, Kinds, Types
<1>2. Asleep \in Workers
  BY <1>1 DEF Asleep, Workers, Plans, Sessions, Active, Auction, Market
<1>3. session \in Sessions /\ ranking \in Seq(Codes)
  BY SessionType, ConstantsAssumption DEF TypeOK
<1>4. Plan(session, ranking) \in Plans
  BY <1>3, PlanType DEF Plans
<1>. QED BY <1>2, <1>3, <1>4 DEF Work, Workers

----------------------------------------------------------------------------
(* Type correctness.                                                       *)

LEMMA InitTypeOK == Init => TypeOK
<1>. SUFFICES ASSUME Init PROVE TypeOK
  OBVIOUS
<1>1. hour \in 1..Len(Day) /\ session \in Sessions
  BY ConstantsAssumption DEF Init, session
<1>2. Asleep \in Workers
  <2>1. NoRequest \in Requests
    BY DEF NoRequest, Requests, Kinds, Types
  <2>. QED BY <2>1 DEF Asleep, Workers, Plans, Sessions, Active, Auction, Market
<1>3. Nothing \in [Types -> SUBSET Items] /\ NonePending \in [Kinds -> Seq(Requests)]
  BY DEF Nothing, NonePending
<1>4. task \in [Tasks -> Workers]
  BY <1>2 DEF Init
<1>5. lost \in 0..MaxLost /\ wire \in Seq(Requests) /\ NoRequest \in Requests
      /\ replies \in Seq([trnm : Kinds, ok : BOOLEAN])
  BY ConstantsAssumption DEF Init, NoRequest, Requests, Kinds, Types
<1>. QED BY <1>1, <1>3, <1>4, <1>5 DEF Init, TypeOK, Workers, Plans

\* A task that is given steps, a request or its end stays well typed.
LEMMA TaskUpdate ==
    ASSUME TypeOK, NEW t \in Tasks, NEW w \in Workers
    PROVE  [task EXCEPT ![t] = w] \in [Tasks -> Workers]
BY DEF TypeOK, Workers, Plans

LEMMA StepTypeOK == TypeOK /\ [Next]_vars => TypeOK'
<1>. SUFFICES ASSUME TypeOK, [Next]_vars PROVE TypeOK'
  OBVIOUS
<1>. USE DEF client
<1>0. task \in [Tasks -> Workers]
  BY DEF TypeOK, Workers, Plans
<1>1. CASE Tick
  BY <1>1, ConstantsAssumption DEF Tick, TypeOK
<1>2. CASE Rerank
  BY <1>2 DEF Rerank, TypeOK
<1>3. CASE Login
  <2>1. Work(session, {}) \in Workers
    BY WorkType
  <2>2. task' \in [Tasks -> Workers]
    BY <1>0, <1>3, <2>1 DEF Login
  <2>3. NonePending \in [Kinds -> Seq(Requests)]
    BY DEF NonePending
  <2>4. acked' \in [Types -> SUBSET Items] /\ lost' \in 0..MaxLost
    <3>1. PICK kept \in {types \in SUBSET Types : Cardinality(types) <= MaxLost} :
            /\ acked' = [t \in Types |-> IF t \in kept THEN acked[t] ELSE {}]
            /\ lost' = Cardinality(kept)
      BY <1>3 DEF Login, Reset
    <3>2. Cardinality(kept) \in Nat
      BY TypesFinite
    <3>. QED BY <3>1, <3>2, ConstantsAssumption DEF TypeOK
  <2>. QED BY <1>3, <2>2, <2>3, <2>4 DEF Login, TypeOK, Workers, Plans
<1>4. CASE Drop
  <2>1. task' \in [Tasks -> Workers]
    BY <1>4, WorkType DEF Drop
  <2>2. Nothing \in [Types -> SUBSET Items]
    BY DEF Nothing
  <2>3. wire' \in Seq(Requests) /\ replies' \in Seq([trnm : Kinds, ok : BOOLEAN])
    BY <1>4 DEF Drop
  <2>4. recording' \in Requests
    BY <1>4 DEF Drop, NoRequest, Requests, Kinds, Types
  <2>. QED BY <1>4, <2>1, <2>2, <2>3, <2>4 DEF Drop, TypeOK, Workers, Plans
<1>5. CASE WakePhase
  <2>1. task' \in [Tasks -> Workers]
    BY <1>0, <1>5, WorkType DEF WakePhase
  <2>. QED BY <1>5, <2>1 DEF WakePhase, TypeOK, Workers, Plans
<1>6. CASE WakeWatchlist
  <2>1. Codeset(ranking) \in SUBSET Codes
    BY ConstantsAssumption DEF Codeset, TypeOK
  <2>2. task' \in [Tasks -> Workers]
    BY <1>0, <1>6, <2>1, WorkType DEF WakeWatchlist
  <2>. QED BY <1>6, <2>2 DEF WakeWatchlist, TypeOK, Workers, Plans
<1>7. ASSUME NEW t \in Tasks, Compare(t)
      PROVE  TypeOK'
  <2>1. PICK fails \in Losses :
           LET type == Head(task[t].steps)[1]
               items == Head(task[t].steps)[2]
               current == IF fails = 1 THEN {} ELSE acked[type]
               request == IF items = {}
                          THEN [trnm |-> "REMOVE", type |-> type, items |-> current]
                          ELSE [trnm |-> "REG", type |-> type, items |-> items]
           IN /\ task' = [task EXCEPT
                   ![t].steps = Tail(@),
                   ![t].pc = IF current = items THEN "compare" ELSE "send",
                   ![t].request = IF current = items THEN NoRequest ELSE request]
              /\ lost' = lost + fails
    BY <1>7 DEF Compare
  <2>. DEFINE type == Head(task[t].steps)[1]
              items == Head(task[t].steps)[2]
              current == IF fails = 1 THEN {} ELSE acked[type]
              request == IF items = {}
                         THEN [trnm |-> "REMOVE", type |-> type, items |-> current]
                         ELSE [trnm |-> "REG", type |-> type, items |-> items]
  <2>2. /\ Head(task[t].steps) \in Types \X SUBSET Items
        /\ Tail(task[t].steps) \in Plans
    BY <1>0, <1>7 DEF Compare, Workers, Plans
  <2>3. type \in Types /\ items \in SUBSET Items /\ current \in SUBSET Items
    BY <2>2 DEF TypeOK
  <2>4. request \in Requests /\ NoRequest \in Requests
    BY <2>3 DEF Requests, Kinds, NoRequest, Types
  <2>5. task' \in [Tasks -> Workers]
    <3>. DEFINE c == IF current = items THEN "compare" ELSE "send"
                q == IF current = items THEN NoRequest ELSE request
                w == [task[t] EXCEPT !.steps = Tail(@), !.pc = c, !.request = q]
    <3>1. task' = [task EXCEPT ![t] = w]
      BY <1>0, <1>7, <2>1
    <3>2. c \in {"compare", "send"} /\ q \in Requests
      BY <2>4
    <3>3. task[t] \in Workers
      BY <1>0, <1>7
    <3>. HIDE DEF c, q
    <3>4. w \in Workers
      BY <2>2, <3>2, <3>3 DEF Workers
    <3>. HIDE DEF w
    <3>. QED BY <1>0, <1>7, <3>1, <3>4
  <2>6. lost' \in 0..MaxLost
    BY <2>1, ConstantsAssumption DEF Losses, TypeOK
  <2>. QED BY <1>7, <2>5, <2>6 DEF Compare, TypeOK, Workers, Plans
<1>8. ASSUME NEW t \in Tasks, Send(t)
      PROVE  TypeOK'
  <2>1. NoRequest \in Requests /\ task[t].request \in Requests
    BY <1>0 DEF NoRequest, Requests, Kinds, Types, Workers
  <2>2. task' \in [Tasks -> Workers]
    <3>1. [task[t] EXCEPT !.pc = "compare", !.request = NoRequest] \in Workers
      BY <1>0, <2>1 DEF Workers
    <3>2. task' = [task EXCEPT ![t] =
                     [task[t] EXCEPT !.pc = "compare", !.request = NoRequest]]
      BY <1>0, <1>8 DEF Send
    <3>. QED BY <1>0, <1>8, <3>1, <3>2
  <2>3. wire' \in Seq(Requests)
    BY <1>8, <2>1 DEF Send, TypeOK
  <2>4. pending' \in [Kinds -> Seq(Requests)]
    <3>1. task[t].request.trnm \in Kinds
      BY <2>1 DEF Requests
    <3>2. Append(pending[task[t].request.trnm], task[t].request) \in Seq(Requests)
      BY <2>1, <3>1 DEF TypeOK
    <3>. QED BY <1>8, <3>1, <3>2 DEF Send, TypeOK
  <2>. QED BY <1>8, <2>2, <2>3, <2>4 DEF Send, TypeOK, Workers, Plans
<1>9. ASSUME NEW t \in Tasks, Finish(t)
      PROVE  TypeOK'
  <2>1. task' \in [Tasks -> Workers]
    BY <1>0, <1>9, WorkType DEF Finish
  <2>2. Codeset(ranking) \in SUBSET Codes
    BY ConstantsAssumption DEF Codeset, TypeOK
  <2>3. session \in Sessions /\ task[t].session \in Sessions /\ task[t].codes \subseteq Codes
    BY <1>0, SessionType DEF TypeOK, Workers
  <2>4. started' \in BOOLEAN /\ phase' \in Sessions /\ seen' \subseteq Codes
    BY <1>9, <2>2, <2>3 DEF Finish, TypeOK
  <2>. QED BY <1>9, <2>1, <2>4 DEF Finish, TypeOK, Workers, Plans
<1>10. CASE Serve
  <2>1. PICK silent \in Losses :
          LET accept == Registered(Applied(server, Head(wire))) <= Total
          IN /\ server' = IF accept THEN Applied(server, Head(wire)) ELSE server
             /\ replies' = IF silent = 1 THEN replies
                           ELSE Append(replies, [trnm |-> Head(wire).trnm,
                                                 ok |-> accept])
             /\ lost' = lost + silent
    BY <1>10 DEF Serve
  <2>2. Head(wire) \in Requests /\ wire' \in Seq(Requests)
    BY <1>10 DEF Serve, TypeOK
  <2>3. server' \in [Types -> SUBSET Items]
    BY <2>1, <2>2, AppliedType DEF TypeOK
  <2>. DEFINE accept == Registered(Applied(server, Head(wire))) <= Total
  <2>4. accept \in BOOLEAN
    OBVIOUS
  <2>5. Head(wire).trnm \in Kinds
    BY <2>2 DEF Requests
  <2>. HIDE DEF accept
  <2>6. [trnm |-> Head(wire).trnm, ok |-> accept] \in [trnm : Kinds, ok : BOOLEAN]
    BY <2>4, <2>5
  <2>. USE DEF accept
  <2>7. replies' \in Seq([trnm : Kinds, ok : BOOLEAN])
    <3>. DEFINE answers == [trnm : Kinds, ok : BOOLEAN]
                a == [trnm |-> Head(wire).trnm, ok |-> accept]
    <3>1. replies' = replies \/ replies' = Append(replies, a)
      BY <2>1
    <3>2. replies \in Seq(answers) /\ a \in answers
      BY <2>6 DEF TypeOK
    <3>. HIDE DEF answers, a
    <3>3. replies' \in Seq(answers)
      BY <3>1, <3>2
    <3>. QED BY <3>3 DEF answers
  <2>8. lost' \in 0..MaxLost
    BY <2>1, ConstantsAssumption DEF Losses, TypeOK
  <2>. QED BY <1>10, <2>2, <2>3, <2>7, <2>8 DEF Serve, TypeOK
<1>11. CASE HandleAck
  <2>. DEFINE k == Head(replies).trnm
  <2>1. k \in Kinds /\ replies' \in Seq([trnm : Kinds, ok : BOOLEAN])
    <3>. DEFINE answers == [trnm : Kinds, ok : BOOLEAN]
    <3>1. replies \in Seq(answers) /\ replies # <<>> /\ replies' = Tail(replies)
      BY <1>11 DEF HandleAck, TypeOK
    <3>. HIDE DEF answers
    <3>2. Head(replies) \in answers /\ replies' \in Seq(answers)
      BY <3>1
    <3>. QED BY <3>2 DEF answers
  <2>2. pending' \in [Kinds -> Seq(Requests)]
    BY <1>11, <2>1 DEF HandleAck, TypeOK
  <2>3. pending[k] # <<>> => Head(pending[k]) \in Requests
    BY <2>1 DEF TypeOK
  <2>4. /\ acked' \in [Types -> SUBSET Items] /\ recording' \in Requests
        /\ lost' \in 0..MaxLost
    <3>1. CASE pending[k] = <<>> \/ ~Head(replies).ok
      BY <1>11, <3>1 DEF HandleAck, TypeOK
    <3>2. CASE ~(pending[k] = <<>> \/ ~Head(replies).ok)
      <4>1. PICK fails \in Losses, done \in BOOLEAN :
              /\ acked' = IF done THEN [acked EXCEPT ![Head(pending[k]).type] = {}] ELSE acked
              /\ recording' = IF fails = 1 THEN NoRequest ELSE Head(pending[k])
              /\ lost' = lost + fails
        BY <1>11, <3>2 DEF HandleAck, Losses
      <4>2. lost' \in 0..MaxLost
        BY <4>1, ConstantsAssumption DEF Losses, TypeOK
      <4>. QED BY <2>3, <3>2, <4>1, <4>2 DEF TypeOK, NoRequest, Requests, Kinds, Types
    <3>. QED BY <3>1, <3>2
  <2>. QED BY <1>11, <2>1, <2>2, <2>4 DEF HandleAck, TypeOK
<1>12. ASSUME NEW k \in Kinds, Expire(k)
       PROVE  TypeOK'
  <2>1. pending' \in [Kinds -> Seq(Requests)]
    BY <1>12 DEF Expire, TypeOK
  <2>2. lost' \in 0..MaxLost
    BY <1>12, ConstantsAssumption DEF Expire, TypeOK
  <2>. QED BY <1>12, <2>1, <2>2 DEF Expire, TypeOK
<1>13. CASE UNCHANGED vars
  BY <1>13 DEF vars, TypeOK
<1>14. CASE AddItems
  <2>1. PICK fails \in Losses :
          /\ acked' = IF fails = 1 THEN acked
                      ELSE [acked EXCEPT ![recording.type] = @ \cup recording.items]
          /\ lost' = lost + fails
    BY <1>14 DEF AddItems
  <2>2. lost' \in 0..MaxLost
    BY <2>1, ConstantsAssumption DEF Losses, TypeOK
  <2>3. acked' \in [Types -> SUBSET Items]
    BY <2>1 DEF TypeOK, Requests
  <2>4. recording' \in Requests
    BY <1>14 DEF AddItems, NoRequest, Requests, Kinds, Types
  <2>. QED BY <1>14, <2>2, <2>3, <2>4 DEF AddItems, TypeOK
<1>15. CASE RemoveItem
  <2>1. PICK item \in recording.items, fails \in Losses :
          /\ acked' = IF fails = 1 THEN acked
                      ELSE [acked EXCEPT ![recording.type] = @ \ {item}]
          /\ recording' = IF recording.items = {item} THEN NoRequest
                          ELSE [recording EXCEPT !.items = @ \ {item}]
          /\ lost' = lost + fails
    BY <1>15 DEF RemoveItem
  <2>2. lost' \in 0..MaxLost
    BY <2>1, ConstantsAssumption DEF Losses, TypeOK
  <2>3. acked' \in [Types -> SUBSET Items]
    BY <2>1 DEF TypeOK, Requests
  <2>4. recording' \in Requests
    BY <2>1 DEF TypeOK, NoRequest, Requests, Kinds, Types
  <2>. QED BY <1>15, <2>2, <2>3, <2>4 DEF RemoveItem, TypeOK
<1>. QED BY <1>1, <1>2, <1>3, <1>4, <1>5, <1>6, <1>7, <1>8, <1>9, <1>10, <1>11,
            <1>12, <1>13, <1>14, <1>15 DEF Next, Step

\* Every reachable state is well typed.
THEOREM TypeCorrect == Spec => []TypeOK
BY InitTypeOK, StepTypeOK, PTL DEF Spec

\* What a session wants never exceeds the account's limit, whatever the limits
\* and the candidates: a refusal can only come from what is registered still.
THEOREM PlanAlwaysFits == Spec => []PlanFits
<1>1. TypeOK => PlanFits
  BY SessionType, WantedFits, ConstantsAssumption DEF TypeOK, PlanFits
<1>. QED BY <1>1, TypeCorrect, PTL
----------------------------------------------------------------------------
(* Acknowledgements.  The requests that are not answered yet, those that   *)
(* the broker has served first, are one sequence, the flow; pending[k]     *)
(* holds its requests of kind k, in order, wherever those of the other     *)
(* kind stand.                                                             *)

\* The m entries of the queue are the requests of kind k among the n of the flow, in its order.
Placed(flow, n, queue, m, k) ==
    \E place \in [1..m -> 1..n] :
        /\ \A i \in 1..m : queue[i].trnm = k /\ flow[place[i]] = queue[i]
        /\ \A i, j \in 1..m : i < j => place[i] < place[j]
        /\ \A p \in 1..n : flow[p].trnm = k => \E i \in 1..m : place[i] = p

InOrder(flow, queue, k) == Placed(flow, Len(flow), queue, Len(queue), k)

\* A request that is sent joins the flow and the queue of its kind.
LEMMA OrderOfSent ==
    ASSUME NEW flow \in Seq(Requests), NEW queue \in Seq(Requests), NEW k \in Kinds,
           NEW r \in Requests, InOrder(flow, queue, k)
    PROVE  /\ r.trnm = k => InOrder(Append(flow, r), Append(queue, r), k)
           /\ r.trnm # k => InOrder(Append(flow, r), queue, k)
<1>. DEFINE m == Len(queue)
            n == Len(flow)
            flow1 == Append(flow, r)
            queue1 == Append(queue, r)
<1>1. PICK place \in [1..m -> 1..n] :
        /\ \A i \in 1..m : queue[i].trnm = k /\ flow[place[i]] = queue[i]
        /\ \A i, j \in 1..m : i < j => place[i] < place[j]
        /\ \A p \in 1..n : flow[p].trnm = k => \E i \in 1..m : place[i] = p
  BY DEF InOrder, Placed
<1>2. /\ m \in Nat /\ n \in Nat
      /\ Len(flow1) = n + 1 /\ \A p \in 1..n : flow1[p] = flow[p]
      /\ flow1[n + 1] = r
      /\ Len(queue1) = m + 1 /\ \A i \in 1..m : queue1[i] = queue[i]
      /\ queue1[m + 1] = r
  OBVIOUS
<1>. HIDE DEF m, n, flow1, queue1
<1>3. ASSUME r.trnm = k
      PROVE  InOrder(flow1, queue1, k)
  <2>. DEFINE place1 == [i \in 1..(m + 1) |-> IF i = m + 1 THEN n + 1 ELSE place[i]]
  <2>1. place1 \in [1..(m + 1) -> 1..(n + 1)]
    BY <1>2
  <2>2. \A i \in 1..(m + 1) : queue1[i].trnm = k /\ flow1[place1[i]] = queue1[i]
    <3>. SUFFICES ASSUME NEW i \in 1..(m + 1)
                  PROVE  queue1[i].trnm = k /\ flow1[place1[i]] = queue1[i]
      OBVIOUS
    <3>1. CASE i = m + 1
      BY <1>2, <1>3, <3>1
    <3>2. CASE i \in 1..m
      <4>1. place1[i] = place[i] /\ place[i] \in 1..n /\ queue1[i] = queue[i]
        BY <1>2, <3>2
      <4>2. flow1[place[i]] = flow[place[i]]
        BY <1>2, <4>1
      <4>. QED BY <1>1, <3>2, <4>1, <4>2
    <3>. QED BY <1>2, <3>1, <3>2
  <2>3. \A i, j \in 1..(m + 1) : i < j => place1[i] < place1[j]
    BY <1>1, <1>2
  <2>4. \A p \in 1..(n + 1) : flow1[p].trnm = k => \E i \in 1..(m + 1) : place1[i] = p
    <3>. SUFFICES ASSUME NEW p \in 1..(n + 1), flow1[p].trnm = k
                  PROVE  \E i \in 1..(m + 1) : place1[i] = p
      OBVIOUS
    <3>1. CASE p = n + 1
      BY <1>2, <3>1
    <3>2. CASE p \in 1..n
      <4>1. PICK i \in 1..m : place[i] = p
        BY <1>1, <1>2, <3>2
      <4>2. i \in 1..(m + 1) /\ place1[i] = p
        BY <1>2, <4>1
      <4>. QED BY <4>2
    <3>. QED BY <1>2, <3>1, <3>2
  <2>. HIDE DEF place1
  <2>5. Placed(flow1, n + 1, queue1, m + 1, k)
    BY <2>1, <2>2, <2>3, <2>4, Zenon DEF Placed
  <2>. QED BY <1>2, <2>5 DEF InOrder
<1>4. ASSUME r.trnm # k
      PROVE  InOrder(flow1, queue, k)
  <2>1. place \in [1..m -> 1..(n + 1)]
    BY <1>2
  <2>2. \A i \in 1..m : queue[i].trnm = k /\ flow1[place[i]] = queue[i]
    BY <1>1, <1>2
  <2>3. \A p \in 1..(n + 1) : flow1[p].trnm = k => \E i \in 1..m : place[i] = p
    <3>. SUFFICES ASSUME NEW p \in 1..(n + 1), flow1[p].trnm = k
                  PROVE  \E i \in 1..m : place[i] = p
      OBVIOUS
    <3>1. p # n + 1
      BY <1>2, <1>4
    <3>2. p \in 1..n /\ flow[p].trnm = k
      BY <1>2, <3>1
    <3>. QED BY <1>1, <3>2
  <2>4. Placed(flow1, n + 1, queue, m, k)
    BY <1>1, <2>1, <2>2, <2>3, Zenon DEF Placed
  <2>. QED BY <1>2, <2>4 DEF InOrder, m
<1>. QED BY <1>3, <1>4 DEF flow1, queue1

\* The oldest of the flow is the oldest of the queue of its kind.
LEMMA OrderOfAnswered ==
    ASSUME NEW flow \in Seq(Requests), flow # <<>>,
           NEW queue \in Seq(Requests), NEW k \in Kinds, InOrder(flow, queue, k)
    PROVE  /\ Head(flow).trnm = k =>
                 /\ queue # <<>> /\ Head(queue) = Head(flow)
                 /\ InOrder(Tail(flow), Tail(queue), k)
           /\ Head(flow).trnm # k => InOrder(Tail(flow), queue, k)
<1>. DEFINE m == Len(queue)
            n == Len(flow)
            flow1 == Tail(flow)
            queue1 == Tail(queue)
<1>1. PICK place \in [1..m -> 1..n] :
        /\ \A i \in 1..m : queue[i].trnm = k /\ flow[place[i]] = queue[i]
        /\ \A i, j \in 1..m : i < j => place[i] < place[j]
        /\ \A p \in 1..n : flow[p].trnm = k => \E i \in 1..m : place[i] = p
  BY DEF InOrder, Placed
<1>2. /\ m \in Nat /\ n \in Nat /\ n >= 1
      /\ Head(flow) = flow[1]
      /\ Len(flow1) = n - 1 /\ \A p \in 1..(n - 1) : flow1[p] = flow[p + 1]
      /\ queue # <<>> <=> m >= 1
      /\ m >= 1 => /\ Head(queue) = queue[1]
                   /\ Len(queue1) = m - 1 /\ \A i \in 1..(m - 1) : queue1[i] = queue[i + 1]
  OBVIOUS
<1>. HIDE DEF m, n, flow1, queue1
<1>3. ASSUME flow[1].trnm = k
      PROVE  m >= 1 /\ queue[1] = flow[1] /\ InOrder(flow1, queue1, k)
  <2>1. PICK first \in 1..m : place[first] = 1
    BY <1>1, <1>2, <1>3
  <2>2. m >= 1 /\ place[1] = 1
    <3>1. place[1] \in 1..n /\ (1 < first => place[1] < place[first])
      BY <1>1, <1>2, <2>1
    <3>. QED BY <1>2, <2>1, <3>1
  <2>3. queue[1] = flow[1]
    BY <1>1, <1>2, <2>2
  <2>. DEFINE place1 == [i \in 1..(m - 1) |-> place[i + 1] - 1]
  <2>4. \A i \in 1..(m - 1) : i + 1 \in 1..m /\ place[i + 1] \in 2..n
    <3>. SUFFICES ASSUME NEW i \in 1..(m - 1)
                  PROVE  i + 1 \in 1..m /\ place[i + 1] \in 2..n
      OBVIOUS
    <3>1. i + 1 \in 1..m /\ 1 \in 1..m /\ 1 < i + 1
      BY <1>2, <2>2
    <3>2. place[1] < place[i + 1] /\ place[i + 1] \in 1..n
      BY <1>1, <3>1
    <3>. QED BY <1>2, <2>2, <3>1, <3>2
  <2>5. place1 \in [1..(m - 1) -> 1..(n - 1)]
    BY <1>2, <2>4
  <2>6. \A i \in 1..(m - 1) : queue1[i].trnm = k /\ flow1[place1[i]] = queue1[i]
    <3>. SUFFICES ASSUME NEW i \in 1..(m - 1)
                  PROVE  queue1[i].trnm = k /\ flow1[place1[i]] = queue1[i]
      OBVIOUS
    <3>1. queue1[i] = queue[i + 1] /\ i + 1 \in 1..m
      BY <1>2, <2>2, <2>4
    <3>2. place1[i] \in 1..(n - 1) /\ place1[i] + 1 = place[i + 1]
      BY <1>2, <2>4
    <3>3. flow1[place1[i]] = flow[place[i + 1]]
      BY <1>2, <3>2
    <3>. QED BY <1>1, <3>1, <3>3
  <2>7. \A i, j \in 1..(m - 1) : i < j => place1[i] < place1[j]
    <3>. SUFFICES ASSUME NEW i \in 1..(m - 1), NEW j \in 1..(m - 1), i < j
                  PROVE  place1[i] < place1[j]
      OBVIOUS
    <3>1. place[i + 1] < place[j + 1]
      BY <1>1, <1>2, <2>4
    <3>. QED BY <1>2, <2>4, <3>1
  <2>8. \A p \in 1..(n - 1) : flow1[p].trnm = k => \E i \in 1..(m - 1) : place1[i] = p
    <3>. SUFFICES ASSUME NEW p \in 1..(n - 1), flow1[p].trnm = k
                  PROVE  \E i \in 1..(m - 1) : place1[i] = p
      OBVIOUS
    <3>0. p + 1 \in 1..n /\ flow[p + 1].trnm = k
      BY <1>2
    <3>1. PICK i \in 1..m : place[i] = p + 1
      BY <1>1, <3>0
    <3>2. i # 1
      BY <2>2, <3>1
    <3>3. i - 1 \in 1..(m - 1) /\ (i - 1) + 1 = i
      BY <1>2, <3>1, <3>2
    <3>4. place1[i - 1] = p
      BY <3>1, <3>3
    <3>. QED BY <3>3, <3>4
  <2>. HIDE DEF place1
  <2>9. InOrder(flow1, queue1, k)
    <3>1. Len(queue1) = m - 1 /\ Len(flow1) = n - 1
      BY <1>2, <2>2
    <3>2. Placed(flow1, n - 1, queue1, m - 1, k)
      BY <2>5, <2>6, <2>7, <2>8, Zenon DEF Placed
    <3>. QED BY <3>1, <3>2 DEF InOrder
  <2>. QED BY <2>2, <2>3, <2>9
<1>4. ASSUME flow[1].trnm # k
      PROVE  InOrder(flow1, queue, k)
  <2>. DEFINE place1 == [i \in 1..m |-> place[i] - 1]
  <2>1. \A i \in 1..m : place[i] \in 2..n
    <3>. SUFFICES ASSUME NEW i \in 1..m
                  PROVE  place[i] \in 2..n
      OBVIOUS
    <3>1. place[i] # 1 /\ place[i] \in 1..n
      BY <1>1, <1>4
    <3>. QED BY <1>2, <3>1
  <2>2. place1 \in [1..m -> 1..(n - 1)]
    BY <1>2, <2>1
  <2>3. \A i \in 1..m : queue[i].trnm = k /\ flow1[place1[i]] = queue[i]
    <3>. SUFFICES ASSUME NEW i \in 1..m
                  PROVE  queue[i].trnm = k /\ flow1[place1[i]] = queue[i]
      OBVIOUS
    <3>1. place1[i] \in 1..(n - 1) /\ place1[i] + 1 = place[i]
      BY <1>2, <2>1
    <3>2. flow1[place1[i]] = flow[place[i]]
      BY <1>2, <3>1
    <3>. QED BY <1>1, <3>2
  <2>4. \A i, j \in 1..m : i < j => place1[i] < place1[j]
    BY <1>1, <1>2, <2>1
  <2>5. \A p \in 1..(n - 1) : flow1[p].trnm = k => \E i \in 1..m : place1[i] = p
    <3>. SUFFICES ASSUME NEW p \in 1..(n - 1), flow1[p].trnm = k
                  PROVE  \E i \in 1..m : place1[i] = p
      OBVIOUS
    <3>1. p + 1 \in 1..n /\ flow[p + 1].trnm = k
      BY <1>2
    <3>2. PICK i \in 1..m : place[i] = p + 1
      BY <1>1, <3>1
    <3>3. place1[i] = p
      BY <3>2
    <3>. QED BY <3>3
  <2>. HIDE DEF place1
  <2>6. Placed(flow1, n - 1, queue, m, k)
    BY <2>2, <2>3, <2>4, <2>5, Zenon DEF Placed
  <2>. QED BY <1>2, <2>6 DEF InOrder, m
<1>. QED BY <1>2, <1>3, <1>4 DEF flow1, queue1

\* What is acknowledged once the answer that is being recorded is.
Settled ==
    [acked EXCEPT ![recording.type] = IF recording.trnm = "REG" THEN @ \cup recording.items
                                      ELSE @ \ recording.items]

\* What the listener will have acknowledged after each answer that waits: from what
\* is acknowledged to what the broker has registered, one request of the flow a step.
Catches(flow, held) ==
    /\ flow \in Seq(Requests) /\ held \in Seq([Types -> SUBSET Items])
    /\ Len(flow) = Len(replies) + Len(wire)
    /\ \A i \in 1..Len(wire) : flow[Len(replies) + i] = wire[i]
    /\ Len(held) = Len(replies) + 1
    /\ held[1] = Settled /\ held[Len(held)] = server
    /\ \A i \in 1..Len(replies) :
          /\ flow[i].trnm = replies[i].trnm
          /\ held[i + 1] = IF replies[i].ok THEN Applied(held[i], flow[i]) ELSE held[i]
    /\ \A k \in Kinds : InOrder(flow, pending[k], k)

InStep == \E flow, held : Catches(flow, held)

\* Without a connection nothing is under way; on one on which nothing was lost the two
\* sides are in step.
AckInv ==
    /\ ~link => /\ wire = <<>> /\ replies = <<>> /\ server = Nothing
                /\ \A t \in Tasks : task[t].pc = "sleep"
                /\ recording = NoRequest
    /\ link /\ lost = 0 => InStep

\* A request that is sent is the youngest of the flow.
LEMMA SentInStep ==
    ASSUME TypeOK, InStep, NEW r \in Requests, lost' = lost,
           pending' = [pending EXCEPT ![r.trnm] = Append(@, r)], wire' = Append(wire, r),
           UNCHANGED <<acked, recording, replies, server>>
    PROVE  InStep'
<1>1. PICK flow, held : Catches(flow, held)
  BY DEF InStep
<1>. DEFINE flow1 == Append(flow, r)
            n == Len(replies)
            w == Len(wire)
<1>2. /\ flow \in Seq(Requests) /\ wire \in Seq(Requests) /\ n \in Nat /\ w \in Nat
      /\ Len(flow) = n + w /\ \A i \in 1..w : flow[n + i] = wire[i]
  BY <1>1 DEF Catches, TypeOK
<1>3. /\ flow1 \in Seq(Requests) /\ Len(flow1) = n + w + 1
      /\ \A i \in 1..(n + w) : flow1[i] = flow[i]
      /\ flow1[n + w + 1] = r
      /\ Len(wire') = w + 1 /\ wire'[w + 1] = r
      /\ \A i \in 1..w : wire'[i] = wire[i]
  <2>1. /\ flow1 \in Seq(Requests) /\ Len(flow1) = Len(flow) + 1
        /\ \A i \in 1..Len(flow) : flow1[i] = flow[i]
        /\ flow1[Len(flow) + 1] = r
    <3>. HIDE DEF n, w
    <3>. QED BY <1>2, AppendProperties
  <2>2. /\ Len(wire') = w + 1 /\ wire'[w + 1] = r
        /\ \A i \in 1..w : wire'[i] = wire[i]
    BY <1>2, AppendProperties
  <2>. HIDE DEF flow1, n, w
  <2>. QED BY <1>2, <2>1, <2>2
<1>4. \A k \in Kinds : InOrder(flow1, pending'[k], k)
  <2>. SUFFICES ASSUME NEW k \in Kinds
                PROVE  InOrder(flow1, pending'[k], k)
    OBVIOUS
  <2>1. InOrder(flow, pending[k], k) /\ pending[k] \in Seq(Requests) /\ pending \in [Kinds -> Seq(Requests)]
    BY <1>1 DEF Catches, TypeOK
  <2>2. CASE r.trnm = k
    <3>1. pending'[k] = Append(pending[k], r)
      BY <2>1, <2>2
    <3>. QED BY <1>2, <2>1, <2>2, <3>1, OrderOfSent
  <2>3. CASE r.trnm # k
    <3>1. pending'[k] = pending[k]
      BY <2>1, <2>3
    <3>. QED BY <1>2, <2>1, <2>3, <3>1, OrderOfSent
  <2>. QED BY <2>2, <2>3
<1>. HIDE DEF flow1, n, w
<1>5. \A i \in 1..(w + 1) : flow1[n + i] = wire'[i]
  <2>. SUFFICES ASSUME NEW i \in 1..(w + 1)
                PROVE  flow1[n + i] = wire'[i]
    OBVIOUS
  <2>1. CASE i = w + 1
    BY <1>2, <1>3, <2>1
  <2>2. CASE i \in 1..w
    <3>1. n + i \in 1..(n + w)
      BY <1>2, <2>2
    <3>. QED BY <1>2, <1>3, <2>2, <3>1
  <2>3. i = w + 1 \/ i \in 1..w
    <3>1. w \in Nat
      BY <1>2
    <3>. QED BY <3>1
  <2>. QED BY <2>1, <2>2, <2>3
<1>6. \A i \in 1..n : flow1[i] = flow[i]
  BY <1>2, <1>3
<1>0. Settled' = Settled
  BY DEF Settled
<1>7. Catches(flow1, held)'
  BY <1>0, <1>1, <1>2, <1>3, <1>4, <1>5, <1>6 DEF Catches, n, w
<1>. QED BY <1>7 DEF InStep

\* The broker serves the oldest request it has; the flow stays as it is.
LEMMA ServedInStep ==
    ASSUME TypeOK, InStep, wire # <<>>, NEW accept \in BOOLEAN, lost' = lost,
           wire' = Tail(wire),
           server' = IF accept THEN Applied(server, Head(wire)) ELSE server,
           replies' = Append(replies, [trnm |-> Head(wire).trnm, ok |-> accept]),
           UNCHANGED <<acked, recording, pending>>
    PROVE  InStep'
<1>1. PICK flow, held : Catches(flow, held)
  BY DEF InStep
<1>. DEFINE n == Len(replies)
            w == Len(wire)
            answer == [trnm |-> Head(wire).trnm, ok |-> accept]
<1>2. /\ wire \in Seq(Requests) /\ n \in Nat /\ w \in Nat /\ w >= 1
      /\ Len(flow) = n + w /\ \A i \in 1..w : flow[n + i] = wire[i]
      /\ Len(held) = n + 1 /\ held \in Seq([Types -> SUBSET Items])
      /\ held[1] = Settled /\ held[n + 1] = server
  BY <1>1 DEF Catches, TypeOK
<1>3. Head(wire) \in Requests /\ Head(wire) = wire[1] /\ server' \in [Types -> SUBSET Items]
  <2>1. Head(wire) \in Requests /\ Head(wire) = wire[1]
    BY <1>2
  <2>. QED BY <2>1, AppliedType DEF TypeOK
<1>. PICK held1 : held1 = Append(held, server')
  OBVIOUS
<1>4. /\ held1 \in Seq([Types -> SUBSET Items]) /\ Len(held1) = n + 2
      /\ \A i \in 1..(n + 1) : held1[i] = held[i]
      /\ held1[n + 2] = server'
  BY <1>2, <1>3
<1>5. /\ Len(wire') = w - 1 /\ \A i \in 1..(w - 1) : wire'[i] = wire[i + 1]
      /\ Len(replies') = n + 1 /\ replies'[n + 1] = answer
      /\ \A i \in 1..n : replies'[i] = replies[i]
  BY <1>2 DEF TypeOK
<1>6. \A i \in 1..(w - 1) : flow[(n + 1) + i] = wire'[i]
  <2>. SUFFICES ASSUME NEW i \in 1..(w - 1)
                PROVE  flow[(n + 1) + i] = wire'[i]
    OBVIOUS
  <2>1. i + 1 \in 1..w /\ (n + 1) + i = n + (i + 1)
    BY <1>2
  <2>2. flow[n + (i + 1)] = wire[i + 1]
    BY <1>2, <2>1
  <2>. QED BY <1>5, <2>1, <2>2
<1>7. flow[n + 1] = Head(wire)
  BY <1>2, <1>3
<1>8. \A i \in 1..(n + 1) :
         /\ flow[i].trnm = replies'[i].trnm
         /\ held1[i + 1] = IF replies'[i].ok THEN Applied(held1[i], flow[i]) ELSE held1[i]
  <2>. SUFFICES ASSUME NEW i \in 1..(n + 1)
                PROVE  /\ flow[i].trnm = replies'[i].trnm
                       /\ held1[i + 1] = IF replies'[i].ok THEN Applied(held1[i], flow[i]) ELSE held1[i]
    OBVIOUS
  <2>1. CASE i = n + 1
    <3>1. replies'[i].trnm = Head(wire).trnm /\ replies'[i].ok = accept
      BY <1>5, <2>1
    <3>2. held1[i] = server /\ held1[i + 1] = server'
      <4>1. i \in 1..(n + 1) /\ i + 1 = n + 2
        BY <1>2, <2>1
      <4>. QED BY <1>2, <1>4, <2>1, <4>1
    <3>. QED BY <1>7, <2>1, <3>1, <3>2
  <2>2. CASE i \in 1..n
    <3>1. replies'[i] = replies[i] /\ held1[i] = held[i] /\ held1[i + 1] = held[i + 1]
      BY <1>2, <1>4, <1>5, <2>2
    <3>2. /\ flow[i].trnm = replies[i].trnm
          /\ held[i + 1] = IF replies[i].ok THEN Applied(held[i], flow[i]) ELSE held[i]
      BY <1>1, <2>2 DEF Catches
    <3>. QED BY <3>1, <3>2
  <2>. QED BY <1>2, <2>1, <2>2
<1>9. flow \in Seq(Requests) /\ (\A k \in Kinds : InOrder(flow, pending[k], k))
  BY <1>1 DEF Catches
<1>10. held1[1] = Settled
  BY <1>2, <1>4
<1>. HIDE DEF n, w
<1>11. Len(flow) = Len(replies') + Len(wire') /\ Len(held1) = Len(replies') + 1
       /\ held1[Len(held1)] = server'
  BY <1>2, <1>4, <1>5
<1>0. server' = held1[Len(held1)] /\ Len(replies') = n + 1 /\ Len(wire') = w - 1
  BY <1>4, <1>5, <1>11
<1>12. /\ \A i \in 1..Len(wire') : flow[Len(replies') + i] = wire'[i]
       /\ \A i \in 1..Len(replies') :
             /\ flow[i].trnm = replies'[i].trnm
             /\ held1[i + 1] = IF replies'[i].ok THEN Applied(held1[i], flow[i]) ELSE held1[i]
  BY <1>0, <1>6, <1>8
<1>14. Settled' = Settled
  BY DEF Settled
<1>13. Catches(flow, held1)'
  BY <1>4, <1>9, <1>10, <1>11, <1>12, <1>14 DEF Catches
<1>. QED BY <1>13 DEF InStep

\* The oldest answer is taken for that of the oldest pending request of its kind, which it is.
LEMMA AnsweredInStep ==
    ASSUME TypeOK, InStep, replies # <<>>, lost' = lost, replies' = Tail(replies),
           pending' = [pending EXCEPT ![Head(replies).trnm] = IF @ = <<>> THEN @ ELSE Tail(@)],
           Settled' = IF pending[Head(replies).trnm] # <<>> /\ Head(replies).ok
                      THEN Applied(Settled, Head(pending[Head(replies).trnm])) ELSE Settled,
           UNCHANGED <<wire, server>>
    PROVE  InStep'
<1>1. PICK flow, held : Catches(flow, held)
  BY DEF InStep
<1>. DEFINE n == Len(replies)
            w == Len(wire)
            kind == Head(replies).trnm
            flow1 == Tail(flow)
            held1 == Tail(held)
<1>2. /\ flow \in Seq(Requests) /\ n \in Nat /\ w \in Nat /\ n >= 1
      /\ Len(flow) = n + w /\ \A i \in 1..w : flow[n + i] = wire[i]
      /\ Len(held) = n + 1 /\ held \in Seq([Types -> SUBSET Items])
      /\ held[1] = Settled /\ held[n + 1] = server
      /\ Head(replies) = replies[1] /\ flow[1].trnm = kind
      /\ held[2] = IF replies[1].ok THEN Applied(held[1], flow[1]) ELSE held[1]
      /\ \A k \in Kinds : InOrder(flow, pending[k], k)
  <2>1. n \in Nat /\ n >= 1 /\ w \in Nat /\ Head(replies) = replies[1]
    BY DEF TypeOK
  <2>2. 1 \in 1..n /\ 1 + 1 = 2
    BY <2>1
  <2>. QED BY <1>1, <2>1, <2>2 DEF Catches
<1>3. /\ flow # <<>> /\ Head(flow) = flow[1]
      /\ flow1 \in Seq(Requests) /\ Len(flow1) = n + w - 1
      /\ \A i \in 1..(n + w - 1) : flow1[i] = flow[i + 1]
      /\ held1 \in Seq([Types -> SUBSET Items]) /\ Len(held1) = n
      /\ \A i \in 1..n : held1[i] = held[i + 1]
      /\ Len(replies') = n - 1 /\ \A i \in 1..(n - 1) : replies'[i] = replies[i + 1]
  <2>1. flow # <<>> /\ held # <<>>
    BY <1>2
  <2>2. Head(flow) = flow[1]
    BY <1>2
  <2>3. /\ flow1 \in Seq(Requests) /\ Len(flow1) = Len(flow) - 1
        /\ \A i \in 1..Len(flow1) : flow1[i] = flow[i + 1]
    BY <1>2, <2>1, HeadTailProperties
  <2>4. /\ held1 \in Seq([Types -> SUBSET Items]) /\ Len(held1) = Len(held) - 1
        /\ \A i \in 1..Len(held1) : held1[i] = held[i + 1]
    BY <1>2, <2>1, HeadTailProperties
  <2>5. Len(replies') = n - 1 /\ \A i \in 1..(n - 1) : replies'[i] = replies[i + 1]
    BY HeadTailProperties DEF TypeOK
  <2>6. Len(flow) = n + w /\ Len(held) = n + 1 /\ n \in Nat /\ w \in Nat
    BY <1>2
  <2>. HIDE DEF flow1, held1, n, w
  <2>7. Len(flow1) = n + w - 1 /\ Len(held1) = n
    BY <2>3, <2>4, <2>6
  <2>. QED BY <2>1, <2>2, <2>3, <2>4, <2>5, <2>7
<1>4. kind \in Kinds
  <2>. DEFINE answers == [trnm : Kinds, ok : BOOLEAN]
  <2>1. Head(replies) \in answers
    <3>1. replies \in Seq(answers)
      BY DEF TypeOK
    <3>. HIDE DEF answers
    <3>. QED BY <3>1
  <2>. QED BY <2>1
<1>5. pending \in [Kinds -> Seq(Requests)]
  BY DEF TypeOK
<1>6. pending[kind] # <<>> /\ Head(pending[kind]) = flow[1]
  BY <1>2, <1>3, <1>4, <1>5, OrderOfAnswered
<1>7. Settled' = held1[1]
  BY <1>2, <1>3, <1>6
<1>8. \A k \in Kinds : InOrder(flow1, pending'[k], k)
  <2>. SUFFICES ASSUME NEW k \in Kinds
                PROVE  InOrder(flow1, pending'[k], k)
    OBVIOUS
  <2>1. CASE k = kind
    <3>1. pending'[k] = Tail(pending[k])
      BY <1>4, <1>5, <1>6, <2>1
    <3>. QED BY <1>2, <1>3, <1>5, <2>1, <3>1, OrderOfAnswered
  <2>2. CASE k # kind
    <3>1. pending'[k] = pending[k]
      BY <1>5, <2>2
    <3>. QED BY <1>2, <1>3, <1>5, <2>2, <3>1, OrderOfAnswered
  <2>. QED BY <2>1, <2>2
<1>. HIDE DEF flow1, held1
<1>9. \A i \in 1..w : flow1[(n - 1) + i] = wire[i]
  <2>. SUFFICES ASSUME NEW i \in 1..w
                PROVE  flow1[(n - 1) + i] = wire[i]
    OBVIOUS
  <2>0. n \in Nat /\ n >= 1 /\ w \in Nat
    BY <1>2
  <2>. HIDE DEF n, w
  <2>1. (n - 1) + i \in 1..(n + w - 1) /\ ((n - 1) + i) + 1 = n + i
    BY <2>0
  <2>2. flow1[(n - 1) + i] = flow[n + i]
    BY <1>3, <2>1
  <2>. QED BY <1>2, <2>2
<1>10. \A i \in 1..(n - 1) :
          /\ flow1[i].trnm = replies'[i].trnm
          /\ held1[i + 1] = IF replies'[i].ok THEN Applied(held1[i], flow1[i]) ELSE held1[i]
  <2>. SUFFICES ASSUME NEW i \in 1..(n - 1)
                PROVE  /\ flow1[i].trnm = replies'[i].trnm
                       /\ held1[i + 1] = IF replies'[i].ok THEN Applied(held1[i], flow1[i]) ELSE held1[i]
    OBVIOUS
  <2>1. i + 1 \in 1..n /\ i \in 1..(n + w - 1) /\ i \in 1..n
    BY <1>2
  <2>2. /\ flow[i + 1].trnm = replies[i + 1].trnm
        /\ held[(i + 1) + 1] = IF replies[i + 1].ok THEN Applied(held[i + 1], flow[i + 1])
                               ELSE held[i + 1]
    BY <1>1, <2>1 DEF Catches
  <2>. QED BY <1>3, <2>1, <2>2
<1>11. held1[n] = server
  <2>1. n \in 1..n
    BY <1>2
  <2>. QED BY <1>2, <1>3, <2>1
<1>. HIDE DEF n, w
<1>12. Len(flow1) = Len(replies') + Len(wire') /\ Len(held1) = Len(replies') + 1
  BY <1>2, <1>3 DEF w
<1>13. held1[Len(held1)] = server'
  BY <1>3, <1>11
<1>14. \A i \in 1..Len(wire') : flow1[Len(replies') + i] = wire'[i]
  BY <1>3, <1>9 DEF w
<1>15. Catches(flow1, held1)'
  BY <1>3, <1>7, <1>8, <1>10, <1>12, <1>13, <1>14 DEF Catches
<1>. QED BY <1>15 DEF InStep

\* What InStep speaks of.
flight == <<wire, replies, server, acked, recording, pending>>

LEMMA StillInStep == InStep /\ UNCHANGED flight => InStep'
<1>1. UNCHANGED flight => Settled' = Settled
  BY DEF Settled, flight
<1>. QED BY <1>1 DEF InStep, Catches, flight

LEMMA SettledInStep ==
    InStep /\ Settled' = Settled /\ UNCHANGED <<wire, replies, server, pending>> => InStep'
BY DEF InStep, Catches

\* At login nothing is under way.
LEMMA NewInStep ==
    (/\ wire = <<>> /\ replies = <<>> /\ acked = Nothing /\ server = Nothing
     /\ pending = NonePending /\ recording = NoRequest)
      => InStep
<1>. SUFFICES ASSUME wire = <<>>, replies = <<>>, acked = Nothing, server = Nothing,
                     pending = NonePending, recording = NoRequest
              PROVE  InStep
  OBVIOUS
<1>. DEFINE flow == <<>>
            held == <<Nothing>>
<1>1. Nothing \in [Types -> SUBSET Items]
  BY DEF Nothing
<1>2. flow \in Seq(Requests) /\ Len(flow) = 0 /\ Len(wire) = 0 /\ Len(replies) = 0
  OBVIOUS
<1>3. /\ held \in Seq([Types -> SUBSET Items])
      /\ Len(held) = 1 /\ held[1] = Nothing
  BY <1>1
<1>4. \A k \in Kinds : InOrder(flow, pending[k], k)
  <2>. SUFFICES ASSUME NEW k \in Kinds
                PROVE  InOrder(<<>>, <<>>, k)
    BY DEF NonePending
  <2>. DEFINE nowhere == [i \in 1..0 |-> 1]
  <2>1. 1..0 = {} /\ nowhere \in [1..0 -> 1..0]
    OBVIOUS
  <2>. HIDE DEF nowhere
  <2>2. Placed(<<>>, 0, <<>>, 0, k)
    BY <2>1, Zenon DEF Placed
  <2>. QED BY <2>2 DEF InOrder
<1>. HIDE DEF flow, held
<1>6. Settled = Nothing
  <2>1. Nothing["0H"] \ {} = Nothing["0H"] /\ "0H" \in Types
    BY DEF Types
  <2>2. Settled = [Nothing EXCEPT !["0H"] = @ \ {}]
    BY DEF Settled, NoRequest
  <2>. QED BY <1>1, <2>1, <2>2
<1>5. Catches(flow, held)
  BY <1>2, <1>3, <1>4, <1>6 DEF Catches
<1>. QED BY <1>5 DEF InStep

\* The request that an answer is matched to is of its kind.
LEMMA AnswerIsTheOldest ==
    ASSUME TypeOK, InStep, replies # <<>>
    PROVE  /\ pending[Head(replies).trnm] # <<>>
           /\ Head(pending[Head(replies).trnm]) \in Requests
           /\ Head(pending[Head(replies).trnm]).trnm = Head(replies).trnm
<1>. DEFINE kind == Head(replies).trnm
<1>1. PICK flow, held : Catches(flow, held)
  BY DEF InStep
<1>2. /\ flow \in Seq(Requests) /\ flow # <<>> /\ Head(flow) = flow[1] /\ Head(flow) \in Requests
      /\ Head(replies) = replies[1] /\ flow[1].trnm = kind
  <2>1. Len(replies) \in Nat /\ Len(replies) >= 1 /\ Head(replies) = replies[1] /\ Len(wire) \in Nat
    BY DEF TypeOK
  <2>2. 1 \in 1..Len(replies)
    BY <2>1
  <2>3. flow \in Seq(Requests) /\ Len(flow) = Len(replies) + Len(wire) /\ flow[1].trnm = replies[1].trnm
    BY <1>1, <2>2 DEF Catches
  <2>4. flow # <<>>
    BY <2>1, <2>3
  <2>. QED BY <2>1, <2>3, <2>4
<1>3. kind \in Kinds
  BY <1>2 DEF Requests
<1>4. InOrder(flow, pending[kind], kind) /\ pending[kind] \in Seq(Requests)
  BY <1>1, <1>3 DEF Catches, TypeOK
<1>5. pending[kind] # <<>> /\ Head(pending[kind]) = Head(flow)
  BY <1>2, <1>3, <1>4, OrderOfAnswered
<1>. QED BY <1>2, <1>5

\* While nothing is recorded, what is acknowledged is settled.
LEMMA IdleIsSettled == TypeOK /\ recording = NoRequest => Settled = acked
<1>. SUFFICES ASSUME TypeOK, recording = NoRequest PROVE Settled = acked
  OBVIOUS
<1>1. acked \in [Types -> SUBSET Items] /\ "0H" \in Types
  BY DEF TypeOK, Types
<1>2. Settled = [acked EXCEPT !["0H"] = @ \ {}]
  BY DEF Settled, NoRequest
<1>3. acked["0H"] \ {} = acked["0H"]
  OBVIOUS
<1>. QED BY <1>1, <1>2, <1>3

LEMMA InitAckInv == Init => AckInv
BY DEF Init, AckInv, Asleep

LEMMA StepAckInv == TypeOK /\ AckInv /\ [Next]_vars => AckInv'
<1>. SUFFICES ASSUME TypeOK, AckInv, [Next]_vars PROVE AckInv'
  OBVIOUS
<1>. USE DEF client
<1>0. task \in [Tasks -> Workers]
  BY DEF TypeOK, Workers, Plans
<1>1. CASE Tick
  BY <1>1, StillInStep DEF Tick, AckInv, flight
<1>2. CASE Rerank
  BY <1>2, StillInStep DEF Rerank, AckInv, flight
<1>3. CASE Login
  <2>1. wire = <<>> /\ replies = <<>> /\ server = Nothing
    BY <1>3 DEF Login, AckInv
  <2>2. ASSUME lost' = 0
        PROVE  InStep'
    <3>1. PICK kept \in SUBSET Types :
            /\ acked' = [t \in Types |-> IF t \in kept THEN acked[t] ELSE {}]
            /\ lost' = Cardinality(kept)
      BY <1>3 DEF Login, Reset
    <3>2. kept = {}
      BY <2>2, <3>1, TypesFinite, FS_EmptySet
    <3>3. acked' = Nothing
      BY <3>1, <3>2 DEF Nothing
    <3>4. (/\ wire = <<>> /\ replies = <<>> /\ acked = Nothing /\ server = Nothing
           /\ pending = NonePending /\ recording = NoRequest)'
      BY <1>3, <2>1, <3>3 DEF Login, AckInv, Nothing, NonePending, NoRequest
    <3>. QED BY <3>4, NewInStep, PTL
  <2>. QED BY <1>3, <2>2 DEF Login, AckInv
<1>4. CASE Drop
  BY <1>4 DEF Drop, AckInv, Asleep, Nothing
<1>5. CASE WakePhase
  BY <1>5, StillInStep DEF WakePhase, AckInv, flight
<1>6. CASE WakeWatchlist
  BY <1>6, StillInStep DEF WakeWatchlist, AckInv, flight
<1>7. ASSUME NEW t \in Tasks, Compare(t)
      PROVE  AckInv'
  <2>1. link
    BY <1>7 DEF Compare, AckInv
  <2>2. lost' = 0 => lost = 0
    <3>1. PICK fails \in Losses : lost' = lost + fails
      BY <1>7 DEF Compare
    <3>. QED BY <3>1 DEF Losses, TypeOK
  <2>. QED BY <1>7, <2>1, <2>2, StillInStep DEF Compare, AckInv, flight
<1>8. ASSUME NEW t \in Tasks, Send(t)
      PROVE  AckInv'
  <2>1. link
    BY <1>8 DEF Send, AckInv
  <2>2. task[t].request \in Requests
    BY <1>0 DEF Workers
  <2>3. lost = 0 => InStep'
    BY <1>8, <2>1, <2>2, SentInStep DEF Send, AckInv
  <2>. QED BY <1>8, <2>1, <2>3 DEF Send, AckInv
<1>9. ASSUME NEW t \in Tasks, Finish(t)
      PROVE  AckInv'
  <2>1. link
    BY <1>9 DEF Finish, AckInv
  <2>. QED BY <1>9, <2>1, StillInStep DEF Finish, AckInv, flight
<1>10. CASE Serve
  <2>1. link
    BY <1>10 DEF Serve, AckInv
  <2>. DEFINE accept == Registered(Applied(server, Head(wire))) <= Total
  <2>2. PICK silent \in Losses :
          /\ server' = IF accept THEN Applied(server, Head(wire)) ELSE server
          /\ replies' = IF silent = 1 THEN replies
                        ELSE Append(replies, [trnm |-> Head(wire).trnm, ok |-> accept])
          /\ lost' = lost + silent
    BY <1>10 DEF Serve
  <2>3. accept \in BOOLEAN
    OBVIOUS
  <2>. HIDE DEF accept
  <2>4. lost' = 0 => lost = 0 /\ silent # 1
    BY <2>2 DEF Losses, TypeOK
  <2>5. lost' = 0 => InStep'
    <3>. SUFFICES ASSUME lost' = 0
                  PROVE  InStep'
      OBVIOUS
    <3>1. InStep /\ lost' = lost
      BY <2>1, <2>4 DEF AckInv
    <3>. QED BY <1>10, <2>2, <2>3, <2>4, <3>1, ServedInStep DEF Serve
  <2>. QED BY <1>10, <2>1, <2>5 DEF Serve, AckInv
<1>11. CASE HandleAck
  <2>1. link
    BY <1>11 DEF HandleAck, AckInv
  <2>2. lost' = 0 => InStep'
    <3>. SUFFICES ASSUME lost' = 0
                  PROVE  InStep'
      OBVIOUS
    <3>. DEFINE k == Head(replies).trnm
                request == Head(pending[k])
    <3>0. recording = NoRequest /\ Settled = acked /\ acked \in [Types -> SUBSET Items]
      BY <1>11, IdleIsSettled DEF HandleAck, TypeOK
    <3>1. CASE pending[k] = <<>> \/ ~Head(replies).ok
      <4>1. UNCHANGED <<acked, recording, lost>>
        BY <1>11, <3>1 DEF HandleAck
      <4>2. Settled' = Settled
        BY <4>1 DEF Settled
      <4>3. InStep
        BY <2>1, <4>1 DEF AckInv
      <4>. QED BY <1>11, <3>1, <4>1, <4>2, <4>3, AnsweredInStep DEF HandleAck
    <3>2. CASE ~(pending[k] = <<>> \/ ~Head(replies).ok)
      <4>0. PICK fails \in IF k = "REG" THEN Losses ELSE {0} :
              \E done \in IF fails = 1 THEN BOOLEAN ELSE {k = "REG"} :
                /\ acked' = IF done THEN [acked EXCEPT ![request.type] = {}] ELSE acked
                /\ recording' = IF fails = 1 THEN NoRequest ELSE request
                /\ lost' = lost + fails
        BY <1>11, <3>2, Zenon DEF HandleAck
      <4>8. PICK done \in IF fails = 1 THEN BOOLEAN ELSE {k = "REG"} :
                /\ acked' = IF done THEN [acked EXCEPT ![request.type] = {}] ELSE acked
                /\ recording' = IF fails = 1 THEN NoRequest ELSE request
                /\ lost' = lost + fails
        BY <4>0
      <4>1. /\ fails \in Losses
            /\ fails = 0 => (done <=> k = "REG")
            /\ acked' = IF done THEN [acked EXCEPT ![request.type] = {}] ELSE acked
            /\ recording' = IF fails = 1 THEN NoRequest ELSE request
            /\ lost' = lost + fails
        <5>1. fails \in Losses
          BY <4>0 DEF Losses
        <5>2. ASSUME fails = 0
              PROVE  done <=> k = "REG"
          <6>1. done \in {k = "REG"}
            BY <4>8, <5>2
          <6>. QED BY <6>1
        <5>. QED BY <4>8, <5>1, <5>2
      <4>2. lost = 0 /\ fails = 0
        BY <4>1 DEF Losses, TypeOK
      <4>3. InStep
        BY <2>1, <4>2 DEF AckInv
      <4>4. PICK flow, held : Catches(flow, held)
        BY <4>3 DEF InStep
      <4>5. request \in Requests /\ request.trnm = k
        BY <1>11, <4>3, AnswerIsTheOldest DEF HandleAck
      <4>. HIDE DEF k, request
      <4>6. Settled' = Applied(acked, request)
        <5>1. acked \in [Types -> SUBSET Items] /\ request.type \in Types /\ recording' = request
          BY <3>0, <4>1, <4>2, <4>5 DEF Requests
        <5>2. CASE k = "REG"
          <6>1. acked' = [acked EXCEPT ![request.type] = {}]
            <7>1. done
              BY <4>1, <4>2, <5>2
            <7>. QED BY <4>1, <7>1
          <6>2. Settled' = [acked' EXCEPT ![request.type] = @ \cup request.items]
            <7>1. /\ recording'.type = request.type /\ recording'.trnm = "REG"
                  /\ recording'.items = request.items
              BY <4>5, <5>1, <5>2
            <7>2. Settled' = [acked' EXCEPT ![recording'.type] =
                            IF recording'.trnm = "REG" THEN @ \cup recording'.items
                            ELSE @ \ recording'.items]
              BY DEF Settled
            <7>3. (IF recording'.trnm = "REG" THEN acked'[recording'.type] \cup recording'.items
                   ELSE acked'[recording'.type] \ recording'.items)
                    = acked'[request.type] \cup request.items
              BY <7>1
            <7>. QED BY <7>1, <7>2, <7>3
          <6>3. {} \cup request.items = request.items
            OBVIOUS
          <6>4. Applied(acked, request) = [acked EXCEPT ![request.type] = request.items]
            BY <4>5, <5>2 DEF Applied
          <6>. QED BY <5>1, <6>1, <6>2, <6>3, <6>4
        <5>3. CASE k # "REG"
          <6>1. acked' = acked
            <7>1. ~done
              BY <4>1, <4>2, <5>3
            <7>. QED BY <4>1, <7>1
          <6>2. /\ recording'.type = request.type /\ recording'.trnm # "REG"
                /\ recording'.items = request.items
            BY <4>5, <5>1, <5>3
          <6>3. Settled' = [acked EXCEPT ![request.type] = @ \ request.items]
            <7>1. Settled' = [acked' EXCEPT ![recording'.type] =
                            IF recording'.trnm = "REG" THEN @ \cup recording'.items
                            ELSE @ \ recording'.items]
              BY DEF Settled
            <7>2. (IF recording'.trnm = "REG" THEN acked'[recording'.type] \cup recording'.items
                   ELSE acked'[recording'.type] \ recording'.items)
                    = acked[request.type] \ request.items
              BY <6>1, <6>2
            <7>. QED BY <6>1, <6>2, <7>1, <7>2
          <6>4. Applied(acked, request) = [acked EXCEPT ![request.type] = @ \ request.items]
            BY <4>5, <5>3 DEF Applied
          <6>. QED BY <6>3, <6>4
        <5>. QED BY <5>2, <5>3
      <4>. QED BY <1>11, <3>0, <3>2, <4>1, <4>2, <4>3, <4>6, AnsweredInStep
               DEF HandleAck, k, request
    <3>. QED BY <3>1, <3>2
  <2>. QED BY <1>11, <2>1, <2>2 DEF HandleAck, AckInv
<1>12. ASSUME NEW k \in Kinds, Expire(k)
       PROVE  AckInv'
  <2>1. link /\ lost' # 0
    BY <1>12 DEF Expire, TypeOK
  <2>. QED BY <1>12, <2>1 DEF Expire, AckInv
<1>13. CASE UNCHANGED vars
  BY <1>13, StillInStep DEF vars, AckInv, flight
<1>14. CASE AddItems
  <2>1. link /\ recording \in Requests /\ acked \in [Types -> SUBSET Items]
    BY <1>14 DEF AddItems, AckInv, NoRequest, TypeOK
  <2>2. PICK fails \in Losses :
          /\ acked' = IF fails = 1 THEN acked
                      ELSE [acked EXCEPT ![recording.type] = @ \cup recording.items]
          /\ lost' = lost + fails
    BY <1>14 DEF AddItems
  <2>3. ASSUME lost' = 0
        PROVE  InStep'
    <3>1. lost = 0 /\ fails = 0
      BY <2>2, <2>3 DEF Losses, TypeOK
    <3>2. acked' = Settled /\ recording' = NoRequest
      BY <1>14, <2>2, <3>1 DEF AddItems, Settled
    <3>3. TypeOK'
      BY StepTypeOK
    <3>4. Settled' = Settled
      <4>1. (TypeOK /\ recording = NoRequest => Settled = acked)'
        BY IdleIsSettled, PTL
      <4>. QED BY <3>2, <3>3, <4>1
    <3>5. InStep /\ UNCHANGED <<wire, replies, server, pending>>
      BY <1>14, <2>1, <3>1 DEF AddItems, AckInv
    <3>. QED BY <3>4, <3>5, SettledInStep
  <2>. QED BY <1>14, <2>1, <2>3 DEF AddItems, AckInv
<1>15. CASE RemoveItem
  <2>1. link /\ recording \in Requests /\ acked \in [Types -> SUBSET Items]
    BY <1>15 DEF RemoveItem, AckInv, TypeOK
  <2>2. PICK item \in recording.items, fails \in Losses :
          /\ acked' = IF fails = 1 THEN acked
                      ELSE [acked EXCEPT ![recording.type] = @ \ {item}]
          /\ recording' = IF recording.items = {item} THEN NoRequest
                          ELSE [recording EXCEPT !.items = @ \ {item}]
          /\ lost' = lost + fails
    BY <1>15 DEF RemoveItem
  <2>3. ASSUME lost' = 0
        PROVE  InStep'
    <3>1. lost = 0 /\ fails = 0
      BY <2>2, <2>3 DEF Losses, TypeOK
    <3>2. acked' = [acked EXCEPT ![recording.type] = @ \ {item}]
      BY <2>2, <3>1
    <3>3. Settled = [acked EXCEPT ![recording.type] = @ \ recording.items]
      BY <1>15 DEF RemoveItem, Settled
    <3>4. ASSUME recording.items = {item}
          PROVE  Settled' = Settled
      <4>1. recording' = NoRequest /\ acked' = Settled
        BY <2>2, <3>2, <3>3, <3>4
      <4>2. TypeOK'
        BY StepTypeOK
      <4>3. (TypeOK /\ recording = NoRequest => Settled = acked)'
        BY IdleIsSettled, PTL
      <4>. QED BY <4>1, <4>2, <4>3
    <3>5. ASSUME recording.items # {item}
          PROVE  Settled' = Settled
      <4>1. /\ recording'.type = recording.type /\ recording'.trnm = "REMOVE"
            /\ recording'.items = recording.items \ {item}
        BY <1>15, <2>1, <2>2, <3>5 DEF RemoveItem, Requests
      <4>2. Settled' = [acked' EXCEPT ![recording.type] = @ \ (recording.items \ {item})]
        BY <4>1 DEF Settled
      <4>3. recording.type \in Types
        BY <2>1 DEF Requests
      <4>4. (acked[recording.type] \ {item}) \ (recording.items \ {item})
              = acked[recording.type] \ recording.items
        BY <2>2
      <4>5. Settled' = [acked EXCEPT ![recording.type] =
                          (@ \ {item}) \ (recording.items \ {item})]
        BY <2>1, <3>2, <4>2, <4>3
      <4>. QED BY <2>1, <3>3, <4>3, <4>4, <4>5
    <3>6. Settled' = Settled
      BY <3>4, <3>5
    <3>7. InStep /\ UNCHANGED <<wire, replies, server, pending>>
      BY <1>15, <2>1, <3>1 DEF RemoveItem, AckInv
    <3>. QED BY <3>6, <3>7, SettledInStep
  <2>. QED BY <1>15, <2>1, <2>3 DEF RemoveItem, AckInv
<1>. QED BY <1>1, <1>2, <1>3, <1>4, <1>5, <1>6, <1>7, <1>8, <1>9, <1>10, <1>11,
            <1>12, <1>13, <1>14, <1>15 DEF Next, Step

\* _apply_ws_control_ack takes the oldest pending request of a kind for the one that was
\* answered: as long as no answer is lost, ws:subscribed says what the broker streams
\* whenever nothing is under way, whatever two tasks send and the broker refuses.
THEOREM AckedMatchesServerAlways == Spec => []AckedMatchesServer
<1>1. AckInv /\ TypeOK => AckedMatchesServer
  <2>. SUFFICES ASSUME AckInv, TypeOK, link, lost = 0, wire = <<>>, replies = <<>>,
                       recording = NoRequest
                PROVE  acked = server
    BY DEF AckedMatchesServer, Idle
  <2>1. PICK flow, held : Catches(flow, held)
    BY DEF AckInv, InStep
  <2>2. Len(held) = 1 /\ held[1] = Settled /\ held[Len(held)] = server
    BY <2>1 DEF Catches
  <2>. QED BY <2>2, IdleIsSettled
<1>. QED BY <1>1, InitAckInv, StepAckInv, TypeCorrect, PTL DEF Spec
===========================================================================
