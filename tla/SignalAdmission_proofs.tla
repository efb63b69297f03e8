----------------------- MODULE SignalAdmission_proofs -----------------------
(***************************************************************************)
(* The limits of SignalService hold for all requests together, whatever    *)
(* their number, their batches and the limits.                             *)
(***************************************************************************)
EXTENDS SignalAdmission, FiniteSetTheorems, SequenceTheorems, TLAPS

----------------------------------------------------------------------------
(* The invariant.                                                          *)

Rows == [id : Nat, stock : Stocks, at : Nat, held : BOOLEAN, delivered : BOOLEAN]
States == {"idle", "dedup", "cooldown", "count", "positions", "save", "commit"}
Threads == [pc : States, todo : Seq(Signals), held : SUBSET Stocks, at : Nat, rows : SUBSET Rows]

TypeOK ==
    /\ now \in Nat /\ dailyCount \in Nat
    /\ dedup \in [Signals -> Nat] /\ cooldown \in [Stocks -> Nat]
    /\ positions \subseteq [id : Nat, stock : Stocks, status : {"SENT", "ACTIVE"}]
    /\ requests \in [Requests -> Threads]
    /\ \A r \in Requests : requests[r].pc \notin {"idle", "commit"} => requests[r].todo # <<>>
    /\ pushed \subseteq Rows /\ IsFiniteSet(pushed)

\* The requests that hold a stock's cooldown for a signal not yet decided, and those of
\* them that were counted within the limit of the day.
Claiming == {r \in Requests : requests[r].pc \in {"count", "positions", "save"}}
Counted == {r \in Requests : requests[r].pc \in {"positions", "save"}}

\* Whoever was counted has a place below the limit of the day, or had and took it.
CountInv ==
    /\ Cardinality(pushed) + Cardinality(Counted) <= dailyCount
    /\ Cardinality(pushed) + Cardinality(Counted) <= MaxDailySignals
    /\ \A row \in pushed : row.id \in 1..Cardinality(pushed)

Apart(s, t) == s - t >= StockCooldown \/ t - s >= StockCooldown

\* The cooldown of a stock outlasts the last claim, and claims are a cooldown apart.
CooldownInv ==
    /\ \A row \in pushed : cooldown[row.stock] >= row.at + StockCooldown
    /\ \A r \in Claiming : cooldown[Item(r).stock] >= requests[r].at + StockCooldown
    /\ \A a, b \in pushed : a # b /\ a.stock = b.stock => Apart(a.at, b.at)
    /\ \A row \in pushed, r \in Claiming : row.stock = Item(r).stock => Apart(row.at, requests[r].at)
    /\ \A q, r \in Claiming : q # r /\ Item(q).stock = Item(r).stock => Apart(requests[q].at, requests[r].at)

\* What a request noted as held is held still, and was not when it passed the check.
HeldInv ==
    /\ \A r \in Requests : requests[r].held \subseteq ActiveStocks
    /\ \A r \in Requests : requests[r].pc = "save" => Item(r).stock \notin requests[r].held
    /\ \A row \in pushed : ~row.held

Inv == TypeOK /\ CountInv /\ CooldownInv /\ (ConfigStored => HeldInv)

----------------------------------------------------------------------------
(* Types.                                                                  *)

LEMMA ActiveType == TypeOK => ActiveStocks \subseteq Stocks
BY DEF TypeOK, ActiveStocks

\* The signal a request has come to.
LEMMA ItemType ==
    ASSUME TypeOK, NEW r \in Requests, requests[r].pc \notin {"idle", "commit"}
    PROVE  /\ Item(r) \in Signals /\ Item(r).stock \in Stocks
           /\ Tail(requests[r].todo) \in Seq(Signals)
           /\ Len(requests[r].todo) > 1 => Tail(requests[r].todo) # <<>>
<1>. DEFINE todo == requests[r].todo
<1>1. todo \in Seq(Signals) /\ todo # <<>>
  BY DEF TypeOK, Threads
<1>. HIDE DEF todo
<1>2. Head(todo) \in Signals /\ Tail(todo) \in Seq(Signals) /\ Len(Tail(todo)) = Len(todo) - 1
  BY <1>1, HeadTailProperties
<1>3. Len(todo) > 1 => Tail(todo) # <<>>
  <2>1. Len(todo) \in Nat /\ Len(<<>>) = 0
    BY <1>1
  <2>. QED BY <1>2, <2>1
<1>4. \A s \in Signals : s.stock \in Stocks
  BY DEF Signals
<1>. QED BY <1>2, <1>3, <1>4 DEF Item, todo

\* A request that goes on to its next signal, or to the commit.
LEMMA AdvancedType ==
    ASSUME TypeOK, NEW r \in Requests, requests[r].pc \notin {"idle", "commit"}
    PROVE  /\ Advanced(r) \in Threads
           /\ Advanced(r).pc \in {"dedup", "commit"}
           /\ Advanced(r).pc = "dedup" => Advanced(r).todo # <<>>
           /\ Advanced(r).held = ActiveStocks
           /\ Advanced(r).rows = requests[r].rows
<1>1. requests[r] \in Threads
  BY DEF TypeOK
<1>2. /\ Tail(requests[r].todo) \in Seq(Signals)
      /\ Len(requests[r].todo) > 1 => Tail(requests[r].todo) # <<>>
  BY ItemType
<1>. QED BY <1>1, <1>2, ActiveType DEF Advanced, Threads, States

\* A request that stays with its signal.
LEMMA AtType ==
    ASSUME TypeOK, NEW r \in Requests, NEW pc \in States, NEW t \in Nat
    PROVE  /\ At(r, pc) \in Threads /\ [At(r, pc) EXCEPT !.at = t] \in Threads
           /\ At(r, pc).pc = pc /\ [At(r, pc) EXCEPT !.at = t].pc = pc
           /\ At(r, pc).todo = requests[r].todo /\ [At(r, pc) EXCEPT !.at = t].todo = requests[r].todo
           /\ At(r, pc).held = requests[r].held /\ [At(r, pc) EXCEPT !.at = t].held = requests[r].held
           /\ At(r, pc).at = requests[r].at /\ [At(r, pc) EXCEPT !.at = t].at = t
BY DEF TypeOK, At, Threads

\* Either way it has a signal, or none and is at its commit.
LEMMA GoesOn ==
    ASSUME TypeOK, NEW r \in Requests, requests[r].pc \notin {"idle", "commit"}, NEW pc \in States,
           NEW w \in {At(r, pc), [At(r, pc) EXCEPT !.at = now], Advanced(r)}
    PROVE  /\ w \in Threads /\ (w.pc \notin {"idle", "commit"} => w.todo # <<>>)
           /\ w.pc \in {pc, "dedup", "commit"}
<1>1. requests[r].todo # <<>> /\ now \in Nat
  BY DEF TypeOK
<1>2. CASE w = At(r, pc)
  BY <1>1, <1>2, AtType
<1>3. CASE w = [At(r, pc) EXCEPT !.at = now]
  <2>1. w \in Threads /\ w.todo = requests[r].todo /\ w.pc = pc
    BY <1>1, <1>3, AtType
  <2>. QED BY <1>1, <2>1
<1>4. CASE w = Advanced(r)
  <2>1. Advanced(r) \in Threads /\ Advanced(r).pc \in {"dedup", "commit"}
        /\ (Advanced(r).pc = "dedup" => Advanced(r).todo # <<>>)
    BY AdvancedType
  <2>. QED BY <1>4, <2>1
<1>. QED BY <1>2, <1>3, <1>4

\* One request moves; the others stay with their signals.
LEMMA OneMoves ==
    ASSUME TypeOK, NEW r \in Requests, NEW w \in Threads,
           w.pc \notin {"idle", "commit"} => w.todo # <<>>,
           requests' = [requests EXCEPT ![r] = w]
    PROVE  /\ requests' \in [Requests -> Threads]
           /\ requests'[r] = w
           /\ \A q \in Requests : q # r => requests'[q] = requests[q] /\ Item(q)' = Item(q)
           /\ \A q \in Requests : requests'[q].pc \notin {"idle", "commit"} => requests'[q].todo # <<>>
BY DEF TypeOK, Item

LEMMA IdleType == Idle \in Threads /\ Idle.pc = "idle" /\ Idle.held = {}
BY DEF Idle, Threads, States

LEMMA InitInv == Configured /\ Init => Inv
<1>. SUFFICES ASSUME Configured, Init PROVE Inv
  OBVIOUS
<1>1. TypeOK
  BY IdleType, FS_EmptySet DEF Init, TypeOK, Signals
<1>2. Claiming = {} /\ Counted = {}
  BY IdleType DEF Init, Claiming, Counted
<1>3. CountInv
  BY <1>2, FS_EmptySet DEF Init, CountInv, Configured
<1>4. CooldownInv
  BY <1>2 DEF Init, CooldownInv
<1>5. HeldInv
  BY IdleType DEF Init, HeldInv, ActiveStocks
<1>. QED BY <1>1, <1>3, <1>4, <1>5 DEF Inv

\* Begin notes the first signals of its list.
LEMMA BegunType ==
    ASSUME Configured, TypeOK, NEW r \in Requests, NEW batch \in Batches, Begin(r, batch)
    PROVE  /\ requests'[r] \in Threads /\ requests'[r].pc = "dedup"
           /\ requests'[r].todo # <<>> /\ requests'[r].held = ActiveStocks
           /\ requests' = [requests EXCEPT ![r] = requests'[r]]
<1>. DEFINE n == IF Len(batch) < MaxSignalsPerStrategy THEN Len(batch) ELSE MaxSignalsPerStrategy
            w == [pc |-> "dedup", held |-> ActiveStocks, at |-> now, rows |-> {},
                  todo |-> SubSeq(batch, 1, n)]
<1>1. batch \in Seq(Signals) /\ batch # <<>> /\ MaxSignalsPerStrategy \in Nat \ {0}
  BY DEF Configured
<1>2. n \in Nat /\ n >= 1 /\ n <= Len(batch)
  BY <1>1
<1>. HIDE DEF n
<1>3. \A i \in 1..n : batch[i] \in Signals
  BY <1>1, <1>2
<1>4. SubSeq(batch, 1, n) \in Seq(Signals) /\ Len(SubSeq(batch, 1, n)) = n
  BY <1>2, <1>3, SubSeqProperties
<1>5. SubSeq(batch, 1, n) # <<>>
  BY <1>2, <1>4
<1>6. w \in Threads
  BY <1>4, ActiveType DEF TypeOK, Threads, States
<1>7. requests' = [requests EXCEPT ![r] = w]
  BY DEF Begin, n
<1>8. requests'[r] = w
  BY <1>7 DEF TypeOK
<1>9. w.pc = "dedup" /\ w.todo # <<>> /\ w.held = ActiveStocks
  BY <1>5
<1>. HIDE DEF w
<1>. QED BY <1>6, <1>7, <1>8, <1>9

LEMMA StepTypeOK == Configured /\ TypeOK /\ [Next]_vars => TypeOK'
<1>. SUFFICES ASSUME Configured, TypeOK, [Next]_vars PROVE TypeOK'
  OBVIOUS
<1>0. StockCooldown \in Nat /\ DedupTtl \in Nat
  BY DEF Configured
<1>1. ASSUME NEW r \in Requests, NEW batch \in Batches, Begin(r, batch)
      PROVE  TypeOK'
  <2>1. /\ requests'[r] \in Threads /\ requests'[r].todo # <<>>
        /\ requests' = [requests EXCEPT ![r] = requests'[r]]
    BY <1>1, BegunType
  <2>2. PICK w \in Threads : w = requests'[r]
    BY <2>1
  <2>3. requests' = [requests EXCEPT ![r] = w] /\ w.todo # <<>>
    BY <2>1, <2>2
  <2>. QED BY <1>1, <2>3, OneMoves DEF Begin, TypeOK
<1>2. ASSUME NEW r \in Requests, TakeDedup(r)
      PROVE  TypeOK'
  <2>1. Item(r) \in Signals /\ requests[r].todo # <<>>
    BY <1>2, ItemType DEF TakeDedup, TypeOK
  <2>2. dedup' \in [Signals -> Nat]
    BY <1>0, <1>2, <2>1 DEF TakeDedup, TypeOK
  <2>3. PICK w \in {At(r, "cooldown"), Advanced(r)} : requests' = [requests EXCEPT ![r] = w]
    BY <1>2 DEF TakeDedup
  <2>4. w \in Threads /\ (w.pc \notin {"idle", "commit"} => w.todo # <<>>)
    BY <1>2, GoesOn DEF TakeDedup, States
  <2>. QED BY <1>2, <2>2, <2>3, <2>4, OneMoves DEF TakeDedup, TypeOK
<1>3. ASSUME NEW r \in Requests, TakeCooldown(r)
      PROVE  TypeOK'
  <2>1. Item(r).stock \in Stocks /\ requests[r].todo # <<>>
    BY <1>3, ItemType DEF TakeCooldown, TypeOK
  <2>2. cooldown' \in [Stocks -> Nat]
    BY <1>0, <1>3, <2>1 DEF TakeCooldown, TypeOK
  <2>3. PICK w \in {[At(r, "count") EXCEPT !.at = now], Advanced(r)} :
            requests' = [requests EXCEPT ![r] = w]
    BY <1>3 DEF TakeCooldown
  <2>4. w \in Threads /\ (w.pc \notin {"idle", "commit"} => w.todo # <<>>)
    BY <1>3, GoesOn DEF TakeCooldown, States
  <2>. QED BY <1>3, <2>2, <2>3, <2>4, OneMoves DEF TakeCooldown, TypeOK
<1>4. ASSUME NEW r \in Requests, CountDaily(r)
      PROVE  TypeOK'
  <2>1. requests[r].todo # <<>>
    BY <1>4 DEF CountDaily, TypeOK
  <2>2. PICK w \in {At(r, "positions"), Advanced(r)} : requests' = [requests EXCEPT ![r] = w]
    BY <1>4 DEF CountDaily
  <2>3. w \in Threads /\ (w.pc \notin {"idle", "commit"} => w.todo # <<>>)
    BY <1>4, GoesOn DEF CountDaily, States
  <2>. QED BY <1>4, <2>2, <2>3, OneMoves DEF CountDaily, TypeOK
<1>5. ASSUME NEW r \in Requests, CheckPositions(r)
      PROVE  TypeOK'
  <2>1. requests[r].todo # <<>>
    BY <1>5 DEF CheckPositions, TypeOK
  <2>2. PICK w \in {At(r, "save"), Advanced(r)} : requests' = [requests EXCEPT ![r] = w]
    BY <1>5 DEF CheckPositions
  <2>3. w \in Threads /\ (w.pc \notin {"idle", "commit"} => w.todo # <<>>)
    BY <1>5, GoesOn DEF CheckPositions, States
  <2>. QED BY <1>5, <2>2, <2>3, OneMoves DEF CheckPositions, TypeOK
<1>6. ASSUME NEW r \in Requests, NEW delivered \in BOOLEAN, Publish(r, delivered)
      PROVE  TypeOK'
  <2>. DEFINE row == [id |-> Cardinality(pushed) + 1, stock |-> Item(r).stock, at |-> requests[r].at,
                      held |-> Item(r).stock \in requests[r].held, delivered |-> delivered]
              w == [Advanced(r) EXCEPT !.rows = @ \cup {row}]
  <2>1. Item(r).stock \in Stocks /\ Cardinality(pushed) \in Nat /\ requests[r] \in Threads
    BY <1>6, ItemType, FS_CardinalityType DEF Publish, TypeOK
  <2>2. row \in Rows
    BY <2>1 DEF Rows, Threads
  <2>3. pushed' = pushed \cup {row} /\ requests' = [requests EXCEPT ![r] = w]
    BY <1>6 DEF Publish
  <2>. HIDE DEF row
  <2>4. w \in Threads /\ (w.pc \notin {"idle", "commit"} => w.todo # <<>>)
    BY <1>6, <2>1, <2>2, AdvancedType DEF Publish, Threads
  <2>. HIDE DEF w
  <2>5. pushed' \subseteq Rows /\ IsFiniteSet(pushed')
    BY <2>2, <2>3, FS_AddElement DEF TypeOK
  <2>. QED BY <1>6, <2>3, <2>4, <2>5, OneMoves DEF Publish, TypeOK
<1>7. ASSUME NEW r \in Requests, Abort(r)
      PROVE  TypeOK'
  BY <1>7, IdleType, OneMoves DEF Abort, TypeOK
<1>8. ASSUME NEW r \in Requests, Commit(r)
      PROVE  TypeOK'
  <2>1. \A row \in requests[r].rows : row \in Rows
    BY DEF TypeOK, Threads
  <2>2. {[id |-> row.id, stock |-> row.stock, status |-> "SENT"] : row \in requests[r].rows}
           \subseteq [id : Nat, stock : Stocks, status : {"SENT", "ACTIVE"}]
    BY <2>1 DEF Rows
  <2>. QED BY <1>8, <2>2, IdleType, OneMoves DEF Commit, TypeOK
<1>9. ASSUME NEW p \in positions, Confirm(p)
      PROVE  TypeOK'
  BY <1>9 DEF Confirm, TypeOK
<1>10. ASSUME NEW p \in positions, Close(p)
       PROVE  TypeOK'
  <2>1. requests' \in [Requests -> Threads]
    BY <1>10 DEF Close, TypeOK, Threads
  <2>2. \A r \in Requests : requests'[r].pc = requests[r].pc /\ requests'[r].todo = requests[r].todo
    BY <1>10 DEF Close, TypeOK, Threads
  <2>. QED BY <1>10, <2>1, <2>2 DEF Close, TypeOK
<1>11. CASE Tick
  BY <1>11 DEF Tick, TypeOK
<1>12. CASE UNCHANGED vars
  BY <1>12 DEF vars, TypeOK
<1>. QED BY <1>1, <1>2, <1>3, <1>4, <1>5, <1>6, <1>7, <1>8, <1>9, <1>10, <1>11, <1>12 DEF Next

----------------------------------------------------------------------------
(* The limit of the day.                                                   *)

LEMMA CountedType == Configured => IsFiniteSet(Counted) /\ Cardinality(Counted) \in Nat
BY FS_Subset, FS_CardinalityType DEF Configured, Counted

\* Who keeps its place, takes one or gives one up.
LEMMA StillCounted ==
    ASSUME NEW r \in Requests, \A q \in Requests : q # r => requests'[q].pc = requests[q].pc
    PROVE  /\ (requests'[r].pc \in {"positions", "save"} <=> requests[r].pc \in {"positions", "save"})
                 => Counted' = Counted
           /\ requests'[r].pc \in {"positions", "save"} => Counted' = Counted \cup {r}
           /\ requests'[r].pc \notin {"positions", "save"} => Counted' = Counted \ {r}
BY DEF Counted

\* A step that pushes nothing and counts nobody.
LEMMA CountKept ==
    ASSUME Configured, TypeOK, CountInv, pushed' = pushed, dailyCount' >= dailyCount, dailyCount' \in Nat,
           Counted' \subseteq Counted
    PROVE  CountInv'
<1>1. /\ Cardinality(Counted) \in Nat /\ Cardinality(Counted') \in Nat
      /\ Cardinality(Counted') <= Cardinality(Counted)
  BY CountedType, FS_Subset, FS_CardinalityType
<1>2. Cardinality(pushed) \in Nat
  BY FS_CardinalityType DEF TypeOK
<1>. QED BY <1>1, <1>2 DEF CountInv, TypeOK, Configured

LEMMA StepCountInv == Configured /\ TypeOK /\ CountInv /\ [Next]_vars => CountInv'
<1>. SUFFICES ASSUME Configured, TypeOK, CountInv, [Next]_vars PROVE CountInv'
  OBVIOUS
<1>0. TypeOK' /\ Cardinality(pushed) \in Nat /\ Cardinality(Counted) \in Nat
      /\ MaxDailySignals \in Nat /\ dailyCount \in Nat
  BY StepTypeOK, CountedType, FS_CardinalityType DEF TypeOK, Configured
<1>1. ASSUME NEW r \in Requests, NEW batch \in Batches, Begin(r, batch)
      PROVE  CountInv'
  <2>1. requests'[r].pc = "dedup" /\ requests[r].pc = "idle"
    BY <1>1, BegunType DEF Begin
  <2>2. \A q \in Requests : q # r => requests'[q].pc = requests[q].pc
    BY <1>1 DEF Begin, TypeOK
  <2>. QED BY <1>0, <1>1, <2>1, <2>2, StillCounted, CountKept DEF Begin
<1>2. ASSUME NEW r \in Requests, TakeDedup(r)
      PROVE  CountInv'
  <2>1. requests'[r].pc \in {"cooldown", "dedup", "commit"} /\ requests[r].pc = "dedup"
    <3>1. PICK w \in {At(r, "cooldown"), Advanced(r)} : requests' = [requests EXCEPT ![r] = w]
      BY <1>2 DEF TakeDedup
    <3>2. requests'[r] = w
      BY <3>1 DEF TypeOK
    <3>. QED BY <1>2, <3>1, <3>2, GoesOn DEF TakeDedup, States
  <2>2. \A q \in Requests : q # r => requests'[q].pc = requests[q].pc
    BY <1>2 DEF TakeDedup, TypeOK
  <2>. QED BY <1>0, <1>2, <2>1, <2>2, StillCounted, CountKept DEF TakeDedup
<1>3. ASSUME NEW r \in Requests, TakeCooldown(r)
      PROVE  CountInv'
  <2>1. requests'[r].pc \in {"count", "dedup", "commit"} /\ requests[r].pc = "cooldown"
    <3>1. PICK w \in {[At(r, "count") EXCEPT !.at = now], Advanced(r)} : requests' = [requests EXCEPT ![r] = w]
      BY <1>3 DEF TakeCooldown
    <3>2. requests'[r] = w
      BY <3>1 DEF TypeOK
    <3>. QED BY <1>3, <3>1, <3>2, GoesOn DEF TakeCooldown, States
  <2>2. \A q \in Requests : q # r => requests'[q].pc = requests[q].pc
    BY <1>3 DEF TakeCooldown, TypeOK
  <2>. QED BY <1>0, <1>3, <2>1, <2>2, StillCounted, CountKept DEF TakeCooldown
<1>4. ASSUME NEW r \in Requests, CountDaily(r)
      PROVE  CountInv'
  <2>1. \A q \in Requests : q # r => requests'[q].pc = requests[q].pc
    BY <1>4 DEF CountDaily, TypeOK
  <2>2. CASE dailyCount + 1 > MaxDailySignals
    <3>1. requests'[r].pc \in {"dedup", "commit"} /\ requests[r].pc = "count"
      BY <1>4, <2>2, AdvancedType DEF CountDaily, TypeOK
    <3>. QED BY <1>0, <1>4, <2>1, <3>1, StillCounted, CountKept DEF CountDaily
  <2>3. CASE dailyCount + 1 <= MaxDailySignals
    <3>1. requests'[r].pc = "positions" /\ requests[r].pc = "count"
      <4>1. ~(dailyCount + 1 > MaxDailySignals)
        BY <1>0, <2>3
      <4>2. requests' = [requests EXCEPT ![r] = At(r, "positions")]
        BY <1>4, <4>1 DEF CountDaily
      <4>3. requests'[r] = At(r, "positions")
        BY <4>2 DEF TypeOK
      <4>. QED BY <1>4, <4>3 DEF CountDaily, At, TypeOK, Threads
    <3>2. Counted' = Counted \cup {r} /\ r \notin Counted
      BY <2>1, <3>1, StillCounted DEF Counted
    <3>3. Cardinality(Counted') = Cardinality(Counted) + 1
      BY <3>2, CountedType, FS_AddElement
    <3>4. dailyCount' = dailyCount + 1 /\ pushed' = pushed
      BY <1>4 DEF CountDaily
    <3>. QED BY <1>0, <2>3, <3>3, <3>4 DEF CountInv
  <2>. QED BY <1>0, <2>2, <2>3
<1>5. ASSUME NEW r \in Requests, CheckPositions(r)
      PROVE  CountInv'
  <2>1. requests'[r].pc \in {"save", "dedup", "commit"} /\ requests[r].pc = "positions"
    <3>1. PICK w \in {At(r, "save"), Advanced(r)} : requests' = [requests EXCEPT ![r] = w]
      BY <1>5 DEF CheckPositions
    <3>2. requests'[r] = w
      BY <3>1 DEF TypeOK
    <3>. QED BY <1>5, <3>1, <3>2, GoesOn DEF CheckPositions, States
  <2>2. \A q \in Requests : q # r => requests'[q].pc = requests[q].pc
    BY <1>5 DEF CheckPositions, TypeOK
  <2>3. Counted' \subseteq Counted
    BY <2>1, <2>2 DEF Counted
  <2>. QED BY <1>0, <1>5, <2>3, CountKept DEF CheckPositions
<1>6. ASSUME NEW r \in Requests, NEW delivered \in BOOLEAN, Publish(r, delivered)
      PROVE  CountInv'
  <2>1. PICK row : /\ row.id = Cardinality(pushed) + 1
                   /\ pushed' = pushed \cup {row}
                   /\ requests' = [requests EXCEPT ![r] = [Advanced(r) EXCEPT !.rows = @ \cup {row}]]
    <3>. DEFINE row == [id |-> Cardinality(pushed) + 1, stock |-> Item(r).stock, at |-> requests[r].at,
                        held |-> Item(r).stock \in requests[r].held, delivered |-> delivered]
    <3>1. /\ pushed' = pushed \cup {row}
          /\ requests' = [requests EXCEPT ![r] = [Advanced(r) EXCEPT !.rows = @ \cup {row}]]
      BY <1>6 DEF Publish
    <3>2. row.id = Cardinality(pushed) + 1
      OBVIOUS
    <3>. HIDE DEF row
    <3>. QED BY <3>1, <3>2
  <2>2. row \notin pushed
    BY <1>0, <2>1 DEF CountInv
  <2>3. Cardinality(pushed') = Cardinality(pushed) + 1
    BY <2>1, <2>2, FS_AddElement DEF TypeOK
  <2>4. requests'[r].pc \in {"dedup", "commit"} /\ requests[r].pc = "save"
    <3>1. Advanced(r) \in Threads /\ Advanced(r).pc \in {"dedup", "commit"} /\ requests[r].pc = "save"
      BY <1>6, AdvancedType DEF Publish
    <3>2. requests'[r] = [Advanced(r) EXCEPT !.rows = @ \cup {row}]
      BY <2>1 DEF TypeOK
    <3>. QED BY <3>1, <3>2 DEF Threads
  <2>5. \A q \in Requests : q # r => requests'[q].pc = requests[q].pc
    BY <2>1 DEF TypeOK
  <2>6. Counted' = Counted \ {r} /\ r \in Counted
    BY <2>4, <2>5 DEF Counted
  <2>7. Cardinality(Counted') = Cardinality(Counted) - 1
    BY <2>6, CountedType, FS_RemoveElement
  <2>8. \A a \in pushed' : a.id \in 1..Cardinality(pushed')
    BY <1>0, <2>1, <2>3 DEF CountInv
  <2>9. dailyCount' = dailyCount
    BY <1>6 DEF Publish
  <2>. QED BY <1>0, <2>3, <2>7, <2>8, <2>9 DEF CountInv
<1>7. ASSUME NEW r \in Requests, Abort(r)
      PROVE  CountInv'
  <2>1. \A q \in Requests : requests'[q].pc \in {"positions", "save"} => requests[q].pc \in {"positions", "save"}
    BY <1>7, IdleType DEF Abort, TypeOK
  <2>2. Counted' \subseteq Counted
    BY <2>1 DEF Counted
  <2>. QED BY <1>0, <1>7, <2>2, CountKept DEF Abort
<1>8. ASSUME NEW r \in Requests, Commit(r)
      PROVE  CountInv'
  <2>1. \A q \in Requests : requests'[q].pc \in {"positions", "save"} => requests[q].pc \in {"positions", "save"}
    BY <1>8, IdleType DEF Commit, TypeOK
  <2>2. Counted' \subseteq Counted
    BY <2>1 DEF Counted
  <2>. QED BY <1>0, <1>8, <2>2, CountKept DEF Commit
<1>9. ASSUME NEW p \in positions, Confirm(p)
      PROVE  CountInv'
  <2>1. Counted' = Counted
    BY <1>9 DEF Confirm, Counted
  <2>. QED BY <1>0, <1>9, <2>1, CountKept DEF Confirm
<1>10. ASSUME NEW p \in positions, Close(p)
       PROVE  CountInv'
  <2>1. \A r \in Requests : requests'[r].pc = requests[r].pc
    BY <1>10 DEF Close, TypeOK, Threads
  <2>2. Counted' = Counted
    BY <2>1 DEF Counted
  <2>. QED BY <1>0, <1>10, <2>2, CountKept DEF Close
<1>11. CASE Tick
  <2>1. Counted' = Counted
    BY <1>11 DEF Tick, Counted
  <2>. QED BY <1>0, <1>11, <2>1, CountKept DEF Tick
<1>12. CASE UNCHANGED vars
  <2>1. Counted' = Counted
    BY <1>12 DEF vars, Counted
  <2>. QED BY <1>0, <1>12, <2>1, CountKept DEF vars
<1>. QED BY <1>1, <1>2, <1>3, <1>4, <1>5, <1>6, <1>7, <1>8, <1>9, <1>10, <1>11, <1>12 DEF Next

----------------------------------------------------------------------------
(* The cooldown of a stock.                                                *)

\* A claim is for a stock, from an instant on.
LEMMA ClaimType ==
    ASSUME TypeOK, NEW r \in Claiming
    PROVE  /\ r \in Requests /\ Item(r).stock \in Stocks /\ requests[r].at \in Nat
           /\ cooldown[Item(r).stock] \in Nat
<1>1. r \in Requests /\ requests[r].pc \notin {"idle", "commit"}
  BY DEF Claiming
<1>2. Item(r).stock \in Stocks
  BY <1>1, ItemType
<1>. QED BY <1>1, <1>2 DEF TypeOK, Threads

LEMMA RowType ==
    ASSUME TypeOK, NEW row \in pushed
    PROVE  row.stock \in Stocks /\ row.at \in Nat /\ cooldown[row.stock] \in Nat
BY DEF TypeOK, Rows

\* A step that claims nothing and pushes nothing.
LEMMA ClaimsKept ==
    ASSUME TypeOK, CooldownInv, pushed' = pushed, cooldown' = cooldown, Claiming' \subseteq Claiming,
           \A r \in Claiming' : Item(r)' = Item(r) /\ requests'[r].at = requests[r].at
    PROVE  CooldownInv'
<1>1. \A row \in pushed' : cooldown'[row.stock] >= row.at + StockCooldown
  BY DEF CooldownInv
<1>2. \A r \in Claiming' : cooldown'[Item(r)'.stock] >= requests'[r].at + StockCooldown
  BY DEF CooldownInv
<1>3. \A a, b \in pushed' : a # b /\ a.stock = b.stock => Apart(a.at, b.at)
  BY DEF CooldownInv
<1>4. \A row \in pushed', r \in Claiming' : row.stock = Item(r)'.stock => Apart(row.at, requests'[r].at)
  BY DEF CooldownInv
<1>5. \A q, r \in Claiming' :
          q # r /\ Item(q)'.stock = Item(r)'.stock => Apart(requests'[q].at, requests'[r].at)
  BY DEF CooldownInv
<1>. QED BY <1>1, <1>2, <1>3, <1>4, <1>5 DEF CooldownInv, Apart

\* One request goes on without a new claim.
LEMMA NoClaim ==
    ASSUME TypeOK, CooldownInv, pushed' = pushed, cooldown' = cooldown, NEW r \in Requests, NEW w,
           requests' = [requests EXCEPT ![r] = w],
           w.pc \in {"count", "positions", "save"} =>
               r \in Claiming /\ w.todo = requests[r].todo /\ w.at = requests[r].at
    PROVE  CooldownInv'
<1>1. requests'[r] = w /\ \A q \in Requests : q # r => requests'[q] = requests[q]
  BY DEF TypeOK
<1>2. Claiming' \subseteq Claiming
  BY <1>1 DEF Claiming
<1>3. ASSUME NEW q \in Claiming'
      PROVE  Item(q)' = Item(q) /\ requests'[q].at = requests[q].at
  <2>1. q \in Requests /\ requests'[q].pc \in {"count", "positions", "save"}
    BY DEF Claiming
  <2>2. requests'[q].todo = requests[q].todo /\ requests'[q].at = requests[q].at
    BY <1>1, <2>1
  <2>. QED BY <2>2 DEF Item
<1>. QED BY <1>2, <1>3, ClaimsKept

LEMMA StepCooldownInv == Configured /\ TypeOK /\ CooldownInv /\ [Next]_vars => CooldownInv'
<1>. SUFFICES ASSUME Configured, TypeOK, CooldownInv, [Next]_vars PROVE CooldownInv'
  OBVIOUS
<1>0. StockCooldown \in Nat /\ now \in Nat
  BY DEF TypeOK, Configured
<1>1. ASSUME NEW r \in Requests, NEW batch \in Batches, Begin(r, batch)
      PROVE  CooldownInv'
  <2>1. requests'[r].pc = "dedup" /\ requests' = [requests EXCEPT ![r] = requests'[r]]
    BY <1>1, BegunType
  <2>2. PICK w : w = requests'[r]
    OBVIOUS
  <2>3. requests' = [requests EXCEPT ![r] = w] /\ w.pc = "dedup"
    BY <2>1, <2>2
  <2>. QED BY <1>1, <2>3, NoClaim DEF Begin
<1>2. ASSUME NEW r \in Requests, TakeDedup(r)
      PROVE  CooldownInv'
  <2>1. PICK w \in {At(r, "cooldown"), Advanced(r)} : requests' = [requests EXCEPT ![r] = w]
    BY <1>2 DEF TakeDedup
  <2>2. w.pc \in {"cooldown", "dedup", "commit"}
    BY <1>2, GoesOn DEF TakeDedup, States
  <2>. QED BY <1>2, <2>1, <2>2, NoClaim DEF TakeDedup
<1>3. ASSUME NEW r \in Requests, TakeCooldown(r)
      PROVE  CooldownInv'
  <2>1. requests[r].pc = "cooldown"
    BY <1>3 DEF TakeCooldown
  <2>2. CASE cooldown[Item(r).stock] > now
    <3>1. requests' = [requests EXCEPT ![r] = Advanced(r)] /\ cooldown' = cooldown /\ pushed' = pushed
      <4>1. Item(r).stock \in Stocks
        BY <2>1, ItemType
      <4>2. ~(cooldown[Item(r).stock] <= now)
        BY <1>0, <2>2, <4>1 DEF TypeOK
      <4>. QED BY <1>3, <4>2 DEF TakeCooldown
    <3>2. Advanced(r).pc \in {"dedup", "commit"}
      BY <2>1, AdvancedType
    <3>. QED BY <3>1, <3>2, NoClaim
  <2>3. CASE cooldown[Item(r).stock] <= now
    <3>. DEFINE stock == Item(r).stock
    <3>1. stock \in Stocks /\ stock = Item(r).stock
      BY <2>1, ItemType
    <3>2. /\ cooldown' = [cooldown EXCEPT ![stock] = now + StockCooldown]
          /\ requests' = [requests EXCEPT ![r] = [At(r, "count") EXCEPT !.at = now]]
          /\ pushed' = pushed
      BY <1>3, <2>3 DEF TakeCooldown
    <3>3. /\ requests'[r].pc = "count" /\ requests'[r].at = now
          /\ requests'[r].todo = requests[r].todo
          /\ \A q \in Requests : q # r => requests'[q] = requests[q]
      <4>1. requests'[r] = [At(r, "count") EXCEPT !.at = now]
        BY <3>2 DEF TypeOK
      <4>2. \A q \in Requests : q # r => requests'[q] = requests[q]
        BY <3>2 DEF TypeOK
      <4>. QED BY <1>0, <4>1, <4>2, AtType DEF States
    <3>4. Claiming' = Claiming \cup {r} /\ r \notin Claiming
      BY <2>1, <3>3 DEF Claiming
    <3>5. /\ Item(r)' = Item(r)
          /\ \A q \in Claiming : Item(q)' = Item(q) /\ requests'[q] = requests[q] /\ q # r
      BY <3>3, <3>4 DEF Item, Claiming
    <3>6. cooldown[stock] <= now
      BY <2>3
    <3>. HIDE DEF stock
    <3>7. cooldown'[stock] = now + StockCooldown /\ \A s \in Stocks : s # stock => cooldown'[s] = cooldown[s]
      BY <3>1, <3>2 DEF TypeOK
    <3>8. ASSUME NEW s \in Stocks
          PROVE  cooldown'[s] >= cooldown[s] /\ cooldown'[s] \in Nat
      <4>1. cooldown[s] \in Nat
        BY DEF TypeOK
      <4>. QED BY <1>0, <3>6, <3>7, <4>1
    <3>9. ASSUME NEW row \in pushed
          PROVE  /\ cooldown'[row.stock] >= row.at + StockCooldown
                 /\ row.stock = stock => Apart(row.at, now)
      <4>1. cooldown[row.stock] >= row.at + StockCooldown
        BY DEF CooldownInv
      <4>2. /\ row.stock \in Stocks /\ row.at \in Nat /\ cooldown[row.stock] \in Nat
            /\ cooldown'[row.stock] \in Nat /\ cooldown'[row.stock] >= cooldown[row.stock]
        BY <3>8, RowType
      <4>3. cooldown'[row.stock] >= row.at + StockCooldown
        BY <1>0, <4>1, <4>2
      <4>4. ASSUME row.stock = stock PROVE Apart(row.at, now)
        BY <1>0, <3>6, <4>1, <4>2, <4>4 DEF Apart
      <4>. QED BY <4>3, <4>4
    <3>10. ASSUME NEW q \in Claiming
           PROVE  /\ cooldown'[Item(q).stock] >= requests[q].at + StockCooldown
                  /\ Item(q).stock = stock => Apart(requests[q].at, now) /\ Apart(now, requests[q].at)
      <4>1. cooldown[Item(q).stock] >= requests[q].at + StockCooldown
        BY DEF CooldownInv
      <4>2. /\ Item(q).stock \in Stocks /\ requests[q].at \in Nat /\ cooldown[Item(q).stock] \in Nat
            /\ cooldown'[Item(q).stock] \in Nat /\ cooldown'[Item(q).stock] >= cooldown[Item(q).stock]
        BY <3>8, ClaimType
      <4>3. cooldown'[Item(q).stock] >= requests[q].at + StockCooldown
        BY <1>0, <4>1, <4>2
      <4>4. ASSUME Item(q).stock = stock
            PROVE  Apart(requests[q].at, now) /\ Apart(now, requests[q].at)
        BY <1>0, <3>6, <4>1, <4>2, <4>4 DEF Apart
      <4>. QED BY <4>3, <4>4
    <3>11. \A row \in pushed' : cooldown'[row.stock] >= row.at + StockCooldown
      BY <3>2, <3>9
    <3>12. \A q \in Claiming' : cooldown'[Item(q)'.stock] >= requests'[q].at + StockCooldown
      <4>1. cooldown'[stock] >= now + StockCooldown
        BY <1>0, <3>7
      <4>. QED BY <3>1, <3>3, <3>4, <3>5, <3>10, <4>1
    <3>13. \A a, b \in pushed' : a # b /\ a.stock = b.stock => Apart(a.at, b.at)
      BY <3>2 DEF CooldownInv
    <3>14. \A row \in pushed', q \in Claiming' : row.stock = Item(q)'.stock => Apart(row.at, requests'[q].at)
      <4>1. \A row \in pushed, q \in Claiming : row.stock = Item(q).stock => Apart(row.at, requests[q].at)
        BY DEF CooldownInv
      <4>. QED BY <3>1, <3>2, <3>3, <3>4, <3>5, <3>9, <4>1
    <3>15. \A p, q \in Claiming' :
               p # q /\ Item(p)'.stock = Item(q)'.stock => Apart(requests'[p].at, requests'[q].at)
      <4>1. \A p, q \in Claiming :
                p # q /\ Item(p).stock = Item(q).stock => Apart(requests[p].at, requests[q].at)
        BY DEF CooldownInv
      <4>. QED BY <3>1, <3>3, <3>4, <3>5, <3>10, <4>1
    <3>. QED BY <3>11, <3>12, <3>13, <3>14, <3>15 DEF CooldownInv, Apart
  <2>. QED
    <3>1. Item(r).stock \in Stocks
      BY <2>1, ItemType
    <3>2. cooldown[Item(r).stock] \in Nat
      BY <3>1 DEF TypeOK
    <3>. QED BY <1>0, <2>2, <2>3, <3>2
<1>4. ASSUME NEW r \in Requests, CountDaily(r)
      PROVE  CooldownInv'
  <2>1. PICK w \in {At(r, "positions"), Advanced(r)} : requests' = [requests EXCEPT ![r] = w]
    BY <1>4 DEF CountDaily
  <2>2. r \in Claiming /\ requests[r].pc = "count"
    BY <1>4 DEF CountDaily, Claiming
  <2>3. w.pc \in {"count", "positions", "save"} => w.todo = requests[r].todo /\ w.at = requests[r].at
    <3>1. At(r, "positions").todo = requests[r].todo /\ At(r, "positions").at = requests[r].at
      BY <1>0, AtType DEF States
    <3>2. Advanced(r).pc \in {"dedup", "commit"}
      BY <2>2, AdvancedType
    <3>. QED BY <3>1, <3>2
  <2>. QED BY <1>4, <2>1, <2>2, <2>3, NoClaim DEF CountDaily
<1>5. ASSUME NEW r \in Requests, CheckPositions(r)
      PROVE  CooldownInv'
  <2>1. PICK w \in {At(r, "save"), Advanced(r)} : requests' = [requests EXCEPT ![r] = w]
    BY <1>5 DEF CheckPositions
  <2>2. r \in Claiming /\ requests[r].pc = "positions"
    BY <1>5 DEF CheckPositions, Claiming
  <2>3. w.pc \in {"count", "positions", "save"} => w.todo = requests[r].todo /\ w.at = requests[r].at
    <3>1. At(r, "save").todo = requests[r].todo /\ At(r, "save").at = requests[r].at
      BY <1>0, AtType DEF States
    <3>2. Advanced(r).pc \in {"dedup", "commit"}
      BY <2>2, AdvancedType
    <3>. QED BY <3>1, <3>2
  <2>. QED BY <1>5, <2>1, <2>2, <2>3, NoClaim DEF CheckPositions
<1>6. ASSUME NEW r \in Requests, NEW delivered \in BOOLEAN, Publish(r, delivered)
      PROVE  CooldownInv'
  <2>1. PICK row : /\ row.stock = Item(r).stock /\ row.at = requests[r].at
                   /\ pushed' = pushed \cup {row}
                   /\ requests' = [requests EXCEPT ![r] = [Advanced(r) EXCEPT !.rows = @ \cup {row}]]
    <3>. DEFINE row == [id |-> Cardinality(pushed) + 1, stock |-> Item(r).stock, at |-> requests[r].at,
                        held |-> Item(r).stock \in requests[r].held, delivered |-> delivered]
    <3>1. /\ pushed' = pushed \cup {row}
          /\ requests' = [requests EXCEPT ![r] = [Advanced(r) EXCEPT !.rows = @ \cup {row}]]
      BY <1>6 DEF Publish
    <3>2. row.stock = Item(r).stock /\ row.at = requests[r].at
      OBVIOUS
    <3>. HIDE DEF row
    <3>. QED BY <3>1, <3>2
  <2>2. requests'[r].pc \in {"dedup", "commit"} /\ r \in Claiming
    <3>1. /\ Advanced(r) \in Threads /\ Advanced(r).pc \in {"dedup", "commit"} /\ requests[r].pc = "save"
      BY <1>6, AdvancedType DEF Publish
    <3>2. requests'[r] = [Advanced(r) EXCEPT !.rows = @ \cup {row}]
      BY <2>1 DEF TypeOK
    <3>. QED BY <3>1, <3>2 DEF Threads, Claiming
  <2>3. \A q \in Requests : q # r => requests'[q] = requests[q]
    BY <2>1 DEF TypeOK
  <2>4. \A q \in Claiming' : q \in Claiming /\ q # r /\ Item(q)' = Item(q) /\ requests'[q] = requests[q]
    BY <2>2, <2>3 DEF Claiming, Item
  <2>5. cooldown' = cooldown
    BY <1>6 DEF Publish
  <2>6. \A a \in pushed' : a \in pushed \/ a = row
    BY <2>1
  <2>7. \A a \in pushed' : cooldown'[a.stock] >= a.at + StockCooldown
    BY <2>1, <2>2, <2>5, <2>6 DEF CooldownInv
  <2>8. \A q \in Claiming' : cooldown'[Item(q)'.stock] >= requests'[q].at + StockCooldown
    BY <2>4, <2>5 DEF CooldownInv
  <2>9. \A a \in pushed : a.stock = row.stock => Apart(a.at, row.at) /\ Apart(row.at, a.at)
    <3>1. \A a \in pushed : a.stock = row.stock => Apart(a.at, row.at)
      BY <2>1, <2>2 DEF CooldownInv
    <3>. QED BY <3>1 DEF Apart
  <2>10. \A a, b \in pushed' : a # b /\ a.stock = b.stock => Apart(a.at, b.at)
    <3>1. \A a, b \in pushed : a # b /\ a.stock = b.stock => Apart(a.at, b.at)
      BY DEF CooldownInv
    <3>. QED BY <2>6, <2>9, <3>1
  <2>11. \A a \in pushed', q \in Claiming' : a.stock = Item(q)'.stock => Apart(a.at, requests'[q].at)
    <3>1. /\ \A a \in pushed, q \in Claiming : a.stock = Item(q).stock => Apart(a.at, requests[q].at)
          /\ \A p, q \in Claiming : p # q /\ Item(p).stock = Item(q).stock => Apart(requests[p].at, requests[q].at)
      BY DEF CooldownInv
    <3>. QED BY <2>1, <2>2, <2>4, <2>6, <3>1
  <2>12. \A p, q \in Claiming' :
             p # q /\ Item(p)'.stock = Item(q)'.stock => Apart(requests'[p].at, requests'[q].at)
    BY <2>4 DEF CooldownInv
  <2>. QED BY <2>7, <2>8, <2>10, <2>11, <2>12 DEF CooldownInv, Apart
<1>7. ASSUME NEW r \in Requests, Abort(r)
      PROVE  CooldownInv'
  BY <1>7, IdleType, NoClaim DEF Abort
<1>8. ASSUME NEW r \in Requests, Commit(r)
      PROVE  CooldownInv'
  BY <1>8, IdleType, NoClaim DEF Commit
<1>9. ASSUME NEW p \in positions, Confirm(p)
      PROVE  CooldownInv'
  BY <1>9, ClaimsKept DEF Confirm, Claiming, Item
<1>10. ASSUME NEW p \in positions, Close(p)
       PROVE  CooldownInv'
  <2>1. \A r \in Requests : /\ requests'[r].pc = requests[r].pc /\ requests'[r].todo = requests[r].todo
                            /\ requests'[r].at = requests[r].at
    BY <1>10 DEF Close, TypeOK, Threads
  <2>2. Claiming' = Claiming
    BY <2>1 DEF Claiming
  <2>3. \A r \in Claiming' : Item(r)' = Item(r) /\ requests'[r].at = requests[r].at
    BY <2>1 DEF Claiming, Item
  <2>. QED BY <1>10, <2>2, <2>3, ClaimsKept DEF Close
<1>11. CASE Tick
  BY <1>11, ClaimsKept DEF Tick, Claiming, Item
<1>12. CASE UNCHANGED vars
  BY <1>12, ClaimsKept DEF vars, Claiming, Item
<1>. QED BY <1>1, <1>2, <1>3, <1>4, <1>5, <1>6, <1>7, <1>8, <1>9, <1>10, <1>11, <1>12 DEF Next
----------------------------------------------------------------------------
(* The active positions.                                                   *)

\* A step that closes no position, and passes no check or does not make it.
LEMMA HeldKept ==
    ASSUME TypeOK, HeldInv, ActiveStocks \subseteq ActiveStocks', pushed' = pushed,
           NEW r \in Requests, NEW w, requests' = [requests EXCEPT ![r] = w],
           w.held \subseteq ActiveStocks,
           w.pc = "save" => Head(w.todo).stock \notin w.held
    PROVE  HeldInv'
<1>1. requests'[r] = w /\ \A q \in Requests : q # r => requests'[q] = requests[q]
  BY DEF TypeOK
<1>2. \A q \in Requests : requests'[q].held \subseteq ActiveStocks'
  BY <1>1 DEF HeldInv
<1>3. \A q \in Requests : requests'[q].pc = "save" => Head(requests'[q].todo).stock \notin requests'[q].held
  BY <1>1 DEF HeldInv, Item
<1>4. \A row \in pushed' : ~row.held
  BY DEF HeldInv
<1>. QED BY <1>2, <1>3, <1>4 DEF HeldInv, Item

\* No request moves, and no stock that a request noted is closed.
LEMMA NotesKept ==
    ASSUME HeldInv, ActiveStocks \subseteq ActiveStocks', pushed' = pushed, requests' = requests
    PROVE  HeldInv'
BY DEF HeldInv, Item

LEMMA StepHeldInv == ConfigStored /\ Configured /\ TypeOK /\ HeldInv /\ [Next]_vars => HeldInv'
<1>. SUFFICES ASSUME ConfigStored, Configured, TypeOK, HeldInv, [Next]_vars PROVE HeldInv'
  OBVIOUS
<1>0. now \in Nat
  BY DEF TypeOK
<1>1. ASSUME NEW r \in Requests, NEW batch \in Batches, Begin(r, batch)
      PROVE  HeldInv'
  <2>1. /\ requests'[r].pc = "dedup" /\ requests'[r].held = ActiveStocks
        /\ requests' = [requests EXCEPT ![r] = requests'[r]]
    BY <1>1, BegunType
  <2>2. PICK w : w = requests'[r]
    OBVIOUS
  <2>3. requests' = [requests EXCEPT ![r] = w] /\ w.pc = "dedup" /\ w.held = ActiveStocks
    BY <2>1, <2>2
  <2>4. ActiveStocks' = ActiveStocks
    BY <1>1 DEF Begin, ActiveStocks
  <2>. QED BY <1>1, <2>3, <2>4, HeldKept DEF Begin
<1>2. ASSUME NEW r \in Requests, TakeDedup(r)
      PROVE  HeldInv'
  <2>1. PICK w \in {At(r, "cooldown"), Advanced(r)} : requests' = [requests EXCEPT ![r] = w]
    BY <1>2 DEF TakeDedup
  <2>2. w.pc # "save" /\ w.held \subseteq ActiveStocks
    <3>1. At(r, "cooldown").pc = "cooldown" /\ At(r, "cooldown").held = requests[r].held
      BY <1>0, AtType DEF States
    <3>2. Advanced(r).pc \in {"dedup", "commit"} /\ Advanced(r).held = ActiveStocks
      BY <1>2, AdvancedType DEF TakeDedup
    <3>. QED BY <3>1, <3>2 DEF HeldInv
  <2>3. ActiveStocks' = ActiveStocks
    BY <1>2 DEF TakeDedup, ActiveStocks
  <2>. QED BY <1>2, <2>1, <2>2, <2>3, HeldKept DEF TakeDedup
<1>3. ASSUME NEW r \in Requests, TakeCooldown(r)
      PROVE  HeldInv'
  <2>1. PICK w \in {[At(r, "count") EXCEPT !.at = now], Advanced(r)} :
            requests' = [requests EXCEPT ![r] = w]
    BY <1>3 DEF TakeCooldown
  <2>2. w.pc # "save" /\ w.held \subseteq ActiveStocks
    <3>1. /\ [At(r, "count") EXCEPT !.at = now].pc = "count"
          /\ [At(r, "count") EXCEPT !.at = now].held = requests[r].held
      BY DEF At, TypeOK, Threads
    <3>2. Advanced(r).pc \in {"dedup", "commit"} /\ Advanced(r).held = ActiveStocks
      BY <1>3, AdvancedType DEF TakeCooldown
    <3>. QED BY <3>1, <3>2 DEF HeldInv
  <2>3. ActiveStocks' = ActiveStocks
    BY <1>3 DEF TakeCooldown, ActiveStocks
  <2>. QED BY <1>3, <2>1, <2>2, <2>3, HeldKept DEF TakeCooldown
<1>4. ASSUME NEW r \in Requests, CountDaily(r)
      PROVE  HeldInv'
  <2>1. PICK w \in {At(r, "positions"), Advanced(r)} : requests' = [requests EXCEPT ![r] = w]
    BY <1>4 DEF CountDaily
  <2>2. w.pc # "save" /\ w.held \subseteq ActiveStocks
    <3>1. At(r, "positions").pc = "positions" /\ At(r, "positions").held = requests[r].held
      BY <1>0, AtType DEF States
    <3>2. Advanced(r).pc \in {"dedup", "commit"} /\ Advanced(r).held = ActiveStocks
      BY <1>4, AdvancedType DEF CountDaily
    <3>. QED BY <3>1, <3>2 DEF HeldInv
  <2>3. ActiveStocks' = ActiveStocks
    BY <1>4 DEF CountDaily, ActiveStocks
  <2>. QED BY <1>4, <2>1, <2>2, <2>3, HeldKept DEF CountDaily
<1>5. ASSUME NEW r \in Requests, CheckPositions(r)
      PROVE  HeldInv'
  <2>1. ActiveStocks' = ActiveStocks
    BY <1>5 DEF CheckPositions, ActiveStocks
  <2>2. CASE RoomFor(Item(r).stock)
    <3>1. requests' = [requests EXCEPT ![r] = At(r, "save")]
      BY <1>5, <2>2 DEF CheckPositions
    <3>2. Item(r).stock \notin ActiveStocks
      BY <2>2 DEF RoomFor
    <3>3. At(r, "save").todo = requests[r].todo /\ At(r, "save").held = requests[r].held
      BY <1>0, AtType DEF States
    <3>4. /\ At(r, "save").held \subseteq ActiveStocks
          /\ Head(At(r, "save").todo).stock \notin At(r, "save").held
      BY <3>2, <3>3 DEF HeldInv, Item
    <3>. QED BY <1>5, <2>1, <3>1, <3>4, HeldKept DEF CheckPositions
  <2>3. CASE ~RoomFor(Item(r).stock)
    <3>1. requests' = [requests EXCEPT ![r] = Advanced(r)]
      BY <1>5, <2>3 DEF CheckPositions
    <3>2. Advanced(r).pc \in {"dedup", "commit"} /\ Advanced(r).held = ActiveStocks
      BY <1>5, AdvancedType DEF CheckPositions
    <3>. QED BY <1>5, <2>1, <3>1, <3>2, HeldKept DEF CheckPositions
  <2>. QED BY <2>2, <2>3
<1>6. ASSUME NEW r \in Requests, NEW delivered \in BOOLEAN, Publish(r, delivered)
      PROVE  HeldInv'
  <2>1. PICK row : /\ row.held = (Item(r).stock \in requests[r].held)
                   /\ pushed' = pushed \cup {row}
                   /\ requests' = [requests EXCEPT ![r] = [Advanced(r) EXCEPT !.rows = @ \cup {row}]]
    <3>. DEFINE row == [id |-> Cardinality(pushed) + 1, stock |-> Item(r).stock, at |-> requests[r].at,
                        held |-> Item(r).stock \in requests[r].held, delivered |-> delivered]
    <3>1. /\ pushed' = pushed \cup {row}
          /\ requests' = [requests EXCEPT ![r] = [Advanced(r) EXCEPT !.rows = @ \cup {row}]]
      BY <1>6 DEF Publish
    <3>2. row.held = (Item(r).stock \in requests[r].held)
      OBVIOUS
    <3>. HIDE DEF row
    <3>. QED BY <3>1, <3>2
  <2>2. ~row.held
    BY <1>6, <2>1 DEF Publish, HeldInv
  <2>3. /\ requests'[r].pc \in {"dedup", "commit"} /\ requests'[r].held = ActiveStocks
        /\ \A q \in Requests : q # r => requests'[q] = requests[q]
    <3>1. /\ Advanced(r) \in Threads /\ Advanced(r).pc \in {"dedup", "commit"}
          /\ Advanced(r).held = ActiveStocks
      BY <1>6, AdvancedType DEF Publish
    <3>2. requests'[r] = [Advanced(r) EXCEPT !.rows = @ \cup {row}]
      BY <2>1 DEF TypeOK
    <3>3. \A q \in Requests : q # r => requests'[q] = requests[q]
      BY <2>1 DEF TypeOK
    <3>. QED BY <3>1, <3>2, <3>3 DEF Threads
  <2>4. ActiveStocks' = ActiveStocks
    BY <1>6 DEF Publish, ActiveStocks
  <2>5. \A q \in Requests : requests'[q].held \subseteq ActiveStocks'
    BY <2>3, <2>4 DEF HeldInv
  <2>6. \A q \in Requests : requests'[q].pc = "save" => Head(requests'[q].todo).stock \notin requests'[q].held
    BY <2>3 DEF HeldInv, Item
  <2>7. \A a \in pushed' : ~a.held
    BY <2>1, <2>2 DEF HeldInv
  <2>. QED BY <2>5, <2>6, <2>7 DEF HeldInv, Item
<1>7. ASSUME NEW r \in Requests, Abort(r)
      PROVE  HeldInv'
  <2>1. ActiveStocks' = ActiveStocks
    BY <1>7 DEF Abort, ActiveStocks
  <2>. QED BY <1>7, <2>1, IdleType, HeldKept DEF Abort
<1>8. ASSUME NEW r \in Requests, Commit(r)
      PROVE  HeldInv'
  <2>1. ActiveStocks \subseteq ActiveStocks'
    BY <1>8 DEF Commit, ActiveStocks
  <2>. QED BY <1>8, <2>1, IdleType, HeldKept DEF Commit
<1>9. ASSUME NEW p \in positions, Confirm(p)
      PROVE  HeldInv'
  <2>1. ActiveStocks \subseteq ActiveStocks'
    BY <1>9 DEF Confirm, ActiveStocks
  <2>. QED BY <1>9, <2>1, NotesKept DEF Confirm
<1>10. ASSUME NEW p \in positions, Close(p)
       PROVE  HeldInv'
  <2>1. \A r \in Requests : /\ requests'[r].pc = requests[r].pc /\ requests'[r].todo = requests[r].todo
                            /\ requests'[r].held = requests[r].held \ {p.stock}
    BY <1>10 DEF Close, TypeOK, Threads
  <2>2. ActiveStocks \ {p.stock} \subseteq ActiveStocks'
    BY <1>10 DEF Close, ActiveStocks
  <2>3. \A r \in Requests : requests'[r].held \subseteq ActiveStocks'
    BY <2>1, <2>2 DEF HeldInv
  <2>4. \A r \in Requests : requests'[r].pc = "save" => Head(requests'[r].todo).stock \notin requests'[r].held
    BY <2>1 DEF HeldInv, Item
  <2>5. \A row \in pushed' : ~row.held
    BY <1>10 DEF Close, HeldInv
  <2>. QED BY <2>3, <2>4, <2>5 DEF HeldInv, Item
<1>11. CASE Tick
  <2>1. ActiveStocks' = ActiveStocks
    BY <1>11 DEF Tick, ActiveStocks
  <2>. QED BY <1>11, <2>1, NotesKept DEF Tick
<1>12. CASE UNCHANGED vars
  <2>1. ActiveStocks' = ActiveStocks
    BY <1>12 DEF vars, ActiveStocks
  <2>. QED BY <1>12, <2>1, NotesKept DEF vars
<1>. QED BY <1>1, <1>2, <1>3, <1>4, <1>5, <1>6, <1>7, <1>8, <1>9, <1>10, <1>11, <1>12 DEF Next

----------------------------------------------------------------------------
(* The limits.                                                             *)

LEMMA InvLimits == Configured /\ Inv => LimitsHold
<1>. SUFFICES ASSUME Configured, Inv PROVE LimitsHold
  OBVIOUS
<1>1. PublishedWithinDailyLimit
  <2>1. Cardinality(pushed) \in Nat /\ Cardinality(Counted) \in Nat /\ MaxDailySignals \in Nat
    BY CountedType, FS_CardinalityType DEF Inv, TypeOK, Configured
  <2>. QED BY <2>1 DEF Inv, CountInv, PublishedWithinDailyLimit
<1>2. OneSignalPerCooldown
  <2>. SUFFICES ASSUME NEW a \in pushed, NEW b \in pushed, a.stock = b.stock, a.id < b.id
                PROVE  b.at - a.at \notin (1 - StockCooldown)..(StockCooldown - 1)
    BY DEF OneSignalPerCooldown
  <2>1. a.id \in Nat /\ b.id \in Nat /\ a.at \in Nat /\ b.at \in Nat /\ StockCooldown \in Nat
    BY DEF Inv, TypeOK, Rows, Configured
  <2>2. a # b
    BY <2>1
  <2>3. Apart(a.at, b.at)
    BY <2>2 DEF Inv, CooldownInv
  <2>. QED BY <2>1, <2>3 DEF Apart
<1>3. HeldStockIsRefused
  BY DEF Inv, HeldInv, HeldStockIsRefused
<1>. QED BY <1>1, <1>2, <1>3 DEF LimitsHold

\* What processSignal promises its callers, with any number of HTTP requests in any
\* order, pushes that fail, batches rolled back and positions confirmed or closed
\* meanwhile: the limit of the day, the cooldown of a stock across its strategies
\* and, where the limits are stored, the refusal of a stock that is held.
THEOREM LimitsAlwaysHold == ASSUME Configured PROVE Spec => []LimitsHold
<1>1. Init => Inv
  BY InitInv
<1>2. Inv /\ [Next]_vars => Inv'
  BY StepTypeOK, StepCountInv, StepCooldownInv, StepHeldInv DEF Inv
<1>3. Inv => LimitsHold
  BY InvLimits
<1>. QED BY <1>1, <1>2, <1>3, PTL DEF Spec
=============================================================================
