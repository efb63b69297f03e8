-------------------------- MODULE Services_proofs --------------------------
(***************************************************************************)
(* Proofs about the services.  Seven of them have their inductive          *)
(* invariants here: the calls to the broker (K), the watches of S2 (V),    *)
(* those of S16 (C), the briefs (B), the calls of Claude (G), the pools    *)
(* (P) and the cycle of scans (Q).  The last part concludes for the        *)
(* composition, with the theorems of the other services' modules.          *)
(***************************************************************************)
EXTENDS Services, SequenceTheorems, FiniteSetTheorems, TLAPS

\* The instances count as this module does.
LEMMA SameCount ==
    \A S : /\ K!Cardinality(S) = Cardinality(S) /\ V!Cardinality(S) = Cardinality(S)
           /\ V!IsFiniteSet(S) <=> IsFiniteSet(S)
BY DEF K!Cardinality, V!Cardinality, Cardinality, V!IsFiniteSet, IsFiniteSet

----------------------------------------------------------------------------
(* RestCalls: the calls of a TR are spaced, and a shared request is safe.  *)

\* A task is never cancelled.
Stages == {"charge", "local", "global", "sent", "ok", "none", "budget"}
TaskRecords == [pc : Stages, owner : KScans, attempt : Nat, deadline : Nat, pending : BOOLEAN]
ScanRecords == [pc : {"running", "waiting", "cancelled", "budget"}, task : Nat, left : Int, timedOut : BOOLEAN]

RestTyped ==
    /\ kNow \in Nat /\ kLocal \in Int /\ kLock \in Int /\ kLast \in Int
    /\ kRedis \in BOOLEAN /\ kTight \in BOOLEAN
    /\ kScan \in [KScans -> ScanRecords]
    /\ \E n \in Nat : kTasks \in [1..n -> TaskRecords]
    /\ kInflight = K!NoTask \/ kInflight \in DOMAIN kTasks
    /\ \A s \in KScans : kScan[s].pc = "waiting" => kScan[s].task \in DOMAIN kTasks

\* The key outlives the last call by the interval, whoever took it.
LockInv == kLock >= kLast + KInterval /\ ~kTight

RestInv == RestTyped /\ LockInv /\ K!CancelledAlone

\* The key of the TR: whoever takes it comes an interval after the last call.
LEMMA ReserveSpaces ==
    ASSUME K!Configured, RestTyped, LockInv, NEW p, K!Reserve(p)
    PROVE  LockInv' /\ kLock' \in Int /\ kLast' \in Int /\ kTight' \in BOOLEAN
<1>1. /\ KInterval \in Nat /\ kNow \in Int /\ kLock \in Int /\ kLast \in Int
      /\ kLock >= kLast + KInterval /\ kTight = FALSE
  BY DEF K!Configured, RestTyped, LockInv
<1>2. CASE kNow >= kDisabled[p] /\ kRedis /\ kLock <= kNow
  <2>1. ~(kNow - kLast < KInterval)
    BY <1>1, <1>2
  <2>2. kLock' = kNow + KInterval /\ kLast' = kNow /\ kTight' = FALSE
    BY <1>1, <1>2, <2>1 DEF K!Reserve, K!Grants
  <2>3. kLock' \in Int /\ kLast' \in Int /\ kLock' >= kLast' + KInterval
    BY <1>1, <2>2
  <2>. QED BY <2>2, <2>3 DEF LockInv
<1>3. CASE ~(kNow >= kDisabled[p] /\ kRedis /\ kLock <= kNow)
  <2>1. kLock' = kLock /\ kLast' = kLast /\ kTight' = FALSE
    BY <1>1, <1>3 DEF K!Reserve, K!Grants
  <2>. QED BY <1>1, <2>1 DEF LockInv
<1>. QED BY <1>2, <1>3

\* The records of the tasks.
LEMMA TaskType ==
    ASSUME RestTyped, NEW t \in DOMAIN kTasks
    PROVE  kTasks[t] \in TaskRecords
BY DEF RestTyped

\* A task that goes on, or ends otherwise than by a cancellation.
LEMMA SetType ==
    ASSUME NEW n \in Nat, kTasks \in [1..n -> TaskRecords], NEW t \in DOMAIN kTasks, NEW pc \in Stages
    PROVE  K!Set(t, pc) \in [1..n -> TaskRecords]
BY DEF K!Set, TaskRecords, Stages

\* A step of one task, which no scan takes part in.
LEMMA TaskMoves ==
    ASSUME RestTyped, NEW n \in Nat, kTasks \in [1..n -> TaskRecords], kTasks' \in [1..n -> TaskRecords],
           kNow' = kNow, kLocal' \in Int, kRedis' = kRedis, kLock' \in Int, kLast' \in Int, kTight' \in BOOLEAN,
           kInflight' \in {kInflight, K!NoTask}, kScan' \in [KScans -> ScanRecords],
           \A s \in KScans : kScan'[s].pc = kScan[s].pc /\ kScan'[s].task = kScan[s].task
    PROVE  RestTyped'
BY DEF RestTyped

\* The invariant holds at the start, and every step keeps it.
LEMMA RestInit == K!Configured /\ K!Init => RestInv
<1>. SUFFICES ASSUME K!Configured, K!Init PROVE RestInv
  OBVIOUS
<1>1. KInterval \in Nat /\ KBudget \in Nat
  BY DEF K!Configured
<1>2. RestTyped
  <2>1. kTasks \in [1..0 -> TaskRecords]
    BY DEF K!Init
  <2>2. kScan \in [KScans -> ScanRecords] /\ \A s \in KScans : kScan[s].pc = "running"
    BY <1>1 DEF K!Init, K!Fresh, ScanRecords, K!NoTask
  <2>3. \E n \in Nat : kTasks \in [1..n -> TaskRecords]
    BY <2>1
  <2>4. kNow \in Nat /\ kLocal \in Int /\ kLock \in Int /\ kLast \in Int
    BY <1>1 DEF K!Init
  <2>5. kRedis \in BOOLEAN /\ kTight \in BOOLEAN /\ kInflight = K!NoTask
    BY Zenon DEF K!Init
  <2>. QED BY <2>2, <2>3, <2>4, <2>5 DEF RestTyped
<1>3. LockInv
  BY <1>1 DEF K!Init, LockInv
<1>4. K!CancelledAlone
  BY DEF K!Init, K!Fresh, K!CancelledAlone
<1>. QED BY <1>2, <1>3, <1>4 DEF RestInv

LEMMA RestNext == K!Configured /\ RestInv /\ [K!Next]_(K!vars) => RestInv'
<1>. SUFFICES ASSUME K!Configured, RestInv, [K!Next]_(K!vars) PROVE RestInv'
  OBVIOUS
<1>0. /\ RestTyped /\ LockInv /\ K!CancelledAlone
      /\ kNow \in Nat /\ KWaitFor \in Nat /\ KBudget \in Nat
  BY DEF K!Configured, RestInv, RestTyped
<1>01. PICK n \in Nat : kTasks \in [1..n -> TaskRecords]
  BY <1>0 DEF RestTyped
<1>02. DOMAIN kTasks = 1..n
  BY <1>01
<1>1. ASSUME NEW s \in KScans, K!Fetch(s) PROVE RestInv'
  <2>. DEFINE started == kInflight = K!NoTask \/ kTasks[kInflight].pc \in K!Ended
              id == Cardinality(DOMAIN kTasks) + 1
              new == [pc |-> "charge", owner |-> s, attempt |-> 0, deadline |-> 0, pending |-> TRUE]
  <2>1. id = n + 1
    <3>1. Cardinality(1..n) = IF 1 > n THEN 0 ELSE n - 1 + 1
      BY FS_Interval
    <3>. QED BY <1>02, <3>1
  <2>2. new \in TaskRecords
    BY DEF TaskRecords, Stages
  <2>3. /\ \E m \in Nat : kTasks' \in [1..m -> TaskRecords] /\ m >= n
        /\ kInflight' \in DOMAIN kTasks'
    <3>1. CASE started
      <4>1. kTasks' = [t \in 1..id |-> IF t < id THEN kTasks[t] ELSE new] /\ kInflight' = id
        BY <1>1, <3>1, SameCount DEF K!Fetch
      <4>. HIDE DEF id, new
      <4>2. kTasks' \in [1..(n + 1) -> TaskRecords] /\ DOMAIN kTasks' = 1..(n + 1)
        BY <1>01, <2>1, <2>2, <4>1
      <4>. QED BY <2>1, <4>1, <4>2
    <3>2. CASE ~started
      <4>1. kTasks' = kTasks /\ kInflight' = kInflight
        BY <1>1, <3>2 DEF K!Fetch
      <4>. QED BY <1>0, <1>01, <3>2, <4>1 DEF RestTyped
    <3>. QED BY <3>1, <3>2
  <2>4. /\ kScan' = [kScan EXCEPT ![s].pc = "waiting", ![s].task = kInflight']
        /\ UNCHANGED <<kNow, kLocal, kLock, kRedis, kLast, kTight>>
    BY <1>1 DEF K!Fetch
  <2>. HIDE DEF started, id, new
  <2>5. PICK m \in Nat : kTasks' \in [1..m -> TaskRecords] /\ m >= n
    BY <2>3
  <2>6. PICK f \in 1..m : f = kInflight'
    BY <2>3, <2>5
  <2>7. kScan' = [kScan EXCEPT ![s].pc = "waiting", ![s].task = f]
    BY <2>4, <2>6
  <2>8. kScan' \in [KScans -> ScanRecords]
    <3>1. f \in Nat
      OBVIOUS
    <3>2. [kScan[s] EXCEPT !.pc = "waiting", !.task = f] \in ScanRecords
      BY <1>0, <3>1 DEF RestTyped, ScanRecords
    <3>3. kScan' = [kScan EXCEPT ![s] = [kScan[s] EXCEPT !.pc = "waiting", !.task = f]]
      BY <1>0, <2>7 DEF RestTyped
    <3>. QED BY <1>0, <3>2, <3>3 DEF RestTyped
  <2>9. \A u \in KScans : kScan'[u].pc = "waiting" => kScan'[u].task \in DOMAIN kTasks'
    BY <1>0, <1>02, <2>5, <2>7 DEF RestTyped, ScanRecords
  <2>10. RestTyped'
    BY <1>0, <2>3, <2>4, <2>5, <2>8, <2>9 DEF RestTyped
  <2>11. K!CancelledAlone'
    BY <1>0, <2>7 DEF RestTyped, ScanRecords, K!CancelledAlone
  <2>12. LockInv'
    BY <1>0, <2>4 DEF LockInv
  <2>. QED BY <2>10, <2>11, <2>12 DEF RestInv
<1>2. ASSUME NEW s \in KScans, K!Answer(s) PROVE RestInv'
  <2>1. PICK result : result = kTasks[kScan[s].task].pc
    OBVIOUS
  <2>2. result \in {"ok", "none", "budget"}
    <3>1. kScan[s].task \in DOMAIN kTasks /\ result \in K!Ended
      BY <1>0, <1>2, <2>1 DEF K!Answer, RestTyped
    <3>2. result \in Stages
      BY <1>0, <2>1, <3>1, TaskType DEF TaskRecords
    <3>. QED BY <3>1, <3>2 DEF Stages, K!Ended
  <2>3. kScan' = [kScan EXCEPT ![s].pc = IF result \in {"ok", "none"} THEN "running" ELSE result,
                               ![s].task = K!NoTask]
    BY <1>2, <2>1 DEF K!Answer
  <2>4. kScan' \in [KScans -> ScanRecords]
    <3>1. PICK pc \in {"running", "budget"} : kScan' = [kScan EXCEPT ![s].pc = pc, ![s].task = K!NoTask]
      BY <2>2, <2>3
    <3>. QED BY <1>0, <3>1 DEF RestTyped, ScanRecords, K!NoTask
  <2>5. \A u \in KScans : kScan'[u].pc \in {"waiting", "cancelled"} => kScan'[u] = kScan[u]
    BY <1>0, <2>2, <2>3 DEF RestTyped, ScanRecords
  <2>6. RestTyped'
    BY <1>0, <1>2, <2>4, <2>5 DEF K!Answer, RestTyped
  <2>. QED BY <1>0, <1>2, <2>5, <2>6 DEF K!Answer, RestInv, LockInv, K!CancelledAlone
<1>3. ASSUME NEW s \in KScans, K!Timeout(s) PROVE RestInv'
  <2>1. /\ kTasks' = kTasks
        /\ kScan' = [kScan EXCEPT ![s].pc = "cancelled", ![s].timedOut = TRUE, ![s].task = K!NoTask]
    BY <1>3 DEF K!Timeout, K!AfterCancel
  <2>2. kScan' \in [KScans -> ScanRecords]
    BY <1>0, <2>1 DEF RestTyped, ScanRecords, K!NoTask
  <2>3. \A u \in KScans : kScan'[u] = kScan[u] \/ (kScan'[u].pc = "cancelled" /\ kScan'[u].timedOut)
    BY <1>0, <2>1 DEF RestTyped, ScanRecords
  <2>4. RestTyped'
    BY <1>0, <1>3, <2>1, <2>2, <2>3 DEF K!Timeout, RestTyped
  <2>. QED BY <1>0, <1>3, <2>3, <2>4 DEF K!Timeout, RestInv, LockInv, K!CancelledAlone
<1>4. ASSUME NEW s \in KScans, K!Restart(s) PROVE RestInv'
  <2>1. K!Fresh \in ScanRecords /\ K!Fresh.pc = "running"
    BY <1>0 DEF K!Fresh, ScanRecords, K!NoTask
  <2>2. kScan' \in [KScans -> ScanRecords] /\ \A u \in KScans : kScan'[u] = kScan[u] \/ kScan'[u].pc = "running"
    BY <1>0, <1>4, <2>1 DEF K!Restart, RestTyped
  <2>. QED BY <1>0, <1>4, <2>2 DEF K!Restart, RestInv, RestTyped, LockInv, K!CancelledAlone
<1>5. ASSUME NEW t \in DOMAIN kTasks, K!Forget(t) PROVE RestInv'
  <2>1. kTasks' \in [1..n -> TaskRecords]
    BY <1>01, <1>5 DEF K!Forget, TaskRecords
  <2>2. RestTyped'
    BY <1>0, <1>01, <1>5, <2>1, TaskMoves DEF K!Forget, RestTyped
  <2>. QED BY <1>0, <1>5, <2>2 DEF K!Forget, RestInv, LockInv, K!CancelledAlone
<1>6. ASSUME NEW t \in DOMAIN kTasks, K!Charge(t) PROVE RestInv'
  <2>1. "budget" \in Stages /\ "local" \in Stages
    BY DEF Stages
  <2>2. kTasks' \in {K!Set(t, "budget"), K!Set(t, "local")}
    BY <1>6 DEF K!Charge
  <2>3. kTasks' \in [1..n -> TaskRecords]
    BY <1>01, <2>1, <2>2, SetType
  <2>4. kTasks[t].owner \in KScans
    BY <1>0, TaskType DEF TaskRecords
  <2>5. /\ kScan' \in [KScans -> ScanRecords]
        /\ \A u \in KScans : /\ kScan'[u].pc = kScan[u].pc /\ kScan'[u].task = kScan[u].task
                            /\ kScan'[u].timedOut = kScan[u].timedOut
    <3>1. PICK o \in KScans : o = kTasks[t].owner
      BY <2>4
    <3>2. CASE kScan' = kScan
      BY <1>0, <3>2 DEF RestTyped
    <3>3. CASE kScan' = [kScan EXCEPT ![o].left = @ - 1]
      <4>1. kScan[o] \in ScanRecords /\ kScan[o].left - 1 \in Int
        BY <1>0 DEF RestTyped, ScanRecords
      <4>2. PICK k \in Int : k = kScan[o].left - 1
        BY <4>1
      <4>3. kScan' = [kScan EXCEPT ![o].left = k]
        BY <3>3, <4>2
      <4>. QED BY <1>0, <4>3 DEF RestTyped, ScanRecords
    <3>. QED BY <1>6, <3>1, <3>2, <3>3 DEF K!Charge
  <2>6. UNCHANGED <<kNow, kInflight, kLocal, kLock, kRedis, kDisabled, kLast, kTight>>
    BY <1>6 DEF K!Charge
  <2>7. RestTyped'
    BY <1>0, <1>01, <2>3, <2>5, <2>6, TaskMoves DEF RestTyped
  <2>. QED BY <1>0, <2>5, <2>6, <2>7 DEF RestInv, LockInv, K!CancelledAlone
<1>7. ASSUME NEW t \in DOMAIN kTasks, K!Pace(t) PROVE RestInv'
  <2>1. K!Set(t, "global") \in [1..n -> TaskRecords]
    BY <1>01, SetType DEF Stages
  <2>2. PICK f \in [1..n -> TaskRecords] : f = K!Set(t, "global")
    BY <2>1
  <2>3. kNow + KWaitFor \in Nat /\ kTasks' = [f EXCEPT ![t].deadline = kNow + KWaitFor]
    BY <1>0, <1>7, <2>2 DEF K!Pace
  <2>4. kTasks' \in [1..n -> TaskRecords]
    BY <2>3 DEF TaskRecords
  <2>5. RestTyped'
    BY <1>0, <1>01, <1>7, <2>4, TaskMoves DEF K!Pace, RestTyped
  <2>. QED BY <1>0, <1>7, <2>5 DEF K!Pace, RestInv, LockInv, K!CancelledAlone
<1>8. ASSUME NEW t \in DOMAIN kTasks, K!AskGlobal(t) PROVE RestInv'
  <2>1. /\ kTasks' \in {K!Set(t, "sent"), K!Set(t, "none")}
        /\ UNCHANGED <<kNow, kScan, kInflight, kLocal, kRedis>>
        /\ K!Reserve("python")
    BY <1>8 DEF K!AskGlobal
  <2>2. kTasks' \in [1..n -> TaskRecords]
    BY <1>01, <2>1, SetType DEF Stages
  <2>3. LockInv' /\ kLock' \in Int /\ kLast' \in Int /\ kTight' \in BOOLEAN
    BY <1>0, <2>1, ReserveSpaces
  <2>4. RestTyped'
    BY <1>0, <1>01, <2>1, <2>2, <2>3, TaskMoves DEF RestTyped
  <2>. QED BY <1>0, <2>1, <2>3, <2>4 DEF RestInv, K!CancelledAlone
<1>9. ASSUME NEW t \in DOMAIN kTasks, NEW result \in {"ok", "http_error", "error"}, K!Respond(t, result)
      PROVE  RestInv'
  <2>1. /\ K!Set(t, "charge") \in [1..n -> TaskRecords] /\ K!Set(t, "ok") \in [1..n -> TaskRecords]
        /\ K!Set(t, "none") \in [1..n -> TaskRecords]
    BY <1>01, SetType DEF Stages
  <2>2. [K!Set(t, "charge") EXCEPT ![t].attempt = @ + 1] \in [1..n -> TaskRecords]
    <3>1. PICK f \in [1..n -> TaskRecords] : f = K!Set(t, "charge")
      BY <2>1
    <3>2. [f EXCEPT ![t].attempt = @ + 1] \in [1..n -> TaskRecords]
      BY <1>02 DEF TaskRecords
    <3>. QED BY <3>1, <3>2
  <2>3. kTasks' \in [1..n -> TaskRecords]
    BY <1>9, <2>1, <2>2 DEF K!Respond
  <2>4. RestTyped'
    BY <1>0, <1>01, <1>9, <2>3, TaskMoves DEF K!Respond, RestTyped
  <2>. QED BY <1>0, <1>9, <2>4 DEF K!Respond, RestInv, LockInv, K!CancelledAlone
<1>10. CASE K!JavaCall
  <2>1. LockInv' /\ kLock' \in Int /\ kLast' \in Int /\ kTight' \in BOOLEAN
    BY <1>0, <1>10, ReserveSpaces DEF K!JavaCall
  <2>. QED BY <1>0, <1>10, <2>1 DEF K!JavaCall, RestInv, RestTyped, K!CancelledAlone
<1>11. CASE K!Redis
  BY <1>0, <1>11 DEF K!Redis, RestInv, RestTyped, LockInv, K!CancelledAlone
<1>12. CASE K!Tick
  BY <1>0, <1>12 DEF K!Tick, RestInv, RestTyped, LockInv, K!CancelledAlone
<1>13. CASE UNCHANGED K!vars
  BY <1>0, <1>13 DEF K!vars, RestInv, RestTyped, LockInv, K!CancelledAlone
<1>. QED BY <1>1, <1>2, <1>3, <1>4, <1>5, <1>6, <1>7, <1>8, <1>9, <1>10, <1>11, <1>12, <1>13 DEF K!Next

\* RestCalls alone: the calls of both processes are an interval apart.
LEMMA GrantsAlone == ASSUME K!Configured PROVE K!Spec => []K!GrantsAreSpaced
<1>1. RestInv => K!GrantsAreSpaced
  BY DEF RestInv, LockInv, K!GrantsAreSpaced
<1>2. K!Init => RestInv
  BY RestInit
<1>3. RestInv /\ [K!Next]_(K!vars) => RestInv'
  BY RestNext
<1>. QED BY <1>1, <1>2, <1>3, PTL DEF K!Spec

\* RestCalls alone: a scan is cancelled by its own time-out only.
LEMMA CancelsAlone == ASSUME K!Configured PROVE K!Spec => []K!CancelledAlone
<1>1. RestInv => K!CancelledAlone
  BY DEF RestInv
<1>2. K!Init => RestInv
  BY RestInit
<1>3. RestInv /\ [K!Next]_(K!vars) => RestInv'
  BY RestNext
<1>. QED BY <1>1, <1>2, <1>3, PTL DEF K!Spec

----------------------------------------------------------------------------
(* ViWatch: a release is watched once at a time.                           *)

Keys == VStocks \X (VRawPrices \cup {V!Abs(p) : p \in VRawPrices})
Watches == [stock : VStocks, price : Int, until : Nat]

\* What is released has a price of its own.
ReleasesTyped ==
    /\ vNow \in Nat /\ vOpen \in BOOLEAN
    /\ vVi \in [VStocks -> [price : VRawPrices \cup {0}, status : {V!NoStatus, "active", "released"},
                          releasedAt : Nat]]
    /\ vLease \in [Keys -> Nat]
    /\ vQueue \in Seq(Watches)
    /\ vHand = <<>> \/ \E x \in Watches : vHand = <<x>>

\* A key outlasts the watch that was queued under it.
Leased(x) == <<x.stock, x.price>> \in Keys /\ x.until < vLease[<<x.stock, x.price>>]
LeaseHeld ==
    /\ \A i \in 1..Len(vQueue) : Leased(vQueue[i])
    /\ vHand # <<>> => Leased(vHand[1])

\* Two watches of one release that both last.
Rival(x, y) == x.stock = y.stock /\ x.price = y.price /\ vNow <= x.until /\ vNow <= y.until
NoRivals ==
    /\ \A i, j \in 1..Len(vQueue) : i # j => ~Rival(vQueue[i], vQueue[j])
    /\ \A i \in 1..Len(vQueue) : vHand # <<>> => ~Rival(vQueue[i], vHand[1])

ViInv == ReleasesTyped /\ LeaseHeld /\ NoRivals

\* A watch that is queued at the front.
LEMMA Prepended ==
    ASSUME NEW x \in Watches, NEW s \in Seq(Watches)
    PROVE  /\ <<x>> \o s \in Seq(Watches) /\ Len(<<x>> \o s) = Len(s) + 1 /\ Len(s) \in Nat
           /\ (<<x>> \o s)[1] = x
           /\ \A i \in 1..Len(s) : (<<x>> \o s)[i + 1] = s[i] /\ s[i] \in Watches
           /\ \A i \in 2..(Len(s) + 1) : i - 1 \in 1..Len(s) /\ (<<x>> \o s)[i] = s[i - 1]
<1>1. <<x>> \in Seq(Watches) /\ Len(<<x>>) = 1 /\ <<x>>[1] = x /\ Len(s) \in Nat
  BY LenProperties
<1>2. /\ <<x>> \o s \in Seq(Watches) /\ Len(<<x>> \o s) = 1 + Len(s)
      /\ \A i \in 1..(1 + Len(s)) : (<<x>> \o s)[i] = IF i <= 1 THEN <<x>>[i] ELSE s[i - 1]
  BY <1>1, ConcatProperties
<1>3. \A i \in 1..Len(s) : s[i] \in Watches
  BY ElementOfSeq
<1>4. \A i \in 1..Len(s) : i + 1 \in 1..(1 + Len(s)) /\ ~(i + 1 <= 1) /\ (i + 1) - 1 = i
  BY <1>1
<1>5. \A i \in 2..(Len(s) + 1) : i - 1 \in 1..Len(s) /\ i \in 1..(1 + Len(s)) /\ ~(i <= 1)
  BY <1>1
<1>6. 1 \in 1..(1 + Len(s))
  BY <1>1
<1>. QED BY <1>1, <1>2, <1>3, <1>4, <1>5, <1>6

\* A free key is that of no watch that lasts.
LEMMA FreeMeansAlone ==
    ASSUME ViInv, NEW x \in Watches,
           <<x.stock, x.price>> \in Keys /\ V!Free(<<x.stock, x.price>>)
    PROVE  /\ \A i \in 1..Len(vQueue) : ~Rival(x, vQueue[i]) /\ ~Rival(vQueue[i], x)
           /\ vHand # <<>> => ~Rival(x, vHand[1]) /\ ~Rival(vHand[1], x)
<1>1. ASSUME NEW y \in Watches, Leased(y) PROVE ~Rival(x, y) /\ ~Rival(y, x)
  <2>1. SUFFICES ASSUME y.stock = x.stock, y.price = x.price PROVE ~(vNow <= y.until)
    BY DEF Rival
  <2>2. <<y.stock, y.price>> = <<x.stock, x.price>>
    BY <2>1
  <2>3. PICK until \in Nat : until = vLease[<<x.stock, x.price>>]
    BY <2>1 DEF ViInv, ReleasesTyped
  <2>4. y.until < until /\ until <= vNow /\ y.until \in Nat /\ vNow \in Nat
    BY <1>1, <2>1, <2>2, <2>3 DEF Leased, V!Free, Watches, ViInv, ReleasesTyped
  <2>. QED BY <2>4
<1>2. \A i \in 1..Len(vQueue) : vQueue[i] \in Watches /\ Leased(vQueue[i])
  BY ElementOfSeq DEF ViInv, ReleasesTyped, LeaseHeld
<1>3. vHand # <<>> => vHand[1] \in Watches /\ Leased(vHand[1])
  BY DEF ViInv, ReleasesTyped, LeaseHeld
<1>. QED BY <1>1, <1>2, <1>3

\* Steps of the clock and of what the exchange says.
LEMMA QuietVi ==
    ASSUME ViInv, ReleasesTyped', UNCHANGED <<vLease, vQueue, vHand>>, vNow <= vNow'
    PROVE  ViInv'
<1>1. LeaseHeld'
  BY DEF ViInv, LeaseHeld, Leased
<1>2. /\ \A i \in 1..Len(vQueue) : vQueue[i] \in Watches
      /\ vHand # <<>> => vHand[1] \in Watches
      /\ vNow \in Nat /\ vNow' \in Nat
  BY ElementOfSeq DEF ViInv, ReleasesTyped
<1>3. ASSUME NEW x \in Watches, NEW y \in Watches, Rival(x, y)' PROVE Rival(x, y)
  BY <1>2, <1>3 DEF Rival, Watches
<1>4. NoRivals'
  BY <1>2, <1>3 DEF ViInv, NoRivals
<1>. QED BY <1>1, <1>4 DEF ViInv

\* A watch comes to the front of the queue, from outside or from the worker's hand.
LEMMA PushKeeps ==
    ASSUME ViInv, ReleasesTyped', NEW x \in Watches, vQueue' = <<x>> \o vQueue, vNow' = vNow,
           vHand' = vHand \/ vHand' = <<>>,
           \A key \in Keys : vLease'[key] \in Nat /\ vLease[key] <= vLease'[key],
           Leased(x)', \A i \in 1..Len(vQueue) : ~Rival(x, vQueue[i]) /\ ~Rival(vQueue[i], x),
           vHand' # <<>> => ~Rival(x, vHand[1])
    PROVE  ViInv'
<1>1. /\ Len(vQueue') = Len(vQueue) + 1 /\ Len(vQueue) \in Nat
      /\ vQueue'[1] = x /\ \A i \in 1..Len(vQueue) : vQueue[i] \in Watches
      /\ \A i \in 2..(Len(vQueue) + 1) : i - 1 \in 1..Len(vQueue) /\ vQueue'[i] = vQueue[i - 1]
  BY Prepended DEF ViInv, ReleasesTyped
<1>2. \A i \in 1..Len(vQueue') : i = 1 \/ i \in 2..(Len(vQueue) + 1)
  BY <1>1
<1>3. ASSUME NEW y \in Watches, Leased(y) PROVE Leased(y)'
  <2>2. <<y.stock, y.price>> \in Keys /\ y.until < vLease[<<y.stock, y.price>>]
    BY <1>3 DEF Leased
  <2>3. PICK k \in Keys : k = <<y.stock, y.price>>
    BY <2>2
  <2>4. vLease[k] \in Nat /\ vLease'[k] \in Nat /\ vLease[k] <= vLease'[k] /\ y.until \in Nat
    BY DEF ViInv, ReleasesTyped, Watches
  <2>. QED BY <2>2, <2>3, <2>4 DEF Leased
<1>4. LeaseHeld'
  <2>1. ASSUME NEW i \in 1..Len(vQueue') PROVE Leased(vQueue[i])'
    <3>1. PICK y \in Watches : y = vQueue'[i] /\ Leased(y)'
      <4>1. CASE i = 1
        BY <1>1, <4>1
      <4>2. CASE i # 1
        <5>1. i - 1 \in 1..Len(vQueue) /\ vQueue'[i] = vQueue[i - 1]
          BY <1>1, <1>2, <4>2
        <5>2. vQueue[i - 1] \in Watches /\ Leased(vQueue[i - 1])
          BY <1>1, <5>1 DEF ViInv, LeaseHeld
        <5>. QED BY <1>3, <5>1, <5>2
      <4>. QED BY <4>1, <4>2
    <3>. QED BY <3>1
  <2>2. ASSUME vHand' # <<>> PROVE Leased(vHand[1])'
    <3>1. PICK y \in Watches : y = vHand'[1] /\ Leased(y)'
      BY <1>3, <2>2 DEF ViInv, ReleasesTyped, LeaseHeld
    <3>. QED BY <3>1
  <2>. QED BY <2>1, <2>2 DEF LeaseHeld
<1>5. ASSUME NEW y \in Watches, NEW z \in Watches PROVE Rival(y, z)' <=> Rival(y, z)
  BY DEF Rival
<1>6. ASSUME NEW i \in 1..Len(vQueue'), NEW j \in 1..Len(vQueue'), i # j PROVE ~Rival(vQueue[i], vQueue[j])'
  <2>1. PICK y \in Watches, z \in Watches : y = vQueue'[i] /\ z = vQueue'[j] /\ ~Rival(y, z)
    <3>1. CASE i = 1
      <4>1. j - 1 \in 1..Len(vQueue) /\ vQueue'[j] = vQueue[j - 1] /\ vQueue'[i] = x
        BY <1>1, <1>2, <1>6, <3>1
      <4>. QED BY <1>1, <4>1
    <3>2. CASE j = 1
      <4>1. i - 1 \in 1..Len(vQueue) /\ vQueue'[i] = vQueue[i - 1] /\ vQueue'[j] = x
        BY <1>1, <1>2, <1>6, <3>2
      <4>. QED BY <1>1, <4>1
    <3>3. CASE i # 1 /\ j # 1
      <4>1. /\ i - 1 \in 1..Len(vQueue) /\ vQueue'[i] = vQueue[i - 1]
            /\ j - 1 \in 1..Len(vQueue) /\ vQueue'[j] = vQueue[j - 1] /\ i - 1 # j - 1
        BY <1>1, <1>2, <1>6, <3>3
      <4>. QED BY <1>1, <4>1 DEF ViInv, NoRivals
    <3>. QED BY <3>1, <3>2, <3>3
  <2>. QED BY <1>5, <2>1
<1>7. ASSUME NEW i \in 1..Len(vQueue'), vHand' # <<>> PROVE ~Rival(vQueue[i], vHand[1])'
  <2>1. PICK z \in Watches : z = vHand'[1] /\ z = vHand[1] /\ vHand # <<>>
    BY <1>7 DEF ViInv, ReleasesTyped
  <2>2. PICK y \in Watches : y = vQueue'[i] /\ ~Rival(y, z)
    <3>1. CASE i = 1
      BY <1>1, <1>7, <2>1, <3>1
    <3>2. CASE i # 1
      <4>1. i - 1 \in 1..Len(vQueue) /\ vQueue'[i] = vQueue[i - 1]
        BY <1>1, <1>2, <3>2
      <4>. QED BY <1>1, <2>1, <4>1 DEF ViInv, NoRivals
    <3>. QED BY <3>1, <3>2
  <2>. QED BY <1>5, <2>1, <2>2
<1>8. NoRivals'
  BY <1>6, <1>7 DEF NoRivals
<1>. QED BY <1>4, <1>8 DEF ViInv

\* Steps that take watches out, or carry one from the queue to the hand.
LEMMA TakeKeeps ==
    ASSUME ViInv, ReleasesTyped', UNCHANGED <<vNow, vLease>>,
           \/ vQueue' = vQueue /\ vHand' = <<>>
           \/ vQueue # <<>> /\ vQueue' = SubSeq(vQueue, 1, Len(vQueue) - 1) /\ vHand' = <<vQueue[Len(vQueue)]>>
    PROVE  ViInv'
<1>1. Len(vQueue) \in Nat /\ \A i \in 1..Len(vQueue) : vQueue[i] \in Watches
  BY ElementOfSeq, LenProperties DEF ViInv, ReleasesTyped
<1>2. ASSUME NEW y \in Watches, NEW z \in Watches
      PROVE  (Rival(y, z)' <=> Rival(y, z)) /\ (Leased(y)' <=> Leased(y))
  BY DEF Rival, Leased
<1>3. CASE vQueue' = vQueue /\ vHand' = <<>>
  <2>1. LeaseHeld'
    BY <1>1, <1>3 DEF ViInv, LeaseHeld, Leased
  <2>2. NoRivals'
    BY <1>1, <1>3 DEF ViInv, NoRivals, Rival
  <2>. QED BY <2>1, <2>2 DEF ViInv
<1>4. CASE vQueue # <<>> /\ vQueue' = SubSeq(vQueue, 1, Len(vQueue) - 1) /\ vHand' = <<vQueue[Len(vQueue)]>>
  <2>1. PICK n \in Nat : n = Len(vQueue) /\ n \in 1..n
    BY <1>1, <1>4, EmptySeq DEF ViInv, ReleasesTyped
  <2>2. Len(vQueue') = n - 1 /\ \A i \in 1..(n - 1) : vQueue'[i] = vQueue[i]
    BY <1>1, <1>4, <2>1, SubSeqProperties DEF ViInv, ReleasesTyped
  <2>3. \A i \in 1..(n - 1) : i \in 1..n /\ i # n
    BY <2>1
  <2>4. PICK moved \in Watches : moved = vQueue[n] /\ vHand'[1] = moved /\ Leased(moved)
    BY <1>1, <1>4, <2>1 DEF ViInv, LeaseHeld
  <2>5. LeaseHeld'
    <3>1. ASSUME NEW i \in 1..Len(vQueue') PROVE Leased(vQueue[i])'
      <4>1. PICK y \in Watches : y = vQueue'[i] /\ Leased(y)
        BY <1>1, <2>1, <2>2, <2>3 DEF ViInv, LeaseHeld
      <4>. QED BY <1>2, <4>1
    <3>2. Leased(vHand[1])'
      BY <1>2, <2>4
    <3>. QED BY <3>1, <3>2 DEF LeaseHeld
  <2>6. ASSUME NEW i \in 1..Len(vQueue'), NEW j \in 1..Len(vQueue'), i # j PROVE ~Rival(vQueue[i], vQueue[j])'
    <3>1. PICK y \in Watches, z \in Watches : y = vQueue'[i] /\ z = vQueue'[j] /\ ~Rival(y, z)
      <4>1. /\ i \in 1..Len(vQueue) /\ j \in 1..Len(vQueue)
            /\ vQueue'[i] = vQueue[i] /\ vQueue'[j] = vQueue[j]
        BY <2>1, <2>2, <2>3
      <4>2. ~Rival(vQueue[i], vQueue[j])
        BY <2>6, <4>1 DEF ViInv, NoRivals
      <4>. QED BY <1>1, <4>1, <4>2
    <3>. QED BY <1>2, <3>1
  <2>7. ASSUME NEW i \in 1..Len(vQueue') PROVE ~Rival(vQueue[i], vHand[1])'
    <3>1. PICK y \in Watches : y = vQueue'[i] /\ ~Rival(y, moved)
      <4>1. i \in 1..Len(vQueue) /\ n \in 1..Len(vQueue) /\ i # n /\ vQueue'[i] = vQueue[i]
        BY <2>1, <2>2, <2>3
      <4>2. ~Rival(vQueue[i], vQueue[n])
        BY <4>1 DEF ViInv, NoRivals
      <4>. QED BY <1>1, <2>4, <4>1, <4>2
    <3>. QED BY <1>2, <2>4, <3>1
  <2>8. NoRivals'
    BY <2>6, <2>7 DEF NoRivals
  <2>. QED BY <2>5, <2>8 DEF ViInv
<1>. QED BY <1>3, <1>4

\* The key is of the price without its sign.
LEMMA AbsType == ASSUME V!Configured, NEW p \in VRawPrices PROVE p \in Int /\ V!Abs(p) \in Int
BY DEF V!Configured, V!Abs

\* A release that is queued is alone: its key was free.
LEMMA ReleasedKeeps ==
    ASSUME V!Configured, ViInv, NEW stock \in VStocks, NEW price \in VRawPrices, NEW failure,
           V!Released(stock, price, failure)
    PROVE  ViInv'
<1>. DEFINE key == <<stock, V!Abs(price)>>
            taken == vOpen /\ failure # "insert" /\ V!Free(key)
            x == V!Watch(stock, V!Abs(price))
<1>1. /\ vVi' = [vVi EXCEPT ![stock] = V!Recorded(stock, price, "released")]
      /\ vLease' = IF taken THEN V!Taken(key) ELSE vLease
      /\ vQueue' = IF taken /\ failure # "push" THEN <<x>> \o vQueue ELSE vQueue
      /\ UNCHANGED <<vNow, vOpen, vHand, vSignalled>>
  BY DEF V!Released, V!QueueRelease
<1>2. /\ x \in Watches /\ x.stock = stock /\ x.price = V!Abs(price) /\ x.until = vNow + VWatchFor
      /\ vNow \in Nat /\ VWatchFor \in Nat /\ VReleaseLease \in Nat /\ VWatchFor < VReleaseLease
      /\ key \in Keys
  BY AbsType DEF V!Watch, Watches, Keys, V!Configured, ViInv, ReleasesTyped
<1>3. vVi' \in [VStocks -> [price : VRawPrices \cup {0}, status : {V!NoStatus, "active", "released"},
                          releasedAt : Nat]]
  BY <1>1, <1>2 DEF V!Recorded, ViInv, ReleasesTyped
<1>4. vLease' \in [Keys -> Nat] /\ \A k \in Keys : vLease[k] \in Nat
  BY <1>1, <1>2 DEF V!Taken, ViInv, ReleasesTyped
<1>5. vQueue' \in Seq(Watches)
  BY <1>1, <1>2, Prepended DEF ViInv, ReleasesTyped
<1>6. ReleasesTyped'
  BY <1>1, <1>3, <1>4, <1>5 DEF ViInv, ReleasesTyped
<1>7. \A k \in Keys : vLease'[k] \in Nat /\ vLease[k] <= vLease'[k]
  <2>1. CASE taken
    <3>1. vLease[key] <= vNow
      BY <2>1 DEF V!Free
    <3>2. \A k \in Keys : vLease'[k] = IF k = key THEN vNow + VReleaseLease ELSE vLease[k]
      BY <1>1, <1>2, <2>1 DEF V!Taken, ViInv, ReleasesTyped
    <3>. HIDE DEF key
    <3>. QED BY <1>2, <1>4, <3>1, <3>2
  <2>2. CASE ~taken
    <3>1. vLease' = vLease
      BY <1>1, <2>2
    <3>. QED BY <1>4, <3>1
  <2>. QED BY <2>1, <2>2
<1>8. CASE taken /\ failure # "push"
  <2>1. vQueue' = <<x>> \o vQueue /\ V!Free(key) /\ vLease'[key] = vNow + VReleaseLease
    BY <1>1, <1>2, <1>8 DEF V!Taken, ViInv, ReleasesTyped
  <2>2. <<x.stock, x.price>> = key
    BY <1>2
  <2>. HIDE DEF x, key
  <2>3. PICK y \in Watches : y = x
    BY <1>2
  <2>4. <<y.stock, y.price>> = key /\ y.until = vNow + VWatchFor
    BY <1>2, <2>2, <2>3
  <2>5. PICK k \in Keys : k = <<y.stock, y.price>> /\ k = key
    BY <1>2, <2>4
  <2>6. y.until < vLease'[k]
    <3>1. vLease'[k] = vNow + VReleaseLease
      BY <2>1, <2>5
    <3>. QED BY <1>2, <2>4, <3>1
  <2>7. Leased(y)'
    BY <2>5, <2>6 DEF Leased
  <2>8. /\ \A i \in 1..Len(vQueue) : ~Rival(y, vQueue[i]) /\ ~Rival(vQueue[i], y)
        /\ vHand # <<>> => ~Rival(y, vHand[1]) /\ ~Rival(vHand[1], y)
    BY <1>2, <2>1, <2>4, FreeMeansAlone
  <2>9. vNow' = vNow /\ vHand' = vHand /\ vQueue' = <<y>> \o vQueue
    BY <1>1, <2>1, <2>3
  <2>10. vHand' # <<>> => ~Rival(y, vHand[1])
    BY <2>8, <2>9
  <2>. QED BY <1>6, <1>7, <2>7, <2>8, <2>9, <2>10, PushKeeps
<1>9. CASE ~(taken /\ failure # "push")
  <2>1. vQueue' = vQueue
    BY <1>1, <1>9
  <2>2. \A y \in Watches : Leased(y) => Leased(y)'
    <3>1. ASSUME NEW y \in Watches, Leased(y)
          PROVE  <<y.stock, y.price>> \in Keys /\ y.until < vLease'[<<y.stock, y.price>>]
      <4>1. PICK k \in Keys : k = <<y.stock, y.price>> /\ y.until < vLease[k]
        BY <3>1 DEF Leased
      <4>2. y.until \in Nat /\ vLease[k] \in Nat /\ vLease'[k] \in Nat /\ vLease[k] <= vLease'[k]
        BY <1>4, <1>7 DEF Watches
      <4>. QED BY <4>1, <4>2
    <3>. QED BY <3>1 DEF Leased
  <2>3. /\ \A i \in 1..Len(vQueue) : vQueue[i] \in Watches
        /\ vHand # <<>> => vHand[1] \in Watches
    BY ElementOfSeq DEF ViInv, ReleasesTyped
  <2>4. LeaseHeld'
    <3>1. ASSUME NEW i \in 1..Len(vQueue') PROVE Leased(vQueue[i])'
      <4>1. PICK y \in Watches : y = vQueue'[i] /\ Leased(y)'
        BY <2>1, <2>2, <2>3 DEF ViInv, LeaseHeld
      <4>. QED BY <4>1
    <3>2. ASSUME vHand' # <<>> PROVE Leased(vHand[1])'
      <4>1. PICK y \in Watches : y = vHand'[1] /\ Leased(y)'
        BY <1>1, <2>2, <2>3, <3>2 DEF ViInv, LeaseHeld
      <4>. QED BY <4>1
    <3>. QED BY <3>1, <3>2 DEF LeaseHeld
  <2>5. NoRivals'
    BY <1>1, <2>1 DEF ViInv, NoRivals, Rival
  <2>. QED BY <1>6, <2>4, <2>5 DEF ViInv
<1>. QED BY <1>8, <1>9

\* What the worker queues again it held: nothing else of that release is waiting.
LEMMA CheckKeeps ==
    ASSUME V!Configured, ViInv, NEW outcome, V!Check(outcome)
    PROVE  ViInv'
<1>1. PICK item \in Watches : vHand = <<item>> /\ vHand[1] = item
  BY DEF V!Check, ViInv, ReleasesTyped
<1>4. /\ vHand' = <<>> /\ UNCHANGED <<vNow, vOpen, vVi, vLease>>
      /\ vQueue' = <<item>> \o vQueue \/ vQueue' = vQueue
  BY <1>1 DEF V!Check
<1>5. vQueue' \in Seq(Watches)
  BY <1>4, Prepended DEF ViInv, ReleasesTyped
<1>6. ReleasesTyped'
  BY <1>4, <1>5 DEF ViInv, ReleasesTyped
<1>7. CASE vQueue' = vQueue
  BY <1>4, <1>6, <1>7, TakeKeeps
<1>8. CASE vQueue' = <<item>> \o vQueue
  <2>1. \A key \in Keys : vLease'[key] \in Nat /\ vLease[key] <= vLease'[key]
    BY <1>4 DEF ViInv, ReleasesTyped
  <2>2. Leased(item)'
    BY <1>1, <1>4 DEF ViInv, LeaseHeld, Leased
  <2>3. \A i \in 1..Len(vQueue) : ~Rival(item, vQueue[i]) /\ ~Rival(vQueue[i], item)
    BY <1>1 DEF ViInv, NoRivals, Rival
  <2>. QED BY <1>4, <1>6, <1>8, <2>1, <2>2, <2>3, PushKeeps
<1>. QED BY <1>4, <1>7, <1>8

\* What the supplement restores is of different stocks.
LEMMA SupplementKeeps ==
    ASSUME V!Configured, ViInv, NEW pool \in SUBSET VStocks, NEW failed, V!Supplement(pool, failed)
    PROVE  ViInv'
<1>. DEFINE found == {stock \in pool : V!Missed(stock)}
            pushed == found \ failed
<1>1. PICK order \in [1..Cardinality(pushed) -> pushed] :
          /\ \A i, j \in DOMAIN order : order[i] = order[j] => i = j
          /\ vQueue' = [i \in DOMAIN order |-> V!Watch(order[i], vVi[order[i]].price)]
  BY SameCount DEF V!Supplement
<1>2. /\ vHand = <<>> /\ UNCHANGED <<vNow, vOpen, vVi, vHand, vSignalled>>
      /\ vLease' = [key \in DOMAIN vLease |->
             IF \E stock \in found : key = <<stock, vVi[stock].price>> THEN vNow + VReleaseLease
             ELSE vLease[key]]
  BY DEF V!Supplement
<1>3. pushed \subseteq found /\ pushed \subseteq VStocks /\ IsFiniteSet(VStocks)
  BY SameCount DEF V!Configured
<1>13. \A stock \in found : vVi[stock].price \in VRawPrices
  BY DEF V!Missed, ViInv, ReleasesTyped
<1>. HIDE DEF found, pushed
<1>4. PICK n \in Nat : n = Cardinality(pushed)
  BY <1>3, FS_Subset, FS_CardinalityType
<1>5. /\ DOMAIN order = 1..n
      /\ \A i \in 1..n : order[i] \in found /\ order[i] \in VStocks /\ vVi[order[i]].price \in VRawPrices
  BY <1>1, <1>3, <1>4, <1>13
<1>6. /\ vNow \in Nat /\ VWatchFor \in Nat /\ VReleaseLease \in Nat /\ VWatchFor < VReleaseLease
      /\ VRawPrices \subseteq Int /\ vLease \in [Keys -> Nat]
      /\ \A stock \in VStocks : vVi[stock].price \in VRawPrices \cup {0}
  BY DEF V!Configured, ViInv, ReleasesTyped
<1>7. ASSUME NEW i \in 1..n
      PROVE  /\ vQueue'[i] \in Watches /\ vQueue'[i].stock = order[i]
             /\ vQueue'[i].price = vVi[order[i]].price /\ vQueue'[i].until = vNow + VWatchFor
  <2>1. order[i] \in VStocks /\ vVi[order[i]].price \in Int /\ vNow + VWatchFor \in Nat
    <3>1. order[i] \in VStocks
      BY <1>5
    <3>2. vVi[order[i]].price \in VRawPrices \cup {0}
      BY <1>6, <3>1
    <3>3. VRawPrices \subseteq Int /\ 0 \in Int
      BY <1>6
    <3>5. vVi[order[i]].price \in Int
      BY <3>2, <3>3
    <3>4. vNow + VWatchFor \in Nat
      BY <1>6
    <3>. QED BY <3>1, <3>4, <3>5
  <2>2. vQueue'[i] = [stock |-> order[i], price |-> vVi[order[i]].price, until |-> vNow + VWatchFor]
    BY <1>1, <1>5 DEF V!Watch
  <2>. QED BY <2>1, <2>2 DEF Watches
<1>8. vQueue' \in Seq(Watches) /\ Len(vQueue') = n
  <2>1. vQueue' = [i \in 1..n |-> V!Watch(order[i], vVi[order[i]].price)]
    BY <1>1, <1>5
  <2>2. \A i \in 1..n : V!Watch(order[i], vVi[order[i]].price) \in Watches
    <3>1. ASSUME NEW i \in 1..n PROVE V!Watch(order[i], vVi[order[i]].price) \in Watches
      <4>1. vQueue'[i] = V!Watch(order[i], vVi[order[i]].price)
        BY <2>1
      <4>. QED BY <1>7, <4>1
    <3>. QED BY <3>1
  <2>. QED BY <2>1, <2>2
<1>9. vLease' \in [Keys -> Nat]
  BY <1>2, <1>6
<1>10. ReleasesTyped'
  BY <1>2, <1>8, <1>9 DEF ViInv, ReleasesTyped
<1>11. LeaseHeld'
  <2>1. ASSUME NEW i \in 1..n PROVE Leased(vQueue[i])'
    <3>1. PICK x \in Watches : /\ x = vQueue'[i] /\ x.stock = order[i] /\ x.price = vVi[order[i]].price
                               /\ x.until = vNow + VWatchFor
      BY <1>7
    <3>2. <<x.stock, x.price>> \in Keys
      BY <1>5, <3>1 DEF Keys
    <3>3. vLease'[<<x.stock, x.price>>] = vNow + VReleaseLease
      BY <1>2, <1>5, <1>6, <3>1, <3>2
    <3>4. Leased(x)'
      BY <1>6, <3>1, <3>2, <3>3 DEF Leased
    <3>. QED BY <3>1, <3>4
  <2>. QED BY <1>2, <1>8, <2>1 DEF LeaseHeld
<1>12. NoRivals'
  <2>1. ASSUME NEW i \in 1..n, NEW j \in 1..n, i # j PROVE ~Rival(vQueue[i], vQueue[j])'
    <3>1. vQueue'[i].stock # vQueue'[j].stock
      BY <1>1, <1>5, <1>7, <2>1
    <3>. QED BY <3>1 DEF Rival
  <2>. QED BY <1>2, <1>8, <2>1 DEF NoRivals
<1>. QED BY <1>10, <1>11, <1>12 DEF ViInv

\* The invariant holds at the start, every step keeps it, and it implies the property.
LEMMA ViNext == V!Configured /\ ViInv /\ [V!Next]_(V!vars) => ViInv'
<1>. SUFFICES ASSUME V!Configured, ViInv, [V!Next]_(V!vars) PROVE ViInv'
  OBVIOUS
<1>1. CASE \E stock \in VStocks, price \in VRawPrices : V!Triggered(stock, price)
  <2>1. PICK stock \in VStocks, price \in VRawPrices : V!Triggered(stock, price)
    BY <1>1
  <2>2. ReleasesTyped'
    BY <2>1 DEF V!Triggered, V!Recorded, ViInv, ReleasesTyped
  <2>. QED BY <2>1, <2>2, QuietVi DEF V!Triggered, ViInv, ReleasesTyped
<1>2. CASE \E stock \in VStocks, price \in VRawPrices, failure \in {"none", "insert", "push"} :
              V!Released(stock, price, failure)
  BY <1>2, ReleasedKeeps
<1>3. CASE V!Pop
  <2>1. vQueue # <<>> /\ vHand' = <<vQueue[Len(vQueue)]>> /\ vQueue' = SubSeq(vQueue, 1, Len(vQueue) - 1)
    BY <1>3 DEF V!Pop
  <2>2. vQueue \in Seq(Watches)
    BY DEF ViInv, ReleasesTyped
  <2>3. vQueue' \in Seq(Watches) /\ vQueue[Len(vQueue)] \in Watches
    <3>1. Len(vQueue) \in Nat /\ Len(vQueue) >= 1 /\ Len(vQueue) \in 1..Len(vQueue)
      BY <2>1, <2>2, EmptySeq, LenProperties
    <3>. QED BY <2>1, <2>2, <3>1, SubSeqProperties, ElementOfSeq
  <2>4. ReleasesTyped'
    BY <1>3, <2>1, <2>3 DEF V!Pop, ViInv, ReleasesTyped
  <2>. QED BY <1>3, <2>1, <2>4, TakeKeeps DEF V!Pop
<1>4. CASE \E outcome : V!Check(outcome)
  BY <1>4, CheckKeeps
<1>5. CASE V!Lose
  <2>1. ReleasesTyped'
    BY <1>5 DEF V!Lose, ViInv, ReleasesTyped
  <2>. QED BY <1>5, <2>1, TakeKeeps DEF V!Lose
<1>6. CASE \E pool \in SUBSET VStocks : \E failed : V!Supplement(pool, failed)
  BY <1>6, SupplementKeeps
<1>7. CASE V!CloseWindow \/ V!Tick \/ UNCHANGED V!vars
  <2>1. /\ UNCHANGED <<vVi, vLease, vQueue, vHand>>
        /\ vNow' \in {vNow, vNow + 1} /\ vOpen' \in {vOpen, FALSE}
    BY <1>7 DEF V!CloseWindow, V!Tick, V!vars
  <2>2. vNow \in Nat /\ vNow' \in Nat /\ vNow <= vNow'
    BY <2>1 DEF ViInv, ReleasesTyped
  <2>3. ReleasesTyped'
    BY <2>1, <2>2 DEF ViInv, ReleasesTyped
  <2>. QED BY <2>1, <2>2, <2>3, QuietVi
<1>. QED BY <1>1, <1>2, <1>3, <1>4, <1>5, <1>6, <1>7 DEF V!Next

LEMMA ViInit == V!Configured /\ V!Init => ViInv
<1>. SUFFICES ASSUME V!Configured, V!Init PROVE ViInv
  OBVIOUS
<1>1. <<>> \in Seq(Watches) /\ Len(<<>>) = 0 /\ 1..0 = {}
  OBVIOUS
<1>2. ReleasesTyped
  BY <1>1 DEF V!Init, ReleasesTyped, V!Unseen, Keys
<1>3. LeaseHeld /\ NoRivals
  BY <1>1 DEF V!Init, LeaseHeld, NoRivals
<1>. QED BY <1>2, <1>3 DEF ViInv

LEMMA ViFollows == V!Configured /\ ViInv => V!OneWatchPerRelease
<1>. SUFFICES ASSUME V!Configured, ViInv PROVE V!OneWatchPerRelease
  OBVIOUS
<1>1. /\ Len(vQueue) \in Nat /\ DOMAIN vQueue = 1..Len(vQueue)
      /\ \A i \in 1..Len(vQueue) : vQueue[i] \in Watches
  BY ElementOfSeq, LenProperties DEF ViInv, ReleasesTyped
<1>2. ASSUME NEW item PROVE V!Places(item) <= 1
  <2>. DEFINE Same(x) == x.stock = item.stock /\ x.price = item.price /\ vNow <= x.until
              J == {i \in DOMAIN vQueue : Same(vQueue[i])}
              I == {i \in DOMAIN vHand : Same(vHand[i])}
  <2>1. V!Places(item) = Cardinality(J) + Cardinality(I)
    BY SameCount DEF V!Places
  <2>2. \A i, j \in J : i = j
    BY <1>1 DEF ViInv, NoRivals, Rival
  <2>3. J = {} \/ \E i : J = {i}
    BY <2>2
  <2>4. vHand = <<>> \/ DOMAIN vHand = {1}
    BY DEF ViInv, ReleasesTyped
  <2>5. I = {} \/ (I = {1} /\ vHand # <<>> /\ Same(vHand[1]))
    BY <2>4
  <2>6. I # {} => J = {}
    BY <1>1, <2>5 DEF ViInv, NoRivals, Rival
  <2>. HIDE DEF J, I
  <2>7. Cardinality(J) \in {0, 1} /\ (J = {} => Cardinality(J) = 0)
    BY <2>3, FS_EmptySet, FS_Singleton
  <2>8. Cardinality(I) \in {0, 1} /\ (I = {} => Cardinality(I) = 0)
    BY <2>5, FS_EmptySet, FS_Singleton
  <2>. QED BY <2>1, <2>6, <2>7, <2>8
<1>. QED BY <1>2 DEF V!OneWatchPerRelease

\* ViWatch alone: under its key a release is watched once at a time.
LEMMA ViAlone == ASSUME V!Configured PROVE V!Spec => []V!OneWatchPerRelease
<1>1. V!Init => ViInv
  BY ViInit
<1>2. ViInv /\ [V!Next]_(V!vars) => ViInv'
  BY ViNext
<1>3. ViInv => V!OneWatchPerRelease
  BY ViFollows
<1>. QED BY <1>1, <1>2, <1>3, PTL DEF V!Spec

----------------------------------------------------------------------------
(* Accumulation: a trigger comes after days of observation.                *)

Triggers == [stock : CStocks, at : Nat, kept : BOOLEAN]

WatchesTyped ==
    /\ cNow \in Nat
    /\ cWatch \in [CStocks -> [state : {C!NoState, "REJECTED", "TRIGGERED"}, first : Nat, until : Nat]]
    /\ cTriggered \in [CStocks -> [day : Int, until : Nat]]
    /\ cQueue \in Seq(Triggers)
    /\ cScan \in [pc : {"idle", "evaluate", "push"}, todo : SUBSET CStocks,
                 popped : Seq(Triggers), code : Seq(Triggers)]
    /\ cHanded \subseteq [stock : CStocks, at : Nat, on : Nat]
    /\ cSeen \subseteq CStocks \X Nat

\* The triggers on their way to the scanner, and those it has.
Pairs(triggers) == {<<triggers[i].stock, triggers[i].at>> : i \in DOMAIN triggers}
Found == Pairs(cScan.code) \cup Pairs(cQueue) \cup Pairs(cScan.popped) \cup {<<h.stock, h.at>> : h \in cHanded}

\* A watch began on a day on which the stock was evaluated.
WatchInv == \A stock \in CStocks :
    cWatch[stock].state # C!NoState => <<stock, C!Day(cWatch[stock].first)>> \in cSeen

\* The stock was evaluated on a day that is early enough.
Observed(stock, at) == \E d \in 0..(C!Day(at) - CMinObserveDays + 1) : <<stock, d>> \in cSeen

\* The key of a stock is as late as its last trigger, and lasts as long as that blocks others.
Keyed(stock, at) ==
    /\ C!Day(at) <= cTriggered[stock].day
    /\ C!Day(at) = cTriggered[stock].day => at + CTriggerTtl <= cTriggered[stock].until

\* Wherever a trigger is, it came after observation and under its key.
FoundInv == \A p \in Found :
    p[1] \in CStocks /\ p[2] \in Nat /\ p[2] <= cNow /\ Observed(p[1], p[2]) /\ Keyed(p[1], p[2])

KeyInv == \A stock \in CStocks : cTriggered[stock].day <= C!Day(cNow)

\* Two triggers of a stock and a day, wherever they are, lie a lease apart.
SpacedInv == \A p, q \in Found :
    p[1] = q[1] /\ p[2] < q[2] /\ C!Day(p[2]) = C!Day(q[2]) => q[2] - p[2] >= CTriggerTtl

AccInv == WatchesTyped /\ WatchInv /\ FoundInv /\ KeyInv /\ SpacedInv

\* The calendar goes forward.
LEMMA DayGrows ==
    ASSUME C!Configured
    PROVE  /\ \A t \in Nat : C!Day(t) \in Nat
           /\ \A t \in Nat : C!Day(t) <= C!Day(t + 1)
<1>1. ASSUME NEW t \in Nat PROVE C!Day(t) \in Nat
  BY DEF C!Day, C!Configured
<1>2. ASSUME NEW t \in Nat PROVE C!Day(t) <= C!Day(t + 1)
  BY DEF C!Day, C!Configured
<1>. QED BY <1>1, <1>2

\* What is in a sequence of triggers is found in it.
LEMMA PairsOf ==
    /\ Pairs(<<>>) = {}
    /\ \A s, t \in Seq(Triggers) : Pairs(s \o t) = Pairs(s) \cup Pairs(t)
    /\ \A s \in Seq(Triggers) : s # <<>> =>
          /\ s[Len(s)] \in Triggers /\ <<s[Len(s)].stock, s[Len(s)].at>> \in Pairs(s)
          /\ SubSeq(s, 1, Len(s) - 1) \in Seq(Triggers)
          /\ Pairs(SubSeq(s, 1, Len(s) - 1)) \subseteq Pairs(s)
    /\ \A s \in Seq(Triggers), x \in Triggers :
          Append(s, x) \in Seq(Triggers) /\ Pairs(Append(s, x)) = Pairs(s) \cup {<<x.stock, x.at>>}
<1>1. Pairs(<<>>) = {}
  BY DEF Pairs
<1>2. ASSUME NEW s \in Seq(Triggers), NEW t \in Seq(Triggers) PROVE Pairs(s \o t) = Pairs(s) \cup Pairs(t)
  <2>1. /\ Len(s) \in Nat /\ Len(t) \in Nat /\ DOMAIN (s \o t) = 1..(Len(s) + Len(t))
        /\ DOMAIN s = 1..Len(s) /\ DOMAIN t = 1..Len(t)
        /\ \A i \in 1..(Len(s) + Len(t)) : (s \o t)[i] = IF i <= Len(s) THEN s[i] ELSE t[i - Len(s)]
    BY ConcatProperties, LenProperties
  <2>2. \A i \in 1..Len(s) : i \in 1..(Len(s) + Len(t)) /\ (s \o t)[i] = s[i]
    BY <2>1
  <2>3. \A i \in 1..Len(t) : i + Len(s) \in 1..(Len(s) + Len(t)) /\ (s \o t)[i + Len(s)] = t[i]
    BY <2>1
  <2>4. \A i \in 1..(Len(s) + Len(t)) : i \in 1..Len(s) \/ i - Len(s) \in 1..Len(t)
    BY <2>1
  <2>5. Pairs(s \o t) \subseteq Pairs(s) \cup Pairs(t)
    BY <2>1, <2>4 DEF Pairs
  <2>6. Pairs(s) \subseteq Pairs(s \o t)
    BY <2>1, <2>2 DEF Pairs
  <2>7. Pairs(t) \subseteq Pairs(s \o t)
    BY <2>1, <2>3 DEF Pairs
  <2>. QED BY <2>5, <2>6, <2>7
<1>3. ASSUME NEW s \in Seq(Triggers), s # <<>>
      PROVE  /\ s[Len(s)] \in Triggers /\ <<s[Len(s)].stock, s[Len(s)].at>> \in Pairs(s)
             /\ SubSeq(s, 1, Len(s) - 1) \in Seq(Triggers)
             /\ Pairs(SubSeq(s, 1, Len(s) - 1)) \subseteq Pairs(s)
  <2>1. /\ Len(s) \in Nat /\ Len(s) >= 1 /\ DOMAIN s = 1..Len(s) /\ Len(s) \in DOMAIN s
        /\ s[Len(s)] \in Triggers
    BY <1>3, EmptySeq, LenProperties, ElementOfSeq
  <2>2. /\ SubSeq(s, 1, Len(s) - 1) \in Seq(Triggers)
        /\ DOMAIN SubSeq(s, 1, Len(s) - 1) = 1..(Len(s) - 1)
        /\ \A i \in 1..(Len(s) - 1) : SubSeq(s, 1, Len(s) - 1)[i] = s[i]
    BY <2>1, SubSeqProperties
  <2>3. \A i \in 1..(Len(s) - 1) : i \in 1..Len(s)
    BY <2>1
  <2>. QED BY <2>1, <2>2, <2>3 DEF Pairs
<1>4. ASSUME NEW s \in Seq(Triggers), NEW x \in Triggers
      PROVE  Append(s, x) \in Seq(Triggers) /\ Pairs(Append(s, x)) = Pairs(s) \cup {<<x.stock, x.at>>}
  <2>1. /\ Append(s, x) \in Seq(Triggers) /\ Len(s) \in Nat
        /\ DOMAIN s = 1..Len(s) /\ DOMAIN Append(s, x) = 1..(Len(s) + 1)
        /\ Append(s, x)[Len(s) + 1] = x /\ \A i \in 1..Len(s) : Append(s, x)[i] = s[i]
    BY AppendProperties, LenProperties
  <2>2. 1..(Len(s) + 1) = 1..Len(s) \cup {Len(s) + 1}
    BY <2>1
  <2>. QED BY <2>1, <2>2 DEF Pairs
<1>. QED BY <1>1, <1>2, <1>3, <1>4

\* Steps that find no new trigger and take no key.
LEMMA NothingNew ==
    ASSUME C!Configured, AccInv, WatchesTyped', Found' \subseteq Found, cSeen \subseteq cSeen',
           UNCHANGED <<cWatch, cTriggered>>, cNow' = cNow \/ cNow' = cNow + 1
    PROVE  AccInv'
<1>1. /\ cNow \in Nat /\ cNow <= cNow'
      /\ C!Day(cNow) <= C!Day(cNow') /\ C!Day(cNow) \in Nat /\ C!Day(cNow') \in Nat
  <2>1. /\ cNow \in Nat /\ cNow + 1 \in Nat /\ C!Day(cNow) \in Nat /\ C!Day(cNow + 1) \in Nat
        /\ C!Day(cNow) <= C!Day(cNow + 1)
    <3>1. cNow \in Nat
      BY DEF AccInv, WatchesTyped
    <3>2. cNow + 1 \in Nat
      BY <3>1
    <3>. QED BY <3>1, <3>2, DayGrows
  <2>2. CASE cNow' = cNow
    BY <2>1, <2>2
  <2>3. CASE cNow' = cNow + 1
    BY <2>1, <2>3
  <2>. QED BY <2>2, <2>3
<1>2. WatchInv'
  BY DEF AccInv, WatchInv
<1>3. FoundInv'
  <2>1. ASSUME NEW p \in Found'
        PROVE  p[1] \in CStocks /\ p[2] \in Nat /\ p[2] <= cNow' /\ Observed(p[1], p[2])' /\ Keyed(p[1], p[2])'
    <3>1. p[1] \in CStocks /\ p[2] \in Nat /\ p[2] <= cNow /\ Observed(p[1], p[2]) /\ Keyed(p[1], p[2])
      BY <2>1 DEF AccInv, FoundInv
    <3>2. Keyed(p[1], p[2])'
      BY <3>1 DEF Keyed
    <3>3. Observed(p[1], p[2])'
      BY <3>1 DEF Observed
    <3>. QED BY <1>1, <3>1, <3>2, <3>3
  <2>. QED BY <2>1 DEF FoundInv
<1>4. KeyInv'
  <2>1. \A stock \in CStocks : cTriggered[stock].day \in Int
    BY DEF AccInv, WatchesTyped
  <2>. QED BY <1>1, <2>1 DEF AccInv, KeyInv
<1>5. SpacedInv'
  BY DEF AccInv, SpacedInv
<1>. QED BY <1>2, <1>3, <1>4, <1>5 DEF AccInv

\* An evaluation finds a trigger only when the stock is observed and its key is free.
LEMMA EvaluateKeeps ==
    ASSUME C!Configured, AccInv, NEW stock \in CStocks, NEW state \in {"REJECTED", "TRIGGERED"},
           C!Evaluate(stock, state)
    PROVE  AccInv'
<1>. DEFINE first == C!FirstSeen(stock)
            fresh == state = "TRIGGERED" /\ C!ObservedDays(first) >= CMinObserveDays /\ C!KeyFree(stock)
            new   == [stock |-> stock, at |-> cNow, kept |-> TRUE]
<1>1. /\ cNow \in Nat /\ cNow' = cNow /\ C!Day(cNow) \in Nat
      /\ cWatch' = [cWatch EXCEPT ![stock] = [state |-> state, first |-> first, until |-> cNow + CWatchTtl]]
      /\ cTriggered' = IF fresh
                       THEN [cTriggered EXCEPT ![stock] = [day |-> C!Day(cNow), until |-> cNow + CTriggerTtl]]
                      ELSE cTriggered
      /\ cScan' = [cScan EXCEPT !.todo = @ \ {stock}, !.code = IF fresh THEN <<new>> ELSE <<>>,
                              !.pc = IF fresh THEN "push" ELSE "evaluate"]
      /\ cSeen' = cSeen \cup {<<stock, C!Day(cNow)>>}
      /\ UNCHANGED <<cQueue, cHanded>>
  BY DayGrows DEF C!Evaluate, AccInv, WatchesTyped
<1>2. /\ first \in Nat /\ C!Day(first) \in Nat /\ <<stock, C!Day(first)>> \in cSeen'
  BY <1>1, DayGrows DEF C!FirstSeen, AccInv, WatchesTyped, WatchInv
<1>3. fresh => C!Day(first) <= C!Day(cNow) - CMinObserveDays + 1
  BY <1>1, <1>2 DEF C!ObservedDays, C!Configured
<1>4. fresh => cTriggered[stock].day # C!Day(cNow) \/ cTriggered[stock].until <= cNow
  BY DEF C!KeyFree
<1>. HIDE DEF first, fresh
<1>5. /\ CWatchTtl \in Nat /\ CTriggerTtl \in Nat /\ CMinObserveDays \in Nat
  BY DEF C!Configured
<1>6. PICK code \in Seq(Triggers) : /\ code = IF fresh THEN <<new>> ELSE <<>>
                                    /\ Pairs(code) = IF fresh THEN {<<stock, cNow>>} ELSE {}
  <2>1. new \in Triggers /\ new.stock = stock /\ new.at = cNow
    BY <1>1 DEF Triggers
  <2>. HIDE DEF new
  <2>2. <<new>> = Append(<<>>, new) /\ <<>> \in Seq(Triggers) /\ Pairs(<<>>) = {}
    BY PairsOf
  <2>3. /\ Append(<<>>, new) \in Seq(Triggers)
        /\ Pairs(Append(<<>>, new)) = Pairs(<<>>) \cup {<<new.stock, new.at>>}
    <3>1. \A s \in Seq(Triggers), x \in Triggers :
             Append(s, x) \in Seq(Triggers) /\ Pairs(Append(s, x)) = Pairs(s) \cup {<<x.stock, x.at>>}
      BY PairsOf
    <3>2. <<>> \in Seq(Triggers)
      BY <2>2
    <3>. HIDE DEF Pairs
    <3>. QED BY <2>1, <3>1, <3>2
  <2>4. <<new>> \in Seq(Triggers) /\ Pairs(<<new>>) = {<<stock, cNow>>}
    BY <2>1, <2>2, <2>3
  <2>5. CASE fresh
    BY <2>4, <2>5
  <2>6. CASE ~fresh
    BY <2>2, <2>6
  <2>. QED BY <2>5, <2>6
<1>. HIDE DEF new
<1>7. PICK pc \in {"push", "evaluate"} : pc = IF fresh THEN "push" ELSE "evaluate"
  OBVIOUS
<1>8. cScan' = [cScan EXCEPT !.todo = @ \ {stock}, !.code = code, !.pc = pc]
  BY <1>1, <1>6, <1>7
<1>9. WatchesTyped'
  <2>1. cWatch' \in [CStocks -> [state : {C!NoState, "REJECTED", "TRIGGERED"}, first : Nat, until : Nat]]
    <3>1. cNow + CWatchTtl \in Nat
      BY <1>1, <1>5
    <3>2. [state |-> state, first |-> first, until |-> cNow + CWatchTtl]
            \in [state : {C!NoState, "REJECTED", "TRIGGERED"}, first : Nat, until : Nat]
      BY <1>2, <3>1
    <3>. QED BY <1>1, <3>2 DEF AccInv, WatchesTyped
  <2>2. cTriggered' \in [CStocks -> [day : Int, until : Nat]]
    <3>1. cTriggered \in [CStocks -> [day : Int, until : Nat]]
      BY DEF AccInv, WatchesTyped
    <3>2. [day |-> C!Day(cNow), until |-> cNow + CTriggerTtl] \in [day : Int, until : Nat]
      BY <1>1, <1>5
    <3>3. CASE fresh
      <4>1. cTriggered' = [cTriggered EXCEPT ![stock] = [day |-> C!Day(cNow), until |-> cNow + CTriggerTtl]]
        BY <1>1, <3>3
      <4>. QED BY <3>1, <3>2, <4>1
    <3>4. CASE ~fresh
      BY <1>1, <3>1, <3>4
    <3>. QED BY <3>3, <3>4
  <2>3. cScan' \in [pc : {"idle", "evaluate", "push"}, todo : SUBSET CStocks,
                   popped : Seq(Triggers), code : Seq(Triggers)]
    <3>1. cScan \in [pc : {"idle", "evaluate", "push"}, todo : SUBSET CStocks,
                     popped : Seq(Triggers), code : Seq(Triggers)]
      BY DEF AccInv, WatchesTyped
    <3>2. cScan.todo \ {stock} \in SUBSET CStocks
      BY <3>1
    <3>3. cScan' = [pc |-> pc, todo |-> cScan.todo \ {stock}, popped |-> cScan.popped, code |-> code]
      BY <1>8, <3>1
    <3>4. cScan.popped \in Seq(Triggers)
      BY <3>1
    <3>. QED BY <3>2, <3>3, <3>4
  <2>4. cSeen' \subseteq CStocks \X Nat
    BY <1>1 DEF AccInv, WatchesTyped
  <2>5. cNow' \in Nat /\ cQueue' \in Seq(Triggers) /\ cHanded' \subseteq [stock : CStocks, at : Nat, on : Nat]
    BY <1>1 DEF AccInv, WatchesTyped
  <2>. QED BY <2>1, <2>2, <2>3, <2>4, <2>5 DEF WatchesTyped
<1>10. Found' \subseteq Found \cup (IF fresh THEN {<<stock, cNow>>} ELSE {})
  <2>1. cScan'.code = code /\ cScan'.popped = cScan.popped
    BY <1>8 DEF AccInv, WatchesTyped
  <2>. QED BY <1>1, <1>6, <2>1 DEF Found
<1>11. WatchInv'
  <2>1. ASSUME NEW other \in CStocks, cWatch'[other].state # C!NoState
        PROVE  <<other, C!Day(cWatch'[other].first)>> \in cSeen'
    <3>1. CASE other = stock
      <4>1. cWatch'[other].first = first
        BY <1>1, <3>1 DEF AccInv, WatchesTyped
      <4>. QED BY <1>2, <3>1, <4>1
    <3>2. CASE other # stock
      <4>1. cWatch'[other] = cWatch[other]
        BY <1>1, <3>2 DEF AccInv, WatchesTyped
      <4>. QED BY <1>1, <2>1, <4>1 DEF AccInv, WatchInv
    <3>. QED BY <3>1, <3>2
  <2>. QED BY <2>1 DEF WatchInv
<1>12. \A other \in CStocks : /\ cTriggered[other].day \in Int /\ cTriggered[other].until \in Nat
                             /\ cTriggered[other].day <= C!Day(cNow)
  BY DEF AccInv, WatchesTyped, KeyInv
<1>13. \A other \in CStocks : cTriggered'[other] = IF fresh /\ other = stock
                                                 THEN [day |-> C!Day(cNow), until |-> cNow + CTriggerTtl]
                                                 ELSE cTriggered[other]
  BY <1>1 DEF AccInv, WatchesTyped
<1>14. \A p \in Found : /\ p[1] \in CStocks /\ p[2] \in Nat /\ p[2] <= cNow /\ C!Day(p[2]) \in Nat
                        /\ Observed(p[1], p[2]) /\ Keyed(p[1], p[2])
  BY DayGrows DEF AccInv, FoundInv
<1>15. ASSUME fresh, NEW p \in Found, p[1] = stock, C!Day(p[2]) = C!Day(cNow)
       PROVE  p[2] + CTriggerTtl <= cNow
  BY <1>1, <1>4, <1>5, <1>12, <1>14, <1>15 DEF Keyed
<1>16. FoundInv'
  <2>1. ASSUME NEW p \in Found
        PROVE  Observed(p[1], p[2])' /\ Keyed(p[1], p[2])'
    <3>1. Observed(p[1], p[2])'
      BY <1>1, <1>14 DEF Observed
    <3>2. CASE fresh /\ p[1] = stock
      <4>1. cTriggered'[p[1]].day = C!Day(cNow) /\ cTriggered'[p[1]].until = cNow + CTriggerTtl
        BY <1>13, <1>14, <3>2
      <4>2. C!Day(p[2]) <= C!Day(cNow)
        BY <1>1, <1>12, <1>14 DEF Keyed
      <4>. QED BY <1>1, <1>5, <1>14, <3>1, <4>1, <4>2 DEF Keyed
    <3>3. CASE ~(fresh /\ p[1] = stock)
      BY <1>13, <1>14, <3>1, <3>3 DEF Keyed
    <3>. QED BY <3>2, <3>3
  <2>2. ASSUME fresh PROVE Observed(stock, cNow)' /\ Keyed(stock, cNow)'
    <3>1. C!Day(first) \in 0..(C!Day(cNow) - CMinObserveDays + 1)
      BY <1>1, <1>2, <1>3, <1>5, <2>2
    <3>2. Observed(stock, cNow)'
      BY <1>1, <1>2, <3>1 DEF Observed
    <3>3. cTriggered'[stock].day = C!Day(cNow) /\ cTriggered'[stock].until = cNow + CTriggerTtl
      BY <1>13, <2>2
    <3>. QED BY <1>1, <1>5, <3>2, <3>3 DEF Keyed
  <2>3. ASSUME NEW p \in Found'
        PROVE  p[1] \in CStocks /\ p[2] \in Nat /\ p[2] <= cNow' /\ Observed(p[1], p[2])' /\ Keyed(p[1], p[2])'
    <3>1. CASE p \in Found
      BY <1>1, <1>14, <2>1, <3>1
    <3>2. CASE fresh /\ p = <<stock, cNow>>
      BY <1>1, <2>2, <3>2
    <3>. QED BY <1>10, <3>1, <3>2
  <2>. QED BY <2>3 DEF FoundInv
<1>17. KeyInv'
  BY <1>1, <1>12, <1>13 DEF KeyInv
<1>18. SpacedInv'
  <2>1. ASSUME NEW p \in Found', NEW q \in Found', p[1] = q[1], p[2] < q[2], C!Day(p[2]) = C!Day(q[2])
        PROVE  q[2] - p[2] >= CTriggerTtl
    <3>1. CASE p \in Found /\ q \in Found
      BY <2>1, <3>1 DEF AccInv, SpacedInv
    <3>2. CASE p \in Found /\ q = <<stock, cNow>> /\ fresh
      BY <1>1, <1>5, <1>14, <1>15, <2>1, <3>2
    <3>3. CASE p = <<stock, cNow>> /\ q \in Found
      BY <1>1, <1>14, <2>1, <3>3
    <3>4. CASE p = <<stock, cNow>> /\ q = <<stock, cNow>>
      BY <1>1, <2>1, <3>4
    <3>. QED BY <1>10, <3>1, <3>2, <3>3, <3>4
  <2>. QED BY <2>1 DEF SpacedInv
<1>. QED BY <1>9, <1>11, <1>16, <1>17, <1>18 DEF AccInv

\* The invariant holds at the start, every step keeps it, and it implies the property.
LEMMA AccNext == C!Configured /\ AccInv /\ [C!Next]_(C!vars) => AccInv'
<1>. SUFFICES ASSUME C!Configured, AccInv, [C!Next]_(C!vars) PROVE AccInv'
  OBVIOUS
<1>. DEFINE ScanStates == [pc : {"idle", "evaluate", "push"}, todo : SUBSET CStocks,
                      popped : Seq(Triggers), code : Seq(Triggers)]
<1>1. /\ cScan \in ScanStates /\ cQueue \in Seq(Triggers) /\ C!Resting \in ScanStates
      /\ C!Resting.code = <<>> /\ C!Resting.popped = <<>> /\ cNow \in Nat
  BY DEF AccInv, WatchesTyped, C!Resting
<1>2. CASE \E codes \in SUBSET CStocks : C!Start(codes)
  <2>1. PICK codes \in SUBSET CStocks : C!Start(codes)
    BY <1>2
  <2>2. cScan' \in ScanStates /\ cScan'.code = <<>> /\ cScan'.popped = <<>>
    BY <1>1, <2>1 DEF C!Start, C!Resting
  <2>3. WatchesTyped'
    BY <2>1, <2>2 DEF C!Start, AccInv, WatchesTyped
  <2>4. Found' \subseteq Found
    BY <2>1, <2>2, PairsOf DEF C!Start, Found
  <2>. QED BY <2>1, <2>3, <2>4, NothingNew DEF C!Start
<1>3. CASE \E stock \in CStocks, state \in {"REJECTED", "TRIGGERED"} : C!Evaluate(stock, state)
  BY <1>3, EvaluateKeeps
<1>4. CASE C!Push
  <2>1. cScan' \in ScanStates /\ cScan'.code = <<>> /\ cScan'.popped = cScan.popped
    BY <1>1, <1>4 DEF C!Push
  <2>2. cQueue' \in Seq(Triggers) /\ Pairs(cQueue') = Pairs(cScan.code) \cup Pairs(cQueue)
    BY <1>1, <1>4, PairsOf, ConcatProperties DEF C!Push
  <2>3. WatchesTyped'
    BY <1>4, <2>1, <2>2 DEF C!Push, AccInv, WatchesTyped
  <2>4. Found' \subseteq Found
    BY <1>4, <2>1, <2>2, PairsOf DEF C!Push, Found
  <2>. QED BY <1>4, <2>3, <2>4, NothingNew DEF C!Push
<1>5. CASE \E kept \in BOOLEAN : C!PopTrigger(kept)
  <2>1. PICK kept \in BOOLEAN : C!PopTrigger(kept)
    BY <1>5
  <2>. DEFINE oldest == cQueue[Len(cQueue)]
              popped == [oldest EXCEPT !.kept = kept]
  <2>2. cQueue # <<>>
    BY <2>1 DEF C!PopTrigger
  <2>3. /\ oldest \in Triggers /\ <<oldest.stock, oldest.at>> \in Pairs(cQueue)
        /\ SubSeq(cQueue, 1, Len(cQueue) - 1) \in Seq(Triggers)
        /\ Pairs(SubSeq(cQueue, 1, Len(cQueue) - 1)) \subseteq Pairs(cQueue)
    BY <1>1, <2>2, PairsOf
  <2>4. cScan' = [cScan EXCEPT !.popped = Append(@, popped)] /\ cQueue' = SubSeq(cQueue, 1, Len(cQueue) - 1)
    BY <2>1 DEF C!PopTrigger
  <2>. HIDE DEF oldest
  <2>5. popped \in Triggers /\ popped.stock = oldest.stock /\ popped.at = oldest.at
    BY <2>3 DEF Triggers
  <2>. HIDE DEF popped
  <2>6. PICK more \in Seq(Triggers) : /\ more = Append(cScan.popped, popped)
                                      /\ Pairs(more) = Pairs(cScan.popped) \cup {<<oldest.stock, oldest.at>>}
    <3>1. cScan.popped \in Seq(Triggers)
      BY <1>1
    <3>2. /\ Append(cScan.popped, popped) \in Seq(Triggers)
          /\ Pairs(Append(cScan.popped, popped)) = Pairs(cScan.popped) \cup {<<popped.stock, popped.at>>}
      BY <2>5, <3>1, PairsOf
    <3>. QED BY <2>5, <3>2
  <2>7. cScan' \in ScanStates /\ cScan'.code = cScan.code /\ cScan'.popped = more
    BY <1>1, <2>4, <2>6
  <2>8. WatchesTyped'
    BY <2>1, <2>3, <2>4, <2>7 DEF C!PopTrigger, AccInv, WatchesTyped
  <2>9. Found' \subseteq Found
    BY <2>1, <2>3, <2>4, <2>6, <2>7 DEF C!PopTrigger, Found
  <2>. QED BY <2>1, <2>8, <2>9, NothingNew DEF C!PopTrigger
<1>6. CASE C!Finish
  <2>1. /\ cScan' = C!Resting /\ UNCHANGED <<cNow, cWatch, cTriggered, cQueue, cSeen>>
        /\ cHanded' = cHanded \cup
             {[stock |-> cScan.popped[i].stock, at |-> cScan.popped[i].at, on |-> C!Day(cNow)] :
                                    i \in {j \in DOMAIN cScan.popped : cScan.popped[j].kept}}
    BY <1>6 DEF C!Finish
  <2>2. cScan.popped \in Seq(Triggers) /\ \A i \in DOMAIN cScan.popped : cScan.popped[i] \in Triggers
    BY <1>1, ElementOfSeq, LenProperties
  <2>3. C!Day(cNow) \in Nat
    BY <1>1, DayGrows
  <2>4. cHanded' \subseteq [stock : CStocks, at : Nat, on : Nat]
    <3>1. \A i \in DOMAIN cScan.popped :
             [stock |-> cScan.popped[i].stock, at |-> cScan.popped[i].at, on |-> C!Day(cNow)]
                 \in [stock : CStocks, at : Nat, on : Nat]
      BY <2>2, <2>3 DEF Triggers
    <3>. QED BY <2>1, <3>1 DEF AccInv, WatchesTyped
  <2>5. WatchesTyped'
    BY <1>1, <2>1, <2>4 DEF AccInv, WatchesTyped
  <2>6. \A h \in cHanded' : h \in cHanded \/ <<h.stock, h.at>> \in Pairs(cScan.popped)
    BY <2>1 DEF Pairs
  <2>7. Found' \subseteq Found
    BY <1>1, <2>1, <2>6, PairsOf DEF Found
  <2>. QED BY <2>1, <2>5, <2>7, NothingNew
<1>7. CASE C!Cancel
  <2>1. WatchesTyped'
    BY <1>1, <1>7 DEF C!Cancel, AccInv, WatchesTyped
  <2>2. Found' \subseteq Found
    BY <1>1, <1>7, PairsOf DEF C!Cancel, Found
  <2>. QED BY <1>7, <2>1, <2>2, NothingNew DEF C!Cancel
<1>8. CASE C!Tick
  <2>1. WatchesTyped' /\ Found' = Found
    BY <1>8 DEF C!Tick, AccInv, WatchesTyped, Found
  <2>. QED BY <1>8, <2>1, NothingNew DEF C!Tick
<1>9. CASE UNCHANGED C!vars
  <2>1. WatchesTyped' /\ Found' = Found
    BY <1>9 DEF C!vars, AccInv, WatchesTyped, Found
  <2>. QED BY <1>9, <2>1, NothingNew DEF C!vars
<1>. QED BY <1>2, <1>3, <1>4, <1>5, <1>6, <1>7, <1>8, <1>9 DEF C!Next

LEMMA AccInit == C!Configured /\ C!Init => AccInv
<1>. SUFFICES ASSUME C!Configured, C!Init PROVE AccInv
  OBVIOUS
<1>1. C!Resting.code = <<>> /\ C!Resting.popped = <<>>
  BY DEF C!Resting
<1>2. Found = {}
  BY <1>1, PairsOf DEF C!Init, Found
<1>3. WatchesTyped
  BY DEF C!Init, WatchesTyped, C!Resting, C!Unwatched
<1>4. WatchInv
  BY DEF C!Init, WatchInv, C!Unwatched
<1>5. KeyInv
  <2>1. C!Day(cNow) \in Nat /\ \A stock \in CStocks : cTriggered[stock].day = -1
    BY DayGrows DEF C!Init
  <2>. QED BY <2>1 DEF KeyInv
<1>. QED BY <1>2, <1>3, <1>4, <1>5 DEF AccInv, FoundInv, SpacedInv

LEMMA AccFollows == C!Configured /\ AccInv => C!TriggersHold
<1>. SUFFICES ASSUME C!Configured, AccInv PROVE C!TriggersHold
  OBVIOUS
<1>1. \A h \in cHanded : <<h.stock, h.at>> \in Found
  BY DEF Found
<1>2. C!HandedAfterObservation
  <2>1. ASSUME NEW h \in cHanded PROVE Observed(h.stock, h.at)
    <3>1. PICK p \in Found : p = <<h.stock, h.at>>
      BY <1>1
    <3>2. Observed(p[1], p[2])
      BY DEF AccInv, FoundInv
    <3>. QED BY <3>1, <3>2
  <2>. QED BY <2>1 DEF C!HandedAfterObservation, Observed
<1>3. C!TriggersAreSpaced
  <2>1. ASSUME NEW g \in cHanded, NEW h \in cHanded, g.stock = h.stock, g.at < h.at, C!Day(g.at) = C!Day(h.at)
        PROVE  h.at - g.at >= CTriggerTtl
    <3>1. PICK p \in Found : p = <<g.stock, g.at>>
      BY <1>1
    <3>2. PICK q \in Found : q = <<h.stock, h.at>>
      BY <1>1
    <3>3. p[1] = q[1] /\ p[2] = g.at /\ q[2] = h.at
      BY <2>1, <3>1, <3>2
    <3>. QED BY <2>1, <3>3 DEF AccInv, SpacedInv
  <2>. QED BY <2>1 DEF C!TriggersAreSpaced
<1>. QED BY <1>2, <1>3 DEF C!TriggersHold

\* Accumulation alone: a trigger comes after days of observation and a lease apart.
LEMMA AccumulationAlone == ASSUME C!Configured PROVE C!Spec => []C!TriggersHold
<1>1. C!Init => AccInv
  BY AccInit
<1>2. AccInv /\ [C!Next]_(C!vars) => AccInv'
  BY AccNext
<1>3. AccInv => C!TriggersHold
  BY AccFollows
<1>. QED BY <1>1, <1>2, <1>3, PTL DEF C!Spec

----------------------------------------------------------------------------
(* NewsDesk: what stands in for the AI's analysis is neither kept nor told  *)
(* as the AI's own.                                                        *)

\* The AI's own analysis, for the slot that it names.
Genuine(a) == a.by = "ai" /\ a.slot = a.for /\ a.slot \in BSlots
Analyses == [slot : BSlots \cup {B!NoSlot}, by : {"nobody", "ai", "rules"}, for : BSlots \cup {B!NoSlot}, at : Nat,
             fallback : BOOLEAN, reused : BOOLEAN, until : Nat]

Jobs == [pc : {"idle", "scheduled", "live", "facts", "merge", "save", "emit"},
         slot : BSlots \cup {B!NoSlot}, analysis : Analyses]

DeskTyped ==
    /\ bNow \in Nat
    /\ bCache \in Analyses
    /\ bWork \in [BWorkers -> Jobs]

\* A brief at work is of a slot of the day.
Named(w) == bWork[w].pc # "idle" => bWork[w].slot \in BSlots
\* What the rules wrote is marked before it meets the cache, and what is saved is the AI's.
Marked(w) == bWork[w].pc = "merge" => (bWork[w].analysis.fallback \/ Genuine(bWork[w].analysis))
Savable(w) == bWork[w].pc = "save" => Genuine(bWork[w].analysis)
\* What is told is marked, or the AI's for the slot at work.
Tellable(w) == bWork[w].pc = "emit" => bWork[w].analysis.fallback \/ Genuine(bWork[w].analysis)
\* Analysis and brief are of one slot.
OneSlot(w) == bWork[w].pc \in {"merge", "save", "emit"} => bWork[w].analysis.slot = bWork[w].slot
WorkHeld == \A w \in BWorkers : Named(w) /\ Marked(w) /\ Savable(w) /\ Tellable(w) /\ OneSlot(w)

\* What is cached is the AI's own.
CacheHeld == bCache.by # "nobody" => Genuine(bCache)

\* What was told last.
ToldHeld == B!FreshIsFresh /\ B!UnmarkedIsTheAis

DeskInv == DeskTyped /\ WorkHeld /\ CacheHeld /\ ToldHeld

\* What _load_cached_analysis returns.
LEMMA CachedTyped ==
    ASSUME DeskInv, NEW seen \in B!Read
    PROVE  seen \in Analyses /\ (B!Known(seen) => seen = bCache /\ Genuine(seen))
<1>1. B!NoAnalysis \in Analyses /\ B!NoAnalysis.by = "nobody"
  BY DEF B!NoAnalysis, Analyses
<1>2. seen = bCache \/ seen = B!NoAnalysis
  BY DEF B!Read
<1>3. bCache.by # "nobody" => Genuine(bCache)
  BY DEF DeskInv, CacheHeld
<1>. QED BY <1>1, <1>2, <1>3 DEF B!Known, DeskInv, DeskTyped

\* A step of one worker that leaves the clock and the cache alone.
LEMMA WorkerStep ==
    ASSUME DeskInv, NEW w \in BWorkers, UNCHANGED <<bNow, bCache>>, ToldHeld',
           NEW job \in Jobs,
           bWork' \in [BWorkers -> Jobs], \A v \in BWorkers : bWork'[v] = IF v = w THEN job ELSE bWork[v],
           job.pc # "idle" => job.slot \in BSlots,
           job.pc = "merge" => job.analysis.fallback \/ Genuine(job.analysis),
           job.pc = "save" => Genuine(job.analysis),
           job.pc = "emit" => job.analysis.fallback \/ Genuine(job.analysis),
           job.pc \in {"merge", "save", "emit"} => job.analysis.slot = job.slot
    PROVE  DeskInv'
<1>1. DeskTyped'
  BY DEF DeskInv, DeskTyped
<1>2. WorkHeld'
  <2>1. ASSUME NEW v \in BWorkers PROVE (Named(v) /\ Marked(v) /\ Savable(v) /\ Tellable(v) /\ OneSlot(v))'
    <3>1. CASE v = w
      <4>1. bWork'[v] = job
        BY <3>1 DEF DeskInv, DeskTyped
      <4>. QED BY <4>1 DEF Named, Marked, Savable, Tellable, OneSlot, Genuine
    <3>2. CASE v # w
      <4>1. bWork'[v] = bWork[v]
        BY <3>2 DEF DeskInv, DeskTyped
      <4>2. Named(v) /\ Marked(v) /\ Savable(v) /\ Tellable(v) /\ OneSlot(v)
        BY DEF DeskInv, WorkHeld
      <4>. QED BY <4>1, <4>2 DEF Named, Marked, Savable, Tellable, OneSlot, Genuine
    <3>. QED BY <3>1, <3>2
  <2>. QED BY <2>1 DEF WorkHeld
<1>3. CacheHeld'
  BY DEF DeskInv, CacheHeld, Genuine
<1>. QED BY <1>1, <1>2, <1>3 DEF DeskInv

\* A step that tells nothing, and the end of a brief.
LEMMA SilentKeeps == ASSUME bTold' = B!Untold PROVE ToldHeld'
BY DEF B!Untold, ToldHeld, B!FreshIsFresh, B!UnmarkedIsTheAis

LEMMA RestStep ==
    ASSUME DeskInv, NEW w \in BWorkers, UNCHANGED <<bNow, bCache>>, ToldHeld',
           bWork' = [bWork EXCEPT ![w] = B!Resting]
    PROVE  DeskInv'
<1>1. B!NoAnalysis \in Analyses
  BY DEF B!NoAnalysis, Analyses
<1>2. B!Resting \in Jobs /\ B!Resting.pc = "idle"
  BY <1>1 DEF B!Resting, Jobs
<1>3. bWork' \in [BWorkers -> Jobs] /\ \A v \in BWorkers : bWork'[v] = IF v = w THEN B!Resting ELSE bWork[v]
  BY <1>2 DEF DeskInv, DeskTyped
<1>. QED BY <1>2, <1>3, WorkerStep

\* The invariant holds at the start, every step keeps it, and it implies the property.
LEMMA DeskNext == B!Configured /\ DeskInv /\ [B!Next]_(B!vars) => DeskInv'
<1>. SUFFICES ASSUME B!Configured, DeskInv, [B!Next]_(B!vars) PROVE DeskInv'
  OBVIOUS
<1>0. \A w \in BWorkers : bWork[w] \in Jobs
  BY DEF DeskInv, DeskTyped
<1>00. B!NoAnalysis \in Analyses
  BY DEF B!NoAnalysis, Analyses
<1>1. ASSUME NEW w \in BWorkers, NEW slot \in BSlots, NEW kind \in {"scheduled", "live", "facts"},
             B!Begin(w, slot, kind)
      PROVE  DeskInv'
  <2>. DEFINE job == [B!Resting EXCEPT !.pc = kind, !.slot = slot]
  <2>1. job \in Jobs /\ job.slot \in BSlots /\ job.pc \notin {"merge", "save", "emit"}
    BY <1>00 DEF Jobs, B!Resting
  <2>2. bWork' \in [BWorkers -> Jobs] /\ \A v \in BWorkers : bWork'[v] = IF v = w THEN job ELSE bWork[v]
    <3>1. bWork' = [bWork EXCEPT ![w] = job]
      BY <1>1 DEF B!Begin
    <3>. HIDE DEF job
    <3>. QED BY <2>1, <3>1 DEF DeskInv, DeskTyped
  <2>. HIDE DEF job
  <2>. QED BY <1>1, <2>1, <2>2, WorkerStep, SilentKeeps DEF B!Begin, B!Silent
<1>2. ASSUME NEW w \in BWorkers, B!SkipSlot(w) PROVE DeskInv'
  BY <1>2, RestStep, SilentKeeps DEF B!SkipSlot, B!Silent
<1>3. ASSUME NEW w \in BWorkers, NEW seen \in B!Read, B!TellCached(w, seen) \/ B!NoNews(w, seen) PROVE DeskInv'
  <2>2. bTold'.how = "facts" \/ bTold'.how = "no news"
    <3>1. CASE B!TellCached(w, seen)
      BY <3>1 DEF B!TellCached, B!Told
    <3>2. CASE B!NoNews(w, seen)
      BY <3>2 DEF B!NoNews, B!Told
    <3>. QED BY <1>3, <3>1, <3>2
  <2>1. ToldHeld'
    BY <2>2 DEF ToldHeld, B!FreshIsFresh, B!UnmarkedIsTheAis
  <2>. QED BY <1>3, <2>1, RestStep DEF B!TellCached, B!NoNews
<1>9. ASSUME NEW w \in BWorkers, B!Emit(w) PROVE DeskInv'
  <2>1. /\ bWork[w].slot \in BSlots /\ bWork[w].analysis.slot = bWork[w].slot
        /\ bWork[w].analysis.fallback \/ Genuine(bWork[w].analysis)
    BY <1>9 DEF B!Emit, DeskInv, WorkHeld, Named, Tellable, OneSlot
  <2>2. /\ bTold'.how = "analysis" /\ bTold'.slot = bWork[w].slot /\ bTold'.by = bWork[w].analysis.by
        /\ bTold'.for = bWork[w].analysis.for /\ bTold'.marked = bWork[w].analysis.fallback
    BY <1>9 DEF B!Emit, B!Told
  <2>3. bTold'.marked \/ (bTold'.by = "ai" /\ bTold'.for = bTold'.slot)
    BY <2>1, <2>2 DEF Genuine
  <2>4. ToldHeld'
    BY <2>2, <2>3 DEF ToldHeld, B!FreshIsFresh, B!UnmarkedIsTheAis
  <2>. QED BY <1>9, <2>4, RestStep DEF B!Emit
<1>4. ASSUME NEW w \in BWorkers, NEW seen \in B!Read, B!TellFresh(w, seen) PROVE DeskInv'
  <2>1. B!Known(seen) /\ seen.slot \in {B!NoSlot, bWork[w].slot} /\ bNow - seen.at <= BLiveTtl
    BY <1>4 DEF B!TellFresh, B!Serves
  <2>2. Genuine(seen) /\ seen.at \in Nat
    BY <2>1, CachedTyped DEF Analyses
  <2>3. seen.by = "ai" /\ seen.for = bWork[w].slot
    BY <2>1, <2>2 DEF B!Configured, Genuine
  <2>4. ~(bNow - seen.at > BLiveTtl)
    BY <2>1, <2>2 DEF B!Configured, DeskInv, DeskTyped
  <2>5. ToldHeld'
    BY <1>4, <2>3, <2>4 DEF B!TellFresh, B!Told, ToldHeld, B!FreshIsFresh, B!UnmarkedIsTheAis
  <2>. QED BY <1>4, <2>5, RestStep DEF B!TellFresh
<1>5. ASSUME NEW w \in BWorkers, NEW by \in {"ai", "rules"}, B!Analyze(w, by) PROVE DeskInv'
  <2>. DEFINE analysis == [slot |-> bWork[w].slot, by |-> by, for |-> bWork[w].slot, at |-> bNow,
                           fallback |-> by = "rules", reused |-> FALSE, until |-> 0]
              job == [bWork[w] EXCEPT !.pc = "merge", !.analysis = analysis]
  <2>1. bWork[w].slot \in BSlots
    BY <1>5 DEF B!Analyze, DeskInv, WorkHeld, Named
  <2>2. analysis \in Analyses /\ analysis.slot = bWork[w].slot /\ (analysis.fallback \/ Genuine(analysis))
    BY <2>1 DEF Analyses, Genuine, DeskInv, DeskTyped
  <2>3. bWork' = [bWork EXCEPT ![w].pc = "merge", ![w].analysis = analysis]
    BY <1>5 DEF B!Analyze
  <2>. HIDE DEF analysis
  <2>4. job \in Jobs /\ job.slot \in BSlots /\ job.pc = "merge" /\ job.analysis = analysis /\ job.slot = bWork[w].slot
    BY <1>0, <2>1, <2>2 DEF Jobs
  <2>5. bWork' \in [BWorkers -> Jobs] /\ \A v \in BWorkers : bWork'[v] = IF v = w THEN job ELSE bWork[v]
    <3>1. \A v \in BWorkers : bWork'[v] = IF v = w THEN job ELSE bWork[v]
      BY <2>3 DEF DeskInv, DeskTyped
    <3>2. \A v \in BWorkers : bWork'[v] \in Jobs
      BY <1>0, <2>4, <3>1
    <3>3. bWork' = [v \in BWorkers |-> bWork'[v]]
      BY <2>3 DEF DeskInv, DeskTyped
    <3>. QED BY <3>1, <3>2, <3>3
  <2>. HIDE DEF job
  <2>. QED BY <1>5, <2>2, <2>4, <2>5, WorkerStep, SilentKeeps DEF B!Analyze, B!Silent
<1>6. ASSUME NEW w \in BWorkers, NEW seen \in B!Read, B!Merge(w, seen) PROVE DeskInv'
  <2>. DEFINE old == bWork[w].analysis
              analysis == B!Preferred(old, seen)
              job == [bWork[w] EXCEPT !.analysis = analysis, !.pc = IF analysis.fallback THEN "emit" ELSE "save"]
  <2>1. /\ bWork[w].pc = "merge" /\ bWork[w].slot \in BSlots /\ old \in Analyses /\ (old.fallback \/ Genuine(old))
        /\ old.slot = bWork[w].slot
    BY <1>6, <1>0 DEF B!Merge, DeskInv, WorkHeld, Named, Marked, OneSlot, Jobs
  <2>2. analysis \in Analyses /\ analysis.slot = old.slot /\ (analysis.fallback \/ Genuine(analysis))
    <3>1. CASE old.fallback /\ B!Known(seen)
      <4>1. seen \in Analyses /\ old.slot \in BSlots \cup {B!NoSlot}
        BY <2>1, CachedTyped DEF Analyses
      <4>2. analysis = [seen EXCEPT !.slot = old.slot, !.fallback = TRUE, !.reused = TRUE]
        BY <3>1 DEF B!Preferred
      <4>. HIDE DEF analysis
      <4>. QED BY <4>1, <4>2 DEF Analyses
    <3>2. CASE ~(old.fallback /\ B!Known(seen))
      BY <2>1, <3>2 DEF B!Preferred
    <3>. QED BY <3>1, <3>2
  <2>3. bWork' = [bWork EXCEPT ![w].analysis = analysis,
                             ![w].pc = IF analysis.fallback THEN "emit" ELSE "save"]
    BY <1>6 DEF B!Merge
  <2>. HIDE DEF analysis
  <2>4. /\ job \in Jobs /\ job.slot \in BSlots /\ job.pc # "merge"
        /\ job.pc = "save" => Genuine(job.analysis)
        /\ job.analysis.fallback \/ Genuine(job.analysis)
        /\ job.analysis.slot = job.slot
    BY <1>0, <2>1, <2>2 DEF Jobs
  <2>5. bWork' \in [BWorkers -> Jobs] /\ \A v \in BWorkers : bWork'[v] = IF v = w THEN job ELSE bWork[v]
    <3>1. \A v \in BWorkers : bWork'[v] = IF v = w THEN job ELSE bWork[v]
      BY <2>3 DEF DeskInv, DeskTyped
    <3>2. \A v \in BWorkers : bWork'[v] \in Jobs
      BY <1>0, <2>4, <3>1
    <3>3. bWork' = [v \in BWorkers |-> bWork'[v]]
      BY <2>3 DEF DeskInv, DeskTyped
    <3>. QED BY <3>1, <3>2, <3>3
  <2>. HIDE DEF job
  <2>. QED BY <1>6, <2>4, <2>5, WorkerStep, SilentKeeps DEF B!Merge, B!Silent
<1>7. ASSUME NEW w \in BWorkers, NEW works \in BOOLEAN, B!Save(w, works) PROVE DeskInv'
  <2>. DEFINE old == bWork[w].analysis
              stored == [old EXCEPT !.until = bNow + BCacheTtl]
              job == [pc |-> "emit", slot |-> bWork[w].slot, analysis |-> old]
  <2>1. /\ bWork[w].pc = "save" /\ bWork[w].slot \in BSlots /\ old \in Analyses /\ Genuine(old)
        /\ old.slot = bWork[w].slot
    BY <1>7, <1>0 DEF B!Save, DeskInv, WorkHeld, Named, Savable, OneSlot, Jobs
  <2>2. bNow + BCacheTtl \in Nat
    BY DEF B!Configured, DeskInv, DeskTyped
  <2>3. stored \in Analyses /\ Genuine(stored)
    BY <2>1, <2>2 DEF Analyses, Genuine
  <2>4. bCache' = stored \/ bCache' = bCache
    BY <1>7 DEF B!Save
  <2>5. bCache' \in Analyses /\ CacheHeld'
    <3>. HIDE DEF stored
    <3>1. PICK a \in Analyses : bCache' = a /\ (a.by # "nobody" => Genuine(a))
      BY <2>3, <2>4 DEF DeskInv, DeskTyped, CacheHeld
    <3>. QED BY <3>1 DEF CacheHeld, Genuine
  <2>6. bNow' = bNow /\ ToldHeld' /\ bWork' = [bWork EXCEPT ![w].pc = "emit"]
    BY <1>7, SilentKeeps DEF B!Save, B!Silent
  <2>7. /\ job \in Jobs /\ job.slot \in BSlots /\ job.pc = "emit"
        /\ Genuine(job.analysis) /\ job.analysis.slot = job.slot
    BY <2>1 DEF Jobs
  <2>10. bWork' \in [BWorkers -> Jobs] /\ \A v \in BWorkers : bWork'[v] = IF v = w THEN job ELSE bWork[v]
    BY <1>0, <2>6 DEF DeskInv, DeskTyped, Jobs
  <2>. HIDE DEF job
  <2>8. DeskTyped'
    BY <2>5, <2>6, <2>10 DEF DeskInv, DeskTyped
  <2>9. WorkHeld'
    <3>1. ASSUME NEW v \in BWorkers PROVE (Named(v) /\ Marked(v) /\ Savable(v) /\ Tellable(v) /\ OneSlot(v))'
      <4>1. bWork'[v] = IF v = w THEN job ELSE bWork[v]
        BY <2>10
      <4>2. Named(v) /\ Marked(v) /\ Savable(v) /\ Tellable(v) /\ OneSlot(v)
        BY DEF DeskInv, WorkHeld
      <4>3. CASE v = w
        BY <2>7, <4>1, <4>3 DEF Named, Marked, Savable, Tellable, OneSlot, Genuine
      <4>4. CASE v # w
        <5>1. bWork'[v] = bWork[v]
          BY <4>1, <4>4
        <5>. QED BY <4>2, <5>1 DEF Named, Marked, Savable, Tellable, OneSlot, Genuine
      <4>. QED BY <4>3, <4>4
    <3>. QED BY <3>1 DEF WorkHeld
  <2>. QED BY <2>5, <2>6, <2>8, <2>9 DEF DeskInv
<1>8. CASE B!Tick \/ UNCHANGED B!vars
  <2>1. UNCHANGED <<bCache, bWork>> /\ bNow' \in {bNow, bNow + 1} /\ (bTold' = B!Untold \/ bTold' = bTold)
    BY <1>8 DEF B!Tick, B!vars, B!Silent
  <2>2. DeskTyped'
    BY <2>1 DEF DeskInv, DeskTyped
  <2>3. WorkHeld'
    BY <2>1 DEF DeskInv, WorkHeld, Named, Marked, Savable, Tellable, OneSlot, Genuine
  <2>4. CacheHeld' /\ ToldHeld'
    BY <2>1, SilentKeeps DEF DeskInv, CacheHeld, Genuine, ToldHeld, B!FreshIsFresh, B!UnmarkedIsTheAis
  <2>. QED BY <2>2, <2>3, <2>4 DEF DeskInv
<1>. QED BY <1>1, <1>2, <1>3, <1>4, <1>5, <1>6, <1>7, <1>8, <1>9 DEF B!Next

LEMMA DeskInit == B!Configured /\ B!Init => DeskInv
<1>. SUFFICES ASSUME B!Configured, B!Init PROVE DeskInv
  OBVIOUS
<1>1. B!NoAnalysis \in Analyses /\ B!NoAnalysis.by = "nobody"
  BY DEF B!NoAnalysis, Analyses
<1>2. B!Resting \in Jobs /\ B!Resting.pc = "idle"
  BY <1>1 DEF B!Resting, Jobs
<1>3. DeskTyped /\ CacheHeld
  BY <1>1, <1>2 DEF B!Init, DeskTyped, CacheHeld
<1>4. WorkHeld
  BY <1>2 DEF B!Init, WorkHeld, Named, Marked, Savable, Tellable, OneSlot
<1>5. ToldHeld
  BY DEF B!Init, B!Untold, ToldHeld, B!FreshIsFresh, B!UnmarkedIsTheAis
<1>. QED BY <1>3, <1>4, <1>5 DEF DeskInv

LEMMA DeskFollows == DeskInv => B!BriefsHold
BY DEF DeskInv, CacheHeld, Genuine, ToldHeld, B!BriefsHold, B!CachedForItsSlot

\* NewsDesk alone.
LEMMA BriefsAlone == ASSUME B!Configured PROVE B!Spec => []B!BriefsHold
<1>1. B!Init => DeskInv
  BY DeskInit
<1>2. DeskInv /\ [B!Next]_(B!vars) => DeskInv'
  BY DeskNext
<1>3. DeskInv => B!BriefsHold
  BY DeskFollows
<1>. QED BY <1>1, <1>2, <1>3, PTL DEF B!Spec

----------------------------------------------------------------------------
(* AiGateway: advice that was given, blocks and rows.                      *)

CallPoints == {"rest", "block", "sent", "answered", "limited", "failed", "mark", "cancelled"}
CallRecords == [kind : GKinds \cup {"exit"}, at : CallPoints, begun : Nat,
                answer : G!Answers \cup G!Errors \cup {"none"}, advice : {"none", "yes", "no"},
                success : Nat, error : Nat, cut : {"nothing", "sent", "record", "elsewhere", "budget"},
                lost : BOOLEAN, blind : BOOLEAN]

CallsTyped ==
    /\ gNow \in Nat /\ gBlocked \in Nat /\ gHits \in Nat
    /\ gUsed \in [DOMAIN GLimits -> Nat]
    /\ gCall \in [GWorkers -> CallRecords]

\* A call under way has no row yet, but for the one that waits to be marked.
Unwritten(c) ==
    /\ c.at \notin {"rest", "cancelled"} => c.cut = "nothing" /\ c.error = 0
    /\ c.at \notin {"rest", "cancelled", "mark"} => c.success = 0 /\ ~c.lost
    /\ c.at = "mark" => c.answer = "text" /\ (~c.lost => c.success = 1)
    /\ c.at = "cancelled" => /\ c.error = 0 /\ ~c.lost /\ c.cut \in {"sent", "record"}
                             /\ c.cut = "sent" => c.success = 0

\* Where it is tells what was answered.
Heard(c) ==
    /\ c.at \in {"block", "sent"} => c.answer = "none"
    /\ c.at = "answered" => c.answer \in G!Answers
    /\ c.at \in {"limited", "failed"} => c.answer \notin G!Answers

\* What a call that ended leaves: AdviceWasGiven and AuditTellsOutcome of one call.
Closed(c) ==
    c.at = "rest" =>
        /\ c.advice = "yes" => c.answer = "yes" /\ c.cut = "nothing"
        /\ c.kind # "exit" /\ ~c.lost /\ c.cut \in {"nothing", "sent"} =>
               /\ c.success + c.error = 1
               /\ c.success = 1 <=> c.cut = "nothing" /\ c.answer \in {"yes", "no"}

Sound(c) == Unwritten(c) /\ Heard(c) /\ Closed(c)

RowsHeld == \A w \in GWorkers : Sound(gCall[w])

\* The calls that were sent although the block may be there: they looked before it was.
Unaware == {w \in GWorkers : gCall[w].at = "sent" /\ ~gCall[w].blind}

\* While a block lasts, each of them may still meet the limit, and the one that stored the
\* block is not among them.
HitsHeld ==
    /\ gHits < Cardinality(GWorkers)
    /\ gBlocked > gNow => gHits + Cardinality(Unaware) < Cardinality(GWorkers)

CallsHeld == CallsTyped /\ RowsHeld /\ HitsHeld

----------------------------------------------------------------------------
(* Lemmas about calls.                                                     *)

LEMMA SameWorkers == \A S : G!Cardinality(S) = Cardinality(S) /\ (G!IsFiniteSet(S) <=> IsFiniteSet(S))
BY DEF G!Cardinality, Cardinality, G!IsFiniteSet, IsFiniteSet

\* A call that goes on soundly disturbs no other.
LEMMA CallBecomes ==
    ASSUME CallsHeld, NEW w \in GWorkers, NEW next \in CallRecords, Sound(next), G!Become(w, next)
    PROVE  /\ gCall' \in [GWorkers -> CallRecords] /\ RowsHeld'
           /\ gCall'[w] = next /\ \A v \in GWorkers : v # w => gCall'[v] = gCall[v]
<1>1. /\ gCall \in [GWorkers -> CallRecords] /\ gCall' = [gCall EXCEPT ![w] = next]
  BY DEF CallsHeld, CallsTyped, G!Become
<1>2. gCall'[w] = next /\ \A v \in GWorkers : v # w => gCall'[v] = gCall[v]
  BY <1>1
<1>3. gCall' \in [GWorkers -> CallRecords]
  BY <1>1
<1>4. ASSUME NEW v \in GWorkers PROVE Sound(gCall[v])'
  <2>1. CASE v = w
    BY <1>2, <2>1 DEF Sound, Unwritten, Heard, Closed
  <2>2. CASE v # w
    BY <1>2, <2>2 DEF Sound, Unwritten, Heard, Closed, CallsHeld, RowsHeld
  <2>. QED BY <2>1, <2>2
<1>. QED BY <1>2, <1>3, <1>4 DEF RowsHeld

\* How many are unaware is a number.
LEMMA UnawareSize ==
    ASSUME G!Configured
    PROVE  /\ IsFiniteSet(Unaware) /\ Cardinality(Unaware) \in Nat
           /\ Cardinality(GWorkers) \in Nat /\ Cardinality(GWorkers) > 0
<1>1. IsFiniteSet(GWorkers) /\ Cardinality(GWorkers) \in Nat /\ Cardinality(GWorkers) # 0
  BY FS_CardinalityType, FS_EmptySet, SameWorkers DEF G!Configured
<1>2. IsFiniteSet(Unaware)
  BY <1>1, FS_Subset DEF Unaware
<1>3. Cardinality(Unaware) \in Nat
  BY <1>2, FS_CardinalityType
<1>. QED BY <1>1, <1>2, <1>3

\* A call whose next state is not sent, or is sent blindly, is not unaware.
LEMMA NoLongerUnaware ==
    ASSUME G!Configured, CallsHeld, NEW w \in GWorkers, NEW next \in CallRecords, Sound(next), G!Become(w, next),
           next.at # "sent" \/ next.blind
    PROVE  /\ Unaware' = Unaware \ {w}
           /\ Cardinality(Unaware') \in Nat
           /\ Cardinality(Unaware') = Cardinality(Unaware)
                  - (IF w \in Unaware THEN 1 ELSE 0)
<1>1. Unaware' = Unaware \ {w}
  BY CallBecomes DEF Unaware
<1>2. IsFiniteSet(Unaware) /\ Cardinality(Unaware) \in Nat
  BY UnawareSize
<1>3. Cardinality(Unaware \ {w}) = IF w \in Unaware THEN Cardinality(Unaware) - 1 ELSE Cardinality(Unaware)
  BY <1>2, FS_RemoveElement
<1>4. Cardinality(Unaware \ {w}) \in Nat
  BY <1>2, FS_RemoveElement, FS_CardinalityType
<1>. QED BY <1>1, <1>2, <1>3, <1>4

\* A call that ends keeps its answer and its rows.
LEMMA EndedType ==
    ASSUME NEW w \in GWorkers, gCall[w] \in CallRecords, NEW advice \in {"none", "yes", "no"}
    PROVE  /\ G!Ended(w, advice) \in CallRecords
           /\ G!Ended(w, advice).at = "rest" /\ G!Ended(w, advice).advice = advice
           /\ G!Ended(w, advice).kind = gCall[w].kind /\ G!Ended(w, advice).answer = gCall[w].answer
           /\ G!Ended(w, advice).cut = gCall[w].cut /\ G!Ended(w, advice).lost = gCall[w].lost
           /\ G!Ended(w, advice).success = gCall[w].success /\ G!Ended(w, advice).error = gCall[w].error
BY DEF G!Ended, CallRecords, CallPoints

\* Rows are counted and lost.
LEMMA RowsType ==
    ASSUME NEW c \in CallRecords, NEW n \in Nat, NEW m \in Nat
    PROVE  /\ [c EXCEPT !.success = n] \in CallRecords /\ [c EXCEPT !.error = n] \in CallRecords
           /\ [c EXCEPT !.success = n, !.error = m] \in CallRecords
           /\ [c EXCEPT !.lost = TRUE] \in CallRecords
BY DEF CallRecords

\* Steps after which no more calls are unaware, and the block and the hits are as before.
LEMMA QuietCall ==
    ASSUME G!Configured, CallsHeld, NEW w \in GWorkers, NEW next \in CallRecords, Sound(next), G!Become(w, next),
           next.at # "sent" \/ next.blind,
           UNCHANGED <<gNow, gBlocked, gHits>>, gUsed' \in [DOMAIN GLimits -> Nat]
    PROVE  CallsHeld'
<1>1. gCall' \in [GWorkers -> CallRecords] /\ RowsHeld'
  BY CallBecomes
<1>2. Cardinality(Unaware') \in Nat /\ Cardinality(Unaware') <= Cardinality(Unaware)
  BY NoLongerUnaware, UnawareSize
<1>3. HitsHeld'
  BY <1>2, UnawareSize DEF CallsHeld, CallsTyped, HitsHeld
<1>. QED BY <1>1, <1>3 DEF CallsHeld, CallsTyped

\* A call that begins is sound, and so is one above the limit.
LEMMA NewCallSound ==
    ASSUME NEW k \in GKinds \cup {"exit"}, gNow \in Nat
    PROVE  /\ G!NewCall(k) \in CallRecords /\ Sound(G!NewCall(k)) /\ G!NewCall(k).at = "block"
           /\ LET over == [G!NewCall(k) EXCEPT !.at = "rest", !.begun = 0, !.advice = "no", !.cut = "budget"]
              IN  over \in CallRecords /\ Sound(over) /\ over.at = "rest"
           /\ LET first == [G!NewCall(k) EXCEPT !.at = "rest", !.cut = "budget"]
              IN  first \in CallRecords /\ Sound(first) /\ first.at = "rest"
BY DEF G!NewCall, CallRecords, CallPoints, G!Answers, G!Errors, Sound, Unwritten, Heard, Closed

----------------------------------------------------------------------------
(* The actions.                                                            *)

LEMMA BeginCallKeeps ==
    ASSUME G!Configured, CallsHeld, NEW w \in GWorkers, NEW k \in GKinds, G!Begin(w, k) \/ G!OverBudget(w, k)
    PROVE  CallsHeld'
<1>1. gNow \in Nat
  BY DEF CallsHeld, CallsTyped
<1>2. CASE G!Begin(w, k)
  <2>1. gUsed' \in [DOMAIN GLimits -> Nat]
    BY <1>2 DEF G!Begin, CallsHeld, CallsTyped
  <2>. QED BY <1>1, <1>2, <2>1, NewCallSound, QuietCall DEF G!Begin
<1>3. CASE G!OverBudget(w, k)
  BY <1>1, <1>3, NewCallSound, QuietCall DEF G!OverBudget, CallsHeld, CallsTyped
<1>. QED BY <1>2, <1>3

LEMMA ReadBlockKeeps == ASSUME G!Configured, CallsHeld, NEW w \in GWorkers, G!ReadBlock(w) PROVE CallsHeld'
<1>. DEFINE read == [gCall[w] EXCEPT !.at = IF G!Stopped(w) THEN "failed" ELSE "sent"]
            blind == [gCall[w] EXCEPT !.at = "sent", !.blind = TRUE]
<1>1. gCall[w] \in CallRecords /\ Sound(gCall[w]) /\ gCall[w].at = "block"
  BY DEF CallsHeld, CallsTyped, RowsHeld, G!ReadBlock, G!At
<1>2. CASE G!Become(w, blind)
  <2>1. blind \in CallRecords /\ blind.blind
    BY <1>1 DEF CallRecords, CallPoints
  <2>2. Sound(blind)
    BY <1>1 DEF Sound, Unwritten, Heard, Closed, CallRecords
  <2>. HIDE DEF blind
  <2>. QED BY <1>2, <2>1, <2>2, QuietCall DEF G!ReadBlock, CallsHeld, CallsTyped
<1>3. CASE G!Become(w, read)
  <2>1. read \in CallRecords /\ (read.at = IF gBlocked > gNow THEN "failed" ELSE "sent")
    BY <1>1 DEF CallRecords, CallPoints, G!Stopped
  <2>2. Sound(read)
    <3>1. read.at \in {"failed", "sent"}
      BY <2>1
    <3>2. /\ read.cut = gCall[w].cut /\ read.error = gCall[w].error /\ read.lost = gCall[w].lost
          /\ read.success = gCall[w].success /\ read.answer = gCall[w].answer
      BY <1>1 DEF CallRecords
    <3>. HIDE DEF read
    <3>. QED BY <1>1, <3>1, <3>2 DEF Sound, Unwritten, Heard, Closed, G!Answers
  <2>. HIDE DEF read
  <2>3. CASE gBlocked > gNow
    BY <1>3, <2>1, <2>2, <2>3, QuietCall DEF G!ReadBlock, CallsHeld, CallsTyped
  <2>4. CASE ~(gBlocked > gNow)
    <3>1. gCall' \in [GWorkers -> CallRecords] /\ RowsHeld'
      BY <1>3, <2>1, <2>2, CallBecomes
    <3>2. HitsHeld'
      BY <2>4 DEF G!ReadBlock, CallsHeld, HitsHeld
    <3>. QED BY <3>1, <3>2 DEF G!ReadBlock, CallsHeld, CallsTyped
  <2>. QED BY <2>3, <2>4
<1>. QED BY <1>2, <1>3 DEF G!ReadBlock

LEMMA AnsweredKeeps ==
    ASSUME G!Configured, CallsHeld, NEW w \in GWorkers, NEW answer \in G!Answers \cup G!Errors, G!Answered(w, answer)
    PROVE  CallsHeld'
<1>. DEFINE at == CASE answer \in G!Answers -> "answered" [] answer = "limit" -> "limited" [] OTHER -> "failed"
            next == [gCall[w] EXCEPT !.answer = answer, !.at = at]
<1>1. gCall[w] \in CallRecords /\ Sound(gCall[w]) /\ gCall[w].at = "sent"
  BY DEF CallsHeld, CallsTyped, RowsHeld, G!Answered, G!At
<1>2. /\ at \in {"answered", "limited", "failed"}
      /\ at = "answered" <=> answer \in G!Answers
  BY DEF G!Answers, G!Errors
<1>3. G!Become(w, next)
  BY DEF G!Answered
<1>. HIDE DEF at
<1>4. next \in CallRecords /\ next.at = at /\ next.answer = answer
  BY <1>1, <1>2 DEF CallRecords, CallPoints
<1>5. Sound(next)
  <2>1. /\ next.cut = gCall[w].cut /\ next.error = gCall[w].error /\ next.lost = gCall[w].lost
        /\ next.success = gCall[w].success
    BY <1>1 DEF CallRecords
  <2>. HIDE DEF next
  <2>. QED BY <1>1, <1>2, <1>4, <2>1 DEF Sound, Unwritten, Heard, Closed
<1>. HIDE DEF next
<1>6. gCall' \in [GWorkers -> CallRecords] /\ RowsHeld'
  BY <1>3, <1>4, <1>5, CallBecomes
<1>7. /\ Cardinality(Unaware') \in Nat /\ Cardinality(Unaware) \in Nat /\ Cardinality(GWorkers) \in Nat
      /\ Cardinality(Unaware') = Cardinality(Unaware) - (IF w \in Unaware THEN 1 ELSE 0)
  BY <1>2, <1>3, <1>4, <1>5, NoLongerUnaware, UnawareSize
<1>8. /\ gNow' = gNow /\ gBlocked' = gBlocked /\ gUsed' = gUsed
      /\ gHits' = IF answer = "limit" /\ gBlocked > gNow /\ ~gCall[w].blind THEN gHits + 1 ELSE gHits
  BY DEF G!Answered
<1>9. /\ gNow \in Nat /\ gBlocked \in Nat /\ gHits \in Nat /\ gHits < Cardinality(GWorkers)
      /\ gBlocked > gNow => gHits + Cardinality(Unaware) < Cardinality(GWorkers)
  BY DEF CallsHeld, CallsTyped, HitsHeld
<1>10. ~gCall[w].blind => w \in Unaware
  BY <1>1 DEF Unaware
<1>11. gHits' \in Nat /\ HitsHeld'
  <2>1. CASE answer = "limit" /\ gBlocked > gNow /\ ~gCall[w].blind
    BY <1>7, <1>8, <1>9, <1>10, <2>1 DEF HitsHeld
  <2>2. CASE ~(answer = "limit" /\ gBlocked > gNow /\ ~gCall[w].blind)
    <3>1. gHits' = gHits /\ Cardinality(Unaware') <= Cardinality(Unaware)
      BY <1>7, <1>8, <2>2
    <3>. QED BY <1>7, <1>8, <1>9, <3>1 DEF HitsHeld
  <2>. QED BY <2>1, <2>2
<1>. QED BY <1>6, <1>8, <1>11 DEF CallsHeld, CallsTyped

\* The worker that stores the block is not unaware of it.
LEMMA StoreBlockKeeps == ASSUME G!Configured, CallsHeld, NEW w \in GWorkers, G!StoreBlock(w) PROVE CallsHeld'
<1>. DEFINE next == [gCall[w] EXCEPT !.at = "failed"]
<1>1. gCall[w] \in CallRecords /\ Sound(gCall[w]) /\ gCall[w].at = "limited" /\ G!Become(w, next)
  BY DEF CallsHeld, CallsTyped, RowsHeld, G!StoreBlock, G!At
<1>2. next \in CallRecords /\ next.at = "failed" /\ Sound(next)
  BY <1>1 DEF CallRecords, CallPoints, Sound, Unwritten, Heard, Closed
<1>. HIDE DEF next
<1>3. CASE UNCHANGED <<gBlocked, gHits>>
  BY <1>1, <1>2, <1>3, QuietCall DEF G!StoreBlock, CallsHeld, CallsTyped
<1>4. CASE gBlocked' = gNow + GBlockTtl /\ gHits' = IF gBlocked > gNow THEN gHits ELSE 0
  <2>1. gCall' \in [GWorkers -> CallRecords] /\ RowsHeld'
    BY <1>1, <1>2, CallBecomes
  <2>2. /\ Cardinality(Unaware') \in Nat /\ Cardinality(Unaware') <= Cardinality(Unaware)
        /\ Unaware' = Unaware \ {w}
    BY <1>1, <1>2, NoLongerUnaware, UnawareSize
  <2>3. Cardinality(Unaware') < Cardinality(GWorkers)
    <3>1. Unaware \ {w} \in SUBSET GWorkers /\ Unaware \ {w} # GWorkers /\ IsFiniteSet(GWorkers)
      BY SameWorkers DEF Unaware, G!Configured
    <3>2. Cardinality(Unaware \ {w}) <= Cardinality(GWorkers) /\ Cardinality(Unaware \ {w}) # Cardinality(GWorkers)
      BY <3>1, FS_Subset
    <3>. QED BY <2>2, <3>2, UnawareSize
  <2>4. /\ gNow \in Nat /\ gBlocked \in Nat /\ gHits \in Nat /\ GBlockTtl \in Nat /\ gNow' = gNow /\ gUsed' = gUsed
        /\ gHits < Cardinality(GWorkers) /\ Cardinality(GWorkers) \in Nat /\ Cardinality(GWorkers) > 0
        /\ gBlocked > gNow => gHits + Cardinality(Unaware) < Cardinality(GWorkers)
        /\ Cardinality(Unaware) \in Nat
    BY UnawareSize DEF G!StoreBlock, CallsHeld, CallsTyped, HitsHeld, G!Configured
  <2>5. gHits' \in Nat /\ gBlocked' \in Nat /\ HitsHeld'
    BY <1>4, <2>2, <2>3, <2>4 DEF HitsHeld
  <2>. QED BY <2>1, <2>4, <2>5 DEF CallsHeld, CallsTyped
<1>. QED BY <1>3, <1>4 DEF G!StoreBlock

LEMMA RecordErrorKeeps == ASSUME G!Configured, CallsHeld, NEW w \in GWorkers, G!RecordError(w) PROVE CallsHeld'
<1>. DEFINE told == [G!Ended(w, "no") EXCEPT !.error = @ + 1]
            lost == [G!Ended(w, "no") EXCEPT !.lost = TRUE]
<1>1. gCall[w] \in CallRecords /\ Sound(gCall[w]) /\ gCall[w].at \in {"failed", "cancelled"}
  BY DEF CallsHeld, CallsTyped, RowsHeld, G!RecordError, G!At
<1>2. G!Become(w, told) \/ G!Become(w, lost)
  BY DEF G!RecordError, G!AfterTimeout
<1>3. told \in CallRecords /\ lost \in CallRecords /\ told.at = "rest" /\ lost.at = "rest"
  <2>1. gCall[w].error + 1 \in Nat
    BY <1>1 DEF CallRecords
  <2>2. /\ G!Ended(w, "no") \in CallRecords /\ G!Ended(w, "no").at = "rest"
        /\ G!Ended(w, "no").error = gCall[w].error
    BY <1>1, EndedType
  <2>3. told \in CallRecords /\ lost \in CallRecords
    BY <2>1, <2>2, RowsType
  <2>. QED BY <2>2, <2>3 DEF CallRecords
<1>4. Sound(told) /\ Sound(lost)
  BY <1>1 DEF G!Ended, CallRecords, Sound, Unwritten, Heard, Closed, G!Answers
<1>. HIDE DEF told, lost
<1>. QED BY <1>2, <1>3, <1>4, QuietCall DEF G!RecordError, CallsHeld, CallsTyped

LEMMA RecordSuccessKeeps == ASSUME G!Configured, CallsHeld, NEW w \in GWorkers, G!RecordSuccess(w) PROVE CallsHeld'
<1>. DEFINE told == [G!AfterAnswer(w) EXCEPT !.success = 1]
            lost == [G!AfterAnswer(w) EXCEPT !.lost = TRUE]
<1>1. gCall[w] \in CallRecords /\ Sound(gCall[w]) /\ gCall[w].at = "answered"
  BY DEF CallsHeld, CallsTyped, RowsHeld, G!RecordSuccess, G!At
<1>2. gCall[w].answer \in {"yes", "no", "text"}
  BY <1>1 DEF Sound, Heard, G!Answers
<1>3. \/ G!AfterAnswer(w) = [gCall[w] EXCEPT !.at = "mark"] /\ gCall[w].answer = "text" /\ gCall[w].kind # "exit"
      \/ G!AfterAnswer(w) = G!Ended(w, "yes") /\ gCall[w].answer = "yes"
      \/ /\ G!AfterAnswer(w) = G!Ended(w, "no") /\ gCall[w].answer \in {"no", "text"}
         /\ gCall[w].answer = "text" => gCall[w].kind = "exit"
  BY <1>2 DEF G!AfterAnswer, G!AfterSignal, G!AfterExit, G!IsSignal
<1>4. PICK next \in CallRecords : /\ next = G!AfterAnswer(w) /\ next.at \in {"rest", "mark"}
                                  /\ next.at = "mark" <=> next.answer = "text" /\ next.kind # "exit"
                                  /\ next.at = "rest" /\ next.advice = "yes" => next.answer = "yes"
                                  /\ next.answer \in {"yes", "no", "text"}
                                  /\ next.cut = "nothing" /\ next.error = 0 /\ ~next.lost /\ next.success = 0
  <2>1. /\ gCall[w].cut = "nothing" /\ gCall[w].error = 0 /\ ~gCall[w].lost /\ gCall[w].success = 0
    BY <1>1 DEF Sound, Unwritten
  <2>2. CASE G!AfterAnswer(w) = [gCall[w] EXCEPT !.at = "mark"] /\ gCall[w].answer = "text" /\ gCall[w].kind # "exit"
    BY <1>1, <2>1, <2>2 DEF CallRecords, CallPoints
  <2>3. ASSUME NEW advice \in {"yes", "no"}, G!AfterAnswer(w) = G!Ended(w, advice),
               advice = "yes" => gCall[w].answer = "yes",
               gCall[w].answer = "text" => gCall[w].kind = "exit"
        PROVE  /\ G!AfterAnswer(w) \in CallRecords /\ G!AfterAnswer(w).at = "rest"
               /\ G!AfterAnswer(w).advice = "yes" => G!AfterAnswer(w).answer = "yes"
               /\ G!AfterAnswer(w).answer = gCall[w].answer /\ G!AfterAnswer(w).kind = gCall[w].kind
               /\ G!AfterAnswer(w).cut = "nothing" /\ G!AfterAnswer(w).error = 0
               /\ ~G!AfterAnswer(w).lost /\ G!AfterAnswer(w).success = 0
    BY <1>1, <2>1, <2>3, EndedType
  <2>. QED BY <1>2, <1>3, <2>2, <2>3
<1>5. /\ told \in CallRecords /\ lost \in CallRecords /\ told.at = next.at /\ lost.at = next.at
      /\ Sound(told) /\ Sound(lost)
  <2>1. told = [next EXCEPT !.success = 1] /\ lost = [next EXCEPT !.lost = TRUE]
    BY <1>4
  <2>. HIDE DEF told, lost
  <2>2. told \in CallRecords /\ lost \in CallRecords
    BY <2>1, RowsType
  <2>. QED BY <1>4, <2>1, <2>2 DEF CallRecords, Sound, Unwritten, Heard, Closed, G!Answers
<1>6. G!Become(w, told) \/ G!Become(w, lost)
  BY DEF G!RecordSuccess
<1>. HIDE DEF told, lost
<1>. QED BY <1>4, <1>5, <1>6, QuietCall DEF G!RecordSuccess, CallsHeld, CallsTyped

LEMMA MarkKeeps == ASSUME G!Configured, CallsHeld, NEW w \in GWorkers, G!Mark(w) PROVE CallsHeld'
<1>. DEFINE told == [G!Ended(w, "no") EXCEPT !.success = 0, !.error = @ + gCall[w].success]
            lost == [G!Ended(w, "no") EXCEPT !.lost = TRUE]
<1>1. gCall[w] \in CallRecords /\ Sound(gCall[w]) /\ gCall[w].at = "mark"
  BY DEF CallsHeld, CallsTyped, RowsHeld, G!Mark, G!At
<1>2. told \in CallRecords /\ lost \in CallRecords /\ told.at = "rest" /\ lost.at = "rest"
  <2>1. gCall[w].error + gCall[w].success \in Nat
    BY <1>1 DEF CallRecords
  <2>2. /\ G!Ended(w, "no") \in CallRecords /\ G!Ended(w, "no").at = "rest"
        /\ G!Ended(w, "no").error = gCall[w].error
    BY <1>1, EndedType
  <2>3. told \in CallRecords /\ lost \in CallRecords
    BY <2>1, <2>2, RowsType
  <2>. QED BY <2>2, <2>3 DEF CallRecords
<1>3. Sound(told) /\ Sound(lost)
  BY <1>1 DEF G!Ended, CallRecords, Sound, Unwritten, Heard, Closed, G!Answers
<1>4. G!Become(w, told) \/ G!Become(w, lost)
  BY DEF G!Mark
<1>. HIDE DEF told, lost
<1>. QED BY <1>2, <1>3, <1>4, QuietCall DEF G!Mark, CallsHeld, CallsTyped

LEMMA CutKeeps == ASSUME G!Configured, CallsHeld, NEW w \in GWorkers, G!Cut(w) PROVE CallsHeld'
<1>1. gCall[w] \in CallRecords /\ Sound(gCall[w])
  BY DEF CallsHeld, CallsTyped, RowsHeld
<1>2. ASSUME NEW next \in CallRecords, Sound(next), next.at # "sent", G!Become(w, next)
      PROVE  CallsHeld'
  BY <1>2, QuietCall DEF G!Cut, CallsHeld, CallsTyped
<1>3. CASE G!At(w, {"sent"}) /\ G!Become(w, [gCall[w] EXCEPT !.at = "cancelled", !.cut = "sent"])
  <2>. DEFINE next == [gCall[w] EXCEPT !.at = "cancelled", !.cut = "sent"]
  <2>1. next \in CallRecords /\ next.at # "sent"
    BY <1>1 DEF CallRecords, CallPoints
  <2>2. Sound(next)
    BY <1>1, <1>3 DEF G!At, CallRecords, Sound, Unwritten, Heard, Closed
  <2>. HIDE DEF next
  <2>. QED BY <1>2, <1>3, <2>1, <2>2 DEF next
<1>4. ASSUME G!At(w, {"answered"}), NEW rows \in {0, 1},
             G!Become(w, [gCall[w] EXCEPT !.at = "cancelled", !.cut = "record", !.success = rows])
      PROVE  CallsHeld'
  <2>. DEFINE next == [gCall[w] EXCEPT !.at = "cancelled", !.cut = "record", !.success = rows]
  <2>1. next \in CallRecords /\ next.at # "sent"
    <3>1. rows \in Nat
      OBVIOUS
    <3>. QED BY <1>1, <3>1 DEF CallRecords, CallPoints
  <2>2. Sound(next)
    BY <1>1, <1>4 DEF G!At, CallRecords, Sound, Unwritten, Heard, Closed
  <2>. HIDE DEF next
  <2>. QED BY <1>2, <1>4, <2>1, <2>2 DEF next
<1>5. CASE G!Become(w, [G!Ended(w, G!AfterTimeout) EXCEPT !.cut = "elsewhere"])
  <2>. DEFINE next == [G!Ended(w, G!AfterTimeout) EXCEPT !.cut = "elsewhere"]
  <2>1. next \in CallRecords /\ next.at # "sent"
    BY <1>1 DEF G!Ended, G!AfterTimeout, CallRecords, CallPoints
  <2>2. Sound(next)
    BY <1>1 DEF G!Ended, G!AfterTimeout, CallRecords, Sound, Unwritten, Heard, Closed
  <2>. HIDE DEF next
  <2>. QED BY <1>2, <1>5, <2>1, <2>2 DEF next
<1>. QED BY <1>3, <1>4, <1>5 DEF G!Cut

LEMMA CallsInit == G!Configured /\ G!Init => CallsHeld
<1>. SUFFICES ASSUME G!Configured, G!Init PROVE CallsHeld
  OBVIOUS
<1>. DEFINE first == [G!NewCall("exit") EXCEPT !.at = "rest", !.cut = "budget"]
<1>1. first \in CallRecords /\ Sound(first)
  BY NewCallSound DEF G!Init
<1>2. gCall = [w \in GWorkers |-> first]
  BY DEF G!Init
<1>. HIDE DEF first
<1>3. CallsTyped
  BY <1>1, <1>2 DEF G!Init, CallsTyped
<1>4. RowsHeld
  BY <1>1, <1>2 DEF RowsHeld
<1>5. HitsHeld
  BY UnawareSize DEF G!Init, HitsHeld
<1>. QED BY <1>3, <1>4, <1>5 DEF CallsHeld

LEMMA CallsNext == G!Configured /\ CallsHeld /\ [G!Next]_(G!vars) => CallsHeld'
<1>. SUFFICES ASSUME G!Configured, CallsHeld, [G!Next]_(G!vars) PROVE CallsHeld'
  OBVIOUS
<1>1. CASE \E w \in GWorkers, k \in GKinds : G!Begin(w, k) \/ G!OverBudget(w, k)
  BY <1>1, BeginCallKeeps
<1>2. CASE \E w \in GWorkers : \/ G!ReadBlock(w) \/ G!StoreBlock(w) \/ G!RecordError(w)
                               \/ G!RecordSuccess(w) \/ G!Mark(w) \/ G!Cut(w)
  BY <1>2, ReadBlockKeeps, StoreBlockKeeps, RecordErrorKeeps, RecordSuccessKeeps, MarkKeeps, CutKeeps
<1>3. CASE \E w \in GWorkers, answer \in G!Answers \cup G!Errors : G!Answered(w, answer)
  BY <1>3, AnsweredKeeps
<1>4. CASE G!Tick \/ UNCHANGED G!vars
  <2>1. /\ gNow' \in Nat /\ gNow' >= gNow /\ UNCHANGED <<gUsed, gBlocked, gCall, gHits>>
    BY <1>4 DEF G!Tick, G!vars, CallsHeld, CallsTyped
  <2>2. CallsTyped' /\ RowsHeld'
    BY <2>1 DEF CallsHeld, CallsTyped, RowsHeld, Sound, Unwritten, Heard, Closed
  <2>3. Unaware' = Unaware
    BY <2>1 DEF Unaware
  <2>4. HitsHeld'
    BY <2>1, <2>3 DEF CallsHeld, CallsTyped, HitsHeld
  <2>. QED BY <2>2, <2>4 DEF CallsHeld
<1>. QED BY <1>1, <1>2, <1>3, <1>4 DEF G!Next

\* The invariant, for the two theorems.
LEMMA GatewayInvariant == ASSUME G!Configured PROVE G!Spec => []CallsHeld
<1>1. G!Init => CallsHeld
  BY CallsInit
<1>2. CallsHeld /\ [G!Next]_(G!vars) => CallsHeld'
  BY CallsNext
<1>. QED BY <1>1, <1>2, PTL DEF G!Spec

----------------------------------------------------------------------------
(* The theorems.                                                           *)

\* An entry or an exit rests on an answer of Claude that asks for it, whatever calls are
\* cut, refused, unreadable or in error (analyzer.py).
LEMMA AdviceAlone == ASSUME G!Configured PROVE G!Spec => []G!AdviceWasGiven
<1>1. CallsHeld => G!AdviceWasGiven
  BY DEF CallsHeld, RowsHeld, Sound, Closed, G!AdviceWasGiven, G!At
<1>. QED BY <1>1, GatewayInvariant, PTL

\* However many coroutines call Claude at one time, a limit that is stored is met again at
\* most once by each that was under way, and the audit row of a signal's call tells what
\* came of it (ai_gateway.create_message, mark_response_unusable).
LEMMA RecordsAlone == ASSUME G!Configured PROVE G!Spec => []G!RecordsHold
<1>1. CallsHeld => G!BlockStopsTheRest
  BY SameWorkers DEF CallsHeld, HitsHeld, G!BlockStopsTheRest
<1>2. CallsHeld => G!AuditTellsOutcome
  BY DEF CallsHeld, RowsHeld, Sound, Closed, G!AuditTellsOutcome, G!At, G!IsSignal
<1>. QED BY <1>1, <1>2, GatewayInvariant, PTL DEF G!RecordsHold

----------------------------------------------------------------------------
(* CandidatePools: a pool is as young as its build, and what was read of   *)
(* it is watched.                                                          *)

Listed(codes) == \E n \in Nat : DOMAIN codes = 1..n

\* A pool is a list of the past that lives no longer than its builder says.
PoolHeld(s) ==
    /\ Listed(pPools[s].codes)
    /\ pPools[s].built \in Nat /\ pPools[s].built <= pNow
    /\ pPools[s].until \in Int /\ pPools[s].until <= pPools[s].built + P!Units(P!PoolLife(s))

\* The watchlist and its listing are of a refresh of the past.
OfThePast(list) == list.until \in Int /\ list.built \in Nat /\ list.built <= pNow
WatchlistTyped ==
    /\ pWatchlist = [codes |-> pWatchlist.codes, until |-> pWatchlist.until, built |-> pWatchlist.built,
                     read |-> pWatchlist.read]
    /\ OfThePast(pWatchlist) /\ OfThePast(pListing)

PoolsTyped ==
    /\ pNow \in Nat
    /\ pPools = [s \in P!Builders |-> pPools[s]]
    /\ \A s \in P!Builders : PoolHeld(s)
    /\ WatchlistTyped

PoolsInv == PoolsTyped /\ P!PooledIsWatched /\ P!PooledIsListed

LEMMA UnitsType == ASSUME P!Configured, NEW s PROVE P!Units(P!PoolLife(s)) \in Nat
<1>1. P!PoolLife(s) \in {60, 40, 30, 20}
  BY DEF P!PoolLife
<1>2. PMinute \in Nat \ {0}
  BY DEF P!Configured
<1>3. \A life \in Nat : (life + PMinute - 1) \div PMinute \in Nat
  BY <1>2
<1>. QED BY <1>1, <1>3 DEF P!Units

LEMMA MinutesType == ASSUME P!Configured, NEW life \in Nat PROVE P!Units(life) \in Nat
<1>1. PMinute \in Nat \ {0}
  BY DEF P!Configured
<1>2. (life + PMinute - 1) \div PMinute \in Nat
  BY <1>1
<1>. QED BY <1>2 DEF P!Units

LEMMA LiveScoreType == ASSUME NEW sources PROVE P!LiveScore(sources) \in Int
<1>. DEFINE of(source) == IF source \in sources THEN P!LiveWeight[source] ELSE 0
<1>1. P!LiveWeight["liquidity"] \in Int /\ P!LiveWeight["foreign"] \in Int /\ P!LiveWeight["same"] \in Int
  BY DEF P!LiveWeight
<1>2. P!LiveWeight["balance"] \in Int /\ P!LiveWeight["surge"] \in Int /\ P!LiveWeight["ratio"] \in Int
  BY DEF P!LiveWeight
<1>3. of("liquidity") \in Int /\ of("foreign") \in Int /\ of("same") \in Int
  BY <1>1
<1>4. of("balance") \in Int /\ of("surge") \in Int /\ of("ratio") \in Int
  BY <1>2
<1>5. P!LiveScore(sources)
        = of("liquidity") + of("foreign") + of("same") + of("balance") + of("surge") + of("ratio")
  BY DEF P!LiveScore
<1>. HIDE DEF of
<1>. QED BY <1>3, <1>4, <1>5

LEMMA SamePools == \A S : P!Cardinality(S) = Cardinality(S)
BY DEF P!Cardinality, Cardinality

\* Of two members one comes before the other, and what comes before it comes before both.
LEMMA BeforeOrders ==
    ASSUME NEW n \in Nat, NEW codes, DOMAIN codes = 1..n, NEW live
    PROVE  /\ \A i \in 1..n : ~P!Before(codes, live, i, i)
           /\ \A i, j \in 1..n : i # j => P!Before(codes, live, i, j) \/ P!Before(codes, live, j, i)
           /\ \A i, j, k \in 1..n : P!Before(codes, live, i, j) /\ P!Before(codes, live, j, k)
                                        => P!Before(codes, live, i, k)
<1>. DEFINE f == [i \in 1..n |-> P!LiveScore(live[codes[i]])]
<1>1. f \in [1..n -> Int]
  BY LiveScoreType
<1>2. \A i, j \in 1..n : P!Before(codes, live, i, j) <=> (f[i] > f[j] \/ (f[i] = f[j] /\ i < j))
  BY DEF P!Before
<1>. HIDE DEF f
<1>. QED BY <1>1, <1>2

\* Every place of the reordered list is that of exactly one member: places are counted by
\* the members ahead, and two members have different numbers of them ahead.
LEMMA PlacesAreTaken ==
    ASSUME NEW n \in Nat, NEW codes, DOMAIN codes = 1..n, NEW live, NEW i \in 1..n
    PROVE  \E j \in 1..n : P!Cardinality(P!Ahead(codes, live, j)) = i - 1
<1>. DEFINE ahead(j) == P!Ahead(codes, live, j)
            place == [j \in 1..n |-> Cardinality(ahead(j))]
<1>1. \A j : ahead(j) = {k \in 1..n : P!Before(codes, live, k, j)}
  BY DEF P!Ahead
<1>2. IsFiniteSet(1..n) /\ Cardinality(1..n) = n
  BY FS_Interval
<1>3. \A j \in 1..n : IsFiniteSet(ahead(j)) /\ Cardinality(ahead(j)) \in 0..n - 1
  <2>. SUFFICES ASSUME NEW j \in 1..n PROVE IsFiniteSet(ahead(j)) /\ Cardinality(ahead(j)) \in 0..n - 1
    OBVIOUS
  <2>1. ahead(j) \in SUBSET ((1..n) \ {j})
    BY <1>1, BeforeOrders
  <2>2. IsFiniteSet((1..n) \ {j}) /\ Cardinality((1..n) \ {j}) = n - 1
    BY <1>2, FS_RemoveElement
  <2>3. IsFiniteSet(ahead(j)) /\ Cardinality(ahead(j)) <= n - 1
    BY <2>1, <2>2, FS_Subset
  <2>4. Cardinality(ahead(j)) \in Nat
    BY <2>3, FS_CardinalityType
  <2>. HIDE DEF ahead
  <2>. QED BY <2>3, <2>4
<1>4. \A j, k \in 1..n : P!Before(codes, live, j, k) => Cardinality(ahead(j)) # Cardinality(ahead(k))
  <2>. SUFFICES ASSUME NEW j \in 1..n, NEW k \in 1..n, P!Before(codes, live, j, k)
                PROVE  Cardinality(ahead(j)) # Cardinality(ahead(k))
    OBVIOUS
  <2>1. ahead(j) \in SUBSET ahead(k)
    BY <1>1, BeforeOrders
  <2>2. j \in ahead(k) /\ j \notin ahead(j)
    BY <1>1, BeforeOrders
  <2>3. IsFiniteSet(ahead(k))
    BY <1>3
  <2>. HIDE DEF ahead
  <2>. QED BY <2>1, <2>2, <2>3, FS_Subset
<1>5. place \in Injection(1..n, 0..n - 1)
  <2>1. place \in [1..n -> 0..n - 1]
    BY <1>3
  <2>2. \A j, k \in 1..n : place[j] = place[k] => j = k
    BY <1>4, BeforeOrders
  <2>. HIDE DEF place
  <2>. QED BY <2>1, <2>2 DEF Injection, IsInjective
<1>6. IsFiniteSet(0..n - 1) /\ Cardinality(0..n - 1) = n
  BY FS_Interval
<1>7. place \in Surjection(1..n, 0..n - 1)
  <2>. HIDE DEF place
  <2>. QED BY <1>2, <1>5, <1>6, FS_Injection
<1>8. \E j \in 1..n : place[j] = i - 1
  <2>. HIDE DEF place
  <2>1. i - 1 \in 0..n - 1
    OBVIOUS
  <2>. QED BY <1>7, <2>1 DEF Surjection
<1>. QED BY <1>8, SamePools

\* _prioritize_existing_candidate_pools neither invents nor renames a member.
LEMMA OrderKeeps ==
    ASSUME NEW codes, Listed(codes), NEW live
    PROVE  /\ Listed(P!InOrder(codes, live))
           /\ P!Range(P!InOrder(codes, live)) \subseteq P!Range(codes)
<1>. PICK n \in Nat : DOMAIN codes = 1..n
  BY DEF Listed
<1>. DEFINE at(i) == CHOOSE j \in 1..n : P!Cardinality(P!Ahead(codes, live, j)) = i - 1
<1>1. P!InOrder(codes, live) = [i \in 1..n |-> codes[at(i)]]
  BY DEF P!InOrder
<1>2. \A i \in 1..n : at(i) \in 1..n
  <2>1. \A i \in 1..n : \E j \in 1..n : P!Cardinality(P!Ahead(codes, live, j)) = i - 1
    BY PlacesAreTaken
  <2>. QED BY <2>1
<1>. HIDE DEF at
<1>. QED BY <1>1, <1>2 DEF Listed, P!Range

\* A pool that is now of a refresh's reading was so before, of no fewer stocks, where every
\* pool is either of this moment or holds no stock it did not hold.
LEMMA ReadBefore ==
    ASSUME pNow \in Nat, pNow' = pNow, NEW s, NEW built \in Nat, built <= pNow,
           pPools'[s].until > pNow', pPools'[s].built < built,
           \/ pPools'[s].built = pNow
           \/ /\ pPools'[s].until = pPools[s].until /\ pPools'[s].built = pPools[s].built
              /\ P!Range(pPools'[s].codes) \subseteq P!Range(pPools[s].codes)
    PROVE  /\ pPools[s].until > pNow /\ pPools[s].built < built
           /\ P!Range(pPools'[s].codes) \subseteq P!Range(pPools[s].codes)
OBVIOUS

\* A step that leaves the lists and the clock alone and is such of every pool keeps what
\* is watched.
LEMMA WatchedKept ==
    ASSUME PoolsInv, UNCHANGED <<pNow, pWatchlist, pListing>>,
           \A s \in P!Builders :
               \/ pPools'[s].built = pNow
               \/ /\ pPools'[s].until = pPools[s].until /\ pPools'[s].built = pPools[s].built
                  /\ P!Range(pPools'[s].codes) \subseteq P!Range(pPools[s].codes)
    PROVE  P!PooledIsWatched' /\ P!PooledIsListed'
<1>0. /\ pNow \in Nat /\ pWatchlist.built \in Nat /\ pWatchlist.built <= pNow
      /\ pListing.built \in Nat /\ pListing.built <= pNow
  BY DEF PoolsInv, PoolsTyped, WatchlistTyped, OfThePast
<1>1. pWatchlist' = pWatchlist /\ pListing' = pListing /\ pNow' = pNow
  OBVIOUS
<1>2. P!PooledIsWatched'
  <2>. SUFFICES ASSUME P!Live(pWatchlist)', NEW s \in P!Builders, P!ReadBy(pWatchlist, s)'
                PROVE  P!Range(pPools'[s].codes) \subseteq pWatchlist'.codes
    BY DEF P!PooledIsWatched, P!Range
  <2>1. s \in pWatchlist.read /\ pPools'[s].until > pNow' /\ pPools'[s].built < pWatchlist.built
    BY <1>1 DEF P!ReadBy, P!Live
  <2>2. /\ pPools[s].until > pNow /\ pPools[s].built < pWatchlist.built
        /\ P!Range(pPools'[s].codes) \subseteq P!Range(pPools[s].codes)
    BY <1>0, <1>1, <2>1, ReadBefore
  <2>3. P!Live(pWatchlist) /\ P!ReadBy(pWatchlist, s)
    BY <1>1, <2>1, <2>2 DEF P!Live, P!ReadBy
  <2>. QED BY <1>1, <2>2, <2>3 DEF PoolsInv, P!PooledIsWatched
<1>3. P!PooledIsListed'
  <2>. SUFFICES ASSUME P!Live(pListing)', NEW s \in P!Builders, P!ReadBy(pListing, s)'
                PROVE  \/ P!Range(pPools'[s].codes) \subseteq pListing'.codes
                       \/ P!Cardinality(pListing'.codes) = PListenLimit
    BY DEF P!PooledIsListed, P!Range, P!Cardinality
  <2>1. s \in pListing.read /\ pPools'[s].until > pNow' /\ pPools'[s].built < pListing.built
    BY <1>1 DEF P!ReadBy, P!Live
  <2>2. /\ pPools[s].until > pNow /\ pPools[s].built < pListing.built
        /\ P!Range(pPools'[s].codes) \subseteq P!Range(pPools[s].codes)
    BY <1>0, <1>1, <2>1, ReadBefore
  <2>3. P!Live(pListing) /\ P!ReadBy(pListing, s)
    BY <1>1, <2>1, <2>2 DEF P!Live, P!ReadBy
  <2>. QED BY <1>1, <2>2, <2>3 DEF PoolsInv, P!PooledIsListed
<1>. QED BY <1>2, <1>3

LEMMA BuildKeeps ==
    ASSUME P!Configured, PoolsInv, NEW b \in P!Builders, P!Build(b)
    PROVE  PoolsInv'
<1>. PICK ranking \in PRankings, toss \in PTossRankings, named \in BOOLEAN :
         pPools' = [pPools EXCEPT ![b] =
             P!Pushed(@, P!Codes(P!Qualified(b, ranking, toss, named)),
                      pNow + P!Units(P!PoolLife(b)), pNow)]
  BY DEF P!Build
<1>. DEFINE codes == P!Codes(P!Qualified(b, ranking, toss, named))
            built == [codes |-> codes, until |-> pNow + P!Units(P!PoolLife(b)), built |-> pNow]
<1>1. pNow \in Nat /\ P!Units(P!PoolLife(b)) \in Nat
  BY UnitsType DEF PoolsInv, PoolsTyped
<1>2. UNCHANGED <<pNow, pWatchlist, pListing>>
  BY DEF P!Build
<1>3. pPools = [s \in P!Builders |-> pPools[s]] /\ \A s \in P!Builders : PoolHeld(s)
  BY DEF PoolsInv, PoolsTyped
<1>4. pPools'[b] = pPools[b] \/ pPools'[b] = built
  BY <1>3 DEF P!Pushed
<1>5. \A s \in P!Builders : s # b => pPools'[s] = pPools[s]
  BY <1>3
<1>6. pPools' = [s \in P!Builders |-> pPools'[s]]
  BY <1>3
<1>7. Listed(codes)
  <2>1. \E n \in 0..Len(ranking) + Len(toss) : DOMAIN P!Qualified(b, ranking, toss, named) = 1..n
    BY DEF P!Configured
  <2>2. DOMAIN codes = DOMAIN P!Qualified(b, ranking, toss, named)
    BY DEF P!Codes
  <2>. QED BY <2>1, <2>2 DEF Listed
<1>8. \A s \in P!Builders : PoolHeld(s)'
  <2>. SUFFICES ASSUME NEW s \in P!Builders PROVE PoolHeld(s)'
    OBVIOUS
  <2>1. CASE pPools'[s] = pPools[s]
    BY <1>2, <1>3, <2>1 DEF PoolHeld, Listed, P!Units, P!PoolLife
  <2>2. CASE s = b /\ pPools'[s] = built
    <3>1. pPools'[s].codes = codes /\ pPools'[s].built = pNow
          /\ pPools'[s].until = pNow + P!Units(P!PoolLife(s))
      BY <2>2
    <3>. HIDE DEF codes, built
    <3>. QED BY <1>1, <1>2, <1>7, <2>2, <3>1 DEF PoolHeld, Listed
  <2>. QED BY <1>4, <1>5, <2>1, <2>2
<1>9. PoolsTyped'
  BY <1>1, <1>2, <1>6, <1>8 DEF PoolsInv, PoolsTyped, WatchlistTyped, OfThePast
<1>10. P!PooledIsWatched' /\ P!PooledIsListed'
  <2>1. \A s \in P!Builders : \/ pPools'[s].built = pNow
                              \/ pPools'[s] = pPools[s]
    BY <1>4, <1>5
  <2>. HIDE DEF codes, built
  <2>. QED BY <1>2, <2>1, WatchedKept
<1>. QED BY <1>9, <1>10 DEF PoolsInv

LEMMA PrioritizeKeeps == ASSUME P!Configured, PoolsInv, P!Prioritize PROVE PoolsInv'
<1>. PICK live \in PLiveRankings, unread \in SUBSET P!Found({}) :
         pPools' = [s \in P!Builders |-> IF s \in P!Found(unread) THEN P!Reordered(s, live) ELSE pPools[s]]
  BY DEF P!Prioritize
<1>1. UNCHANGED <<pNow, pWatchlist, pListing>>
  BY DEF P!Prioritize
<1>2. pPools = [s \in P!Builders |-> pPools[s]] /\ \A s \in P!Builders : PoolHeld(s)
  BY DEF PoolsInv, PoolsTyped
<1>3. \A s \in P!Builders :
          /\ pPools'[s].until = pPools[s].until /\ pPools'[s].built = pPools[s].built
          /\ P!Range(pPools'[s].codes) \subseteq P!Range(pPools[s].codes)
          /\ Listed(pPools'[s].codes)
  <2>. SUFFICES ASSUME NEW s \in P!Builders
                PROVE  /\ pPools'[s].until = pPools[s].until /\ pPools'[s].built = pPools[s].built
                       /\ P!Range(pPools'[s].codes) \subseteq P!Range(pPools[s].codes)
                       /\ Listed(pPools'[s].codes)
    OBVIOUS
  <2>1. Listed(pPools[s].codes)
    BY <1>2 DEF PoolHeld
  <2>2. \/ pPools'[s] = pPools[s]
        \/ pPools'[s] = [codes |-> P!InOrder(pPools[s].codes, live), until |-> pPools[s].until,
                         built |-> pPools[s].built]
    BY DEF P!Reordered, P!Pushed
  <2>3. CASE pPools'[s] = pPools[s]
    BY <2>1, <2>3
  <2>4. CASE pPools'[s] = [codes |-> P!InOrder(pPools[s].codes, live), until |-> pPools[s].until,
                           built |-> pPools[s].built]
    BY <2>1, <2>4, OrderKeeps
  <2>. QED BY <2>2, <2>3, <2>4
<1>4. \A s \in P!Builders : PoolHeld(s)'
  BY <1>1, <1>2, <1>3 DEF PoolHeld, P!Units, P!PoolLife
<1>5. PoolsTyped'
  BY <1>1, <1>4 DEF PoolsInv, PoolsTyped, WatchlistTyped, OfThePast
<1>6. P!PooledIsWatched' /\ P!PooledIsListed'
  BY <1>1, <1>3, WatchedKept
<1>. QED BY <1>5, <1>6 DEF PoolsInv

LEMMA RefreshKeeps ==
    ASSUME P!Configured, PoolsInv, NEW unread, NEW fails \in BOOLEAN, P!Refresh(unread, fails)
    PROVE  PoolsInv'
<1>1. UNCHANGED <<pNow, pPools>>
  BY DEF P!Refresh
<1>2. pNow \in Nat /\ WatchlistTyped /\ P!PooledIsWatched /\ P!PooledIsListed
  BY DEF PoolsInv, PoolsTyped
<1>3. \A s \in P!Builders : PoolHeld(s)'
  BY <1>1 DEF PoolsInv, PoolsTyped, PoolHeld, P!Units, P!PoolLife
<1>4. UNCHANGED pWatchlist => P!PooledIsWatched'
  BY <1>1, <1>2 DEF P!PooledIsWatched, P!ReadBy, P!Live, P!Range
<1>5. UNCHANGED pListing => P!PooledIsListed'
  BY <1>1, <1>2 DEF P!PooledIsListed, P!ReadBy, P!Live, P!Range, P!Cardinality
<1>6. CASE UNCHANGED <<pWatchlist, pListing>>
  BY <1>1, <1>2, <1>3, <1>4, <1>5, <1>6 DEF PoolsInv, PoolsTyped, WatchlistTyped, OfThePast
<1>7. CASE /\ pWatchlist' = [codes |-> P!Merged(unread), until |-> pNow + P!Units(15), built |-> pNow,
                             read |-> P!Found(unread)]
           /\ \/ UNCHANGED pListing
              \/ \E top \in P!Topmost(P!Merged(unread)) :
                     pListing' = [codes |-> top, until |-> pNow + P!Units(60), built |-> pNow,
                                  read |-> P!Found(unread)]
  <2>0. \A s : s \in P!Found(unread) => P!Range(pPools[s].codes) \subseteq P!Merged(unread)
    BY DEF P!Merged
  <2>1. P!Units(15) \in Nat /\ P!Units(60) \in Nat
    BY MinutesType
  <2>2. P!PooledIsWatched'
    <3>. SUFFICES ASSUME NEW s \in P!Builders, P!ReadBy(pWatchlist, s)'
                  PROVE  P!Range(pPools'[s].codes) \subseteq pWatchlist'.codes
      BY DEF P!PooledIsWatched, P!Range
    <3>1. s \in P!Found(unread)
      BY <1>7 DEF P!ReadBy
    <3>. QED BY <1>1, <1>7, <2>0, <3>1
  <2>3. OfThePast(pWatchlist)' /\ pWatchlist' = [codes |-> pWatchlist'.codes, until |-> pWatchlist'.until,
                                                built |-> pWatchlist'.built, read |-> pWatchlist'.read]
    BY <1>1, <1>2, <1>7, <2>1 DEF OfThePast
  <2>4. OfThePast(pListing)' /\ P!PooledIsListed'
    <3>1. CASE UNCHANGED pListing
      BY <1>1, <1>2, <1>5, <3>1 DEF WatchlistTyped, OfThePast
    <3>2. ASSUME NEW top \in P!Topmost(P!Merged(unread)),
                 pListing' = [codes |-> top, until |-> pNow + P!Units(60), built |-> pNow,
                              read |-> P!Found(unread)]
          PROVE  OfThePast(pListing)' /\ P!PooledIsListed'
      <4>1. OfThePast(pListing)'
        BY <1>1, <1>2, <2>1, <3>2 DEF OfThePast
      <4>2. P!Cardinality(top) = PListenLimit \/ top = P!Merged(unread)
        BY DEF P!Topmost
      <4>3. P!PooledIsListed'
        <5>. SUFFICES ASSUME NEW s \in P!Builders, P!ReadBy(pListing, s)'
                      PROVE  \/ P!Range(pPools'[s].codes) \subseteq pListing'.codes
                             \/ P!Cardinality(pListing'.codes) = PListenLimit
          BY DEF P!PooledIsListed, P!Range, P!Cardinality
        <5>1. s \in P!Found(unread) /\ pListing'.codes = top
          BY <3>2 DEF P!ReadBy
        <5>. QED BY <1>1, <2>0, <4>2, <5>1
      <4>. QED BY <4>1, <4>3
    <3>. QED BY <1>7, <3>1, <3>2
  <2>. QED BY <1>1, <1>2, <1>3, <2>2, <2>3, <2>4 DEF PoolsInv, PoolsTyped, WatchlistTyped
<1>8. \/ UNCHANGED <<pWatchlist, pListing>>
      \/ /\ pWatchlist' = [codes |-> P!Merged(unread), until |-> pNow + P!Units(15), built |-> pNow,
                            read |-> P!Found(unread)]
         /\ \/ UNCHANGED pListing
            \/ \E top \in P!Topmost(P!Merged(unread)) :
                   pListing' = [codes |-> top, until |-> pNow + P!Units(60), built |-> pNow,
                                read |-> P!Found(unread)]
  BY DEF P!Refresh
<1>. QED BY <1>6, <1>7, <1>8

\* /score adds to a watchlist that lives, and one that lapsed begins as of no refresh.
LEMMA ScoreKeeps == ASSUME P!Configured, PoolsInv, NEW stk, P!Score(stk) PROVE PoolsInv'
<1>1. UNCHANGED <<pNow, pPools, pListing>>
  BY DEF P!Score
<1>2. pNow \in Nat /\ WatchlistTyped /\ P!PooledIsWatched /\ P!PooledIsListed
  BY DEF PoolsInv, PoolsTyped
<1>3. \A s \in P!Builders : PoolHeld(s)'
  BY <1>1 DEF PoolsInv, PoolsTyped, PoolHeld, P!Units, P!PoolLife
<1>6. P!PooledIsListed' /\ OfThePast(pListing)'
  BY <1>1, <1>2 DEF P!PooledIsListed, P!ReadBy, P!Live, P!Range, P!Cardinality, WatchlistTyped, OfThePast
<1>4. CASE P!Live(pWatchlist)
  <2>1. pWatchlist' = [codes |-> pWatchlist.codes \cup {stk}, until |-> pNow + P!Units(120),
                       built |-> pWatchlist.built, read |-> pWatchlist.read]
    BY <1>2, <1>4 DEF P!Score, WatchlistTyped
  <2>2. WatchlistTyped'
    BY <1>1, <1>2, <1>6, <2>1, MinutesType DEF WatchlistTyped, OfThePast
  <2>3. P!PooledIsWatched'
    <3>. SUFFICES ASSUME NEW s \in P!Builders, P!ReadBy(pWatchlist, s)'
                  PROVE  P!Range(pPools'[s].codes) \subseteq pWatchlist'.codes
      BY DEF P!PooledIsWatched, P!Range
    <3>1. P!ReadBy(pWatchlist, s)
      BY <1>1, <2>1 DEF P!ReadBy, P!Live
    <3>2. P!Range(pPools[s].codes) \subseteq pWatchlist.codes
      BY <1>2, <1>4, <3>1 DEF P!PooledIsWatched
    <3>. QED BY <1>1, <2>1, <3>2
  <2>. QED BY <1>1, <1>2, <1>3, <1>6, <2>2, <2>3 DEF PoolsInv, PoolsTyped
<1>5. CASE ~P!Live(pWatchlist)
  <2>1. pWatchlist' = [codes |-> {stk}, until |-> pNow + P!Units(120), built |-> 0, read |-> {}]
    BY <1>5 DEF P!Score, P!Unlisted
  <2>2. WatchlistTyped'
    BY <1>1, <1>2, <1>6, <2>1, MinutesType DEF WatchlistTyped, OfThePast
  <2>3. P!PooledIsWatched'
    BY <2>1 DEF P!PooledIsWatched, P!ReadBy
  <2>. QED BY <1>1, <1>2, <1>3, <1>6, <2>2, <2>3 DEF PoolsInv, PoolsTyped
<1>. QED BY <1>4, <1>5

\* Keys lapse: what a pool held is gone, and a watchlist that lives has lived.
LEMMA TickKeeps == ASSUME P!Configured, PoolsInv, P!Tick PROVE PoolsInv'
<1>1. pNow' = pNow + 1 /\ pWatchlist' = pWatchlist /\ pListing' = pListing
      /\ pPools' = [s \in P!Builders |-> IF pPools[s].until > pNow + 1 THEN pPools[s] ELSE P!Empty]
  BY DEF P!Tick
<1>2. pNow \in Nat /\ WatchlistTyped /\ P!PooledIsWatched /\ P!PooledIsListed
  BY DEF PoolsInv, PoolsTyped
<1>3. \A s \in P!Builders : PoolHeld(s)'
  <2>. SUFFICES ASSUME NEW s \in P!Builders PROVE PoolHeld(s)'
    OBVIOUS
  <2>1. PoolHeld(s) /\ P!Units(P!PoolLife(s)) \in Nat
    BY UnitsType DEF PoolsInv, PoolsTyped
  <2>2. CASE pPools'[s] = pPools[s]
    BY <1>1, <1>2, <2>1, <2>2 DEF PoolHeld
  <2>3. CASE pPools'[s] = P!Empty
    <3>1. Listed(P!Empty.codes)
      BY DEF P!Empty, Listed
    <3>2. P!Empty.until = 0 /\ P!Empty.built = 0
      BY DEF P!Empty
    <3>. QED BY <1>1, <1>2, <2>1, <2>3, <3>1, <3>2 DEF PoolHeld
  <2>. QED BY <1>1, <2>2, <2>3
\* A pool that lives after it lived before, as it is.
<1>6. ASSUME NEW s \in P!Builders, pPools'[s].until > pNow'
      PROVE  pPools'[s] = pPools[s] /\ pPools[s].until > pNow
  <2>1. PoolHeld(s)
    BY DEF PoolsInv, PoolsTyped
  <2>2. pPools'[s] = pPools[s]
    BY <1>1, <1>2, <1>6 DEF P!Empty
  <2>. QED BY <1>1, <1>2, <1>6, <2>1, <2>2 DEF PoolHeld
<1>4. P!PooledIsWatched'
  <2>. SUFFICES ASSUME P!Live(pWatchlist)', NEW s \in P!Builders, P!ReadBy(pWatchlist, s)'
                PROVE  P!Range(pPools'[s].codes) \subseteq pWatchlist'.codes
    BY DEF P!PooledIsWatched, P!Range
  <2>1. pPools'[s] = pPools[s] /\ pPools[s].until > pNow
    BY <1>6 DEF P!ReadBy, P!Live
  <2>2. P!Live(pWatchlist) /\ P!ReadBy(pWatchlist, s)
    BY <1>1, <1>2, <2>1 DEF P!Live, P!ReadBy, WatchlistTyped, OfThePast
  <2>. QED BY <1>1, <1>2, <2>1, <2>2 DEF P!PooledIsWatched
<1>5. P!PooledIsListed'
  <2>. SUFFICES ASSUME P!Live(pListing)', NEW s \in P!Builders, P!ReadBy(pListing, s)'
                PROVE  \/ P!Range(pPools'[s].codes) \subseteq pListing'.codes
                       \/ P!Cardinality(pListing'.codes) = PListenLimit
    BY DEF P!PooledIsListed, P!Range, P!Cardinality
  <2>1. pPools'[s] = pPools[s] /\ pPools[s].until > pNow
    BY <1>6 DEF P!ReadBy, P!Live
  <2>2. P!Live(pListing) /\ P!ReadBy(pListing, s)
    BY <1>1, <1>2, <2>1 DEF P!Live, P!ReadBy, WatchlistTyped, OfThePast
  <2>. QED BY <1>1, <1>2, <2>1, <2>2 DEF P!PooledIsListed
<1>. QED BY <1>1, <1>2, <1>3, <1>4, <1>5 DEF PoolsInv, PoolsTyped, WatchlistTyped, OfThePast

LEMMA PoolsInit == P!Configured /\ P!Init => PoolsInv
<1>. SUFFICES ASSUME P!Configured, P!Init PROVE PoolsInv
  OBVIOUS
<1>1. pNow = 0 /\ pPools = [s \in P!Builders |-> P!Empty]
      /\ pWatchlist = P!Unlisted /\ pListing = P!Unlisted
  BY DEF P!Init
<1>2. Listed(P!Empty.codes) /\ P!Empty.until = 0 /\ P!Empty.built = 0
  BY DEF P!Empty, Listed
<1>3. \A s \in P!Builders : PoolHeld(s)
  BY <1>1, <1>2, UnitsType DEF PoolHeld
<1>4. P!PooledIsWatched /\ P!PooledIsListed
  BY <1>1 DEF P!PooledIsWatched, P!PooledIsListed, P!ReadBy, P!Unlisted
<1>. QED BY <1>1, <1>3, <1>4 DEF PoolsInv, PoolsTyped, WatchlistTyped, OfThePast, P!Unlisted

LEMMA PoolsNext == P!Configured /\ PoolsInv /\ [P!Next]_(P!vars) => PoolsInv'
<1>. SUFFICES ASSUME P!Configured, PoolsInv, [P!Next]_(P!vars) PROVE PoolsInv'
  OBVIOUS
<1>1. CASE UNCHANGED <<pNow, pPools, pWatchlist, pListing>>
  BY <1>1 DEF PoolsInv, PoolsTyped, PoolHeld, WatchlistTyped, OfThePast, P!PooledIsWatched, P!PooledIsListed,
              P!ReadBy, P!Live, P!Range, P!Cardinality, P!Units, P!PoolLife
<1>2. CASE \E s \in P!Builders : P!Build(s)
  BY <1>2, BuildKeeps
<1>3. CASE P!Prioritize
  BY <1>3, PrioritizeKeeps
<1>4. CASE \E unread \in SUBSET P!Found({}), fails \in BOOLEAN : P!Refresh(unread, fails)
  BY <1>4, RefreshKeeps
<1>5. CASE P!Tick
  BY <1>5, TickKeeps
<1>6. CASE \E ranking \in PRankings : \E i \in DOMAIN ranking : P!Score(ranking[i].stk)
  BY <1>6, ScoreKeeps
<1>7. P!Begin => UNCHANGED <<pNow, pPools, pWatchlist, pListing>>
  BY DEF P!Begin
<1>. QED BY <1>1, <1>2, <1>3, <1>4, <1>5, <1>6, <1>7 DEF P!Next, P!vars

\* CandidatePools alone: a pool is as young as its build, and what was read of it is watched.
LEMMA PoolsAlone == ASSUME P!Configured PROVE P!Spec => []P!PoolsHold
<1>1. P!Init => PoolsInv
  BY PoolsInit
<1>2. PoolsInv /\ [P!Next]_(P!vars) => PoolsInv'
  BY PoolsNext
<1>3. PoolsInv => P!PoolsHold
  BY DEF PoolsInv, PoolsTyped, PoolHeld, P!PoolsHold, P!PoolsAreYoung
<1>. QED BY <1>1, <1>2, <1>3, PTL DEF P!Spec

----------------------------------------------------------------------------
(* ScanCycle: the scans of a cycle that began at t queue for the slots.    *)

LEMMA SameScans == \A S : Q!Cardinality(S) = Cardinality(S)
BY DEF Q!Cardinality, Cardinality

\* The strategies of the cycle, and the scans under way that started after x.
Begun(t) == {Q!ActiveAt(t)[i] : i \in DOMAIN Q!ActiveAt(t)}
Since(x) == {scan \in qRunning : scan.until - QTimeoutOf[scan.s] > x}
Scans == [s : Q!Strategies, until : Int]

\* Its scans fill the slots w times at most and none lasts longer than d.
Admits(t, w, d) ==
    /\ w \in Nat /\ d \in Nat \ {0} /\ Len(Q!ActiveAt(t)) <= w * QSlots
    /\ \A s \in Begun(t) : QTimeoutOf[s] <= d

\* Once k scans of the longest kind could have followed each other in a slot, the slots were
\* filled k times by scans that started before, as long as any strategy waits.
Waves(t, d) ==
    \A k \in Nat : qPending # <<>> /\ qNow > t - d + k * d =>
        Len(qPending) + Cardinality(Since(t - d + k * d)) <= Len(Q!ActiveAt(t)) - k * QSlots

\* Of a cycle that began at t: what waits and what runs are its own, and it keeps its time.
Cycle(t) ==
    /\ t \in QDay.from..qNow
    /\ qPending \in Seq(Begun(t))
    /\ \A scan \in qRunning : scan.s \in Begun(t) /\ scan.until >= qNow
                              /\ scan.until - QTimeoutOf[scan.s] <= qNow
    /\ \A w, d : Admits(t, w, d) => Waves(t, d) /\ \A scan \in qRunning : scan.until <= t + w * d

\* The latest beginnings of the cycles, one under each token.
Due ==
    CHOOSE due \in [0..QSetbackBound + 1 -> QOpens[QAtClose]..QCloses[QAtClose] + QPause] :
        /\ due[QSetbackBound] <= QCloses[QAtClose]
        /\ \A i, j \in 0..QSetbackBound + 1 : i <= j => due[i] <= due[j]
        /\ \A t \in QDay.from..QDay.until :
               /\ t < QOpens[QAtClose] => Q!OverBy(t, due[0] - QPause)
               /\ \A k \in 0..QSetbackBound :
                      QOpens[QAtClose] <= t /\ t <= due[k] => Q!OverBy(t, due[k + 1] - QPause)

\* Nothing is claimed of the close any more.
Settled == QAtClose \in qScanned \/ qExhausted

\* As long as the strategy of the close is to be scanned, a cycle of its window began in time after
\* the setbacks so far and has it among those that wait, unless the token was replaced since.
ClosesInTime(t) ==
    ~Settled =>
        \/ t < QOpens[QAtClose]
        \/ /\ t <= Due[qStarted]
           /\ qStarted = qSetbacks => \E i \in DOMAIN qPending : qPending[i] = QAtClose

CycleTyped ==
    /\ qNow \in QDay.from..QDay.until /\ qResume \in Int
    /\ qSetbacks \in 0..QSetbackBound /\ qStarted \in 0..qSetbacks
    /\ qPending \in Seq(Q!Strategies) /\ IsFiniteSet(qRunning) /\ qRunning \subseteq Scans

\* Between two cycles the next one is still in time.
RestsInTime ==
    Q!Idle /\ ~Settled => qNow <= Due[qSetbacks] /\ qResume <= Due[qSetbacks]

CycleInv ==
    /\ CycleTyped /\ qLate = FALSE /\ RestsInTime
    /\ ~Q!Idle => \E t : Cycle(t) /\ ClosesInTime(t)

LEMMA DueType ==
    ASSUME Q!Configured
    PROVE  /\ Due \in [0..QSetbackBound + 1 -> QOpens[QAtClose]..QCloses[QAtClose] + QPause]
           /\ Due[QSetbackBound] <= QCloses[QAtClose]
           /\ \A i, j \in 0..QSetbackBound + 1 : i <= j => Due[i] <= Due[j]
           /\ \A t \in QDay.from..QDay.until :
                  /\ t < QOpens[QAtClose] => Q!OverBy(t, Due[0] - QPause)
                  /\ \A k \in 0..QSetbackBound :
                         QOpens[QAtClose] <= t /\ t <= Due[k] => Q!OverBy(t, Due[k + 1] - QPause)
<1>. DEFINE Table(due) ==
               /\ due[QSetbackBound] <= QCloses[QAtClose]
               /\ \A i, j \in 0..QSetbackBound + 1 : i <= j => due[i] <= due[j]
               /\ \A t \in QDay.from..QDay.until :
                      /\ t < QOpens[QAtClose] => Q!OverBy(t, due[0] - QPause)
                      /\ \A k \in 0..QSetbackBound :
                             QOpens[QAtClose] <= t /\ t <= due[k] => Q!OverBy(t, due[k + 1] - QPause)
            Tables == [0..QSetbackBound + 1 -> QOpens[QAtClose]..QCloses[QAtClose] + QPause]
<1>1. \E due \in Tables : Table(due)
  BY DEF Q!Configured
<1>2. Due = CHOOSE due \in Tables : Table(due)
  BY DEF Due
<1>3. Due \in Tables /\ Table(Due)
  <2>. HIDE DEF Tables, Table
  <2>. QED BY <1>1, <1>2
<1>. QED BY <1>3

LEMMA DueIn ==
    ASSUME Q!Configured, NEW k \in 0..QSetbackBound
    PROVE  /\ Due[k] \in Int /\ Due[k] <= QCloses[QAtClose] /\ QOpens[QAtClose] <= Due[k]
           /\ Due[k + 1] \in Int /\ Due[k + 1] - QPause <= QCloses[QAtClose]
           /\ Due[0] \in Int /\ Due[0] <= Due[k]
           /\ \A j \in 0..k : Due[j] \in Int /\ Due[j] <= Due[k] /\ Due[j + 1] \in Int
                              /\ (j < k => Due[j + 1] <= Due[k])
<1>1. /\ QSetbackBound \in Nat /\ QPause \in Int /\ QOpens[QAtClose] \in Int /\ QCloses[QAtClose] \in Int
      /\ 0 \in 0..QSetbackBound + 1 /\ QSetbackBound \in 0..QSetbackBound + 1
      /\ k \in 0..QSetbackBound + 1 /\ k + 1 \in 0..QSetbackBound + 1
  BY DEF Q!Configured
<1>2. \A j \in 0..k : j \in 0..QSetbackBound + 1 /\ j + 1 \in 0..QSetbackBound + 1
  BY <1>1
<1>3. \A j \in 0..QSetbackBound + 1 : Due[j] \in QOpens[QAtClose]..QCloses[QAtClose] + QPause
  BY DueType
<1>4. \A i, j \in 0..QSetbackBound + 1 : i <= j => Due[i] <= Due[j]
  BY DueType
<1>5. Due[k] <= Due[QSetbackBound] /\ Due[QSetbackBound] <= QCloses[QAtClose]
  BY <1>1, <1>4, DueType
<1>6. \A j \in 0..k : Due[j] \in Int /\ Due[j] <= Due[k] /\ Due[j + 1] \in Int
                      /\ (j < k => Due[j + 1] <= Due[k])
  BY <1>1, <1>2, <1>3, <1>4
<1>. QED BY <1>1, <1>3, <1>4, <1>5, <1>6

LEMMA OverIs ==
    ASSUME Q!Configured, NEW t, NEW end, Q!OverBy(t, end)
    PROVE  \E w, d : Admits(t, w, d) /\ t + w * d <= end
<1>1. PICK w \in 0..Len(Q!ActiveAt(t)), d \in {QTimeoutOf[s] : s \in Q!Strategies} :
          /\ Len(Q!ActiveAt(t)) <= w * QSlots
          /\ \A i \in DOMAIN Q!ActiveAt(t) : QTimeoutOf[Q!ActiveAt(t)[i]] <= d
          /\ t + w * d <= end
  BY DEF Q!OverBy
<1>2. w \in Nat
  OBVIOUS
<1>3. d \in Nat \ {0}
  BY DEF Q!Configured
<1>4. \A s \in Begun(t) : QTimeoutOf[s] <= d
  BY <1>1 DEF Begun
<1>. QED BY <1>1, <1>2, <1>3, <1>4 DEF Admits

LEMMA SinceFinite ==
    ASSUME CycleTyped, NEW x
    PROVE  IsFiniteSet(Since(x)) /\ Cardinality(Since(x)) \in Nat
<1>1. IsFiniteSet(Since(x))
  BY FS_Subset DEF CycleTyped, Since
<1>. QED BY <1>1, FS_CardinalityType

LEMMA ActiveType ==
    ASSUME Q!Configured, NEW t \in QDay.from..QDay.until
    PROVE  /\ Q!ActiveAt(t) \in Seq(Q!Strategies) /\ Q!ActiveAt(t) \in Seq(Begun(t))
           /\ Begun(t) \subseteq Q!Strategies /\ Len(Q!ActiveAt(t)) \in Nat
           /\ \A s \in Begun(t) : QTimeoutOf[s] \in Nat \ {0}
<1>1. Q!ActiveAt(t) \in Seq(Q!Strategies)
  BY DEF Q!Configured
<1>2. Begun(t) \subseteq Q!Strategies
  BY <1>1 DEF Begun
<1>3. \A s \in Begun(t) : QTimeoutOf[s] \in Nat \ {0}
  BY <1>2 DEF Q!Configured
<1>4. Q!ActiveAt(t) \in Seq(Begun(t))
  BY <1>1 DEF Begun
<1>. QED BY <1>1, <1>2, <1>3, <1>4

\* The times at which a slot may be taken anew.
LEMMA Marks ==
    ASSUME NEW t \in Int, NEW d \in Nat \ {0}, NEW k \in Nat
    PROVE  /\ t - d + k * d \in Int /\ k * d \in Int /\ t - d + 0 * d = t - d
           /\ t - d + (k + 1) * d = t + k * d
           /\ k # 0 => t - d + k * d >= t
<1>1. k * d \in Nat /\ (k + 1) * d = k * d + d /\ 0 * d = 0
  OBVIOUS
<1>2. k # 0 => k * d >= d
  OBVIOUS
<1>. QED BY <1>1, <1>2

\* A cycle keeps its time: the last of its strategies takes a slot in time for the longest scan.
LEMMA InItsTime ==
    ASSUME Q!Configured, CycleTyped, NEW t, Cycle(t), NEW w, NEW d, Admits(t, w, d)
    PROVE  /\ qPending # <<>> => qNow + d <= t + w * d
           /\ ~Q!Idle => qNow <= t + w * d
<1>1. /\ t \in Int /\ qNow \in Int /\ t \in QDay.from..QDay.until
      /\ w \in Nat /\ d \in Nat \ {0} /\ Len(Q!ActiveAt(t)) <= w * QSlots
      /\ QSlots \in Nat
  BY DEF Cycle, CycleTyped, Admits, Q!Configured
<1>2. Waves(t, d) /\ \A scan \in qRunning : scan.until <= t + w * d /\ scan.until >= qNow
  BY DEF Cycle
<1>3. w * d \in Int /\ w * QSlots \in Int
  BY <1>1
<1>4. ASSUME qPending # <<>>
      PROVE  qNow + d <= t + w * d
  <2>1. Len(qPending) \in Nat /\ Len(qPending) > 0
    BY <1>4 DEF CycleTyped
  <2>2. Cardinality(Since(t - d + w * d)) \in Nat
    BY SinceFinite
  <2>3. Len(Q!ActiveAt(t)) \in Nat
    BY <1>1, ActiveType
  <2>4. ASSUME qNow > t - d + w * d
        PROVE  FALSE
    <3>1. Len(qPending) + Cardinality(Since(t - d + w * d)) <= Len(Q!ActiveAt(t)) - w * QSlots
      BY <1>1, <1>2, <1>4, <2>4 DEF Waves
    <3>. QED BY <1>1, <1>3, <2>1, <2>2, <2>3, <3>1
  <2>. QED BY <1>1, <1>3, <2>4
<1>5. ASSUME qRunning # {}
      PROVE  qNow <= t + w * d
  <2>1. PICK scan \in qRunning : TRUE
    BY <1>5
  <2>2. scan.until \in Int
    BY DEF CycleTyped, Scans
  <2>. QED BY <1>1, <1>2, <1>3, <2>1, <2>2
<1>. QED BY <1>1, <1>3, <1>4, <1>5 DEF Q!Idle

\* A strategy of the day has its cycle over by FORCE_CLOSE_TIME.
LEMMA DayIsOver ==
    ASSUME Q!Configured, CycleTyped, NEW t, Cycle(t), NEW s \in Begun(t), s # QAtClose
    PROVE  /\ qPending # <<>> => qNow <= QForceClose
           /\ qRunning # {} => qNow <= QForceClose
<1>1. t \in QDay.from..QDay.until /\ qNow \in Int /\ t \in Int /\ QForceClose \in Int
  BY DEF Cycle, CycleTyped, Q!Configured
<1>2. Q!OverBy(t, QForceClose)
  BY <1>1 DEF Q!Configured, Begun
<1>3. PICK w, d : Admits(t, w, d) /\ t + w * d <= QForceClose
  BY <1>2, OverIs
<1>4. w * d \in Int /\ d \in Nat
  BY <1>3 DEF Admits
<1>. QED BY <1>1, <1>3, <1>4, InItsTime DEF Q!Idle

\* A cycle that is under way is over in time for the next one, while the close is to be scanned.
LEMMA NextInTime ==
    ASSUME Q!Configured, CycleTyped, NEW t, Cycle(t), ClosesInTime(t), ~Settled, ~Q!Idle
    PROVE  \/ qNow <= Due[0] - QPause
           \/ t <= Due[qStarted] /\ qNow <= Due[qStarted + 1] - QPause
<1>1. /\ t \in QDay.from..QDay.until /\ qNow \in Int /\ t \in Int /\ QPause \in Int
      /\ qStarted \in 0..QSetbackBound /\ 0 \in 0..QSetbackBound /\ QOpens[QAtClose] \in Int
  <2>1. /\ QSetbackBound \in Nat /\ qSetbacks \in 0..QSetbackBound /\ qStarted \in 0..qSetbacks
        /\ QPause \in Nat /\ QOpens[QAtClose] \in Int
    BY DEF CycleTyped, Q!Configured
  <2>2. /\ t \in QDay.from..qNow /\ qNow \in QDay.from..QDay.until
        /\ QDay.from \in Int /\ QDay.until \in Int
    BY DEF Cycle, CycleTyped, Q!Configured
  <2>. QED BY <2>1, <2>2
<1>2. Due[0] \in Int /\ Due[qStarted] \in Int /\ Due[qStarted + 1] \in Int
  BY <1>1, DueIn
<1>3. ASSUME NEW end \in Int, Q!OverBy(t, end)
      PROVE  qNow <= end
  <2>1. PICK w, d : Admits(t, w, d) /\ t + w * d <= end
    BY <1>3, OverIs
  <2>2. w * d \in Int
    BY <2>1 DEF Admits
  <2>. QED BY <1>1, <2>1, <2>2, InItsTime
<1>4. CASE t < QOpens[QAtClose]
  <2>1. Q!OverBy(t, Due[0] - QPause)
    BY <1>1, <1>4, DueType
  <2>. QED BY <1>1, <1>2, <1>3, <2>1
<1>5. CASE ~(t < QOpens[QAtClose])
  <2>1. t <= Due[qStarted]
    BY <1>5 DEF ClosesInTime, Settled
  <2>2. QOpens[QAtClose] <= t
    BY <1>1, <1>5
  <2>3. Q!OverBy(t, Due[qStarted + 1] - QPause)
    BY <1>1, <2>1, <2>2, DueType
  <2>. QED BY <1>1, <1>2, <1>3, <2>1, <2>3
<1>. QED BY <1>4, <1>5

\* A scan starts or ends in the course of a cycle; the last to end lets the next cycle be in time.
LEMMA InCourse ==
    ASSUME Q!Configured, CycleInv, ~Q!Idle, NEW t, Cycle(t), ClosesInTime(t),
           qNow' = qNow, qStarted' = qStarted, qSetbacks' = qSetbacks, qLate' = FALSE,
           qPending' \in Seq(Q!Strategies), IsFiniteSet(qRunning'), qRunning' \subseteq Scans,
           Q!Rest(qPending', qRunning'), qScanned \subseteq qScanned', UNCHANGED qExhausted, Cycle(t)',
           ClosesInTime(t)'
    PROVE  CycleInv'
<1>1. /\ qNow \in Int /\ qResume \in Int /\ QPause \in Nat /\ qStarted \in 0..qSetbacks
      /\ qSetbacks \in 0..QSetbackBound /\ QSetbackBound \in Nat
  BY DEF CycleInv, CycleTyped, Q!Configured
<1>2. qResume' = qResume \/ (Q!Idle' /\ qResume' \in {qNow, qNow + QPause})
  BY DEF Q!Rest, Q!Idle
<1>3. CycleTyped'
  <2>1. qResume' \in Int
    BY <1>1, <1>2
  <2>. QED BY <2>1 DEF CycleInv, CycleTyped
<1>4. RestsInTime'
  <2>. SUFFICES ASSUME Q!Idle', ~Settled'
                PROVE  qNow <= Due[qSetbacks] /\ qResume' <= Due[qSetbacks]
    BY DEF RestsInTime, Settled
  <2>1. qResume' \in {qNow, qNow + QPause}
    BY DEF Q!Rest, Q!Idle
  <2>2. ~Settled
    BY DEF Settled
  <2>3. t < QOpens[QAtClose] \/ qStarted # qSetbacks
    BY DEF ClosesInTime, Q!Idle, Settled
  <2>4. /\ Due[0] \in Int /\ Due[0] <= Due[qSetbacks] /\ Due[qSetbacks] \in Int
        /\ Due[qStarted + 1] \in Int
        /\ qStarted < qSetbacks => Due[qStarted + 1] <= Due[qSetbacks]
    BY <1>1, DueIn
  <2>5. CASE qStarted # qSetbacks
    <3>1. qStarted < qSetbacks
      BY <1>1, <2>5
    <3>2. qNow <= Due[0] - QPause \/ qNow <= Due[qStarted + 1] - QPause
      BY <2>2, NextInTime DEF CycleInv
    <3>. QED BY <1>1, <2>1, <2>4, <3>1, <3>2
  <2>6. CASE t < QOpens[QAtClose]
    <3>1. t \in QDay.from..QDay.until
      BY DEF Cycle, CycleInv, CycleTyped, Q!Configured
    <3>2. Q!OverBy(t, Due[0] - QPause)
      BY <2>6, <3>1, DueType
    <3>3. PICK w, d : Admits(t, w, d) /\ t + w * d <= Due[0] - QPause
      BY <3>2, OverIs
    <3>4. qNow <= t + w * d
      BY <3>3, InItsTime DEF CycleInv
    <3>5. t + w * d \in Int
      BY <3>1, <3>3 DEF Admits, Q!Configured
    <3>. QED BY <1>1, <2>1, <2>4, <3>3, <3>4, <3>5
  <2>. QED BY <2>3, <2>5, <2>6
<1>. QED BY <1>3, <1>4 DEF CycleInv

LEMMA AddOne ==
    ASSUME NEW S, IsFiniteSet(S), NEW e
    PROVE  /\ IsFiniteSet(S \cup {e}) /\ Cardinality(S \cup {e}) \in Nat
           /\ Cardinality(S \cup {e}) <= Cardinality(S) + 1
<1>1. Cardinality(S) \in Nat
  BY FS_CardinalityType
<1>2. /\ IsFiniteSet(S \cup {e})
      /\ Cardinality(S \cup {e}) = IF e \in S THEN Cardinality(S) ELSE Cardinality(S) + 1
  BY FS_AddElement
<1>. QED BY <1>1, <1>2

\* The first of a list leaves it, the others stay.
LEMMA TailKeeps ==
    ASSUME NEW S, NEW seq \in Seq(S), seq # <<>>
    PROVE  /\ Head(seq) \in S /\ Tail(seq) \in Seq(S) /\ Len(Tail(seq)) = Len(seq) - 1 /\ Len(seq) \in Nat
           /\ Head(seq) = seq[1]
           /\ \A i \in DOMAIN seq : i # 1 => \E j \in DOMAIN Tail(seq) : Tail(seq)[j] = seq[i]
<1>1. Len(seq) \in Nat /\ Len(seq) > 0 /\ DOMAIN seq = 1..Len(seq)
  OBVIOUS
<1>2. /\ Head(seq) \in S /\ Tail(seq) \in Seq(S) /\ Len(Tail(seq)) = Len(seq) - 1 /\ Head(seq) = seq[1]
      /\ \A i \in 1..Len(Tail(seq)) : Tail(seq)[i] = seq[i + 1]
  BY HeadTailProperties
<1>3. DOMAIN Tail(seq) = 1..Len(Tail(seq))
  BY <1>2
<1>4. ASSUME NEW i \in DOMAIN seq, i # 1
      PROVE  \E j \in DOMAIN Tail(seq) : Tail(seq)[j] = seq[i]
  <2>1. i - 1 \in 1..Len(Tail(seq)) /\ (i - 1) + 1 = i
    BY <1>1, <1>2, <1>4
  <2>. QED BY <1>2, <1>3, <2>1
<1>. QED BY <1>1, <1>2, <1>4

\* What a start and an end change of the scans under way.
LEMMA SinceMoves ==
    ASSUME CycleTyped, IsFiniteSet(qRunning'), NEW x
    PROVE  /\ \A scan : qRunning' = qRunning \cup {scan} =>
                  Cardinality(Since(x)') \in Nat /\ Cardinality(Since(x)') <= Cardinality(Since(x)) + 1
           /\ qRunning' \subseteq qRunning =>
                  Cardinality(Since(x)') \in Nat /\ Cardinality(Since(x)') <= Cardinality(Since(x))
<1>1. IsFiniteSet(Since(x)) /\ Cardinality(Since(x)) \in Nat
  BY SinceFinite
<1>2. Since(x)' \subseteq qRunning'
  BY DEF Since
<1>3. IsFiniteSet(Since(x)') /\ Cardinality(Since(x)') \in Nat
  BY <1>2, FS_Subset, FS_CardinalityType
<1>4. ASSUME NEW scan, qRunning' = qRunning \cup {scan}
      PROVE  Cardinality(Since(x)') <= Cardinality(Since(x)) + 1
  <2>1. Since(x)' \subseteq Since(x) \cup {scan}
    BY <1>4 DEF Since
  <2>2. /\ IsFiniteSet(Since(x) \cup {scan}) /\ Cardinality(Since(x) \cup {scan}) \in Nat
        /\ Cardinality(Since(x) \cup {scan}) <= Cardinality(Since(x)) + 1
    BY <1>1, AddOne
  <2>4. Cardinality(Since(x)') <= Cardinality(Since(x) \cup {scan})
    BY <2>1, <2>2, FS_Subset
  <2>. QED BY <1>1, <1>3, <2>2, <2>4
<1>5. ASSUME qRunning' \subseteq qRunning
      PROVE  Cardinality(Since(x)') <= Cardinality(Since(x))
  <2>1. Since(x)' \subseteq Since(x)
    BY <1>5 DEF Since
  <2>. QED BY <1>1, <2>1, FS_Subset
<1>. QED BY <1>3, <1>4, <1>5

LEMMA StartKeeps == ASSUME Q!Configured, CycleInv, Q!Start PROVE CycleInv'
<1>1. qPending # <<>> /\ qPending' = Tail(qPending) /\ ~Q!Idle
      /\ qNow' = qNow /\ qStarted' = qStarted /\ qSetbacks' = qSetbacks /\ qExhausted' = qExhausted
  BY DEF Q!Start, Q!Idle
<1>2. PICK t : Cycle(t) /\ ClosesInTime(t)
  BY <1>1 DEF CycleInv
<1>3. /\ t \in QDay.from..QDay.until /\ t \in Int /\ qNow \in Int /\ qPending \in Seq(Begun(t))
      /\ t \in QDay.from..qNow /\ QSlots \in Nat
  BY <1>2 DEF Cycle, CycleInv, CycleTyped, Q!Configured
<1>4. Begun(t) \subseteq Q!Strategies /\ Len(Q!ActiveAt(t)) \in Nat
      /\ \A s \in Begun(t) : QTimeoutOf[s] \in Nat \ {0}
  BY <1>3, ActiveType
<1>5. /\ Head(qPending) \in Begun(t) /\ Tail(qPending) \in Seq(Begun(t))
      /\ Len(Tail(qPending)) = Len(qPending) - 1 /\ Len(qPending) \in Nat /\ Head(qPending) = qPending[1]
      /\ \A i \in DOMAIN qPending : i # 1 => \E j \in DOMAIN Tail(qPending) : Tail(qPending)[j] = qPending[i]
  BY <1>1, <1>3, TailKeeps
<1>6. qPending' \in Seq(Begun(t)) /\ qPending' \in Seq(Q!Strategies)
  BY <1>1, <1>4, <1>5
<1>7. qScanned \subseteq qScanned' /\ ClosesInTime(t)'
  <2>1. qScanned' = IF qSetbacks = qStarted THEN qScanned \cup ({Head(qPending)} \cap {QAtClose}) ELSE qScanned
    BY DEF Q!Start
  <2>2. qScanned \subseteq qScanned'
    BY <2>1
  <2>3. ASSUME ~Settled', qStarted = qSetbacks, \E i \in DOMAIN qPending : qPending[i] = QAtClose
        PROVE  \E j \in DOMAIN qPending' : qPending'[j] = QAtClose
    <3>1. PICK i \in DOMAIN qPending : qPending[i] = QAtClose
      BY <2>3
    <3>2. i # 1
      BY <1>5, <2>1, <2>3, <3>1 DEF Settled
    <3>. QED BY <1>1, <1>5, <3>1, <3>2
  <2>4. ~Settled' => ~Settled
    BY <1>1, <2>2 DEF Settled
  <2>5. ASSUME ~Settled'
        PROVE  \/ t < QOpens[QAtClose]
               \/ /\ t <= Due[qStarted']
                  /\ qStarted' = qSetbacks' => \E j \in DOMAIN qPending' : qPending'[j] = QAtClose
    <3>1. \/ t < QOpens[QAtClose]
          \/ /\ t <= Due[qStarted]
             /\ qStarted = qSetbacks => \E i \in DOMAIN qPending : qPending[i] = QAtClose
      BY <1>2, <2>4, <2>5 DEF ClosesInTime
    <3>. QED BY <1>1, <2>3, <2>5, <3>1
  <2>. QED BY <2>2, <2>5 DEF ClosesInTime
<1>8. CASE /\ qRunning' = qRunning \cup {[s |-> Head(qPending), until |-> Q!RunsUntil(Head(qPending))]}
           /\ UNCHANGED <<qResume, qLate>>
  <2>. DEFINE scan == [s |-> Head(qPending), until |-> qNow + QTimeoutOf[Head(qPending)]]
  <2>1. qRunning' = qRunning \cup {scan} /\ qLate' = FALSE /\ Q!Rest(qPending', qRunning')
    BY <1>8 DEF Q!RunsUntil, Q!Rest, CycleInv
  <2>2. scan \in Scans /\ scan.s = Head(qPending) /\ scan.until = qNow + QTimeoutOf[Head(qPending)]
        /\ QTimeoutOf[scan.s] \in Nat \ {0} /\ scan.s \in Begun(t)
    BY <1>3, <1>4, <1>5 DEF Scans
  <2>. HIDE DEF scan
  <2>3. IsFiniteSet(qRunning') /\ qRunning' \subseteq Scans
    BY <2>1, <2>2, FS_AddElement DEF CycleInv, CycleTyped
  <2>4. ASSUME NEW w, NEW d, Admits(t, w, d)
        PROVE  Waves(t, d)' /\ \A r \in qRunning' : r.until <= t + w * d
    <3>1. w \in Nat /\ d \in Nat \ {0} /\ w * d \in Int /\ QTimeoutOf[scan.s] <= d
      BY <2>2, <2>4 DEF Admits
    <3>2. Waves(t, d) /\ \A r \in qRunning : r.until <= t + w * d
      BY <1>2, <2>4 DEF Cycle
    <3>3. qNow + d <= t + w * d
      BY <1>1, <1>2, <2>4, InItsTime DEF CycleInv
    <3>4. scan.until <= t + w * d
      BY <1>3, <2>2, <3>1, <3>3
    <3>5. ASSUME NEW k \in Nat, qNow > t - d + k * d
          PROVE  Len(qPending') + Cardinality(Since(t - d + k * d)') <= Len(Q!ActiveAt(t)) - k * QSlots
      <4>. DEFINE x == t - d + k * d
                  m == k * QSlots
      <4>1. Len(qPending) + Cardinality(Since(x)) <= Len(Q!ActiveAt(t)) - m
        BY <1>1, <3>2, <3>5 DEF Waves
      <4>2. Cardinality(Since(x)') \in Nat /\ Cardinality(Since(x)') <= Cardinality(Since(x)) + 1
        BY <2>1, <2>3, SinceMoves DEF CycleInv
      <4>3. Cardinality(Since(x)) \in Nat
        BY SinceFinite DEF CycleInv
      <4>4. m \in Int /\ Len(qPending') = Len(qPending) - 1
        BY <1>1, <1>3, <1>5
      <4>. HIDE DEF x, m
      <4>5. Len(qPending') + Cardinality(Since(x)') <= Len(Q!ActiveAt(t)) - m
        BY <1>4, <1>5, <4>1, <4>2, <4>3, <4>4
      <4>. QED BY <4>5 DEF x, m
    <3>6. Waves(t, d)'
      BY <1>1, <3>5 DEF Waves
    <3>. QED BY <2>1, <3>2, <3>4, <3>6
  <2>5. \A r \in qRunning' : r.s \in Begun(t) /\ r.until >= qNow /\ r.until - QTimeoutOf[r.s] <= qNow
    BY <1>2, <1>3, <2>1, <2>2 DEF Cycle
  <2>6. Cycle(t)'
    BY <1>1, <1>3, <1>6, <2>4, <2>5 DEF Cycle, Begun, Admits
  <2>. QED BY <1>1, <1>2, <1>6, <1>7, <2>1, <2>3, <2>6, InCourse
<1>9. CASE /\ Q!PublishResult(Head(qPending))
           /\ UNCHANGED qRunning
           /\ Q!Rest(qPending', qRunning)
  <2>1. qRunning' = qRunning /\ Q!Rest(qPending', qRunning')
    BY <1>9
  <2>2. qLate' = FALSE
    <3>1. Head(qPending) # QAtClose => qNow <= QForceClose
      BY <1>1, <1>2, <1>5, DayIsOver DEF CycleInv
    <3>2. qNow \in Int /\ QForceClose \in Int /\ qLate = FALSE
      BY <1>3 DEF CycleInv, Q!Configured
    <3>3. qLate' = (qLate \/ (qSetbacks = qStarted /\ Head(qPending) # QAtClose /\ qNow > QForceClose))
      BY <1>9 DEF Q!PublishResult
    <3>4. ~(Head(qPending) # QAtClose /\ qNow > QForceClose)
      BY <3>1, <3>2
    <3>. QED BY <3>2, <3>3, <3>4
  <2>3. IsFiniteSet(qRunning') /\ qRunning' \subseteq Scans
    BY <2>1 DEF CycleInv, CycleTyped
  <2>4. ASSUME NEW w, NEW d, Admits(t, w, d)
        PROVE  Waves(t, d)' /\ \A r \in qRunning' : r.until <= t + w * d
    <3>2. Waves(t, d) /\ \A r \in qRunning : r.until <= t + w * d
      BY <1>2, <2>4 DEF Cycle
    <3>5. ASSUME NEW k \in Nat, qNow > t - d + k * d
          PROVE  Len(qPending') + Cardinality(Since(t - d + k * d)') <= Len(Q!ActiveAt(t)) - k * QSlots
      <4>. DEFINE x == t - d + k * d
                  m == k * QSlots
      <4>1. Len(qPending) + Cardinality(Since(x)) <= Len(Q!ActiveAt(t)) - m
        BY <1>1, <3>2, <3>5 DEF Waves
      <4>2. Cardinality(Since(x)') \in Nat /\ Cardinality(Since(x)') <= Cardinality(Since(x))
        BY <2>1, <2>3, SinceMoves DEF CycleInv
      <4>3. Cardinality(Since(x)) \in Nat
        BY SinceFinite DEF CycleInv
      <4>4. m \in Int /\ Len(qPending') = Len(qPending) - 1
        BY <1>1, <1>3, <1>5
      <4>. HIDE DEF x, m
      <4>5. Len(qPending') + Cardinality(Since(x)') <= Len(Q!ActiveAt(t)) - m
        BY <1>4, <1>5, <4>1, <4>2, <4>3, <4>4
      <4>. QED BY <4>5 DEF x, m
    <3>6. Waves(t, d)'
      BY <1>1, <3>5 DEF Waves
    <3>. QED BY <2>1, <3>2, <3>6
  <2>6. Cycle(t)'
    BY <1>1, <1>2, <1>3, <1>6, <2>1, <2>4 DEF Cycle, Begun, Admits
  <2>. QED BY <1>1, <1>2, <1>6, <1>7, <2>1, <2>2, <2>3, <2>6, InCourse
<1>. QED BY <1>8, <1>9 DEF Q!Start

\* A scan that answers or is cut leaves the slot to the next.
LEMMA EndKeeps ==
    ASSUME Q!Configured, CycleInv, NEW scan \in qRunning, Q!Finish(scan) \/ Q!TimeOut(scan)
    PROVE  CycleInv'
<1>1. /\ qRunning' = qRunning \ {scan} /\ qPending' = qPending /\ ~Q!Idle /\ scan.until = qNow
      /\ qNow' = qNow /\ qStarted' = qStarted /\ qSetbacks' = qSetbacks /\ qScanned' = qScanned
      /\ qExhausted' = qExhausted /\ Q!Rest(qPending', qRunning')
  BY DEF Q!Finish, Q!TimeOut, Q!Ended, Q!Idle
<1>2. PICK t : Cycle(t) /\ ClosesInTime(t)
  BY <1>1 DEF CycleInv
<1>3. t \in QDay.from..QDay.until /\ t \in QDay.from..qNow /\ qNow \in Int /\ QSlots \in Nat /\ t \in Int
  BY <1>2 DEF Cycle, CycleInv, CycleTyped, Q!Configured
<1>4. Len(Q!ActiveAt(t)) \in Nat
  BY <1>3, ActiveType
<1>5. qLate' = FALSE
  <2>1. scan.s # QAtClose => qNow <= QForceClose
    BY <1>2, DayIsOver DEF Cycle, CycleInv
  <2>2. qNow \in Int /\ QForceClose \in Int /\ qLate = FALSE
    BY <1>3 DEF CycleInv, Q!Configured
  <2>3. \/ qLate' = qLate
        \/ qLate' = (qLate \/ (qSetbacks = qStarted /\ scan.s # QAtClose /\ qNow > QForceClose))
    BY DEF Q!Finish, Q!TimeOut, Q!PublishResult
  <2>4. ~(scan.s # QAtClose /\ qNow > QForceClose)
    BY <2>1, <2>2
  <2>. QED BY <2>2, <2>3, <2>4
<1>6. IsFiniteSet(qRunning') /\ qRunning' \subseteq qRunning /\ qRunning' \subseteq Scans
  <2>1. qRunning' \subseteq qRunning
    BY <1>1
  <2>. QED BY <2>1, FS_Subset DEF CycleInv, CycleTyped
<1>7. ASSUME NEW w, NEW d, Admits(t, w, d)
      PROVE  Waves(t, d)' /\ \A r \in qRunning' : r.until <= t + w * d
  <2>1. Waves(t, d) /\ \A r \in qRunning : r.until <= t + w * d
    BY <1>2, <1>7 DEF Cycle
  <2>2. ASSUME NEW k \in Nat, qNow > t - d + k * d, qPending # <<>>
        PROVE  Len(qPending) + Cardinality(Since(t - d + k * d)') <= Len(Q!ActiveAt(t)) - k * QSlots
    <3>. DEFINE x == t - d + k * d
                m == k * QSlots
    <3>1. Len(qPending) + Cardinality(Since(x)) <= Len(Q!ActiveAt(t)) - m
      BY <2>1, <2>2 DEF Waves
    <3>2. Cardinality(Since(x)') \in Nat /\ Cardinality(Since(x)') <= Cardinality(Since(x))
      BY <1>6, SinceMoves DEF CycleInv
    <3>3. Cardinality(Since(x)) \in Nat /\ Len(qPending) \in Nat /\ m \in Int
      BY <1>3, SinceFinite DEF CycleInv, CycleTyped
    <3>. HIDE DEF x, m
    <3>4. Len(qPending) + Cardinality(Since(x)') <= Len(Q!ActiveAt(t)) - m
      BY <1>4, <3>1, <3>2, <3>3
    <3>. QED BY <3>4 DEF x, m
  <2>3. Waves(t, d)'
    BY <1>1, <2>2 DEF Waves
  <2>. QED BY <1>6, <2>1, <2>3
<1>8. Cycle(t)'
  BY <1>1, <1>2, <1>3, <1>6, <1>7 DEF Cycle, Begun, Admits
<1>9. ClosesInTime(t)'
  BY <1>1, <1>2 DEF ClosesInTime, Settled
<1>10. qPending' \in Seq(Q!Strategies)
  BY <1>1 DEF CycleInv, CycleTyped
<1>. QED BY <1>1, <1>2, <1>5, <1>6, <1>8, <1>9, <1>10, InCourse

\* The windows and the token are read once for the cycle.
LEMMA BeginKeeps == ASSUME Q!Configured, CycleInv, Q!BeginCycle PROVE CycleInv'
<1>1. /\ Q!Idle /\ qPending' = Q!ActiveAt(qNow) /\ qStarted' = qSetbacks /\ qPending = <<>> /\ qRunning = {}
      /\ UNCHANGED <<qNow, qRunning, qResume, qSetbacks, qExhausted, qScanned, qLate>> /\ qPending' # <<>>
  BY DEF Q!BeginCycle, Q!Idle, Q!Active
<1>2. PICK t \in QDay.from..QDay.until : t = qNow
  BY DEF CycleInv, CycleTyped
<1>3. /\ t \in Int /\ QDay.from \in Int /\ QSlots \in Nat /\ QOpens[QAtClose] \in Int /\ QCloses[QAtClose] \in Int
      /\ qSetbacks \in 0..QSetbackBound /\ QSetbackBound \in Nat
  BY <1>2 DEF CycleInv, CycleTyped, Q!Configured
<1>4. /\ Q!ActiveAt(t) \in Seq(Q!Strategies) /\ Q!ActiveAt(t) \in Seq(Begun(t)) /\ Len(Q!ActiveAt(t)) \in Nat
  BY ActiveType
<1>5. CycleTyped'
  <2>1. qSetbacks \in 0..qSetbacks
    BY <1>3
  <2>. QED BY <1>1, <1>2, <1>4, <2>1 DEF CycleInv, CycleTyped
<1>6. ASSUME NEW w, NEW d, Admits(t, w, d)
      PROVE  Waves(t, d)'
  <2>1. d \in Nat \ {0}
    BY <1>6 DEF Admits
  <2>2. ASSUME NEW k \in Nat, t > t - d + k * d
        PROVE  Len(Q!ActiveAt(t)) + Cardinality(Since(t - d + k * d)') <= Len(Q!ActiveAt(t)) - k * QSlots
    <3>1. k = 0
      <4>1. k * d \in Int /\ (k # 0 => t - d + k * d >= t)
        BY <1>3, <2>1, Marks
      <4>. QED BY <1>3, <2>1, <2>2, <4>1
    <3>2. Since(t - d + k * d)' = {}
      BY <1>1 DEF Since
    <3>3. Cardinality(Since(t - d + k * d)') = 0
      BY <3>2, FS_EmptySet
    <3>. QED BY <1>3, <1>4, <3>1, <3>3
  <2>. QED BY <1>1, <1>2, <2>2 DEF Waves
<1>7. Cycle(t)'
  BY <1>1, <1>2, <1>3, <1>4, <1>6 DEF Cycle, Begun, Admits
<1>8. ClosesInTime(t)'
  <2>1. SUFFICES ASSUME ~Settled, ~(t < QOpens[QAtClose])
                 PROVE  /\ t <= Due[qSetbacks]
                        /\ \E i \in DOMAIN Q!ActiveAt(t) : Q!ActiveAt(t)[i] = QAtClose
    BY <1>1, <1>2 DEF ClosesInTime, Settled
  <2>2. t <= Due[qSetbacks]
    BY <1>1, <1>2, <2>1 DEF CycleInv, RestsInTime, Settled
  <2>3. Due[qSetbacks] \in Int /\ Due[qSetbacks] <= QCloses[QAtClose]
    BY <1>3, DueIn
  <2>4. Q!InWindow(QAtClose, t)
    BY <1>3, <2>1, <2>2, <2>3 DEF Q!InWindow
  <2>. QED BY <2>2, <2>4 DEF Q!Configured
<1>9. ~Q!Idle' /\ qLate' = FALSE
  BY <1>1 DEF Q!Idle, CycleInv
<1>. QED BY <1>5, <1>7, <1>8, <1>9 DEF CycleInv, RestsInTime, Settled

\* A cycle that is turned away leaves time for the next.
LEMMA SkipKeeps == ASSUME Q!Configured, CycleInv, Q!SkipCycle PROVE CycleInv'
<1>1. /\ Q!Idle /\ qResume <= qNow /\ qResume' \in {qNow, qNow + QPause}
      /\ UNCHANGED <<qNow, qPending, qRunning, qStarted, qScanned, qLate>>
      /\ \/ ~Q!InWindow(QAtClose, qNow) /\ UNCHANGED <<qSetbacks, qExhausted>>
         \/ qSetbacks < QSetbackBound /\ qSetbacks' = qSetbacks + 1 /\ UNCHANGED qExhausted
         \/ qExhausted' = TRUE /\ UNCHANGED qSetbacks
  BY DEF Q!SkipCycle
<1>2. /\ qNow \in QDay.from..QDay.until /\ qNow \in Int /\ qResume \in Int /\ QPause \in Nat
      /\ qSetbacks \in 0..QSetbackBound /\ QSetbackBound \in Nat /\ qStarted \in 0..qSetbacks
      /\ QOpens[QAtClose] \in Int /\ QCloses[QAtClose] \in Int
  BY DEF CycleInv, CycleTyped, Q!Configured
<1>3. qSetbacks' \in 0..QSetbackBound /\ qStarted \in 0..qSetbacks' /\ qResume' \in Int
  BY <1>1, <1>2
<1>4. CycleTyped'
  BY <1>1, <1>3 DEF CycleInv, CycleTyped
<1>5. ASSUME NEW end \in Int, Q!OverBy(qNow, end)
      PROVE  qNow <= end
  <2>1. PICK w, d : Admits(qNow, w, d) /\ qNow + w * d <= end
    BY <1>5, OverIs
  <2>2. w * d \in Nat
    BY <2>1 DEF Admits
  <2>. QED BY <1>2, <2>1, <2>2
<1>6. RestsInTime'
  <2>. SUFFICES ASSUME ~Settled'
                PROVE  qNow + QPause <= Due[qSetbacks']
    <3>1. Due[qSetbacks'] \in Int
      BY <1>3, DueIn
    <3>. QED BY <1>1, <1>2, <3>1 DEF RestsInTime
  <2>0. ~Settled /\ ~qExhausted'
    BY <1>1 DEF Settled
  <2>1. ~Settled /\ qNow <= Due[qSetbacks]
    BY <1>1, <2>0 DEF CycleInv, RestsInTime
  <2>2. /\ Due[0] \in Int /\ Due[qSetbacks] \in Int /\ Due[qSetbacks + 1] \in Int
        /\ Due[0] <= Due[qSetbacks] /\ Due[qSetbacks] <= QCloses[QAtClose]
    BY <1>2, DueIn
  <2>3. CASE qNow < QOpens[QAtClose]
    <3>1. Q!OverBy(qNow, Due[0] - QPause)
      BY <1>2, <2>3, DueType
    <3>2. qNow <= Due[0] - QPause
      BY <1>2, <1>5, <2>2, <3>1
    <3>3. ~Q!InWindow(QAtClose, qNow)
      BY <1>2, <2>3 DEF Q!InWindow
    <3>4. Due[qSetbacks'] \in Int /\ Due[0] <= Due[qSetbacks']
      BY <1>3, DueIn
    <3>. QED BY <1>2, <2>2, <3>2, <3>4
  <2>4. CASE ~(qNow < QOpens[QAtClose])
    <3>1. Q!InWindow(QAtClose, qNow)
      BY <1>2, <2>1, <2>2, <2>4 DEF Q!InWindow
    <3>2. qSetbacks' = qSetbacks + 1
      BY <1>1, <2>0, <3>1
    <3>3. Q!OverBy(qNow, Due[qSetbacks + 1] - QPause)
      BY <1>2, <2>1, <2>4, DueType
    <3>4. qNow <= Due[qSetbacks + 1] - QPause
      BY <1>2, <1>5, <2>2, <3>3
    <3>. QED BY <1>2, <2>2, <3>2, <3>4
  <2>. QED BY <2>3, <2>4
<1>7. Q!Idle' /\ qLate' = FALSE
  BY <1>1 DEF Q!Idle, CycleInv
<1>. QED BY <1>4, <1>6, <1>7 DEF CycleInv

LEMMA RefreshTokenKeeps == ASSUME Q!Configured, CycleInv, Q!RefreshToken PROVE CycleInv'
<1>1. /\ qSetbacks' = qSetbacks + 1 /\ qSetbacks < QSetbackBound
      /\ UNCHANGED <<qNow, qPending, qRunning, qStarted, qResume, qExhausted, qScanned, qLate>>
  BY DEF Q!RefreshToken
<1>2. qSetbacks \in 0..QSetbackBound /\ QSetbackBound \in Nat /\ qStarted \in 0..qSetbacks
      /\ qNow \in Int /\ qResume \in Int
  BY DEF CycleInv, CycleTyped, Q!Configured
<1>3. qSetbacks' \in 0..QSetbackBound /\ qSetbacks \in 0..qSetbacks' /\ qStarted \in 0..qSetbacks'
      /\ qStarted # qSetbacks'
  BY <1>1, <1>2
<1>4. CycleTyped'
  BY <1>1, <1>3 DEF CycleInv, CycleTyped
<1>5. RestsInTime'
  <2>1. Due[qSetbacks] \in Int /\ Due[qSetbacks'] \in Int /\ Due[qSetbacks] <= Due[qSetbacks']
    BY <1>3, DueIn
  <2>2. Q!Idle' <=> Q!Idle
    BY <1>1 DEF Q!Idle
  <2>. QED BY <1>1, <1>2, <2>1, <2>2 DEF CycleInv, RestsInTime, Settled
<1>6. ASSUME ~Q!Idle'
      PROVE  \E t : Cycle(t)' /\ ClosesInTime(t)'
  <2>1. PICK t : Cycle(t) /\ ClosesInTime(t)
    BY <1>1, <1>6 DEF CycleInv, Q!Idle
  <2>2. Cycle(t)'
    BY <1>1, <2>1 DEF Cycle, Waves, Since, Begun, Admits
  <2>3. ClosesInTime(t)'
    BY <1>1, <1>3, <2>1 DEF ClosesInTime, Settled
  <2>. QED BY <2>2, <2>3
<1>. QED BY <1>1, <1>4, <1>5, <1>6 DEF CycleInv

\* Time passes only while no slot is free for who waits: one time-out of the longest scan after a
\* mark, all who were under way then have left their slots to others.
LEMMA CycleTickKeeps == ASSUME Q!Configured, CycleInv, Q!Tick PROVE CycleInv'
<1>1. /\ qNow' = qNow + 1 /\ qNow < QDay.until /\ (qPending = <<>> \/ ~Q!FreeSlot)
      /\ \A scan \in qRunning : scan.until > qNow
      /\ ~(Q!Idle /\ qResume <= qNow /\ Q!ActiveAt(qNow) # <<>>)
      /\ UNCHANGED <<qPending, qRunning, qStarted, qResume, qSetbacks, qExhausted, qScanned, qLate>>
  BY DEF Q!Tick, Q!Active
<1>2. /\ qNow \in QDay.from..QDay.until /\ qNow \in Int /\ qResume \in Int
      /\ QDay.from \in Int /\ QDay.until \in Int /\ qSetbacks \in 0..QSetbackBound /\ QSlots \in Nat
  BY DEF CycleInv, CycleTyped, Q!Configured
<1>3. CycleTyped'
  <2>1. qNow + 1 \in QDay.from..QDay.until
    BY <1>1, <1>2
  <2>. QED BY <1>1, <2>1 DEF CycleInv, CycleTyped
<1>4. ASSUME Q!Idle, ~Settled
      PROVE  qNow + 1 <= Due[qSetbacks] /\ qResume <= Due[qSetbacks]
  <2>1. qNow <= Due[qSetbacks] /\ qResume <= Due[qSetbacks]
    BY <1>4 DEF CycleInv, RestsInTime, Settled
  <2>2. /\ Due[qSetbacks] \in Int /\ Due[qSetbacks] <= QCloses[QAtClose] /\ QOpens[QAtClose] <= Due[qSetbacks]
    BY <1>2, DueIn
  <2>3. ASSUME qNow = Due[qSetbacks]
        PROVE  FALSE
    <3>1. Q!InWindow(QAtClose, qNow)
      BY <2>2, <2>3 DEF Q!InWindow
    <3>2. Q!ActiveAt(qNow) # <<>>
      BY <1>2, <3>1 DEF Q!Configured
    <3>. QED BY <1>1, <1>4, <2>1, <2>3, <3>2
  <2>. QED BY <1>2, <2>1, <2>2, <2>3
<1>5. RestsInTime'
  <2>. SUFFICES ASSUME Q!Idle', ~Settled'
                PROVE  qNow' <= Due[qSetbacks'] /\ qResume' <= Due[qSetbacks']
    BY DEF RestsInTime, Settled
  <2>1. Q!Idle /\ ~Settled
    BY <1>1 DEF Q!Idle, Settled
  <2>. QED BY <1>1, <1>4, <2>1
<1>6. ASSUME ~Q!Idle'
      PROVE  \E t : Cycle(t)' /\ ClosesInTime(t)'
  <2>1. PICK t : Cycle(t) /\ ClosesInTime(t)
    BY <1>1, <1>6 DEF CycleInv, Q!Idle
  <2>2. t \in QDay.from..QDay.until /\ t \in QDay.from..qNow /\ t \in Int /\ t <= qNow
    BY <1>2, <2>1 DEF Cycle
  <2>3. Len(Q!ActiveAt(t)) \in Nat /\ (\A s \in Begun(t) : QTimeoutOf[s] \in Nat \ {0})
    BY <2>2, ActiveType
  <2>4. ASSUME NEW w, NEW d, Admits(t, w, d), qPending # <<>>, NEW k \in Nat, qNow + 1 > t - d + k * d
        PROVE  Len(qPending) + Cardinality(Since(t - d + k * d)) <= Len(Q!ActiveAt(t)) - k * QSlots
    <3>1. d \in Nat \ {0} /\ \A s \in Begun(t) : QTimeoutOf[s] <= d
      BY <2>4 DEF Admits
    <3>2. Waves(t, d)
      BY <2>1, <2>4 DEF Cycle
    <3>3. t - d + k * d \in Int
      BY <2>2, <3>1, Marks
    <3>4. CASE qNow > t - d + k * d
      BY <2>4, <3>2, <3>4 DEF Waves
    <3>5. CASE qNow = t - d + k * d
      <4>1. k # 0
        BY <2>2, <3>1, <3>5, Marks
      <4>2. PICK j \in Nat : k = j + 1
        <5>1. k - 1 \in Nat /\ k = (k - 1) + 1
          BY <4>1
        <5>. QED BY <5>1
      <4>3. /\ t - d + j * d \in Int /\ t - d + j * d + d = qNow
            /\ k * QSlots = j * QSlots + QSlots /\ j * QSlots \in Int
        <5>1. j * d \in Int /\ k * d = j * d + d
          BY <3>1, <4>2
        <5>2. k * QSlots = j * QSlots + QSlots /\ j * QSlots \in Int
          BY <1>2, <4>2
        <5>. QED BY <2>2, <3>1, <3>5, <5>1, <5>2
      <4>4. Len(qPending) + Cardinality(Since(t - d + j * d)) <= Len(Q!ActiveAt(t)) - j * QSlots
        <5>1. qNow > t - d + j * d
          BY <1>2, <3>1, <4>3
        <5>. QED BY <2>4, <3>2, <5>1 DEF Waves
      <4>5. Since(t - d + j * d) = qRunning
        <5>1. ASSUME NEW scan \in qRunning
              PROVE  scan.until - QTimeoutOf[scan.s] > t - d + j * d
          <6>1. scan.until > qNow /\ scan.until \in Int /\ scan.s \in Begun(t)
            BY <1>1, <2>1 DEF CycleInv, CycleTyped, Scans, Cycle
          <6>2. QTimeoutOf[scan.s] \in Int /\ QTimeoutOf[scan.s] <= d
            BY <2>3, <3>1, <6>1
          <6>. QED BY <1>2, <3>1, <4>3, <6>1, <6>2
        <5>. QED BY <5>1 DEF Since
      <4>6. Cardinality(qRunning) \in Nat /\ Cardinality(qRunning) >= QSlots
        <5>1. Cardinality(qRunning) \in Nat
          BY FS_CardinalityType DEF CycleInv, CycleTyped
        <5>2. ~(Cardinality(qRunning) < QSlots)
          BY <1>1, <2>4, SameScans DEF Q!FreeSlot
        <5>. QED BY <1>2, <5>1, <5>2
      <4>7. Since(t - d + k * d) = {}
        <5>1. ASSUME NEW scan \in qRunning
              PROVE  ~(scan.until - QTimeoutOf[scan.s] > qNow)
          <6>1. scan.until - QTimeoutOf[scan.s] <= qNow /\ scan.until \in Int /\ scan.s \in Begun(t)
            BY <2>1 DEF CycleInv, CycleTyped, Scans, Cycle
          <6>2. QTimeoutOf[scan.s] \in Int
            BY <2>3, <6>1
          <6>. QED BY <1>2, <6>1, <6>2
        <5>. QED BY <3>5, <5>1 DEF Since
      <4>8. Cardinality(Since(t - d + k * d)) = 0
        BY <4>7, FS_EmptySet
      <4>9. Len(qPending) \in Nat
        BY DEF CycleInv, CycleTyped
      <4>10. Len(qPending) + Cardinality(qRunning) <= Len(Q!ActiveAt(t)) - j * QSlots
        BY <4>4, <4>5
      <4>11. Len(qPending) + 0 <= Len(Q!ActiveAt(t)) - k * QSlots
        <5>. DEFINE m == k * QSlots
                    l == j * QSlots
                    n == Len(Q!ActiveAt(t))
                    p == Len(qPending)
                    c == Cardinality(qRunning)
        <5>1. /\ m = l + QSlots /\ l \in Int /\ n \in Int /\ p \in Int /\ c \in Int /\ c >= QSlots
              /\ p + c <= n - l
          BY <2>3, <4>3, <4>6, <4>9, <4>10
        <5>. HIDE DEF m, l, n, p, c
        <5>2. p + 0 <= n - m
          BY <1>2, <5>1
        <5>. QED BY <5>2 DEF m, n, p
      <4>. QED BY <4>8, <4>11
    <3>. QED BY <1>2, <2>4, <3>3, <3>4, <3>5
  <2>5. ASSUME NEW w, NEW d, Admits(t, w, d)
        PROVE  Waves(t, d)' /\ \A scan \in qRunning : scan.until <= t + w * d
    <3>1. \A scan \in qRunning : scan.until <= t + w * d
      BY <2>1, <2>5 DEF Cycle
    <3>2. ASSUME NEW k \in Nat, qNow + 1 > t - d + k * d, qPending # <<>>
          PROVE  Len(qPending) + Cardinality(Since(t - d + k * d)') <= Len(Q!ActiveAt(t)) - k * QSlots
      <4>. DEFINE x == t - d + k * d
      <4>1. Since(x)' = Since(x)
        BY <1>1 DEF Since
      <4>2. Len(qPending) + Cardinality(Since(x)) <= Len(Q!ActiveAt(t)) - k * QSlots
        BY <2>4, <2>5, <3>2
      <4>. HIDE DEF x
      <4>3. Len(qPending) + Cardinality(Since(x)') <= Len(Q!ActiveAt(t)) - k * QSlots
        BY <4>1, <4>2
      <4>. QED BY <4>3 DEF x
    <3>3. Waves(t, d)'
      BY <1>1, <3>2 DEF Waves
    <3>. QED BY <3>1, <3>3
  <2>6. \A scan \in qRunning : scan.s \in Begun(t) /\ scan.until >= qNow + 1
                               /\ scan.until - QTimeoutOf[scan.s] <= qNow + 1
    <3>1. ASSUME NEW scan \in qRunning
          PROVE  scan.until >= qNow + 1 /\ scan.until - QTimeoutOf[scan.s] <= qNow + 1 /\ scan.s \in Begun(t)
      <4>1. /\ scan.until > qNow /\ scan.until - QTimeoutOf[scan.s] <= qNow
            /\ scan.until \in Int /\ scan.s \in Begun(t)
        BY <1>1, <2>1 DEF CycleInv, CycleTyped, Scans, Cycle
      <4>2. QTimeoutOf[scan.s] \in Int
        BY <2>3, <4>1
      <4>. QED BY <1>2, <4>1, <4>2
    <3>. QED BY <3>1
  <2>7. t \in QDay.from..qNow + 1 /\ qPending \in Seq(Begun(t))
    BY <1>2, <2>1, <2>2 DEF Cycle
  <2>8. Cycle(t)'
    <3>1. t \in QDay.from..qNow' /\ qPending' \in Seq(Begun(t))
      BY <1>1, <2>7
    <3>2. \A scan \in qRunning' : scan.s \in Begun(t) /\ scan.until >= qNow'
                                  /\ scan.until - QTimeoutOf[scan.s] <= qNow'
      BY <1>1, <2>6
    <3>3. \A w, d : Admits(t, w, d) => Waves(t, d)' /\ \A scan \in qRunning' : scan.until <= t + w * d
      BY <1>1, <2>5
    <3>. QED BY <3>1, <3>2, <3>3 DEF Cycle, Begun, Admits
  <2>9. ClosesInTime(t)'
    BY <1>1, <2>1 DEF ClosesInTime, Settled
  <2>. QED BY <2>8, <2>9
<1>. QED BY <1>1, <1>3, <1>5, <1>6 DEF CycleInv

LEMMA CycleInit == Q!Configured /\ Q!Init => CycleInv
<1>. SUFFICES ASSUME Q!Configured, Q!Init PROVE CycleInv
  OBVIOUS
<1>1. /\ qNow = QDay.from /\ qResume = QDay.from /\ qPending = <<>> /\ qRunning = {} /\ qStarted = 0
      /\ qSetbacks = 0 /\ qLate = FALSE /\ Q!Idle
  BY DEF Q!Init, Q!Idle
<1>2. /\ QDay.from \in QDay.from..QDay.until /\ QDay.from \in Int /\ 0 \in 0..QSetbackBound /\ 0 \in 0..0
      /\ QDay.from <= QOpens[QAtClose] /\ QOpens[QAtClose] \in Int
  BY DEF Q!Configured
<1>3. Due[0] \in Int /\ QOpens[QAtClose] <= Due[0]
  BY <1>2, DueIn
<1>4. CycleTyped
  BY <1>1, <1>2, FS_EmptySet DEF CycleTyped
<1>5. RestsInTime
  BY <1>1, <1>2, <1>3 DEF RestsInTime, Settled
<1>. QED BY <1>1, <1>4, <1>5 DEF CycleInv

LEMMA CycleNext == Q!Configured /\ CycleInv /\ [Q!Next]_(Q!vars) => CycleInv'
<1>. SUFFICES ASSUME Q!Configured, CycleInv, [Q!Next]_(Q!vars) PROVE CycleInv'
  OBVIOUS
<1>1. CASE UNCHANGED Q!vars
  <2>1. UNCHANGED <<qNow, qPending, qRunning, qStarted, qResume, qSetbacks, qExhausted, qScanned, qLate>>
    BY <1>1 DEF Q!vars
  <2>2. Q!Idle' <=> Q!Idle
    BY <2>1 DEF Q!Idle
  <2>3. \A t : (Cycle(t) => Cycle(t)') /\ (ClosesInTime(t) => ClosesInTime(t)')
    BY <2>1 DEF Cycle, Waves, Since, Begun, Admits, ClosesInTime, Settled
  <2>. QED BY <2>1, <2>2, <2>3 DEF CycleInv, CycleTyped, RestsInTime, Settled
<1>2. CASE Q!BeginCycle
  BY <1>2, BeginKeeps
<1>7. CASE Q!SkipCycle
  BY <1>7, SkipKeeps
<1>3. CASE Q!Start
  BY <1>3, StartKeeps
<1>4. CASE Q!RefreshToken
  BY <1>4, RefreshTokenKeeps
<1>5. CASE Q!Tick
  BY <1>5, CycleTickKeeps
<1>6. CASE \E scan \in qRunning : Q!Finish(scan) \/ Q!TimeOut(scan)
  BY <1>6, EndKeeps
<1>. QED BY <1>1, <1>2, <1>3, <1>4, <1>5, <1>6, <1>7 DEF Q!Next

\* As long as it was not scanned, the window of the close is not over.
LEMMA CycleFollows == Q!Configured /\ CycleInv => Q!CycleHolds
<1>. SUFFICES ASSUME Q!Configured, CycleInv PROVE Q!CycleHolds
  OBVIOUS
<1>1. /\ qNow \in Int /\ QPause \in Nat /\ QCloses[QAtClose] \in Int
      /\ qSetbacks \in 0..QSetbackBound /\ qStarted \in 0..qSetbacks /\ QSetbackBound \in Nat
  BY DEF CycleInv, CycleTyped, Q!Configured
<1>2. ASSUME ~Settled
      PROVE  qNow <= QCloses[QAtClose]
  <2>1. CASE Q!Idle
    <3>1. qNow <= Due[qSetbacks]
      BY <1>2, <2>1 DEF CycleInv, RestsInTime, Settled
    <3>2. Due[qSetbacks] \in Int /\ Due[qSetbacks] <= QCloses[QAtClose]
      BY <1>1, DueIn
    <3>. QED BY <1>1, <3>1, <3>2
  <2>2. CASE ~Q!Idle
    <3>1. PICK t : Cycle(t) /\ ClosesInTime(t)
      BY <2>2 DEF CycleInv
    <3>2. qNow <= Due[0] - QPause \/ qNow <= Due[qStarted + 1] - QPause
      BY <1>2, <2>2, <3>1, NextInTime DEF CycleInv
    <3>3. qStarted \in 0..QSetbackBound /\ 0 \in 0..QSetbackBound
      BY <1>1
    <3>4. /\ Due[0] \in Int /\ Due[0] <= QCloses[QAtClose]
          /\ Due[qStarted + 1] \in Int /\ Due[qStarted + 1] - QPause <= QCloses[QAtClose]
      BY <3>3, DueIn
    <3>. QED BY <1>1, <3>2, <3>4
  <2>. QED BY <2>1, <2>2
<1>3. Q!CloseIsScanned
  BY <1>1, <1>2 DEF Q!CloseIsScanned, Settled
<1>4. Q!NoLateEntries
  BY DEF CycleInv, Q!NoLateEntries
<1>. QED BY <1>3, <1>4 DEF Q!CycleHolds

\* ScanCycle alone: the day's strategies are done by FORCE_CLOSE_TIME, and the close is scanned.
LEMMA CycleAlone == ASSUME Q!Configured PROVE Q!Spec => []Q!CycleHolds
<1>1. Q!Init => CycleInv
  BY CycleInit
<1>2. CycleInv /\ [Q!Next]_(Q!vars) => CycleInv'
  BY CycleNext
<1>3. CycleInv => Q!CycleHolds
  BY CycleFollows
<1>. QED BY <1>1, <1>2, <1>3, PTL DEF Q!Spec

----------------------------------------------------------------------------
(* The composition.  The other services' theorems are proved in modules of *)
(* their own, which are instantiated here as the services are.             *)

AP == INSTANCE SignalAdmission_proofs WITH
        Requests <- ARequests, Stocks <- AStocks, Strategies <- AStrategies, Batches <- ABatches,
        ThemeOf <- AThemeOf, ConfigStored <- AConfigStored, DedupTtl <- ADedupTtl,
        StockCooldown <- AStockCooldown, MaxDailySignals <- AMaxDailySignals, CountBound <- ACountBound,
        MaxSignalsPerStrategy <- AMaxSignalsPerStrategy, MaxPositions <- AMaxPositions,
        MaxThemePositions <- AMaxThemePositions, Horizon <- AHorizon,
        now <- aNow, dedup <- aDedup, cooldown <- aCooldown, dailyCount <- aCount,
        positions <- aPositions, requests <- aRequests, pushed <- aPushed

NP == INSTANCE Notifier_proofs WITH
        Chats <- NChats, Events <- NEvents, SendLease <- NSendLease, Minute <- NMinute,
        MaxSignalsPerMin <- NMaxSignalsPerMin, MaxDefers <- NMaxDefers, DeferFor <- NDeferFor,
        EmitBound <- NEmitBound, Horizon <- NHorizon,
        now <- nNow, emitted <- nEmitted, telegramQueue <- nTelegram, scoredQueue <- nScored,
        hand <- nHand, claims <- nClaims, limiter <- nLimiter, deferred <- nDeferred, sent <- nSent,
        admitted <- nAdmitted, skipped <- nSkipped, orphans <- nOrphans, unlocked <- nUnlocked

EP == INSTANCE CandleStore_proofs WITH
        Callers <- DCallers, Requests <- DRequests, Ttl <- DTtl, MaxPages <- DMaxPages,
        Horizon <- DHorizon,
        now <- dNow, cache <- dCache, tasks <- dTasks, waits <- dWaits, told <- dTold

MP == INSTANCE CandleStore_proofs WITH
        Callers <- DCallers, Requests <- MRequests, Ttl <- MTtl, MaxPages <- MMaxPages,
        Horizon <- DHorizon,
        now <- dNow, cache <- dCache, tasks <- dTasks, waits <- dWaits, told <- dTold

\* A service is the same in the module with its proofs.
LEMMA AdmissionIs ==
    /\ A!Configured <=> AP!Configured
    /\ A!Init <=> AP!Init
    /\ [A!Next]_(A!vars) <=> [AP!Next]_(AP!vars)
    /\ A!LimitsHold <=> AP!LimitsHold
BY DEF A!vars, AP!vars, A!Signals, AP!Signals, A!Configured, AP!Configured, A!Idle, AP!Idle, A!Init,
       AP!Init, A!ActiveStocks, AP!ActiveStocks, A!Item, AP!Item, A!Begin, AP!Begin, A!Advanced,
       AP!Advanced, A!At, AP!At, A!TakeDedup, AP!TakeDedup, A!TakeCooldown, AP!TakeCooldown,
       A!CountDaily, AP!CountDaily, A!RoomFor, AP!RoomFor, A!CheckPositions, AP!CheckPositions,
       A!Publish, AP!Publish, A!Abort, AP!Abort, A!Commit, AP!Commit, A!Confirm, AP!Confirm,
       A!Close, AP!Close, A!Tick, AP!Tick, A!Next, AP!Next, A!PublishedWithinDailyLimit,
       AP!PublishedWithinDailyLimit, A!OneSignalPerCooldown, AP!OneSignalPerCooldown,
       A!HeldStockIsRefused, AP!HeldStockIsRefused, A!LimitsHold, AP!LimitsHold, A!Cardinality,
       AP!Cardinality, A!IsFiniteSet, AP!IsFiniteSet

LEMMA NotifierIs ==
    /\ N!Configured <=> NP!Configured
    /\ N!Init <=> NP!Init
    /\ [N!Next]_(N!vars) <=> [NP!Next]_(NP!vars)
    /\ N!NoticesHold <=> NP!NoticesHold
BY DEF N!vars, NP!vars, N!Keyed, NP!Keyed, N!Plain, NP!Plain, N!Muted, NP!Muted, N!Scored,
       NP!Scored, N!NoEvent, NP!NoEvent, N!Configured, NP!Configured, N!Notice, NP!Notice,
       N!Resting, NP!Resting, N!Init, NP!Init, N!EmitScored, NP!EmitScored, N!EmitTelegram,
       NP!EmitTelegram, N!Work, NP!Work, N!Broadcast, NP!Broadcast, N!TakeNotice, NP!TakeNotice,
       N!Window, NP!Window, N!TakeSignal, NP!TakeSignal, N!Send, NP!Send, N!Releases, NP!Releases,
       N!Finish, NP!Finish, N!Requeue, NP!Requeue, N!Crash, NP!Crash, N!Tick, NP!Tick, N!Next,
       NP!Next, N!SentOncePerLease, NP!SentOncePerLease, N!DuplicateWasSent, NP!DuplicateWasSent,
       N!BurstBounded, NP!BurstBounded, N!NoticesHold, NP!NoticesHold, N!Cardinality, NP!Cardinality

LEMMA DaysIs ==
    /\ E!Configured <=> EP!Configured
    /\ E!Init <=> EP!Init
    /\ [E!Next]_(E!vars) <=> [EP!Next]_(EP!vars)
    /\ E!CandlesHold <=> EP!CandlesHold
BY DEF E!vars, EP!vars, E!Kinds, EP!Kinds, E!Configured, EP!Configured, E!NoList, EP!NoList,
       E!Age, EP!Age, E!Empty, EP!Empty, E!NoTask, EP!NoTask, E!Silence, EP!Silence, E!Init, EP!Init, E!Serves,
       EP!Serves, E!Answer, EP!Answer, E!Ask, EP!Ask, E!AddPage, EP!AddPage, E!Page, EP!Page,
       E!PageFails, EP!PageFails, E!Toss, EP!Toss, E!Finish, EP!Finish, E!Cancel, EP!Cancel, E!Tick,
       EP!Tick, E!Next, EP!Next, E!EnoughIfThere, EP!EnoughIfThere, E!CandlesAreYoung,
       EP!CandlesAreYoung, E!NoMinuteTwice, EP!NoMinuteTwice, E!CandlesHold, EP!CandlesHold,
       E!Range, EP!Range, E!IsInjective, EP!IsInjective

LEMMA MinutesIs ==
    /\ M!Configured <=> MP!Configured
    /\ M!Init <=> MP!Init
    /\ [M!Next]_(M!vars) <=> [MP!Next]_(MP!vars)
    /\ M!CandlesHold <=> MP!CandlesHold
BY DEF M!vars, MP!vars, M!Kinds, MP!Kinds, M!Configured, MP!Configured, M!NoList, MP!NoList,
       M!Age, MP!Age, M!Empty, MP!Empty, M!NoTask, MP!NoTask, M!Silence, MP!Silence, M!Init, MP!Init, M!Serves,
       MP!Serves, M!Answer, MP!Answer, M!Ask, MP!Ask, M!AddPage, MP!AddPage, M!Page, MP!Page,
       M!PageFails, MP!PageFails, M!Toss, MP!Toss, M!Finish, MP!Finish, M!Cancel, MP!Cancel, M!Tick,
       MP!Tick, M!Next, MP!Next, M!EnoughIfThere, MP!EnoughIfThere, M!CandlesAreYoung,
       MP!CandlesAreYoung, M!NoMinuteTwice, MP!NoMinuteTwice, M!CandlesHold, MP!CandlesHold,
       M!Range, MP!Range, M!IsInjective, MP!IsInjective

\* The part that is chosen begins and goes on as its own module says, and stays chosen.
LEMMA ChosenBegins ==
    ASSUME Init
    PROVE  /\ part = "admission" => A!Init
           /\ part = "vi" => V!Init
           /\ part = "accumulation" => C!Init
           /\ part = "notifier" => N!Init
           /\ part = "rest" => K!Init
           /\ part = "news" => B!Init
           /\ part = "pools" => P!Init
           /\ part = "scans" => Q!Init
           /\ part = "claude" => G!Init
           /\ part = "days" => E!Init
           /\ part = "minutes" => M!Init
BY DEF Init

LEMMA ChosenGoesOn ==
    ASSUME [Next]_vars
    PROVE  /\ part' = part
           /\ part = "admission" => [A!Next]_(A!vars)
           /\ part = "vi" => [V!Next]_(V!vars)
           /\ part = "accumulation" => [C!Next]_(C!vars)
           /\ part = "notifier" => [N!Next]_(N!vars)
           /\ part = "rest" => [K!Next]_(K!vars)
           /\ part = "news" => [B!Next]_(B!vars)
           /\ part = "pools" => [P!Next]_(P!vars)
           /\ part = "scans" => [Q!Next]_(Q!vars)
           /\ part = "claude" => [G!Next]_(G!vars)
           /\ part = "days" => [E!Next]_(E!vars)
           /\ part = "minutes" => [M!Next]_(M!vars)
BY DEF Next, vars, A!vars, V!vars, C!vars, N!vars, K!vars, B!vars, P!vars, Q!vars, G!vars, E!vars, M!vars,
       admission, viWatch, accumulation, notifier, restCalls, newsDesk, poolBuilder, scanCycle, claude, candles

\* SignalService.processSignal, for any configuration of the limits and life times: however
\* many requests interleave and fail, the queue is given the signals that the limit of the
\* day, the cooldown of a stock and, where the limits are stored, the refusal of what is held
\* leave.
THEOREM LimitsAlwaysHold == Spec => []LimitsHold
<1>. DEFINE Chosen == part = "admission"
<1>1. Init => (Chosen => AP!Init)
  BY ChosenBegins, AdmissionIs
<1>2. [Next]_vars => (Chosen' <=> Chosen) /\ (Chosen => [AP!Next]_(AP!vars))
  BY ChosenGoesOn, AdmissionIs
<1>3. (Chosen => AP!LimitsHold) => LimitsHold
  BY AdmissionIs DEF LimitsHold
<1>4. AP!Configured
  BY AdmissionConfigured, AdmissionIs
<1>. HIDE DEF Chosen
<1>. QED BY <1>1, <1>2, <1>3, <1>4, AP!LimitsAlwaysHold, PTL DEF Spec, AP!Spec

\* write_vi and vi_watch_worker.py: however often the listener writes a release again,
\* whatever the worker finds, loses, queues again or restores from the pool, there is
\* one watch at a time under each key of stock and price.
THEOREM WatchesAlwaysHold == Spec => []WatchesHold
<1>. DEFINE Chosen == part = "vi"
<1>1. Init => (Chosen => V!Init)
  BY ChosenBegins
<1>2. [Next]_vars => (Chosen' <=> Chosen) /\ (Chosen => [V!Next]_(V!vars))
  BY ChosenGoesOn
<1>3. (Chosen => V!OneWatchPerRelease) => WatchesHold
  BY DEF WatchesHold
<1>4. V!Configured
  BY ViConfigured
<1>. HIDE DEF Chosen
<1>. QED BY <1>1, <1>2, <1>3, <1>4, ViAlone, PTL DEF Spec, V!Spec

\* _evaluate_code, enqueue_trigger and pop_trigger: wherever a scan is cancelled and
\* whenever watch, key and queue lapse, what reaches the scanner broke out days after
\* the stock was first evaluated, and a lease after the last breakout of its day.
THEOREM TriggersAlwaysHold == Spec => []TriggersHold
<1>. DEFINE Chosen == part = "accumulation"
<1>1. Init => (Chosen => C!Init)
  BY ChosenBegins
<1>2. [Next]_vars => (Chosen' <=> Chosen) /\ (Chosen => [C!Next]_(C!vars))
  BY ChosenGoesOn
<1>3. (Chosen => C!TriggersHold) => TriggersHold
  BY DEF TriggersHold
<1>4. C!Configured
  BY AccumulationConfigured
<1>. HIDE DEF Chosen
<1>. QED BY <1>1, <1>2, <1>3, <1>4, AccumulationAlone, PTL DEF Spec, C!Spec

\* signals.js: an event reaches a chat once per lease, what is skipped as a duplicate arrived
\* before or met a claim that nobody gave back (the bot stopped, the release failed, the claim
\* was sent again), and a minute sees two windows of signals, for any chats, events and failures.
THEOREM NoticesAlwaysHold == Spec => []NoticesHold
<1>. DEFINE Chosen == part = "notifier"
<1>1. Init => (Chosen => NP!Init)
  BY ChosenBegins, NotifierIs
<1>2. [Next]_vars => (Chosen' <=> Chosen) /\ (Chosen => [NP!Next]_(NP!vars))
  BY ChosenGoesOn, NotifierIs
<1>3. (Chosen => NP!NoticesHold) => NoticesHold
  BY NotifierIs DEF NoticesHold
<1>4. NP!Configured
  BY NotifierConfigured, NotifierIs
<1>. HIDE DEF Chosen
<1>. QED BY <1>1, <1>2, <1>3, <1>4, NP!NoticesAlwaysHold, PTL DEF Spec, NP!Spec

\* _acquire_global of http_utils.py and acquireGlobal of KiwoomRateLimiter.java: the
\* calls that either process sends are an interval apart, whatever the outages of
\* Redis and however many tasks and timers ask at once.
THEOREM GrantsAlwaysSpaced == Spec => []GrantsAreSpaced
<1>. DEFINE Chosen == part = "rest"
<1>1. Init => (Chosen => K!Init)
  BY ChosenBegins
<1>2. [Next]_vars => (Chosen' <=> Chosen) /\ (Chosen => [K!Next]_(K!vars))
  BY ChosenGoesOn
<1>3. (Chosen => K!GrantsAreSpaced) => GrantsAreSpaced
  BY DEF GrantsAreSpaced
<1>4. K!Configured
  BY RestConfigured
<1>. HIDE DEF Chosen
<1>. QED BY <1>1, <1>2, <1>3, <1>4, GrantsAlone, PTL DEF Spec, K!Spec

\* coalesce_request: no time-out, error or exhausted budget of the scan that started a
\* request cancels another that waits for it.
THEOREM CancelledAloneAlways == Spec => []CancelledAlone
<1>. DEFINE Chosen == part = "rest"
<1>1. Init => (Chosen => K!Init)
  BY ChosenBegins
<1>2. [Next]_vars => (Chosen' <=> Chosen) /\ (Chosen => [K!Next]_(K!vars))
  BY ChosenGoesOn
<1>3. (Chosen => K!CancelledAlone) => CancelledAlone
  BY DEF CancelledAlone
<1>4. K!Configured
  BY RestConfigured
<1>. HIDE DEF Chosen
<1>. QED BY <1>1, <1>2, <1>3, <1>4, CancelsAlone, PTL DEF Spec, K!Spec

\* _load_fresh_cached_analysis, _prefer_cached_on_fallback and _save_to_redis: however
\* the briefs of the day and those of /news interleave around the AI's answer, only
\* the AI's own analysis is cached, only it is told as fresh, for its slot and while it
\* is young, and what stands in for it when there were news bears the mark of a fallback.
THEOREM BriefsAlwaysHold == Spec => []BriefsHold
<1>. DEFINE Chosen == part = "news"
<1>1. Init => (Chosen => B!Init)
  BY ChosenBegins
<1>2. [Next]_vars => (Chosen' <=> Chosen) /\ (Chosen => [B!Next]_(B!vars))
  BY ChosenGoesOn
<1>3. (Chosen => B!BriefsHold) => BriefsHold
  BY DEF BriefsHold
<1>4. B!Configured
  BY NewsConfigured
<1>. HIDE DEF Chosen
<1>. QED BY <1>1, <1>2, <1>3, <1>4, BriefsAlone, PTL DEF Spec, B!Spec

\* candidates_builder.py: however the sessions' batches, the live rankings and /score
\* interleave, whichever pools a refresh cannot read and whenever keys lapse, no pool outlives
\* the life its build gave it, and a pool that the last refresh read is watched as a whole, by
\* the listener too unless its list is full.
THEOREM PoolsAlwaysHold == Spec => []PoolsHold
<1>. DEFINE Chosen == part = "pools"
<1>1. Init => (Chosen => P!Init)
  BY ChosenBegins
<1>2. [Next]_vars => (Chosen' <=> Chosen) /\ (Chosen => [P!Next]_(P!vars))
  BY ChosenGoesOn
<1>3. (Chosen => P!PoolsHold) => PoolsHold
  BY DEF PoolsHold
<1>4. P!Configured
  BY PoolsConfigured
<1>. HIDE DEF Chosen
<1>. QED BY <1>1, <1>2, <1>3, <1>4, PoolsAlone, PTL DEF Spec, P!Spec

\* strategy_runner.py: however long its scans last within their time-outs and whenever the token is
\* replaced or missing, no strategy of the day publishes after FORCE_CLOSE_TIME and the strategy of
\* the close is scanned before its window ends, unless more cycles are held up or turned away than
\* the bound says, for any schedule that leaves those the time they may take.
THEOREM CycleAlwaysHolds == Spec => []CycleHolds
<1>. DEFINE Chosen == part = "scans"
<1>1. Init => (Chosen => Q!Init)
  BY ChosenBegins
<1>2. [Next]_vars => (Chosen' <=> Chosen) /\ (Chosen => [Q!Next]_(Q!vars))
  BY ChosenGoesOn
<1>3. (Chosen => Q!CycleHolds) => CycleHolds
  BY DEF CycleHolds
<1>4. Q!Configured
  BY ScansConfigured
<1>. HIDE DEF Chosen
<1>. QED BY <1>1, <1>2, <1>3, <1>4, CycleAlone, PTL DEF Spec, Q!Spec

\* analyzer.py: an entry or an exit rests on an answer of Claude that asks for it, for any
\* number of coroutines and wherever their calls are cut.
THEOREM AdviceWasAlwaysGiven == Spec => []AdviceWasGiven
<1>. DEFINE Chosen == part = "claude"
<1>1. Init => (Chosen => G!Init)
  BY ChosenBegins
<1>2. [Next]_vars => (Chosen' <=> Chosen) /\ (Chosen => [G!Next]_(G!vars))
  BY ChosenGoesOn
<1>3. (Chosen => G!AdviceWasGiven) => AdviceWasGiven
  BY DEF AdviceWasGiven
<1>4. G!Configured
  BY GatewayConfigured
<1>. HIDE DEF Chosen
<1>. QED BY <1>1, <1>2, <1>3, <1>4, AdviceAlone, PTL DEF Spec, G!Spec

\* ai_gateway.create_message: a limit that is stored is met again by those only that were
\* under way, and the audit row tells what came of a call, for any limits and life times.
THEOREM RecordsAlwaysHold == Spec => []RecordsHold
<1>. DEFINE Chosen == part = "claude"
<1>1. Init => (Chosen => G!Init)
  BY ChosenBegins
<1>2. [Next]_vars => (Chosen' <=> Chosen) /\ (Chosen => [G!Next]_(G!vars))
  BY ChosenGoesOn
<1>3. (Chosen => G!RecordsHold) => RecordsHold
  BY DEF RecordsHold
<1>4. G!Configured
  BY GatewayConfigured
<1>. HIDE DEF Chosen
<1>. QED BY <1>1, <1>2, <1>3, <1>4, RecordsAlone, PTL DEF Spec, G!Spec

\* ma_utils: the candles a scan is handed, of days or of minutes, are enough unless their
\* source ended or failed, no older than the life of the cache and what their fetch took, and
\* none twice, for any callers, lengths and life times.
THEOREM CandlesAlwaysHold == Spec => []CandlesHold
<1>. DEFINE OfDays == part = "days"
            OfMinutes == part = "minutes"
<1>1. Init => (OfDays => EP!Init) /\ (OfMinutes => MP!Init)
  BY ChosenBegins, DaysIs, MinutesIs
<1>2. [Next]_vars => /\ (OfDays' <=> OfDays) /\ (OfDays => [EP!Next]_(EP!vars))
                     /\ (OfMinutes' <=> OfMinutes) /\ (OfMinutes => [MP!Next]_(MP!vars))
  BY ChosenGoesOn, DaysIs, MinutesIs
<1>3. (OfDays => EP!CandlesHold) /\ (OfMinutes => MP!CandlesHold) => CandlesHold
  BY DaysIs, MinutesIs DEF CandlesHold
<1>4. EP!Configured /\ MP!Configured
  BY CandlesConfigured, DaysIs, MinutesIs
<1>. HIDE DEF OfDays, OfMinutes
<1>. QED BY <1>1, <1>2, <1>3, <1>4, EP!CandlesAlwaysHold, MP!CandlesAlwaysHold, PTL
         DEF Spec, EP!Spec, MP!Spec
=============================================================================
