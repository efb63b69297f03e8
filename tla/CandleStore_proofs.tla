------------------------- MODULE CandleStore_proofs -------------------------
(***************************************************************************)
(* Proofs about the candles of CandleStore, for any callers, lengths and   *)
(* life of the caches.                                                     *)
(***************************************************************************)
EXTENDS CandleStore, SequenceTheorems, TLAPS

----------------------------------------------------------------------------
(* The inductive invariant.                                                *)

Lists == [pages : Seq(Nat), read : Nat, took : Nat, cut : BOOLEAN]
Steps == {"none", "paging", "toss", "end"}

TypeOK ==
    /\ now \in Nat
    /\ cache \in [Kinds -> [list : Lists, until : Nat]]
    /\ tasks \in [Requests -> [pc : Steps, list : Lists, page : Nat, calls : Nat]]
    /\ waits \in [Callers -> SUBSET Requests]
    /\ told \in [of : SUBSET Requests, list : Lists, age : Int]

\* No page of a list of minutes is there twice.
Distinct(kind, list) == kind = "minute" => IsInjective(list.pages)

\* A fetch has read its pages in the past.  Only days are left to Toss, when their source
\* has ended, and a list that stays short says so.
Fetched(r, task) ==
    /\ task.pc = "none" => task.list.pages = <<>>
    /\ task.list.read <= now
    /\ Distinct(r.kind, task.list)
    /\ task.pc = "toss" => r.kind = "daily" /\ task.list.cut
    /\ task.pc = "end" /\ Len(task.list.pages) < r.target => task.list.cut

\* A list is served no longer than its life, counted from the end of its fetch.
Kept(kind, entry) ==
    /\ entry.list.pages # <<>> => entry.until <= entry.list.read + entry.list.took + Ttl[kind]
    /\ Distinct(kind, entry.list)

TasksInv == \A r \in Requests : Fetched(r, tasks[r])
CacheInv == \A k \in Kinds : Kept(k, cache[k])

Inv == TypeOK /\ TasksInv /\ CacheInv /\ CandlesHold

----------------------------------------------------------------------------
(* Lemmas about lists.                                                     *)

\* What the constants are.
LEMMA RequestType ==
    ASSUME Configured, NEW r \in Requests
    PROVE  /\ r.kind \in {"daily", "minute"} /\ r.kind \in Kinds
           /\ r.target \in Nat /\ (r.kind = "minute" => r.target = 0)
           /\ Ttl[r.kind] \in Nat \ {0}
BY DEF Configured, Kinds

\* The empty list is a list of any kind.
LEMMA EmptyList == NoList \in Lists /\ NoList.pages = <<>> /\ \A k : Distinct(k, NoList)
BY DEF NoList, Lists, Distinct, IsInjective

\* A page of minutes that is there already is left out, a new one comes last.
LEMMA AddPageKeeps ==
    ASSUME NEW r \in Requests, NEW list \in Lists, NEW page \in Nat, now \in Nat,
           Distinct(r.kind, list), list.read <= now
    PROVE  LET longer == AddPage(r, list, page)
           IN  longer \in Lists /\ Distinct(r.kind, longer) /\ longer.read <= now
<1>. DEFINE longer == AddPage(r, list, page)
<1>1. /\ list.pages \in Seq(Nat) /\ list.read \in Nat /\ list.took \in Nat /\ list.cut \in BOOLEAN
      /\ list = [pages |-> list.pages, read |-> list.read, took |-> list.took, cut |-> list.cut]
  BY DEF Lists
<1>2. /\ longer.read \in Nat /\ longer.read <= now /\ longer.took = list.took /\ longer.cut = list.cut
      /\ longer = [pages |-> longer.pages, read |-> longer.read, took |-> longer.took, cut |-> longer.cut]
      /\ longer.pages = IF r.kind = "minute" /\ page \in Range(list.pages)
                        THEN list.pages ELSE Append(list.pages, page)
  <2>. DEFINE ps == IF r.kind = "minute" /\ page \in Range(list.pages)
                    THEN list.pages ELSE Append(list.pages, page)
              at == IF list.pages = <<>> THEN now ELSE list.read
  <2>1. longer = [list EXCEPT !.pages = ps, !.read = at]
    BY DEF AddPage
  <2>2. at \in Nat /\ at <= now
    BY <1>1
  <2>. HIDE DEF ps, at, longer
  <2>3. longer = [pages |-> ps, read |-> at, took |-> list.took, cut |-> list.cut]
    BY <1>1, <2>1
  <2>4. /\ longer.pages = ps /\ longer.read \in Nat /\ longer.read <= now
        /\ longer.took = list.took /\ longer.cut = list.cut
    BY <2>2, <2>3
  <2>. QED BY <2>2, <2>3, <2>4 DEF ps
<1>3. longer.pages \in Seq(Nat)
  BY <1>1, <1>2, AppendProperties
<1>4. longer \in Lists
  BY <1>1, <1>2, <1>3 DEF Lists
<1>5. ASSUME r.kind = "minute" PROVE IsInjective(longer.pages)
  <2>1. CASE page \in Range(list.pages)
    BY <1>2, <1>5, <2>1 DEF Distinct
  <2>2. CASE page \notin Range(list.pages)
    <3>1. longer.pages = Append(list.pages, page)
      BY <1>2, <2>2
    <3>2. /\ DOMAIN longer.pages = 1..(Len(list.pages) + 1)
          /\ longer.pages[Len(list.pages) + 1] = page
          /\ \A i \in 1..Len(list.pages) : longer.pages[i] = list.pages[i]
      BY <1>1, <3>1, AppendProperties
    <3>3. Len(list.pages) \in Nat /\ DOMAIN list.pages = 1..Len(list.pages)
      BY <1>1, LenProperties
    <3>4. \A i \in 1..Len(list.pages) : list.pages[i] # page
      BY <2>2 DEF Range
    <3>5. \A i, j \in 1..Len(list.pages) : list.pages[i] = list.pages[j] => i = j
      BY <1>5, <3>3 DEF Distinct, IsInjective
    <3>6. \A i \in 1..(Len(list.pages) + 1) : i \in 1..Len(list.pages) \/ i = Len(list.pages) + 1
      BY <3>3
    <3>. HIDE DEF longer
    <3>. QED BY <3>2, <3>4, <3>5, <3>6 DEF IsInjective
  <2>. QED BY <2>1, <2>2
<1>. QED BY <1>2, <1>4, <1>5 DEF Distinct

\* Where only the answer falls silent or the waiting change, and no list.
LEMMA SilentStep ==
    ASSUME Inv, UNCHANGED <<now, cache, tasks>>, told' = Silence,
           waits' \in [Callers -> SUBSET Requests]
    PROVE  Inv'
<1>1. Silence \in [of : SUBSET Requests, list : Lists, age : Int] /\ Silence.of = {}
  BY EmptyList DEF Silence
<1>2. TypeOK'
  BY <1>1 DEF Inv, TypeOK
<1>3. TasksInv' /\ CacheInv'
  BY DEF Inv, TasksInv, CacheInv, Fetched, Kept
<1>. QED BY <1>1, <1>2, <1>3 DEF Inv, CandlesHold, EnoughIfThere, CandlesAreYoung, NoMinuteTwice

\* Where a task alone goes on.
LEMMA TaskStep ==
    ASSUME Inv, NEW r \in Requests, NEW task \in [pc : Steps, list : Lists, page : Nat, calls : Nat],
           Fetched(r, task), tasks' = [tasks EXCEPT ![r] = task],
           UNCHANGED <<now, cache>>, told' = Silence, waits' \in [Callers -> SUBSET Requests]
    PROVE  Inv'
<1>1. Silence \in [of : SUBSET Requests, list : Lists, age : Int] /\ Silence.of = {}
  BY EmptyList DEF Silence
<1>2. TypeOK'
  BY <1>1 DEF Inv, TypeOK
<1>3. CacheInv'
  BY DEF Inv, CacheInv, Kept
<1>4. ASSUME NEW q \in Requests PROVE Fetched(q, tasks[q])'
  <2>1. tasks'[q] = IF q = r THEN task ELSE tasks[q]
    BY DEF Inv, TypeOK
  <2>2. Fetched(q, tasks[q])
    BY DEF Inv, TasksInv
  <2>. QED BY <2>1, <2>2 DEF Fetched
<1>. QED BY <1>1, <1>2, <1>3, <1>4
         DEF Inv, TasksInv, CandlesHold, EnoughIfThere, CandlesAreYoung, NoMinuteTwice

----------------------------------------------------------------------------
(* The actions.                                                            *)

LEMMA AskKeeps ==
    ASSUME Configured, Inv, NEW c \in Callers, NEW r \in Requests, Ask(c, r)
    PROVE  Inv'
<1>. USE DEF Ask
<1>1. CASE Serves(r)
  <2>1. /\ told' = Answer(r, cache[r.kind].list)
        /\ UNCHANGED <<now, cache, tasks, waits>>
    BY <1>1
  <2>2. PICK entry \in [list : Lists, until : Nat] : entry = cache[r.kind] /\ Kept(r.kind, entry)
    BY RequestType DEF Inv, TypeOK, CacheInv
  <2>3. /\ entry.list.pages # <<>> /\ now < entry.until /\ Len(entry.list.pages) >= r.target
        /\ entry.list \in Lists
    BY <1>1, <2>2 DEF Serves
  <2>4. now - entry.list.read < entry.list.took + Ttl[r.kind]
    <3>1. /\ entry.until <= entry.list.read + entry.list.took + Ttl[r.kind]
          /\ entry.list.read \in Nat /\ entry.list.took \in Nat /\ entry.until \in Nat
      BY <2>2, <2>3 DEF Kept, Lists
    <3>. QED BY <2>3, <3>1, RequestType DEF Inv, TypeOK
  <2>5. told' = [of |-> {r}, list |-> entry.list, age |-> now - entry.list.read]
    BY <2>1, <2>2, <2>3 DEF Answer, Age
  <2>6. Len(entry.list.pages) \in Nat /\ entry.list.read \in Nat /\ r.target \in Nat
    BY <2>3, RequestType, LenProperties DEF Lists
  <2>7. TypeOK'
    BY <2>1, <2>3, <2>5, <2>6 DEF Inv, TypeOK
  <2>8. TasksInv' /\ CacheInv'
    BY <2>1 DEF Inv, TasksInv, CacheInv, Fetched, Kept
  <2>9. CandlesHold'
    <3>1. \A q \in told'.of : q = r
      BY <2>5
    <3>2. told'.list = entry.list /\ told'.age = now - entry.list.read
      BY <2>5
    <3>3. EnoughIfThere'
      BY <2>3, <2>6, <3>1, <3>2 DEF EnoughIfThere
    <3>4. CandlesAreYoung'
      BY <2>4, <3>1, <3>2 DEF CandlesAreYoung
    <3>5. NoMinuteTwice'
      BY <2>2, <3>1, <3>2 DEF NoMinuteTwice, Kept, Distinct
    <3>. QED BY <3>3, <3>4, <3>5 DEF CandlesHold
  <2>. QED BY <2>7, <2>8, <2>9 DEF Inv
<1>2. CASE ~Serves(r)
  <2>1. waits' \in [Callers -> SUBSET Requests]
    BY <1>2 DEF Inv, TypeOK
  <2>2. CASE tasks[r].pc # "none"
    BY <1>2, <2>1, <2>2, SilentStep
  <2>3. CASE tasks[r].pc = "none"
    <3>. DEFINE task == [tasks[r] EXCEPT !.pc = "paging"]
    <3>1. tasks' = [tasks EXCEPT ![r] = task]
      BY <1>2, <2>3
    <3>2. task \in [pc : Steps, list : Lists, page : Nat, calls : Nat]
      BY DEF Inv, TypeOK, Steps
    <3>3. task.list = tasks[r].list /\ task.pc = "paging"
      BY DEF Inv, TypeOK
    <3>. HIDE DEF task
    <3>4. Fetched(r, task)
      BY <3>3 DEF Inv, TasksInv, Fetched
    <3>. QED BY <1>2, <2>1, <3>1, <3>2, <3>4, TaskStep
  <2>. QED BY <2>2, <2>3
<1>. QED BY <1>1, <1>2

LEMMA PageKeeps ==
    ASSUME Configured, Inv, NEW r \in Requests, Page(r)
    PROVE  Inv'
<1>. DEFINE list == AddPage(r, tasks[r].list, tasks[r].page)
            enough == IF r.kind = "daily" THEN Len(list.pages) >= r.target
                      ELSE tasks[r].calls + 1 >= MaxPages
<1>1. PICK next \in {"another", "same", "none"} :
          tasks' = [tasks EXCEPT
               ![r].list = [list EXCEPT !.cut = ~enough /\ next = "none"],
               ![r].pc = IF enough \/ (next = "none" /\ r.kind = "minute") THEN "end"
                         ELSE IF next = "none" THEN "toss" ELSE "paging",
               ![r].page = IF next = "another" THEN @ + 1 ELSE @,
               ![r].calls = IF r.kind = "minute" THEN @ + 1 ELSE @]
  BY DEF Page
<1>2. tasks[r] \in [pc : Steps, list : Lists, page : Nat, calls : Nat] /\ now \in Nat
  BY DEF Inv, TypeOK
<1>3. list \in Lists /\ Distinct(r.kind, list) /\ list.read <= now
  BY <1>2, AddPageKeeps DEF Inv, TasksInv, Fetched
<1>. HIDE DEF list
<1>5. r.kind = "daily" /\ enough => Len(list.pages) >= r.target
  OBVIOUS
<1>. HIDE DEF enough
<1>. DEFINE found == [list EXCEPT !.cut = ~enough /\ next = "none"]
            pc    == IF enough \/ (next = "none" /\ r.kind = "minute") THEN "end"
                     ELSE IF next = "none" THEN "toss" ELSE "paging"
            task  == [pc |-> pc, list |-> found,
                      page |-> IF next = "another" THEN tasks[r].page + 1 ELSE tasks[r].page,
                      calls |-> IF r.kind = "minute" THEN tasks[r].calls + 1 ELSE tasks[r].calls]
<1>6. /\ found \in Lists /\ found.pages = list.pages /\ found.read <= now
      /\ found.cut = (~enough /\ next = "none")
  BY <1>3 DEF Lists
<1>7. pc \in Steps
  BY DEF Steps
<1>8. tasks' = [tasks EXCEPT ![r] = task]
  <2>1. tasks' = [tasks EXCEPT ![r].list = found, ![r].pc = pc,
                               ![r].page = IF next = "another" THEN @ + 1 ELSE @,
                               ![r].calls = IF r.kind = "minute" THEN @ + 1 ELSE @]
    BY <1>1
  <2>. HIDE DEF found, pc
  <2>2. tasks \in [Requests -> [pc : Steps, list : Lists, page : Nat, calls : Nat]]
    BY DEF Inv, TypeOK
  <2>3. \A q \in Requests : q # r => tasks'[q] = tasks[q]
    BY <2>1, <2>2
  <2>4. tasks'[r] = task
    BY <1>2, <2>1, <2>2
  <2>5. DOMAIN tasks' = Requests
    BY <2>1, <2>2
  <2>. HIDE DEF task
  <2>. QED BY <2>1, <2>2, <2>3, <2>4, <2>5
<1>9. task \in [pc : Steps, list : Lists, page : Nat, calls : Nat]
  <2>. HIDE DEF found, pc
  <2>. QED BY <1>2, <1>6, <1>7
<1>10. task.list = found /\ task.pc = pc
  OBVIOUS
<1>11. Fetched(r, task)
  <2>1. task.list.read <= now
    BY <1>6, <1>10
  <2>2. Distinct(r.kind, task.list)
    BY <1>3, <1>6, <1>10 DEF Distinct
  <2>3. r.kind = "daily" \/ (r.kind = "minute" /\ r.target = 0)
    BY RequestType
  <2>4. task.pc = "toss" => r.kind = "daily" /\ task.list.cut
    <3>. HIDE DEF found, task
    <3>. QED BY <1>6, <1>10, <2>3
  <2>5. task.pc = "end" /\ Len(task.list.pages) < r.target => task.list.cut
    <3>1. Len(list.pages) \in Nat /\ r.target \in Nat
      BY <1>3, RequestType, LenProperties DEF Lists
    <3>. HIDE DEF found, task
    <3>2. task.pc = "end" => enough \/ r.kind = "minute"
      BY <1>10, <2>3
    <3>. QED BY <1>5, <1>6, <1>10, <2>3, <3>1, <3>2
  <2>. QED BY <2>1, <2>2, <2>4, <2>5 DEF Fetched
<1>. HIDE DEF task, found, pc
<1>. QED BY <1>8, <1>9, <1>11, TaskStep DEF Page, Inv, TypeOK

LEMMA PageFailsKeeps ==
    ASSUME Configured, Inv, NEW r \in Requests, PageFails(r)
    PROVE  Inv'
<1>1. PICK old \in [pc : Steps, list : Lists, page : Nat, calls : Nat] :
          old = tasks[r] /\ Fetched(r, old)
  BY DEF Inv, TypeOK, TasksInv
<1>. DEFINE found == IF r.kind = "daily" THEN [old.list EXCEPT !.cut = TRUE] ELSE [NoList EXCEPT !.cut = TRUE]
            pc == IF r.kind = "daily" THEN "toss" ELSE "end"
            task == [[old EXCEPT !.pc = pc] EXCEPT !.list = found]
<1>2. tasks' = [tasks EXCEPT ![r] = task]
  BY <1>1 DEF PageFails, Inv, TypeOK
<1>3. found \in Lists /\ found.cut /\ (r.kind = "daily" => found.pages = old.list.pages /\ found.read = old.list.read)
  BY <1>1, EmptyList DEF Lists
<1>4. r.kind # "daily" => found.pages = <<>> /\ found.read = 0
  BY DEF NoList
<1>5. task \in [pc : Steps, list : Lists, page : Nat, calls : Nat] /\ task.list = found /\ task.pc = pc
  <2>. HIDE DEF found
  <2>. QED BY <1>1, <1>3 DEF Steps
<1>. HIDE DEF found, task
<1>6. Fetched(r, task)
  <2>1. Distinct(r.kind, task.list)
    BY <1>1, <1>3, <1>4, <1>5 DEF Fetched, Distinct, IsInjective
  <2>2. task.list.read <= now
    BY <1>1, <1>3, <1>4, <1>5 DEF Fetched, Inv, TypeOK
  <2>. QED BY <1>1, <1>3, <1>4, <1>5, <2>1, <2>2 DEF Fetched
<1>. QED BY <1>2, <1>5, <1>6, TaskStep DEF PageFails, Inv, TypeOK

LEMMA TossKeeps ==
    ASSUME Configured, Inv, NEW r \in Requests, Toss(r)
    PROVE  Inv'
<1>1. PICK old \in [pc : Steps, list : Lists, page : Nat, calls : Nat] :
          old = tasks[r] /\ Fetched(r, old)
  BY DEF Inv, TypeOK, TasksInv
<1>2. PICK n \in 0..r.target :
          tasks' = [tasks EXCEPT
            ![r].pc = "end",
            ![r].list = IF n > Len(@.pages) THEN [@ EXCEPT !.pages = [i \in 1..n |-> i], !.read = now] ELSE @]
  BY DEF Toss
<1>3. n \in Nat /\ now \in Nat /\ r.kind = "daily" /\ old.list.cut /\ old.list \in Lists
  BY <1>1, RequestType DEF Toss, Fetched, Inv, TypeOK
<1>. DEFINE found == IF n > Len(old.list.pages)
                     THEN [old.list EXCEPT !.pages = [i \in 1..n |-> i], !.read = now] ELSE old.list
            task == [[old EXCEPT !.pc = "end"] EXCEPT !.list = found]
<1>4. tasks' = [tasks EXCEPT ![r] = task]
  BY <1>1, <1>2 DEF Inv, TypeOK
<1>5. [i \in 1..n |-> i] \in Seq(Nat)
  BY <1>3
<1>6. found \in Lists /\ found.cut /\ found.read <= now
  <2>1. CASE n > Len(old.list.pages)
    <3>1. found = [old.list EXCEPT !.pages = [i \in 1..n |-> i], !.read = now]
      BY <2>1
    <3>. HIDE DEF found
    <3>2. found = [pages |-> [i \in 1..n |-> i], read |-> now, took |-> old.list.took,
                   cut |-> old.list.cut]
      BY <3>1, <1>3 DEF Lists
    <3>. QED BY <3>2, <1>3, <1>5 DEF Lists
  <2>2. CASE ~(n > Len(old.list.pages))
    <3>1. found = old.list
      BY <2>2
    <3>. QED BY <3>1, <1>1, <1>3 DEF Fetched
  <2>. QED BY <2>1, <2>2
<1>7. task \in [pc : Steps, list : Lists, page : Nat, calls : Nat] /\ task.list = found /\ task.pc = "end"
  <2>. HIDE DEF found
  <2>. QED BY <1>1, <1>6 DEF Steps
<1>. HIDE DEF found, task
<1>8. Fetched(r, task)
  BY <1>3, <1>6, <1>7 DEF Fetched, Distinct
<1>. QED BY <1>4, <1>7, <1>8, TaskStep DEF Toss, Inv, TypeOK

LEMMA FinishKeeps ==
    ASSUME Configured, Inv, NEW r \in Requests, Finish(r)
    PROVE  Inv'
<1>. DEFINE list == [tasks[r].list EXCEPT !.took = Age(tasks[r].list)]
<1>0. /\ now \in Nat /\ now' = now /\ tasks[r].pc = "end" /\ tasks[r].list \in Lists
      /\ Fetched(r, tasks[r]) /\ r.kind \in Kinds /\ Ttl[r.kind] \in Nat \ {0}
  BY RequestType DEF Finish, Inv, TypeOK, TasksInv
<1>1. /\ now \in Nat /\ now' = now /\ r.kind \in Kinds /\ Ttl[r.kind] \in Nat \ {0}
      /\ list \in Lists /\ list.took = Age(list)
      /\ list.read <= now /\ Distinct(r.kind, list) /\ (Len(list.pages) < r.target => list.cut)
  <2>1. tasks[r].list.read \in Nat /\ tasks[r].list.read <= now
    BY <1>0 DEF Fetched, Lists
  <2>2. Age(tasks[r].list) \in Nat
    BY <1>0, <2>1 DEF Age
  <2>3. /\ list \in Lists /\ list.took = Age(tasks[r].list) /\ list.pages = tasks[r].list.pages
        /\ list.read = tasks[r].list.read /\ list.cut = tasks[r].list.cut
    BY <1>0, <2>2 DEF Lists
  <2>. HIDE DEF list
  <2>4. Age(list) = Age(tasks[r].list)
    BY <2>3 DEF Age
  <2>. QED BY <1>0, <2>1, <2>3, <2>4 DEF Fetched, Distinct
<1>. DEFINE kept == [list |-> list, until |-> now + Ttl[r.kind]]
<1>2. cache' = IF list.pages = <<>> THEN cache ELSE [cache EXCEPT ![r.kind] = kept]
  BY DEF Finish
<1>. DEFINE answer == [of |-> {r}, list |-> list, age |-> Age(list)]
<1>14. told' = answer \/ told' = Silence
  BY DEF Finish, Answer
<1>. HIDE DEF list
<1>3. kept \in [list : Lists, until : Nat]
  BY <1>1
<1>4. ASSUME list.pages # <<>> PROVE Kept(r.kind, kept)
  <2>1. list.read \in Nat /\ list.took = now - list.read
    BY <1>1, <1>4 DEF Age, Lists
  <2>. QED BY <1>1, <2>1 DEF Kept
<1>5. tasks' = [tasks EXCEPT ![r] = NoTask]
  BY DEF Finish
<1>6. NoTask \in [pc : Steps, list : Lists, page : Nat, calls : Nat] /\ Fetched(r, NoTask)
  BY <1>1, EmptyList DEF NoTask, NoList, Steps, Fetched
<1>7. waits' \in [Callers -> SUBSET Requests]
  BY DEF Finish, Inv, TypeOK
<1>8. told' = answer \/ (told' = Silence /\ Silence.of = {})
  BY <1>14 DEF Silence
<1>15. Age(list) \in Nat /\ Age(list) < list.took + Ttl[r.kind]
  BY <1>1 DEF Lists
<1>9. told' \in [of : SUBSET Requests, list : Lists, age : Int]
  BY <1>1, <1>8, <1>15, EmptyList DEF Silence
<1>. HIDE DEF kept
<1>10. TypeOK'
  BY <1>1, <1>2, <1>3, <1>5, <1>6, <1>7, <1>9 DEF Inv, TypeOK
<1>11. TasksInv'
  <2>1. ASSUME NEW q \in Requests PROVE Fetched(q, tasks[q])'
    <3>1. tasks'[q] = IF q = r THEN NoTask ELSE tasks[q]
      BY <1>5 DEF Inv, TypeOK
    <3>2. Fetched(q, tasks[q])
      BY DEF Inv, TasksInv
    <3>. QED BY <1>1, <1>6, <3>1, <3>2 DEF Fetched
  <2>. QED BY <2>1 DEF TasksInv
<1>12. CacheInv'
  <2>1. ASSUME NEW k \in Kinds PROVE Kept(k, cache[k])'
    <3>1. cache'[k] = cache[k] \/ (k = r.kind /\ list.pages # <<>> /\ cache'[k] = kept)
      BY <1>2 DEF Inv, TypeOK
    <3>2. Kept(k, cache[k])
      BY DEF Inv, CacheInv
    <3>. QED BY <1>4, <3>1, <3>2 DEF Kept
  <2>. QED BY <2>1 DEF CacheInv
<1>13. CandlesHold'
  <2>1. CASE told'.of = {}
    BY <2>1 DEF CandlesHold, EnoughIfThere, CandlesAreYoung, NoMinuteTwice
  <2>2. CASE told' = answer
    <3>1. (\A q \in told'.of : q = r) /\ told'.list = list /\ told'.age = Age(list)
      BY <2>2
    <3>2. /\ Len(list.pages) < r.target => list.cut
          /\ r.kind = "minute" => IsInjective(list.pages)
      BY <1>1 DEF Distinct
    <3>. QED BY <1>15, <3>1, <3>2 DEF CandlesHold, EnoughIfThere, CandlesAreYoung, NoMinuteTwice
  <2>. QED BY <1>8, <2>1, <2>2
<1>. QED BY <1>10, <1>11, <1>12, <1>13 DEF Inv

\* The clock moves also while something is fetched.
LEMMA TickKeeps == ASSUME Configured, Inv, Tick PROVE Inv'
<1>1. now' = now + 1 /\ told' = Silence /\ UNCHANGED <<cache, tasks, waits>>
  BY DEF Tick
<1>2. Silence \in [of : SUBSET Requests, list : Lists, age : Int] /\ Silence.of = {}
  BY EmptyList DEF Silence
<1>3. TypeOK'
  BY <1>1, <1>2 DEF Inv, TypeOK
<1>4. TasksInv'
  <2>1. ASSUME NEW q \in Requests PROVE Fetched(q, tasks[q])'
    <3>1. Fetched(q, tasks[q]) /\ tasks[q].list.read \in Nat /\ now \in Nat
      BY DEF Inv, TypeOK, TasksInv, Lists
    <3>. QED BY <1>1, <3>1 DEF Fetched
  <2>. QED BY <2>1 DEF TasksInv
<1>5. CacheInv'
  BY <1>1 DEF Inv, CacheInv, Kept
<1>. QED BY <1>1, <1>2, <1>3, <1>4, <1>5
         DEF Inv, CandlesHold, EnoughIfThere, CandlesAreYoung, NoMinuteTwice

LEMMA InitHolds == Configured /\ Init => Inv
<1>. SUFFICES ASSUME Configured, Init PROVE Inv
  OBVIOUS
<1>1. Silence \in [of : SUBSET Requests, list : Lists, age : Int] /\ Silence.of = {}
  BY EmptyList DEF Silence
<1>2. /\ Empty \in [list : Lists, until : Nat] /\ Empty.list = NoList
      /\ NoTask \in [pc : Steps, list : Lists, page : Nat, calls : Nat]
      /\ NoTask.list = NoList /\ NoTask.pc = "none"
  BY EmptyList DEF Empty, NoTask, Steps
<1>3. TypeOK
  BY <1>1, <1>2 DEF Init, TypeOK
<1>4. TasksInv /\ CacheInv
  <2>1. NoList.read = 0
    BY DEF NoList
  <2>2. \A r \in Requests : tasks[r] = NoTask
    BY DEF Init
  <2>3. \A k \in Kinds : cache[k] = Empty
    BY DEF Init
  <2>4. TasksInv
    BY <1>2, <2>1, <2>2, EmptyList DEF Init, TasksInv, Fetched
  <2>. QED BY <1>2, <2>3, <2>4, EmptyList DEF CacheInv, Kept
<1>. QED BY <1>1, <1>3, <1>4
         DEF Init, Inv, CandlesHold, EnoughIfThere, CandlesAreYoung, NoMinuteTwice

LEMMA NextKeeps == Configured /\ Inv /\ [Next]_vars => Inv'
<1>. SUFFICES ASSUME Configured, Inv, [Next]_vars PROVE Inv'
  OBVIOUS
<1>1. CASE \E c \in Callers : Cancel(c)
  BY <1>1, SilentStep DEF Cancel, Inv, TypeOK
<1>2. CASE \E c \in Callers, r \in Requests : Ask(c, r)
  BY <1>2, AskKeeps
<1>3. CASE \E r \in Requests : Page(r) \/ PageFails(r) \/ Toss(r) \/ Finish(r)
  BY <1>3, PageKeeps, PageFailsKeeps, TossKeeps, FinishKeeps
<1>4. CASE Tick
  BY <1>4, TickKeeps
<1>5. CASE UNCHANGED vars
  <2>1. TypeOK'
    BY <1>5 DEF Inv, TypeOK, vars
  <2>2. TasksInv' /\ CacheInv' /\ CandlesHold'
    BY <1>5 DEF Inv, TasksInv, CacheInv, Fetched, Kept, vars,
                CandlesHold, EnoughIfThere, CandlesAreYoung, NoMinuteTwice
  <2>. QED BY <2>1, <2>2 DEF Inv
<1>. QED BY <1>1, <1>2, <1>3, <1>4, <1>5 DEF Next

----------------------------------------------------------------------------
(* The theorem.                                                            *)

\* What ma_utils hands to a scan: enough candles unless their source ended or failed, no
\* older than they may be cached and their fetch took, and no minute twice, for any number
\* of callers that ask for any lengths, share fetches of any duration and are cancelled.
THEOREM CandlesAlwaysHold == ASSUME Configured PROVE Spec => []CandlesHold
<1>1. Init => Inv
  BY InitHolds
<1>2. Inv /\ [Next]_vars => Inv'
  BY NextKeeps
<1>3. Inv => CandlesHold
  BY DEF Inv
<1>. QED BY <1>1, <1>2, <1>3, PTL DEF Spec
===========================================================================
