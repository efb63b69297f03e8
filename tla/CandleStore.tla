---------------------------- MODULE CandleStore ----------------------------
(***************************************************************************)
(* ma_utils.py: the candles of one stock, daily for as many pages as a     *)
(* strategy asks for and by the minute for as many as there are.  Lists    *)
(* are cached, equal requests share one fetch (http_utils.py), a daily     *)
(* list that stays short is replaced by Toss's when that is longer.  A     *)
(* page stands for the candles the broker sends at once.                   *)
(***************************************************************************)
EXTENDS Integers, Sequences, Functions

CONSTANTS Callers,
          Requests,  \* a kind, "daily" or "minute", with the pages wanted: 0 for minutes
          Ttl,       \* of the list of a kind, by MA_CACHE_TTL_SEC and RSI_MIN_CACHE_TTL_*
          MaxPages,  \* KIWOOM_MINUTE_MAX_PAGES
          Horizon    \* bound: the instants that are modelled

VARIABLES now, cache, tasks,
          waits,  \* the requests each caller waits for: one or none
          told    \* the answer the last step gave, if it gave one

vars == <<now, cache, tasks, waits, told>>

Kinds == {r.kind : r \in Requests}

\* What the theorems assume: minutes are asked for without a number, lists are kept for a while.
Configured ==
    /\ Requests \subseteq [kind : {"daily", "minute"}, target : Nat]
    /\ \A r \in Requests : r.kind = "minute" => r.target = 0
    /\ Ttl \in [Kinds -> Nat \ {0}]

\* A list: its pages, the newest first, when the first was read and how long after that the
\* fetch ended, whether the source ended early.
NoList == [pages |-> <<>>, read |-> 0, took |-> 0, cut |-> FALSE]
Empty == [list |-> NoList, until |-> 0]
NoTask == [pc |-> "none", list |-> NoList, page |-> 1, calls |-> 0]
Silence == [of |-> {}, list |-> NoList, age |-> 0]

Init ==
    /\ now = 0
    /\ cache = [k \in Kinds |-> Empty]
    /\ tasks = [r \in Requests |-> NoTask]
    /\ waits = [c \in Callers |-> {}]
    /\ told = Silence

\* (mutant) A list that was cached for fewer pages is as good.
ServesAnyLength(r) ==
    LET entry == cache[r.kind] IN entry.list.pages # <<>> /\ now < entry.until

\* _candle_cache_get and the length asked for.
Serves(r) ==
    LET entry == cache[r.kind]
    IN entry.list.pages # <<>> /\ now < entry.until /\ Len(entry.list.pages) >= r.target

Age(list) == IF list.pages = <<>> THEN 0 ELSE now - list.read
Answer(r, list) == [of |-> {r}, list |-> list, age |-> Age(list)]

\* fetch_daily_candles, fetch_minute_candles: the cached list, the fetch under way or a new one.
Ask(c, r) ==
    /\ waits[c] = {}
    /\ IF Serves(r)
       THEN told' = Answer(r, cache[r.kind].list) /\ UNCHANGED <<tasks, waits>>
       ELSE /\ waits' = [waits EXCEPT ![c] = {r}]
            /\ tasks' = IF tasks[r].pc = "none" THEN [tasks EXCEPT ![r].pc = "paging"] ELSE tasks
            /\ told' = Silence
    /\ UNCHANGED <<now, cache>>

\* Minute candles already seen are left out.
AddPage(r, list, page) ==
    [list EXCEPT !.pages = IF r.kind = "minute" /\ page \in Range(@) THEN @ ELSE Append(@, page),
                 !.read = IF list.pages = <<>> THEN now ELSE @]

\* A page arrives, and the broker names the key of another one, of the same one, or none (or
\* one already seen).  Minutes stop after MaxPages calls, days when there are enough.
Page(r) ==
    /\ tasks[r].pc = "paging"
    /\ \E next \in IF r.kind = "minute" THEN {"another", "same", "none"} ELSE {"another", "none"} :
        LET list == AddPage(r, tasks[r].list, tasks[r].page)
            enough == IF r.kind = "daily" THEN Len(list.pages) >= r.target
                      ELSE tasks[r].calls + 1 >= MaxPages
        IN tasks' = [tasks EXCEPT
               ![r].list = [list EXCEPT !.cut = ~enough /\ next = "none"],
               ![r].pc = IF enough \/ (next = "none" /\ r.kind = "minute") THEN "end"
                         ELSE IF next = "none" THEN "toss" ELSE "paging",
               ![r].page = IF next = "another" THEN @ + 1 ELSE @,
               ![r].calls = IF r.kind = "minute" THEN @ + 1 ELSE @]
    /\ told' = Silence
    /\ UNCHANGED <<now, cache, waits>>

\* An error: days keep what they have, minutes lose all.
PageFails(r) ==
    /\ tasks[r].pc = "paging"
    /\ tasks' = [tasks EXCEPT
           ![r].pc = IF r.kind = "daily" THEN "toss" ELSE "end",
           ![r].list = IF r.kind = "daily" THEN [@ EXCEPT !.cut = TRUE] ELSE [NoList EXCEPT !.cut = TRUE]]
    /\ told' = Silence
    /\ UNCHANGED <<now, cache, waits>>

\* _try_toss_candle_fallback: the longer list, whole; none when Toss fails or is switched off.
Toss(r) ==
    /\ tasks[r].pc = "toss"
    /\ \E n \in 0..r.target :
        tasks' = [tasks EXCEPT
            ![r].pc = "end",
            ![r].list = IF n > Len(@.pages) THEN [@ EXCEPT !.pages = [i \in 1..n |-> i], !.read = now] ELSE @]
    /\ told' = Silence
    /\ UNCHANGED <<now, cache, waits>>

\* The list is cached unless it is empty, and handed to all who wait for it.
Finish(r) ==
    /\ tasks[r].pc = "end"
    /\ LET list == [tasks[r].list EXCEPT !.took = Age(tasks[r].list)]
       IN /\ cache' = IF list.pages = <<>> THEN cache
                      ELSE [cache EXCEPT ![r.kind] = [list |-> list, until |-> now + Ttl[r.kind]]]
          /\ told' = IF \E c \in Callers : r \in waits[c] THEN Answer(r, list) ELSE Silence
    /\ waits' = [c \in Callers |-> waits[c] \ {r}]
    /\ tasks' = [tasks EXCEPT ![r] = NoTask]
    /\ UNCHANGED now

\* The scan of a caller times out; the shared fetch goes on.
Cancel(c) ==
    /\ waits[c] # {}
    /\ waits' = [waits EXCEPT ![c] = {}]
    /\ told' = Silence
    /\ UNCHANGED <<now, cache, tasks>>

\* Time passes, also while a fetch waits for the broker or for the next page.
Tick ==
    /\ now < Horizon
    /\ now' = now + 1
    /\ told' = Silence
    /\ UNCHANGED <<cache, tasks, waits>>

Next ==
    \/ \E c \in Callers : Cancel(c) \/ \E r \in Requests : Ask(c, r)
    \/ \E r \in Requests : Page(r) \/ PageFails(r) \/ Toss(r) \/ Finish(r)
    \/ Tick

Spec == Init /\ [][Next]_vars

-----------------------------------------------------------------------------
\* A caller is given fewer days than it asked for only by a fetch whose source ended or failed,
\* never because another scan asked for fewer, at the same time or before.
EnoughIfThere == \A r \in told.of : Len(told.list.pages) < r.target => told.list.cut

\* Candles are no older, when they are handed out, than their list may be cached and its fetch
\* took: a bar that was still forming when it was read counts as a closed one no longer than
\* that.  (A fetch of several pages may well last longer than the 15 s of the minute's cache.)
CandlesAreYoung == \A r \in told.of : told.age < told.list.took + Ttl[r.kind]

\* No minute is counted twice, also when the broker sends a page again.
NoMinuteTwice == \A r \in told.of : r.kind = "minute" => IsInjective(told.list.pages)

\* What a scan is given is long enough, young and without duplicates, whoever asked for it first.
CandlesHold == EnoughIfThere /\ CandlesAreYoung /\ NoMinuteTwice
=============================================================================
