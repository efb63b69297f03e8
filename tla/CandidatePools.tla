--------------------------- MODULE CandidatePools ---------------------------
(***************************************************************************)
(* The task of candidates_builder.py: session by session it builds the     *)
(* pools of one market, orders them by the live rankings and merges those  *)
(* it can read into the watchlist, a set that /score of the orchestrator   *)
(* adds to and a ranked listing, of which the listener reads the top.  A   *)
(* build that finds nothing leaves the pool to its TTL.                    *)
(***************************************************************************)
EXTENDS CandidateRanking

CONSTANTS Rankings,        \* the rankings the broker may answer with
          TossRankings,    \* and Toss
          LiveRankings,    \* the sources that name a stock, by stock
          PreMarket, Intraday,   \* the builders of the instance, in order
          ListenLimit,     \* how many of the listing the listener reads
          Minute,          \* minutes in a unit of time
          Opening, Regular, Closing, Horizon   \* when the sessions begin; Horizon bounds now

VARIABLES now, pools, watchlist, listing, todo, wake

vars == <<now, pools, watchlist, listing, todo, wake>>

Builders == Range(PreMarket) \cup Range(Intraday)
Units(minutes) == (minutes + Minute - 1) \div Minute
Empty == [codes |-> <<>>, until |-> 0, built |-> 0]
\* The watchlist or its listing: of which refresh, and whose pools that refresh read.
Unlisted == [codes |-> {}, until |-> 0, built |-> 0, read |-> {}]
Live(entry) == entry.until > now

\* The answers the theorem about the pools is of: what a builder makes of them is a list.
Configured ==
    /\ Minute \in Nat \ {0}
    /\ \A s \in Builders, ranking \in Rankings, toss \in TossRankings, named \in BOOLEAN :
           \E n \in 0..Len(ranking) + Len(toss) :
               DOMAIN Qualified(s, ranking, toss, named) = 1..n

\* get_candidate_builder_session of an open day, from the first session on.
Session ==
    CASE now < Opening -> "pre_market" [] now < Regular -> "opening_recovery"
      [] now < Closing -> "intraday"   [] OTHER -> "s12_only"

-----------------------------------------------------------------------------
Init ==
    /\ now = 0 /\ todo = <<>> /\ wake = 0
    /\ pools = [s \in Builders |-> Empty]
    /\ watchlist = Unlisted /\ listing = Unlisted

\* run_candidate_builder wakes and starts the batch of the session; the opening only
\* rebuilds a pool of S1 that is gone.
Begin ==
    /\ todo = <<>> /\ wake <= now
    /\ todo' = CASE Session = "pre_market" -> PreMarket \o <<"watchlist">>
                 [] Session = "opening_recovery" ->
                        (IF Live(pools["S1"]) THEN <<>> ELSE <<"S1">>) \o <<"watchlist">>
                 [] Session = "intraday" -> Intraday \o <<"live", "watchlist">>
                 [] Session = "s12_only" -> <<"S12", "watchlist">>
    /\ UNCHANGED <<now, pools, watchlist, listing, wake>>

Codes(rows) == [i \in DOMAIN rows |-> rows[i].stk]

\* _lpush_with_ttl
Pushed(entry, codes, until, built) ==
    IF codes = <<>> THEN entry ELSE [codes |-> codes, until |-> until, built |-> built]

\* One builder; a request that fails leaves what an empty answer leaves.
Build(s) ==
    /\ todo # <<>> /\ Head(todo) = s /\ s \in Builders
    /\ \E ranking \in Rankings, toss \in TossRankings, named \in BOOLEAN :
           pools' = [pools EXCEPT ![s] =
               Pushed(@, Codes(Qualified(s, ranking, toss, named)), now + Units(PoolLife(s)), now)]
    /\ todo' = Tail(todo)
    /\ UNCHANGED <<now, watchlist, listing, wake>>

\* Members in the order of their score, ties as they were: the i-th is the one that
\* i - 1 others come before.
Before(codes, live, i, j) ==
    \/ LiveScore(live[codes[i]]) > LiveScore(live[codes[j]])
    \/ LiveScore(live[codes[i]]) = LiveScore(live[codes[j]]) /\ i < j
Ahead(codes, live, j) == {i \in DOMAIN codes : Before(codes, live, i, j)}
InOrder(codes, live) ==
    [i \in DOMAIN codes |->
        codes[CHOOSE j \in DOMAIN codes : Cardinality(Ahead(codes, live, j)) = i - 1]]

\* (mutant) The reordered pool gets the life of a new one.
ReorderedAnew(s, live) ==
    Pushed(pools[s], InOrder(pools[s].codes, live), now + Units(PoolLife(s)), pools[s].built)

\* _prioritize_existing_candidate_pools of one pool: its members and what is left of its life.
Reordered(s, live) == Pushed(pools[s], InOrder(pools[s].codes, live), pools[s].until, pools[s].built)

\* The pools that are found where some cannot be read.
Found(unread) == {s \in Builders \ unread : Live(pools[s])}

\* _build_live_confluence over all pools; one whose read fails stays as it is.
Prioritize ==
    /\ todo # <<>> /\ Head(todo) = "live"
    /\ \E live \in LiveRankings, unread \in SUBSET Found({}) :
           pools' = [s \in Builders |-> IF s \in Found(unread) THEN Reordered(s, live) ELSE pools[s]]
    /\ todo' = Tail(todo)
    /\ UNCHANGED <<now, watchlist, listing, wake>>

\* What _refresh_watchlist merges.
Merged(unread) == UNION {Range(pools[s].codes) : s \in Found(unread)}

\* What _get_ranked_candidates reads of so many ranked stocks: the first ListenLimit in
\* whatever order their grades and ties put them.  (Stocks of open positions and held
\* signals come before them there and may push the last ones out.)
Topmost(codes) ==
    {top \in SUBSET codes :
        Cardinality(top) = ListenLimit \/ (top = codes /\ Cardinality(codes) < ListenLimit)}

\* How long a batch is followed by sleep, in minutes.
Sleep == CASE Session = "pre_market" -> 3 [] Session = "opening_recovery" -> 1 [] OTHER -> 10

\* _refresh_watchlist at the end of each batch: a pool whose read fails is passed over,
\* nothing happens where there is no candidate, and writing the listing may fail.  (The
\* task ends where writing the set fails: nothing is begun again.)
Refresh(unread, fails) ==
    /\ todo = <<"watchlist">>
    /\ todo' = <<>> /\ wake' = now + Units(Sleep)
    /\ IF Merged(unread) = {} THEN UNCHANGED <<watchlist, listing>>
       ELSE /\ watchlist' = [codes |-> Merged(unread), until |-> now + Units(15), built |-> now,
                             read |-> Found(unread)]
            /\ IF fails THEN UNCHANGED listing
               ELSE \E top \in Topmost(Merged(unread)) :
                       listing' = [codes |-> top, until |-> now + Units(60), built |-> now,
                                   read |-> Found(unread)]
    /\ UNCHANGED <<now, pools>>

\* GET /score/{stkCd}: one stock more in the set, and two hours for all of them; a set
\* that had lapsed begins anew, of no refresh.  The listing is not added to.
Score(stk) ==
    /\ watchlist' = IF Live(watchlist)
                    THEN [watchlist EXCEPT !.codes = @ \cup {stk}, !.until = now + Units(120)]
                    ELSE [Unlisted EXCEPT !.codes = {stk}, !.until = now + Units(120)]
    /\ UNCHANGED <<now, pools, listing, todo, wake>>

\* Time passes, also within a batch; keys lapse.
Tick ==
    /\ now < Horizon
    /\ now' = now + 1
    /\ pools' = [s \in Builders |-> IF pools[s].until > now' THEN pools[s] ELSE Empty]
    /\ UNCHANGED <<watchlist, listing, todo, wake>>

Next ==
    \/ Begin \/ Prioritize \/ Tick
    \/ \E unread \in SUBSET Found({}), fails \in BOOLEAN : Refresh(unread, fails)
    \/ \E s \in Builders : Build(s)
    \/ \E ranking \in Rankings : \E i \in DOMAIN ranking : Score(ranking[i].stk)

Spec == Init /\ [][Next]_vars

-----------------------------------------------------------------------------
\* No pool outlives the build it came from, however often the live rankings reorder it
\* (_prioritize_existing_candidate_pools, _lpush_with_ttl).
PoolsAreYoung == \A s \in Builders : pools[s].until <= pools[s].built + Units(PoolLife(s))

\* A pool that the refresh behind a list read, and that was not built again since.
ReadBy(list, s) == s \in list.read /\ Live(pools[s]) /\ pools[s].built < list.built

\* A pool that the last refresh could read is in the watchlist as a whole as long as the
\* watchlist lives: nothing /score does takes a stock out, and no order of a stale pool
\* brings one in (_refresh_watchlist, TradingController.scoreStock).
PooledIsWatched ==
    Live(watchlist) =>
        \A s \in Builders : ReadBy(watchlist, s) => Range(pools[s].codes) \subseteq watchlist.codes

\* The same of what the listener reads first, also where a later refresh wrote the set
\* alone, unless it reads as many as it may (_get_ranked_candidates).
PooledIsListed ==
    Live(listing) =>
        \A s \in Builders : ReadBy(listing, s) =>
            Range(pools[s].codes) \subseteq listing.codes \/ Cardinality(listing.codes) = ListenLimit

\* A pool is as young as its build, and what was read of it is watched.
PoolsHold == PoolsAreYoung /\ PooledIsWatched /\ PooledIsListed
=============================================================================
