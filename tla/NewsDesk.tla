------------------------------ MODULE NewsDesk ------------------------------
(***************************************************************************)
(* news_scheduler.py: the briefs of the day's slots and those that /news   *)
(* asks for run concurrently over one cached analysis in Redis.  The AI    *)
(* may answer or fall back to rules; a fallback shows the cached analysis  *)
(* instead and must not be cached itself.  Without news the cached analysis *)
(* is told with no mark at all.                                            *)
(***************************************************************************)
EXTENDS Integers, Sequences, FiniteSets

CONSTANTS Workers,        \* the scheduler's loop and the requests of /news
          Slots,
          LiveTtl,        \* NEWS_LIVE_CACHE_TTL_SEC
          CacheTtl,       \* _TTL_ANALYSIS
          Horizon         \* bound: the instants that are modelled

VARIABLES now, cache, work, told

vars == <<now, cache, work, told>>

\* An analysis: its slot field, what it really is and when, and its marks _fallback and
\* used_cached_analysis.
NoSlot == ""
NoAnalysis == [slot |-> NoSlot, by |-> "nobody", for |-> NoSlot, at |-> 0, fallback |-> FALSE, reused |-> FALSE,
               until |-> 0]
Resting == [pc |-> "idle", slot |-> NoSlot, analysis |-> NoAnalysis]

\* What the theorem assumes: the slots have names, and the lives are numbers of seconds.
Configured == NoSlot \notin Slots /\ LiveTtl \in Nat /\ CacheTtl \in Nat

Untold == [slot |-> NoSlot, by |-> "nobody", for |-> NoSlot, old |-> FALSE, marked |-> FALSE, aiUsed |-> FALSE,
           how |-> "none"]
Silent == told' = Untold

Init ==
    /\ now = 1
    /\ cache = NoAnalysis
    /\ work = [w \in Workers |-> Resting]
    /\ told = Untold

\* What _load_cached_analysis returns: nothing when the cache lapsed or the read fails.
Read == {IF cache.until > now THEN cache ELSE NoAnalysis, NoAnalysis}
Known(seen) == seen.by # "nobody"

\* The brief as it is told: whose it is and for which slot, the status ("marked" is
\* WARN), what ai_used says, and the branch it comes from.
Told(w, analysis, aiUsed, how) ==
    told' = [slot |-> work[w].slot, by |-> analysis.by, for |-> analysis.for,
             old |-> now - analysis.at > LiveTtl, marked |-> analysis.fallback, aiUsed |-> aiUsed, how |-> how]

\* A request or a slot of the day.
Begin(w, slot, kind) ==
    /\ work[w].pc = "idle"
    /\ work' = [work EXCEPT ![w] = [Resting EXCEPT !.pc = kind, !.slot = slot]]
    /\ Silent /\ UNCHANGED <<now, cache>>

\* run_once on a closed market: no brief.
SkipSlot(w) ==
    /\ work[w].pc = "scheduled"
    /\ work' = [work EXCEPT ![w] = Resting]
    /\ Silent /\ UNCHANGED <<now, cache>>

\* build_live_brief with allow_ai off.
TellCached(w, seen) ==
    /\ work[w].pc = "facts"
    /\ Told(w, seen, FALSE, "facts")
    /\ work' = [work EXCEPT ![w] = Resting]
    /\ UNCHANGED <<now, cache>>

\* _load_fresh_cached_analysis: of this slot and young enough.
Serves(seen, slot) == Known(seen) /\ seen.slot \in {NoSlot, slot} /\ now - seen.at <= LiveTtl

TellFresh(w, seen) ==
    /\ work[w].pc = "live" /\ Serves(seen, work[w].slot)
    /\ Told(w, seen, FALSE, "cache")
    /\ work' = [work EXCEPT ![w] = Resting]
    /\ UNCHANGED <<now, cache>>

\* collect_news finds nothing: the cached analysis, of whatever slot, or the bare
\* sentiment is told as if the AI had been used.  A request comes here when the cache
\* does not serve it, its read fails, or a refresh is asked for.
NoNews(w, seen) ==
    /\ work[w].pc \in {"scheduled", "live"}
    /\ Told(w, seen, ~seen.reused, "no news")
    /\ work' = [work EXCEPT ![w] = Resting]
    /\ UNCHANGED <<now, cache>>

\* analyze_news, an await of many seconds.
Analyze(w, by) ==
    /\ work[w].pc \in {"scheduled", "live"}
    /\ work' = [work EXCEPT ![w].pc = "merge", ![w].analysis =
           [slot |-> work[w].slot, by |-> by, for |-> work[w].slot, at |-> now,
            fallback |-> by = "rules", reused |-> FALSE, until |-> 0]]
    /\ Silent /\ UNCHANGED <<now, cache>>

\* (mutant) The cached analysis is taken over without the mark.
PreferredUnmarked(analysis, seen) ==
    IF analysis.fallback /\ Known(seen)
    THEN [seen EXCEPT !.slot = analysis.slot] ELSE analysis

\* _prefer_cached_on_fallback: the cached analysis under the name of this slot.
Preferred(analysis, seen) ==
    IF analysis.fallback /\ Known(seen)
    THEN [seen EXCEPT !.slot = analysis.slot, !.fallback = TRUE, !.reused = TRUE] ELSE analysis

Merge(w, seen) ==
    /\ work[w].pc = "merge"
    /\ LET analysis == Preferred(work[w].analysis, seen)
       IN  work' = [work EXCEPT ![w].analysis = analysis,
                                ![w].pc = IF analysis.fallback THEN "emit" ELSE "save"]
    /\ Silent /\ UNCHANGED <<now, cache>>

\* _save_to_redis; its failure is logged only.
Save(w, works) ==
    /\ work[w].pc = "save"
    /\ cache' = IF works THEN [work[w].analysis EXCEPT !.until = now + CacheTtl] ELSE cache
    /\ work' = [work EXCEPT ![w].pc = "emit"]
    /\ Silent /\ UNCHANGED now

\* The answer of /news, or _emit_scheduled_brief with its status: what the rules wrote
\* says ai_used too, and has the mark of a fallback.
Emit(w) ==
    /\ work[w].pc = "emit"
    /\ Told(w, work[w].analysis, ~work[w].analysis.reused, "analysis")
    /\ work' = [work EXCEPT ![w] = Resting]
    /\ UNCHANGED <<now, cache>>

Tick ==
    /\ now < Horizon
    /\ now' = now + 1
    /\ Silent /\ UNCHANGED <<cache, work>>

Next ==
    \/ \E w \in Workers :
          \/ \E slot \in Slots, kind \in {"scheduled", "live", "facts"} : Begin(w, slot, kind)
          \/ SkipSlot(w)
          \/ \E seen \in Read : TellCached(w, seen)
          \/ \E seen \in Read : TellFresh(w, seen)
          \/ \E seen \in Read : NoNews(w, seen)
          \/ \E by \in {"ai", "rules"} : Analyze(w, by)
          \/ \E seen \in Read : Merge(w, seen)
          \/ \E works \in BOOLEAN : Save(w, works)
          \/ Emit(w)
    \/ Tick

Spec == Init /\ [][Next]_vars

-----------------------------------------------------------------------------
\* What is cached was written by the AI for the slot that it names: a fallback,
\* or a cached analysis that stood in for one, is never stored.
CachedForItsSlot == cache.by # "nobody" => cache.by = "ai" /\ cache.slot = cache.for

\* A brief that /news takes from the cache as fresh is the AI's, for the slot that
\* was asked for, and no older than NEWS_LIVE_CACHE_TTL_SEC.
FreshIsFresh ==
    told.how = "cache" => told.by = "ai" /\ told.for = told.slot /\ ~told.old

\* When there were news to analyse, a brief that says ai_used and bears no mark of a
\* fallback is the AI's for its slot.  (Without news the code says ai_used and OK of
\* whatever it finds in the cache; no claim is made of that.)
UnmarkedIsTheAis ==
    told.how = "analysis" /\ told.aiUsed /\ ~told.marked => told.by = "ai" /\ told.for = told.slot

\* What stands in for the AI's analysis is not cached, not served as fresh, and, when there
\* were news, marked.
BriefsHold == CachedForItsSlot /\ FreshIsFresh /\ UnmarkedIsTheAis
=============================================================================
