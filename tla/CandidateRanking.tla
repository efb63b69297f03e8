-------------------------- MODULE CandidateRanking --------------------------
(***************************************************************************)
(* The rules of candidates_builder.py: what each strategy's pool takes     *)
(* from the broker's ranking and from Toss, how a candidate is graded, and *)
(* where the watchlist ranks it.  A row is one stock of a ranking; rises   *)
(* are in tenths of a percent, turnover in units of 10,000,000 won (the    *)
(* broker counts thousands), capitalisation in 100,000,000 won.            *)
(***************************************************************************)
EXTENDS Integers, Sequences, FiniteSetsExt

CONSTANTS Shares,          \* the stocks stock:code_map names, and not as a fund
          Limit,           \* CANDIDATE_LIMIT_*, the same for each
          QualityFilter    \* ENABLE_CANDIDATE_QUALITY_FILTER

\* The rows that are in a set, in their order.
Kept(rows, which) ==
    LET upTo[i \in 0..Len(rows)] ==
            IF i = 0 THEN <<>>
            ELSE IF rows[i] \in which THEN Append(upTo[i - 1], rows[i]) ELSE upTo[i - 1]
    IN  upTo[Len(rows)]
Cut(rows) == SubSeq(rows, 1, IF Len(rows) < Limit THEN Len(rows) ELSE Limit)
Within(band, rise) == band[1] <= rise /\ rise <= band[2]
NoToss == <<1, 0>>

-----------------------------------------------------------------------------
(* What each builder takes of its ranking, the band it asks Toss for.      *)

BuildS1(row) == Within(<<30, 150>>, row.flu) /\ row.price > 0
BuildS2(row) == row.flu > 0
BuildS3(row) == row.foreign /\ row.institution
BuildS4(row) == row.surge >= 40 /\ Within(<<30, 200>>, row.flu)
BuildS5(row) == row.program > 0
BuildS6(row) == TRUE
BuildS7(row) == Within(<<5, 100>>, row.flu)
BuildS8(row) == Within(<<5, 80>>, row.flu)
BuildS9(row) == Within(<<5, 80>>, row.flu)
BuildS10(row) == ~row.fund
BuildS11(row) == row.streak
BuildS12(row) == row.flu > 0
BuildS13(row) == row.surge >= 25 /\ Within(<<20, 90>>, row.flu)

\* The ranking of the falls, whichever sign the broker gives them.
BuildS14(row) == Within(<<30, 100>>, row.flu) \/ Within(<<30, 100>>, -row.flu)
BuildS15(row) == Within(<<5, 80>>, row.flu)

Takes(s, row) ==
    CASE s = "S1" -> BuildS1(row)   [] s = "S2" -> BuildS2(row)   [] s = "S3" -> BuildS3(row)
      [] s = "S4" -> BuildS4(row)   [] s = "S5" -> BuildS5(row)   [] s = "S6" -> BuildS6(row)
      [] s = "S7" -> BuildS7(row)   [] s = "S8" -> BuildS8(row)   [] s = "S9" -> BuildS9(row)
      [] s = "S10" -> BuildS10(row) [] s = "S11" -> BuildS11(row) [] s = "S12" -> BuildS12(row)
      [] s = "S13" -> BuildS13(row) [] s = "S14" -> BuildS14(row) [] s = "S15" -> BuildS15(row)

\* (mutant) The band of the falls is asked for as one of rises.
UnsignedBand(s) == CASE s = "S4" -> <<30, 200>> [] s = "S7" -> <<5, 100>> [] s \in {"S8", "S9"} -> <<5, 80>>
                     [] s = "S13" -> <<20, 90>> [] s = "S14" -> <<30, 100>> [] OTHER -> NoToss

TossBand(s) == CASE s = "S4" -> <<30, 200>> [] s = "S7" -> <<5, 100>> [] s \in {"S8", "S9"} -> <<5, 80>>
                 [] s = "S13" -> <<20, 90>> [] s = "S14" -> <<-100, -30>> [] OTHER -> NoToss

\* Minutes a pool lives.
PoolLife(s) == CASE s = "S1" -> 60 [] s = "S11" -> 40 [] s \in {"S7", "S8", "S9", "S10", "S14"} -> 30 [] OTHER -> 20

\* _filter_individual_stocks: a stock without a name is no candidate, and where the
\* names cannot be read no stock is.
Individuals(rows, named) == IF named THEN Kept(rows, {row \in Range(rows) : row.stk \in Shares}) ELSE <<>>

\* The rows a builder looks at before it stops: at the limit, which S4 only notices at
\* a stock of weak execution; S4 puts those of strong execution first.
Strong(row) == row.strength >= 115
Scanned(s, taken) ==
    LET stops == {i \in Limit..Len(taken) : ~Strong(taken[i])}
        seen  == IF stops = {} THEN taken ELSE SubSeq(taken, 1, Min(stops))
        strong == {row \in Range(seen) : Strong(row)}
    IN  CASE s = "S4" -> Cut(Kept(seen, strong) \o Kept(seen, Range(seen) \ strong))
          [] s = "S3" -> taken
          [] OTHER -> Cut(taken)

\* Toss's stocks of the band that the ranking did not name.
Supplement(s, ranking, toss) ==
    Kept(toss, {row \in Range(toss) : /\ Within(TossBand(s), row.flu)
                                     /\ \A i \in DOMAIN ranking : ranking[i].stk # row.stk})

\* _filter_and_replenish_with_toss: the room left is filled with Toss's stocks.
Replenished(s, rows, ranking, toss, named) ==
    Cut(Individuals(rows, named) \o Individuals(Supplement(s, ranking, toss), named))

-----------------------------------------------------------------------------
(* Grades and priorities.                                                  *)

RejectReasons(row) ==
    {r \in {"name", "status", "liquidity", "cap"} :
        CASE r = "name" -> row.fund
          [] r = "status" -> row.halted
          [] r = "liquidity" -> row.amount \in 1..49
          [] r = "cap" -> row.cap > 0 /\ row.cap < 600}

LiquidityScore(row) ==
    CASE row.amount >= 1000 -> 90 [] row.amount >= 500 -> 70 [] row.amount >= 100 -> 50
      [] row.amount > 0 -> 30 [] row.qty >= 500000 -> 60 [] row.qty > 0 -> 40 [] OTHER -> 50

CapScore(row) ==
    CASE row.cap <= 0 -> 50 [] row.cap >= 3000 -> 90 [] row.cap >= 800 -> 70
      [] row.cap >= 600 -> 50 [] OTHER -> 30

\* _assess_candidate_quality; spread and sector are constants of the code.
Grade(row) ==
    LET score == (5 * LiquidityScore(row) + 2 * 50 + 2 * CapScore(row) + 100) \div 10
    IN  CASE RejectReasons(row) # {} -> "REJECT" [] score >= 80 -> "A" [] score >= 60 -> "B" [] OTHER -> "C"

StrategyWeight(s) ==
    CASE s \in {"S1", "S2", "S4", "S13"} -> 30 [] s = "S10" -> 25
      [] s \in {"S7", "S8", "S9", "S11", "S15"} -> 20
      [] s \in {"S3", "S5", "S6", "S14"} -> 18 [] OTHER -> 15

\* The sources of the live confluence and what each is worth.
LiveWeight == [liquidity |-> 24, foreign |-> 26, same |-> 26, balance |-> 12, surge |-> 7, ratio |-> 5]
LiveScore(sources) ==
    LET of(source) == IF source \in sources THEN LiveWeight[source] ELSE 0
    IN  of("liquidity") + of("foreign") + of("same") + of("balance") + of("surge") + of("ratio")

GradeBonus(grade) == CASE grade = "A" -> 25 [] grade = "B" -> 18 [] grade = "C" -> 10 [] OTHER -> -30

\* _calculate_watchlist_priority_score, in tenths; age is of the assessment, in minutes.
WatchlistPriority(strategies, row, assessed, age, sources) ==
    LET base == Max({StrategyWeight(s) : s \in strategies})
                + GradeBonus(IF assessed THEN Grade(row) ELSE "C")
                + (CASE ~assessed -> 5 [] age <= 10 -> 15 [] age <= 30 -> 10 [] age <= 60 -> 5 [] OTHER -> 0)
                + ((IF assessed THEN LiquidityScore(row) ELSE 50) * 15) \div 100
                + Min({5 * Cardinality(strategies), 10})
                + (IF strategies \cap {"S1", "S2", "S4", "S13"} # {} THEN 5 ELSE 0)
    IN  Max({10 * base + Min({3 * LiveScore(sources), 300}), 0})

-----------------------------------------------------------------------------
\* A builder's pool, strongest claim first: the graded strategies follow the order of the
\* ranking again, whatever order the builder had chosen, and S15 leaves out a known
\* overbought RSI.
Qualified(s, ranking, toss, named) ==
    LET first == Scanned(s, Kept(ranking, {row \in Range(ranking) : Takes(s, row)}))
        all   == Replenished(s, first, ranking, toss, named)
        kept  == {row \in Range(all) : ~QualityFilter \/ Grade(row) # "REJECT"}
    IN  CASE s \in {"S1", "S4", "S10", "S13"} -> Kept(ranking \o Supplement(s, ranking, toss), kept)
          [] s = "S15" -> Kept(all, {row \in Range(all) : row.rsi <= 72})
          [] OTHER -> all
=============================================================================
