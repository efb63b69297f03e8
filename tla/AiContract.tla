----------------------------- MODULE AiContract -----------------------------
(***************************************************************************)
(* analyzer.py and queue_worker.py: from the JSON of Claude's answer to    *)
(* the action the signal is given, in live family routing, where the       *)
(* answer has to name the family and the setup of the signal.  A field     *)
(* that is absent or of another type is None, and such a score is NoScore; *)
(* scores are in tenths.                                                   *)
(***************************************************************************)
EXTENDS Integers, FiniteSetsExt

CONSTANTS None, NoScore, FamilyOf, FamilyRouting

Or(value, default) == IF value = None THEN default ELSE value
Cancelled(answer, type) ==
    [answer EXCEPT !.action = "CANCEL", !.confidence = "LOW", !.type = type, !.prices = "none"]

\* _normalize_signal_result: prices count only for an entry.
Normalized(answer) ==
    LET action == Or(answer.action, "HOLD")
    IN [answer EXCEPT !.action = action, !.confidence = Or(@, "LOW"),
                      !.prices = IF action \in {"HOLD", "CANCEL"} THEN "none" ELSE @]

\* (mutant) The setup of the answer is not compared.
WellFormedOfFamily(answer, s) ==
    /\ s \in DOMAIN FamilyOf /\ answer.family = FamilyOf[s] /\ answer.score # NoScore
    /\ answer.confirmations = "list" /\ answer.flags = "list" /\ answer.quality # None

WellFormed(answer, s) ==
    /\ s \in DOMAIN FamilyOf
    /\ answer.action \in {"ENTER", "HOLD", "CANCEL"}
    /\ answer.score # NoScore /\ answer.score \in 0..1000
    /\ answer.confidence \in {"HIGH", "MEDIUM", "LOW"}
    /\ answer.family = FamilyOf[s] /\ answer.setup = s
    /\ answer.confirmations = "list" /\ answer.flags = "list"
    /\ answer.quality \in {"OK", "DEGRADED", "BLOCKED"}

\* _validate_family_ai_contract: blocked data cannot enter.
Validated(answer, s) ==
    IF FamilyRouting /\ (~WellFormed(answer, s) \/ (answer.quality = "BLOCKED" /\ answer.action = "ENTER"))
    THEN Cancelled(answer, "AI_SCHEMA_INVALID") ELSE answer

\* normalize_score_0_100: what is no number counts zero.
ScoreOf(answer) == IF answer.score = NoScore THEN 0 ELSE Max({0, Min({1000, answer.score})})

\* _maybe_promote_hold_to_enter: a sure HOLD enters, without prices of its own.
Promoted(answer) ==
    IF answer.action = "HOLD" /\ answer.confidence = "HIGH" /\ ScoreOf(answer) >= 800
    THEN [answer EXCEPT !.action = "ENTER"] ELSE answer

Decided(answer, s) == Promoted(Validated(Normalized(answer), s))
=============================================================================
