------------------------------- MODULE Screening ------------------------------
(***************************************************************************)
(* services/moderation.py: the verdicts on the texts of one request, and   *)
(* the rows of moderation_results it leaves when its transaction is over   *)
(* (get_session of dependencies.py). A text is the categories whose rule   *)
(* finds something in it.                                                  *)
(***************************************************************************)
EXTENDS FiniteSets

Blocking == {"sexual_minors", "weapons_instructions", "hate_speech", "self_harm"}
Reviewable == {"medical_guarantee", "financial_guarantee"}
Categories == Blocking \cup Reviewable

\* screen_text
ScreenText(text) ==
    IF text \cap Blocking # {} THEN "BLOCKED"
    ELSE IF text # {} THEN "FLAGGED" ELSE "ALLOWED"

\* screen_many: every text is screened and recorded before the refusal.
Records(texts) == {[text |-> k, decision |-> ScreenText(texts[k])] : k \in DOMAIN texts}
Refused(texts) == \E k \in DOMAIN texts : ScreenText(texts[k]) = "BLOCKED"

\* The request ends: with its content stored, or raised and rolled back.
Committed(texts) ==
    IF Refused(texts) THEN [stored |-> {}, records |-> {}]
    ELSE [stored |-> DOMAIN texts, records |-> Records(texts)]

-----------------------------------------------------------------------------
\* Nothing is stored that no record says was screened, and nothing blocked.
StoredIsScreened(texts) ==
    LET after == Committed(texts)
    IN  \A k \in after.stored : \E r \in after.records : r.text = k /\ r.decision # "BLOCKED"

\* One blocked text takes all of them along, and its record too, although
\* "the record is written for every outcome" (screen).
BlockedLeavesNoTrace(texts) == Refused(texts) => Committed(texts).records = {}
=============================================================================
