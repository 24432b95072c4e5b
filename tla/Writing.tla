--------------------------------- MODULE Writing -------------------------------
(***************************************************************************)
(* What a language model writes: the shapes of providers/creative_schemas  *)
(* .py, the calls of providers/anthropic_llm.py, the script that           *)
(* providers/mock_llm.py makes up, what services/creative.py does with     *)
(* each, and how long providers/tts.py takes to say it. A narration is its *)
(* number of characters, a time is in hundredths of a second.              *)
(***************************************************************************)
EXTENDS Integers, Sequences, SequencesExt, FiniteSetsExt

ScriptSections ==
    <<"opening_hook", "problem", "product_intro", "feature_1", "feature_2", "usage_scene",
      "proof_or_visual_support", "brand_ending", "cta">>

\* ScriptDocument
IsScript(sections) == [i \in DOMAIN sections |-> sections[i].section] = ScriptSections

NarrationCharacters(sections) == FoldSeq(LAMBDA s, sum : s.narration + sum, 0, sections)

\* estimated_duration_seconds, character_budget and duration_fits: four and a
\* half characters are said in a second.
EstimatedDuration(characters) == (2000 * characters + 45) \div 90
CharacterBudget(seconds) == (45 * seconds) \div 10
DurationFits(estimated, seconds) ==
    LET off == IF estimated > 100 * seconds THEN estimated - 100 * seconds ELSE 100 * seconds - estimated
    IN  seconds > 0 /\ off <= 35 * seconds

-----------------------------------------------------------------------------
\* _complete: a reply that breaks the schema is sent back with what is wrong
\* with it, llm_parse_retries times. Every other reply ends the call, and one
\* that was cut off or has no text is not sent back.
Replies == {"valid", "invalid", "refusal", "truncated", "blank", "limited", "unreachable", "5xx", "4xx"}
Ends(reply) ==
    CASE reply = "valid" -> "document"
      [] reply \in {"refusal", "4xx"} -> "rejected"
      [] reply = "limited" -> "rate_limited"
      [] reply \in {"unreachable", "5xx"} -> "unavailable"
      [] reply \in {"invalid", "truncated", "blank"} -> "unparseable"
Complete(replies, retries) ==
    LET last == Min({i \in 1 .. retries + 1 : replies[i] # "invalid"} \cup {retries + 1})
    IN  [outcome |-> Ends(replies[last]), calls |-> last]

\* generate_plans, generate_script and generate of a storyboard: whatever was
\* raised, the user is told to try again, and no client is told that it may.
Answered(outcome) ==
    IF outcome = "document" THEN [status |-> 201, retryable |-> FALSE] ELSE [status |-> 502, retryable |-> FALSE]
ErrorIsRetryable(outcome) == outcome \in {"rate_limited", "unavailable"}

-----------------------------------------------------------------------------
\* _SECTION_WEIGHTS, in hundredths.
SectionWeight == <<10, 10, 14, 16, 16, 14, 6, 8, 6>>
Allowance(i, budget) == (budget * SectionWeight[i]) \div 100

\* _fit: a text that is too long is cut behind its last boundary, if that is
\* in the second half of what is allowed. A text has a size and boundaries.
Fit(text, allowance) ==
    LET good == {b \in text.boundaries : allowance \div 2 < b /\ b < allowance}
    IN  CASE allowance <= 0 \/ text.size <= allowance -> text.size
          [] OTHER -> IF good = {} THEN allowance ELSE Max(good) + 1

\* _script_sections
ScriptOf(texts, budget) ==
    [i \in 1 .. 9 |-> [section |-> ScriptSections[i], narration |-> Fit(texts[i], Allowance(i, budget))]]

-----------------------------------------------------------------------------
\* estimate_duration_ms of providers/tts.py: Chinese is counted in characters
\* and English in words. Rates and speeds are in tenths; a tie of the code's
\* floats may be a millisecond longer. _silent_wav is as long as that.
Ceiling(n, d) == (n + d - 1) \div d
Units(text, chinese) == IF chinese THEN text.characters ELSE Max({1, text.words})
SpeechMs(text, chinese, speed) ==
    Max({200, Ceiling(100000 * Units(text, chinese), (IF chinese THEN 45 ELSE 26) * Max({1, speed}))})

-----------------------------------------------------------------------------
\* A script that uses up the characters it was given can be said in time, and
\* is not reported as too short either.
BudgetFits(seconds) ==
    LET said == EstimatedDuration(CharacterBudget(seconds))
    IN  said <= 100 * seconds /\ DurationFits(said, seconds)

\* A Chinese narration that keeps to the budget is over before the film is,
\* when it is spoken at the usual speed or faster.
ChineseIsSaidInTime(seconds, speed) ==
    \A n \in 0 .. CharacterBudget(seconds) :
        SpeechMs([characters |-> n, words |-> n], TRUE, speed) <= 1000 * seconds

\* An English one, of words of five letters, that is taken for long enough is
\* over before half of the film: the budget counts characters of any language.
EnglishIsShort(seconds) ==
    LET words == CharacterBudget(seconds) \div 5
        text == [characters |-> 5 * words, words |-> words]
    IN  /\ DurationFits(EstimatedDuration(text.characters), seconds)
        /\ 2 * SpeechMs(text, FALSE, 10) < 1000 * seconds

\* The script of the mock is a script, whatever the texts, and does not run
\* over its project.
MockScriptFits(texts, seconds) ==
    LET script == ScriptOf(texts, CharacterBudget(seconds))
    IN  /\ IsScript(script)
        /\ EstimatedDuration(NarrationCharacters(script)) <= 100 * seconds

\* Only a document that satisfies the schema is stored, after no more calls
\* than were allowed, and a call is repeated only when it can be told why.
OnlyValidIsStored(replies, retries) ==
    LET call == Complete(replies, retries)
    IN  /\ call.outcome = "document" <=> replies[call.calls] = "valid"
        /\ call.calls <= retries + 1
        /\ \A i \in 1 .. call.calls - 1 : replies[i] = "invalid"

\* A vendor that is busy is reported like one that refused: what the adapter
\* knew to be worth another try, the client is not to repeat.
RetryIsLost(outcome) == ErrorIsRetryable(outcome) /\ ~Answered(outcome).retryable
=============================================================================
