----------------------------- MODULE ShotFitting ------------------------------
(***************************************************************************)
(* providers/storyboard_schemas.py: the durations a provider drafted for   *)
(* the shots of a storyboard, scaled onto the duration of the project.     *)
(*                                                                         *)
(* Durations are in hundredths of a second, which is what the code rounds  *)
(* to. A tie of its floats may go either way; here it goes up.             *)
(***************************************************************************)
EXTENDS Integers, Sequences, SequencesExt, FiniteSets

MinShot == 200
MaxShot == 1000

\* ShotDraft and StoryboardDraft: one to forty shots, each within the bounds.
IsDraft(shots) == Len(shots) \in 1 .. 40 /\ Range(shots) \subseteq MinShot .. MaxShot

SumOf(shots) == FoldSeq(LAMBDA d, sum : d + sum, 0, shots)

\* _clamp of n / d hundredths, for a positive d.
Clamped(n, d) ==
    LET rounded == (2 * n + d) \div (2 * d)
    IN  IF rounded < MinShot THEN MinShot ELSE IF rounded > MaxShot THEN MaxShot ELSE rounded

\* The shots that can move the way the drift needs.
Movable(shots, drift) ==
    {i \in DOMAIN shots : (drift > 0 /\ shots[i] < MaxShot) \/ (drift < 0 /\ shots[i] > MinShot)}

\* A pass of _absorb_remainder; without a drift, or without room, nothing moves.
Absorb(shots, target) ==
    LET drift == target - SumOf(shots)
        movable == Movable(shots, drift)
        n == Cardinality(movable)
    IN  [i \in DOMAIN shots |-> IF i \in movable THEN Clamped(shots[i] * n + drift, n) ELSE shots[i]]

\* fit_shot_durations of a draft: scaled, then two passes more than there are shots.
FitShotDurations(shots, target) ==
    LET scaled == [i \in DOMAIN shots |-> Clamped(shots[i] * target, SumOf(shots))]
    IN  FoldLeft(LAMBDA fitted, pass : Absorb(fitted, target), scaled,
                 [pass \in 1 .. Len(shots) + 2 |-> pass])

\* validate_storyboard_duration: a tenth of the target either way.
Fits(total, target) == 10 * (total - target) <= target /\ 10 * (target - total) <= target

\* suggested_shot_count, of a target in seconds.
AtLeastOne(n) == IF n < 1 THEN 1 ELSE n
SuggestedShotCount(seconds) ==
    LET fewest == AtLeastOne((seconds + 9) \div 10)
        most == AtLeastOne(seconds \div 2)
    IN  AtLeastOne((fewest + most) \div 2)

-----------------------------------------------------------------------------
Reachable(n, target) == n * MinShot <= target /\ target <= n * MaxShot

\* What a pass cannot share out any more is less than a hundredth a shot, so
\* a draft of a number of shots that can fill the project always passes the
\* validation after it, and one that cannot is as close as the bounds allow.
FitsWhenItCan(shots, target) ==
    LET fitted == FitShotDurations(shots, target)
        drift == SumOf(fitted) - target
        bound == IF target > Len(shots) * MaxShot THEN MaxShot ELSE MinShot
    IN  /\ IsDraft(fitted)
        /\ IF Reachable(Len(shots), target)
             THEN drift \in -Len(shots) .. Len(shots) /\ Fits(SumOf(fitted), target)
             ELSE \A i \in DOMAIN shots : fitted[i] = bound

\* The pacing is kept: no shot overtakes a longer one.
PacingKept(shots, target) ==
    LET fitted == FitShotDurations(shots, target)
    IN  \A i, j \in DOMAIN shots : shots[i] <= shots[j] => fitted[i] <= fitted[j]

\* The number of shots the provider is asked for can fill the project.
SuggestionIsReachable(seconds) == Reachable(SuggestedShotCount(seconds), 100 * seconds)
=============================================================================
