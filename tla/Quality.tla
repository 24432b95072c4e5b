-------------------------------- MODULE Quality -------------------------------
(***************************************************************************)
(* render/qc.py and the decision of jobs/qc_runner.py to render once more: *)
(* what the technical checks say of a file, and what follows from it. (No  *)
(* job gets there: see PostProduction.)                                    *)
(***************************************************************************)
EXTENDS Integers, FiniteSets

\* A rendered file as the probe sees it: drift is how far its duration is off,
\* in milliseconds, or -1 when it reports none; fps 0 when it reports none.
Files(drifts, rates) ==
    [readable : {TRUE}, sized : BOOLEAN, drift : drifts, video : BOOLEAN, audio : BOOLEAN,
     fps : rates, black : BOOLEAN]
    \cup {[readable |-> FALSE]}

DurationToleranceMs == 70

Finding(check, status) == {[check |-> check, status |-> status]}
Graded(check, ok, otherwise) == Finding(check, IF ok THEN "PASSED" ELSE otherwise)

\* check_rendered_video: of a file that is missing, empty or not decodable
\* only that is said.
CheckRenderedVideo(file) ==
    IF ~file.readable THEN Finding("decodable", "FAILED")
    ELSE Finding("decodable", "PASSED")
         \cup Graded("resolution", file.sized, "FAILED")
         \cup (IF file.drift = -1 THEN Finding("duration", "FAILED")
               ELSE Graded("duration", file.drift <= DurationToleranceMs, "WARNING"))
         \cup Graded("video_stream", file.video, "FAILED")
         \cup Graded("audio_stream", file.audio, "FAILED")
         \cup (IF file.fps = 0 THEN {} ELSE Graded("fps", file.fps >= 20, "WARNING"))

\* check_black_frames; a file it cannot read is a warning too.
CheckBlackFrames(file) == Graded("black_frames", file.readable /\ ~file.black, "WARNING")

\* _technical of the runner, and _worst.
Findings(file) == CheckRenderedVideo(file) \cup CheckBlackFrames(file)
With(findings, status) == {f.check : f \in {g \in findings : g.status = status}}
Worst(findings) ==
    IF With(findings, "FAILED") # {} THEN "FAILED"
    ELSE IF With(findings, "WARNING") # {} THEN "WARNING" ELSE "PASSED"

\* _maybe_rerender: the checks a second encode may help, and no other render
\* of the project that failed.
RerenderableChecks == {"duration", "resolution", "container"}
Rerenders(file, failedBefore) ==
    With(Findings(file), "FAILED") \cap RerenderableChecks # {} /\ ~failedBefore

-----------------------------------------------------------------------------
\* A report that passes leaves nothing out: picture, sound, size, length.
PassedIsComplete(file) ==
    Worst(Findings(file)) = "PASSED" =>
        /\ file.readable /\ file.sized /\ file.video /\ file.audio /\ ~file.black
        /\ file.drift \in 0 .. DurationToleranceMs

\* A project is rendered again for quality control at most once.
RerendersOnce(first, second) == Rerenders(first, FALSE) => ~Rerenders(second, TRUE)

\* qc_runner.py, RERENDERABLE_CHECKS: a truncated file or a duration that
\* drifted is worth a second encode. It is not given one: a drift is a
\* warning, and a truncated file fails a check that is not in the set.
DriftIsNotRerendered(file) ==
    Rerenders(file, FALSE) => file.readable /\ (~file.sized \/ file.drift = -1)
=============================================================================
