--------------------------------- MODULE Quotes -------------------------------
(***************************************************************************)
(* services/cost.py: what a piece of work is quoted at, and what is to be  *)
(* reserved for it. Credits are in ten-thousandths until a quote rounds    *)
(* them to hundredths; a tie goes up (the code's floats may go down).      *)
(***************************************************************************)
EXTENDS Integers, Sequences, SequencesExt

Tiers == {"FAST", "STANDARD", "HIGH", "PREMIUM"}

\* Per second of video, of narration and of rendering, and the flat parts.
VideoRate == [FAST |-> 5000, STANDARD |-> 10000, HIGH |-> 20000, PREMIUM |-> 40000]
TtsRate == 500
RenderBase == 10000
RenderRate == 200
AnalysisBase == 20000
QcBase == 15000

\* round(x, 2) of n / d ten-thousandths.
Hundredths(n, d) == (2 * n + 100 * d) \div (200 * d)

\* CostEstimate; the maximum allows for OVERRUN_FACTOR.
Quote(cost) == [expected |-> Hundredths(cost, 1), maximum |-> Hundredths(115 * cost, 100)]
Plus(a, b) == [expected |-> a.expected + b.expected, maximum |-> a.maximum + b.maximum]

EstimateShot(seconds, tier) == Quote(seconds * VideoRate[tier])
EstimateVoiceover(seconds) == Quote(seconds * TtsRate)
EstimateRender(seconds) == Quote(RenderBase + seconds * RenderRate)
EstimateAnalysis == Quote(AnalysisBase)
EstimateQualityCheck == Quote(QcBase)

SecondsOf(shots) == FoldSeq(LAMBDA d, sum : d + sum, 0, shots)

\* estimate_storyboard: retries raise the maximum only.
EstimateStoryboard(shots, tier, retries) ==
    LET cost == SecondsOf(shots) * VideoRate[tier]
    IN  [expected |-> Hundredths(cost, 1), maximum |-> Hundredths(115 * cost * (2 + retries), 200)]

\* estimate_project
EstimateProject(shots, tier, narration, withQc) ==
    LET film == EstimateStoryboard(shots, tier, 0)
        spoken == IF narration > 0 THEN Plus(film, EstimateVoiceover(narration)) ELSE film
        rendered == Plus(spoken, EstimateRender(SecondsOf(shots)))
    IN  IF withQc THEN Plus(rendered, EstimateQualityCheck) ELSE rendered

\* estimate_for_job, what the orchestrator reserves.
EstimateForJob(type, seconds, tier) ==
    CASE type \in {"VIDEO_GENERATION", "IMAGE_GENERATION"} -> EstimateShot(seconds, tier)
      [] type = "TTS" -> EstimateVoiceover(seconds)
      [] type = "RENDER" -> EstimateRender(seconds)
      [] type = "QC" -> EstimateQualityCheck
      [] type = "PRODUCT_ANALYSIS" -> EstimateAnalysis

JobTypes == {"VIDEO_GENERATION", "IMAGE_GENERATION", "TTS", "RENDER", "QC", "PRODUCT_ANALYSIS"}

-----------------------------------------------------------------------------
\* The quote of a project covers what its jobs reserve one by one, to within
\* the rounding of each: the dialog does not promise less than is taken.
ProjectCoversJobs(shots, tier, narration) ==
    LET project == EstimateProject(shots, tier, narration, TRUE)
        shotsOf == FoldSeq(LAMBDA d, sum : EstimateForJob("VIDEO_GENERATION", d, tier).maximum + sum, 0, shots)
        jobs == shotsOf + EstimateForJob("TTS", narration, tier).maximum
                + EstimateForJob("RENDER", SecondsOf(shots), tier).maximum
                + EstimateForJob("QC", 0, tier).maximum
    IN  project.maximum - jobs \in -Len(shots) .. Len(shots)

\* What is reserved is never less than what is shown, and it grows with the
\* retries it is to cover.
ReservationCovers(shots, tier, retries) ==
    LET quote == EstimateStoryboard(shots, tier, retries)
    IN  /\ quote.expected <= quote.maximum
        /\ quote.maximum <= EstimateStoryboard(shots, tier, retries + 1).maximum
=============================================================================
