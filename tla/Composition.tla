------------------------------ MODULE Composition -----------------------------
(***************************************************************************)
(* render/plan.py: the inputs of the ffmpeg command for a timeline, and    *)
(* which of them its filters refer to, by their index. A timeline is the   *)
(* number of its clips and, of the narration, the music and the logo,      *)
(* whether it has one whose file was downloaded. The picture is in Cut.    *)
(***************************************************************************)
EXTENDS Integers, Sequences, SequencesExt

\* subtitles: cues are there, burn-in is wanted, and its style enabled it.
Timelines(maxClips) ==
    [clips : 1 .. maxClips, voice : BOOLEAN, bgm : BOOLEAN, logo : BOOLEAN, subtitles : BOOLEAN]

If(present, name) == IF present THEN <<name>> ELSE <<>>
OneIf(present) == IF present THEN 1 ELSE 0

\* argv: the inputs in the order they are added. An MP4 always has sound.
Inputs(t) ==
    [i \in 1 .. t.clips |-> "clip"] \o If(t.voice, "voice") \o If(t.bgm, "bgm") \o If(t.logo, "logo")
        \o If(~t.voice /\ ~t.bgm, "silence")

\* The indices as they are counted, from 0.
VoiceIndex(t) == t.clips
BgmIndex(t) == t.clips + OneIf(t.voice)
LogoIndex(t) == t.clips + OneIf(t.voice) + OneIf(t.bgm)
SilenceIndex(t) == LogoIndex(t) + OneIf(t.logo)

\* A filter is what it reads, by label or index, and the label it writes.
Concat(t) == [reads |-> 0 .. t.clips - 1, labels |-> {}, writes |-> "vcat"]
Burn == [reads |-> {}, labels |-> {"vcat"}, writes |-> "vsub"]
Overlay(t) == [reads |-> {LogoIndex(t)}, labels |-> {IF t.subtitles THEN "vsub" ELSE "vcat"}, writes |-> "vout"]

\* _build_audio_filters: the narration over the music, or the one there is.
Mix(t) == [reads |-> (IF t.voice THEN {VoiceIndex(t)} ELSE {}) \cup (IF t.bgm THEN {BgmIndex(t)} ELSE {}),
           labels |-> {}, writes |-> "aout"]

Filters(t) ==
    <<Concat(t)>> \o If(t.subtitles, Burn) \o If(t.logo, Overlay(t)) \o If(t.voice \/ t.bgm, Mix(t))

\* -map: the picture and the sound of the output.
Picture(t) == IF t.logo THEN "vout" ELSE IF t.subtitles THEN "vsub" ELSE "vcat"
Reads(filters) == UNION {filters[i].reads : i \in DOMAIN filters}
Writes(filters) == {filters[i].writes : i \in DOMAIN filters}

-----------------------------------------------------------------------------
\* Every file that was downloaded is in the video, and each index means the
\* file it was counted for, whichever of the others are there.
EverythingIsUsed(t) ==
    LET filters == Filters(t)
        inputs == Inputs(t)
        silent == ~t.voice /\ ~t.bgm
    IN  /\ Reads(filters) = 0 .. Len(inputs) - 1 - OneIf(silent)
        /\ t.voice => inputs[VoiceIndex(t) + 1] = "voice"
        /\ t.bgm => inputs[BgmIndex(t) + 1] = "bgm"
        /\ t.logo => inputs[LogoIndex(t) + 1] = "logo"
        /\ silent => inputs[SilenceIndex(t) + 1] = "silence"

\* A filter reads what an earlier one wrote, and the output is the last label
\* of the picture: nothing burnt in is left out.
LabelsChain(t) ==
    LET filters == Filters(t)
        labels == UNION {filters[i].labels : i \in DOMAIN filters}
    IN  /\ \A i \in DOMAIN filters : filters[i].labels \subseteq Writes(SubSeq(filters, 1, i - 1))
        /\ Writes(filters) \ labels = {Picture(t)} \cup (IF t.voice \/ t.bgm THEN {"aout"} ELSE {})
=============================================================================
