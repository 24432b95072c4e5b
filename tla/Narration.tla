------------------------------- MODULE Narration ------------------------------
(***************************************************************************)
(* render/subtitles.py: one timed segment of the narration turned into     *)
(* cues. A segment is the lengths of the parts _split made of its text,    *)
(* and its start and end in milliseconds; a cue is a part and its time.    *)
(***************************************************************************)
EXTENDS Integers, Sequences, SequencesExt

MaxCueChars == 18
MinCueMs == 800

\* _split: a part is no longer than a line, and no shorter than half of one,
\* but for the last.
IsSplit(parts) ==
    \A i \in DOMAIN parts :
        parts[i] <= MaxCueChars /\ parts[i] >= (IF i = Len(parts) THEN 1 ELSE MaxCueChars \div 2)

Chars(parts) == FoldSeq(LAMBDA n, sum : n + sum, 0, parts)

\* The time of the segment that goes to part i.
Share(parts, i, start, end) ==
    LET span == IF end - start < MinCueMs THEN MinCueMs ELSE end - start
    IN  (span * parts[i]) \div Chars(parts)

\* Where the cue of part i ends when it begins at cursor.
Finish(parts, i, cursor, start, end) ==
    LET finish == IF i = Len(parts) THEN end ELSE cursor + Share(parts, i, start, end)
        stretched == IF end < cursor + MinCueMs THEN end ELSE cursor + MinCueMs
    IN  IF finish - cursor < MinCueMs THEN stretched ELSE finish

\* build_cues: a part for which no time is left gets none.
BuildCues(parts, start, end) ==
    FoldLeft(LAMBDA done, i :
                 LET finish == Finish(parts, i, done.cursor, start, end)
                 IN  IF finish <= done.cursor THEN done
                     ELSE [cursor |-> finish,
                           cues |-> Append(done.cues, [part |-> i, start |-> done.cursor, end |-> finish])],
             [cursor |-> start, cues |-> <<>>],
             [i \in DOMAIN parts |-> i]).cues

-----------------------------------------------------------------------------
\* The segment is long enough, and every part has a share that can be read.
Readable(parts, start, end) ==
    end - start >= MinCueMs /\ \A i \in DOMAIN parts : Share(parts, i, start, end) >= MinCueMs

\* The cues follow each other without a gap, in the order of the text, and
\* each lasts for a while.
CuesFollow(parts, start, end) ==
    LET cues == BuildCues(parts, start, end)
    IN  /\ \A k \in DOMAIN cues : cues[k].start < cues[k].end
        /\ \A k \in 1 .. Len(cues) - 1 : cues[k].end = cues[k + 1].start /\ cues[k].part < cues[k + 1].part

\* subtitles.py, build_cues: the cues end exactly where the narration does,
\* and no word is lost. Only so where no cue has to be stretched.
NarrationCovered(parts, start, end) ==
    LET cues == BuildCues(parts, start, end)
    IN  Readable(parts, start, end) =>
            /\ Len(cues) = Len(parts) /\ cues[1].start = start /\ cues[Len(cues)].end = end
            /\ \A k \in DOMAIN cues : cues[k].end - cues[k].start >= MinCueMs

\* Stretched cues take the time of those behind them: words are left out, or
\* a cue stays up after the segment, over the first cue of the next.
LosesWords(parts, start, end) == Len(BuildCues(parts, start, end)) < Len(parts)
Overruns(parts, start, end) ==
    \E k \in DOMAIN BuildCues(parts, start, end) : BuildCues(parts, start, end)[k].end > end
=============================================================================
