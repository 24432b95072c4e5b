---------------------------------- MODULE Cut ---------------------------------
(***************************************************************************)
(* What the operations of services/editor.py do to the VIDEO track of a    *)
(* timeline, and what render/plan.py makes of the result. A batch of       *)
(* operations is applied to a copy, laid end to end and stored; a step     *)
(* that refuses, or a model validator that raises, stores nothing.         *)
(*                                                                         *)
(* Times are in units of a second: MIN_CLIP_MS is less than one, and the   *)
(* shots of a storyboard are longer (see ShotFitting).                     *)
(***************************************************************************)
EXTENDS Integers, Sequences, SequencesExt, FiniteSets

CONSTANTS Takes,     \* the clips of the storyboard's shots
          Lengths,   \* how long a shot is, and how long a trim asks for
          Logos,     \* images of the workspace
          BatchSize  \* bound: operations in a batch

VARIABLES
    stored,  \* the items of the stored VIDEO track
    work,    \* the copy a batch is applied to
    steps,   \* operations applied to it; 0 when no batch is open
    asked,   \* history: of each take the length last asked for, and the logo;
             \* of the stored timeline and of the copy
    shifted  \* history: a reorder put another clip first under a logo

vars == <<stored, work, steps, asked, shifted>>
-----------------------------------------------------------------------------
NoLogo == "none"

\* TimelineItem, as far as the picture goes.
Items == [take : Takes, start : Nat, end : Nat, logo : Logos \cup {NoLogo}]

Length(item) == item.end - item.start

\* _video_items_do_not_overlap, of the items by their start.
Sequential(items) == \A i \in 1 .. Len(items) - 1 : items[i].end <= items[i + 1].start

\* The items in this order, each at the end of the one before it.
LaidOut(items) ==
    [i \in DOMAIN items |->
        LET before == FoldLeft(LAMBDA sum, item : sum + Length(item), 0, SubSeq(items, 1, i - 1))
        IN  [items[i] EXCEPT !.start = before, !.end = before + Length(items[i])]]

\* build_timeline: the clips in shot order.
BuildTimeline(takes, lengths) ==
    LaidOut([i \in DOMAIN takes |->
        [take |-> takes[i], start |-> 0, end |-> lengths[takes[i]], logo |-> NoLogo]])

Init ==
    \E lengths \in [Takes -> Lengths] :
        /\ stored = BuildTimeline(SetToSeq(Takes), lengths)
        /\ work = stored /\ steps = 0
        /\ asked = [committed |-> [lengths |-> lengths, logo |-> NoLogo],
                    open |-> [lengths |-> lengths, logo |-> NoLogo]]
        /\ shifted = FALSE

-----------------------------------------------------------------------------
Edit(items, lengths, logo) ==
    /\ steps < BatchSize
    /\ Sequential(items)
    /\ work' = items
    /\ steps' = steps + 1
    /\ asked' = [asked EXCEPT !.open = [lengths |-> lengths, logo |-> logo]]
    /\ UNCHANGED stored

\* Mutant: the slots stay, the clips move.
ReorderInSlots(order) ==
    /\ Edit([i \in DOMAIN work |-> [work[order[i]] EXCEPT !.start = work[i].start, !.end = work[i].end]],
            asked.open.lengths, asked.open.logo)
    /\ shifted' = (shifted \/ (order[1] # 1 /\ \E i \in DOMAIN work : work[i].logo # NoLogo))

\* _reorder: a permutation of the indices.
Reorder(order) ==
    /\ Edit(LaidOut([i \in DOMAIN work |-> work[order[i]]]), asked.open.lengths, asked.open.logo)
    /\ shifted' = (shifted \/ (order[1] # 1 /\ \E i \in DOMAIN work : work[i].logo # NoLogo))

\* _trim: the slot of one clip; the others stay, and the next one may be in
\* its way.
Trim(i, length) ==
    /\ Edit([work EXCEPT ![i].end = work[i].start + length],
            [asked.open.lengths EXCEPT ![work[i].take] = length], asked.open.logo)
    /\ UNCHANGED shifted

\* _set_logo, on the item that is the first now; "none" takes it away.
SetLogo(logo) ==
    /\ Edit([work EXCEPT ![1].logo = logo], asked.open.lengths, logo)
    /\ UNCHANGED shifted

\* Mutant: a batch is stored as it was left.
StoreAsLeft ==
    /\ steps > 0
    /\ stored' = work
    /\ work' = stored' /\ steps' = 0
    /\ asked' = [asked EXCEPT !.committed = asked.open]
    /\ UNCHANGED shifted

\* _resequence and store_timeline.
Store ==
    /\ steps > 0
    /\ stored' = LaidOut(work)
    /\ work' = stored' /\ steps' = 0
    /\ asked' = [asked EXCEPT !.committed = asked.open]
    /\ UNCHANGED shifted

\* An operation that is refused takes the batch with it.
Refuse ==
    /\ steps > 0
    /\ work' = stored /\ steps' = 0
    /\ asked' = [asked EXCEPT !.open = asked.committed]
    /\ UNCHANGED <<stored, shifted>>

\* Orders of the clips.
Orders == {order \in [DOMAIN work -> DOMAIN work] : IsInjective(order)}

Next ==
    \/ \E order \in Orders : Reorder(order)
    \/ \E i \in DOMAIN work, length \in Lengths : Trim(i, length)
    \/ \E logo \in Logos \cup {NoLogo} : SetLogo(logo)
    \/ Store
    \/ Refuse

Spec == Init /\ [][Next]_vars

-----------------------------------------------------------------------------
\* What build_render_plan encodes: the clips sorted by their start (those that
\* start together stay in order), each one whole (no trim is in the command),
\* the logo of the first item of the list, and the duration quality control
\* expects.
Encoded ==
    LET Before(k, i) == \/ stored[k].start < stored[i].start
                        \/ stored[k].start = stored[i].start /\ k < i
        Nth(n) == CHOOSE i \in DOMAIN stored : Cardinality({k \in DOMAIN stored : Before(k, i)}) = n - 1
    IN  [n \in DOMAIN stored |-> stored[Nth(n)]]
LogoOverlay == stored[1].logo
ExpectedDuration == stored[Len(stored)].end

\* The items have their shapes, and there is one for each shot.
TypeOK ==
    /\ stored \in Seq(Items) /\ Len(stored) = Cardinality(Takes)
    /\ work \in Seq(Items) /\ Len(work) = Cardinality(Takes)
    /\ steps \in 0 .. BatchSize

\* No edit costs a shot: every clip is encoded once, in the order of the
\* stored list, and the timeline leaves no gap or overlap between them
\* (editor.py, _resequence: trimming must make a shorter video).
EveryTakeOnce ==
    /\ Range(Encoded) = Range(stored)
    /\ \A take \in Takes : \E i \in DOMAIN Encoded : Encoded[i].take = take
    /\ Encoded[1].start = 0
    /\ \A i \in 1 .. Len(Encoded) - 1 : Encoded[i].end = Encoded[i + 1].start
    /\ Encoded = stored

\* The timeline is as it was last asked to be: every clip has the length of
\* its last accepted trim, wherever later operations put it, quality control
\* expects the whole to last as long as its clips, and the picture carries the
\* logo that was set last, unless a reorder put another clip first under it.
CutAsAsked ==
    /\ \A i \in DOMAIN stored : Length(stored[i]) = asked.committed.lengths[stored[i].take]
    /\ ExpectedDuration = FoldLeft(LAMBDA sum, item : sum + Length(item), 0, stored)
    /\ ~shifted => LogoOverlay = asked.committed.logo
=============================================================================
