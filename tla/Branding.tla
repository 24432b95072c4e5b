------------------------------- MODULE Branding -------------------------------
(***************************************************************************)
(* services/branding.py: the brand kits of one workspace, of which at most *)
(* one is the default (uq_brand_kits_one_default), the templates and how   *)
(* often each was applied, and concurrent requests (v1/branding.py).       *)
(*                                                                         *)
(* A request is one transaction; the row objects keep what was read.       *)
(***************************************************************************)
EXTENDS Integers, FiniteSets, Columns

CONSTANTS Kits, Templates, \* ids of brand_kits and templates
          Sessions,        \* API requests under way
          MaxRequests      \* bound: requests that change something

VARIABLES
    kits,      \* brand_kits
    templates, \* templates
    tx,        \* the open transaction of each session
    requests,  \* how many requests there were
    named,     \* history: the kit the last request named the default, if it still should be
    applied,   \* history: how often each template was applied
    tangled    \* history: kits and templates two requests were about at once

vars == <<kits, templates, tx, requests, named, applied, tangled>>
-----------------------------------------------------------------------------
\* A row, or its absence; deletion is soft.
NoKit == [state |-> "none", default |-> FALSE]
LiveKits == {k \in Kits : kits[k].state = "live"}

\* The partial unique index: the defaults among the live rows.
DefaultsOf(rows) == {k \in Kits : rows[k].state = "live" /\ rows[k].default}
Defaults == DefaultsOf(kits)

\* fits: the shots of the blueprint add up to the duration, within a fifth.
NoTemplate == [state |-> "none", fits |-> FALSE, count |-> 0]
LiveTemplates == {t \in Templates : templates[t].state = "live"}

Idle == [op |-> "none"]

Init ==
    /\ kits = [k \in Kits |-> NoKit]
    /\ templates = [t \in Templates |-> NoTemplate]
    /\ tx = [s \in Sessions |-> Idle]
    /\ requests = 0
    /\ named = {} /\ tangled = {}
    /\ applied = [t \in Templates |-> 0]

\* What directives_for gives a project bound to the kits in bound (none or
\* one): the kit, else the default; a bound kit that was deleted is an error.
DirectivesFor(bound) ==
    IF bound # {} THEN (IF bound \subseteq LiveKits THEN bound ELSE {"NotFound"}) ELSE Defaults

-----------------------------------------------------------------------------
\* The kits an open transaction writes or takes a stand on.
About(t) == CASE t.op = "kit" -> {t.kit} \cup t.clears
              [] t.op = "template" -> {t.template}
              [] OTHER -> {}

Begin(s, t) ==
    LET others == UNION {About(tx[o]) : o \in Sessions \ {s}}
    IN  /\ tx[s] = Idle /\ requests < MaxRequests
        /\ requests' = requests + 1
        /\ tx' = [tx EXCEPT ![s] = t]
        /\ tangled' = tangled \cup (About(t) \cap others)
        /\ UNCHANGED <<kits, templates, named, applied>>

\* A transaction on kit k, read as old and left as new, that first clears the
\* default of the kits in clears (_clear_default, flushed on its own).
OnKit(s, k, old, new, clears) ==
    Begin(s, [op |-> "kit", kit |-> k, clears |-> clears, new |-> new, sent |-> Changed(old, new)])

\* Mutant: the new kit is added before the default is cleared, and cleared with it.
CreateKitThenClear(s, k, default) ==
    /\ kits[k] = NoKit
    /\ OnKit(s, k, NoKit, [state |-> "live", default |-> FALSE], IF default THEN Defaults ELSE {})

\* create_brand_kit
CreateKit(s, k, default) ==
    /\ kits[k] = NoKit
    /\ OnKit(s, k, NoKit, [state |-> "live", default |-> default], IF default THEN Defaults ELSE {})

\* update_brand_kit
UpdateKit(s, k, default) ==
    /\ k \in LiveKits
    /\ OnKit(s, k, kits[k], [kits[k] EXCEPT !.default = default],
             IF default THEN Defaults \ {k} ELSE {})

\* delete_brand_kit
DeleteKit(s, k) ==
    /\ k \in LiveKits
    /\ OnKit(s, k, kits[k], [state |-> "deleted", default |-> FALSE], {})

\* The flushes: the defaults that were read are cleared, then the row is
\* sent. The index refuses a second default.
CommitKit(s) ==
    LET t == tx[s]
        cleared == [k \in Kits |-> IF k \in t.clears THEN [kits[k] EXCEPT !.default = FALSE] ELSE kits[k]]
        written == [cleared EXCEPT ![t.kit] = Overwritten(@, t.sent)]
    IN  /\ t.op = "kit"
        /\ Cardinality(DefaultsOf(written)) <= 1
        /\ kits' = written
        /\ named' = IF t.new.default THEN {t.kit} ELSE named \ {t.kit}
        /\ tx' = [tx EXCEPT ![s] = Idle]
        /\ UNCHANGED <<templates, requests, applied, tangled>>

-----------------------------------------------------------------------------
OnTemplate(s, t, old, new, applies) ==
    Begin(s, [op |-> "template", template |-> t, sent |-> Changed(old, new), applies |-> applies])

\* create_template: a blueprint that cannot fit the duration is refused.
CreateTemplate(s, t) ==
    /\ templates[t] = NoTemplate
    /\ OnTemplate(s, t, NoTemplate, [state |-> "live", fits |-> TRUE, count |-> 0], 0)

\* update_template: whatever the new blueprint adds up to.
UpdateTemplate(s, t, fits) ==
    /\ t \in LiveTemplates
    /\ OnTemplate(s, t, templates[t], [templates[t] EXCEPT !.fits = fits], 0)

\* Mutant: the copy is made of every column.
CopyAll(s, t, copy) ==
    /\ t \in LiveTemplates /\ templates[copy] = NoTemplate
    /\ OnTemplate(s, copy, NoTemplate, templates[t], 0)

\* duplicate_template: the copy is as good as its source, and counts from zero.
DuplicateTemplate(s, t, copy) ==
    /\ t \in LiveTemplates /\ templates[copy] = NoTemplate
    /\ OnTemplate(s, copy, NoTemplate, [templates[t] EXCEPT !.count = 0], 0)

\* delete_template
DeleteTemplate(s, t) ==
    /\ t \in LiveTemplates
    /\ OnTemplate(s, t, templates[t], [templates[t] EXCEPT !.state = "deleted"], 0)

\* instantiate: the count that was read, plus one.
Instantiate(s, t) ==
    /\ t \in LiveTemplates
    /\ OnTemplate(s, t, templates[t], [templates[t] EXCEPT !.count = @ + 1], 1)

CommitTemplate(s) ==
    LET t == tx[s]
    IN  /\ t.op = "template"
        /\ templates' = [templates EXCEPT ![t.template] = Overwritten(@, t.sent)]
        /\ applied' = [applied EXCEPT ![t.template] = @ + t.applies]
        /\ tx' = [tx EXCEPT ![s] = Idle]
        /\ UNCHANGED <<kits, requests, named, tangled>>

\* The index, a deadlock of two requests that clear each other's default, or
\* a failure.
Rollback(s) ==
    /\ tx[s] # Idle
    /\ tx' = [tx EXCEPT ![s] = Idle]
    /\ UNCHANGED <<kits, templates, requests, named, applied, tangled>>

Next ==
    \E s \in Sessions :
        \/ \E k \in Kits, default \in BOOLEAN : CreateKit(s, k, default) \/ UpdateKit(s, k, default)
        \/ \E k \in Kits : DeleteKit(s, k)
        \/ CommitKit(s)
        \/ \E t \in Templates :
            \/ CreateTemplate(s, t) \/ DeleteTemplate(s, t) \/ Instantiate(s, t)
            \/ \E fits \in BOOLEAN : UpdateTemplate(s, t, fits)
            \/ \E copy \in Templates : DuplicateTemplate(s, t, copy)
        \/ CommitTemplate(s)
        \/ Rollback(s)

Spec == Init /\ [][Next]_vars

-----------------------------------------------------------------------------
\* Rows and transactions have their shapes, and the bound is kept.
TypeOK ==
    /\ \A k \in Kits : kits[k].state \in {"none", "live", "deleted"} /\ kits[k].default \in BOOLEAN
    /\ \A t \in Templates : templates[t].count \in 0 .. MaxRequests /\ templates[t].fits \in BOOLEAN
    /\ \A s \in Sessions : tx[s].op \in {"none", "kit", "template"}
    /\ requests \in 0 .. MaxRequests

\* services/branding.py, _clear_default: naming a default is a swap. The kit
\* that was named last and neither deleted nor taken back is what a project
\* without a kit gets, unless two requests were about a kit at once.
NamedIsDefault == tangled \cap Kits # {} \/ DirectivesFor({}) = named

\* The gallery orders by what people use: usage_count is how often a template
\* was applied, unless two requests about it overlapped.
UsesCounted == \A t \in Templates \ tangled : templates[t].count = applied[t]
=============================================================================
