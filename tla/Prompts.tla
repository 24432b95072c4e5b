--------------------------------- MODULE Prompts -------------------------------
(***************************************************************************)
(* prompts/compiler.py, with the shots services/storyboards.py compiles    *)
(* and the image references it attaches to them. A text is its number of   *)
(* characters, stripped: 0 is blank.                                       *)
(***************************************************************************)
EXTENDS Integers, Sequences, SequencesExt, TLC

Total(sizes) == FoldSeq(LAMBDA n, sum : n + sum, 0, sizes)

\* Texts joined by ", " or by "; ": the blank ones are left out.
Joined(texts) ==
    LET said == SelectSeq(texts, LAMBDA t : t > 0)
    IN  IF said = <<>> THEN 0 ELSE Total(said) + 2 * (Len(said) - 1)

Few(n, items) == IF Len(items) < n THEN items ELSE SubSeq(items, 1, n)
FirstOf(texts) == LET said == SelectSeq(texts, LAMBDA t : t > 0) IN IF said = <<>> THEN 0 ELSE said[1]

\* default_identity_lock
ProductDominant == {"PRODUCT_HERO", "MACRO", "ROTATION", "MATERIAL", "FEATURE", "EXPLODED"}
DefaultLock(type) == type \in ProductDominant

-----------------------------------------------------------------------------
\* _recompile: the blocks of a shot, from its fields and what the VERIFIED
\* facts and the visual DNA say of the product. The frame is always named;
\* there is never an OBJECT MOTION or a BRAND.
Frame == 10    \* "16:9 frame"
ProductLine(product) ==
    Joined(<<product.name, Joined(product.colors), Joined(product.materials), Joined(product.features)>>)
StyleLine(product) ==
    Joined(<<product.style>> \o [l \in 1 .. 2 |-> Joined(Few(3, product.looks[l]))])

Spec(shot, product) ==
    <<[label |-> "SUBJECT", text |-> FirstOf(<<shot.description, shot.title, product.name>>)],
      [label |-> "PRODUCT IDENTITY", text |-> ProductLine(product)],
      [label |-> "ENVIRONMENT", text |-> shot.composition],
      [label |-> "COMPOSITION", text |-> Joined(<<Frame, shot.composition>>)],
      [label |-> "LIGHTING", text |-> shot.lighting],
      [label |-> "CAMERA", text |-> shot.camera],
      [label |-> "CAMERA MOTION", text |-> shot.motion],
      [label |-> "OBJECT MOTION", text |-> 0],
      [label |-> "MATERIAL", text |-> Joined(product.materials)],
      [label |-> "STYLE", text |-> StyleLine(product)],
      [label |-> "BRAND", text |-> 0]>>

IdentityRules == [label |-> "CONSISTENCY RULES", text |-> 201]

\* compile_shot_prompt: the blocks that have a text, then the rules.
CompileShotPrompt(shot, product) ==
    SelectSeq(Spec(shot, product), LAMBDA b : b.label = "SUBJECT" \/ b.text > 0)
    \o (IF shot.lock THEN <<IdentityRules>> ELSE <<>>)

\* A block is a line, "LABEL: text".
LabelSize ==
    "SUBJECT" :> 7 @@ "PRODUCT IDENTITY" :> 16 @@ "ENVIRONMENT" :> 11 @@ "COMPOSITION" :> 11
    @@ "LIGHTING" :> 8 @@ "CAMERA" :> 6 @@ "CAMERA MOTION" :> 13 @@ "MATERIAL" :> 8 @@ "STYLE" :> 5
    @@ "CONSISTENCY RULES" :> 17
LineSize(b) == LabelSize[b.label] + 3 + b.text
PromptSize(prompt) == Total([i \in DOMAIN prompt |-> LineSize(prompt[i])]) - 1

\* compile_negative_prompt: each term once, where it is first said. Two terms
\* stand for each of the three lists.
GenericNegatives == <<"blurry", "watermark">>
TextNegatives == <<"caption", "text overlay">>
IdentityNegatives == <<"altered logo", "different product">>
CompileNegativePrompt(lock, extra) ==
    FoldLeft(LAMBDA said, term : IF term = "" \/ Contains(said, term) THEN said ELSE Append(said, term), <<>>,
             GenericNegatives \o TextNegatives \o (IF lock THEN IdentityNegatives ELSE <<>>) \o extra)

\* submit of RunwayVideoProvider: only this much of the prompt, and none of
\* the negative one.
RunwayPromptMaxChars == 1000
LinesSent(prompt) ==
    SelectSeq([i \in DOMAIN prompt |-> [line |-> prompt[i], end |-> PromptSize(SubSeq(prompt, 1, i))]],
              LAMBDA l : l.end <= RunwayPromptMaxChars)

-----------------------------------------------------------------------------
\* _rank_identity_assets: READY images in a role that shows the product.
RolePreference == <<"FRONT", "ANGLE_45", "SIDE", "DETAIL", "STRUCTURE", "MATERIAL", "BACK">>
Shows(link) == link.ready /\ link.image /\ Contains(RolePreference, link.role)
Rank(link) ==
    2 * (CHOOSE r \in DOMAIN RolePreference : RolePreference[r] = link.role) + (IF link.primary THEN 0 ELSE 1)
RankIdentityAssets(links) ==
    LET good == {i \in DOMAIN links : Shows(links[i])}
        Before(i, j) ==
            \/ Rank(links[i]) < Rank(links[j])
            \/ Rank(links[i]) = Rank(links[j]) /\ i < j
    IN  SetToSortSeq(good, Before)

\* _attach_references, once, when the shot is made.
MaxIdentityReferences == 3
References(shot, wantsIdentity, links) ==
    IF wantsIdentity \/ shot.lock THEN Few(MaxIdentityReferences, RankIdentityAssets(links)) ELSE <<>>

\* update_shot turns the lock on: the prompt is compiled again, and the
\* references stay.
LockLater(made) == [made EXCEPT !.shot.lock = TRUE]

-----------------------------------------------------------------------------
\* The rules are said last of a locked shot's prompt and of no other, and no
\* block of a prompt is an empty promise.
RulesWithTheLock(shot, product) ==
    LET prompt == CompileShotPrompt(shot, product)
    IN  /\ shot.lock <=> Last(prompt) = IdentityRules
        /\ \A i \in DOMAIN prompt : prompt[i].text > 0

\* Two shots with one prompt look alike: _shot_key, which makes their jobs one,
\* does not take an edited shot for the shot before the edit.
EditsAreSeen(a, b, product) ==
    CompileShotPrompt(a, product) = CompileShotPrompt(b, product) =>
        /\ \A f \in DOMAIN a \ {"title", "description"} : a[f] = b[f]
        /\ 0 \notin {a.description, b.description} => a.description = b.description

\* Nothing is forbidden twice, and the lock adds to what is forbidden.
NegativesGrow(extra) ==
    /\ \A lock \in BOOLEAN : IsInjective(CompileNegativePrompt(lock, extra))
    /\ ToSet(CompileNegativePrompt(FALSE, extra)) \subseteq ToSet(CompileNegativePrompt(TRUE, extra))

\* A shot is shown the best images there are: none that is left out shows the
\* product better than one that is taken.
BestAreTaken(shot, links) ==
    LET taken == References(shot, TRUE, links)
    IN  \A i \in ToSet(taken), j \in DOMAIN links \ ToSet(taken) :
            Shows(links[i]) /\ (Shows(links[j]) => Rank(links[i]) <= Rank(links[j]))

\* Although what never varies "is that the identity block is present", a long
\* prompt reaches the vendor without its rules.
RulesAreCut(shot, product) ==
    LET prompt == CompileShotPrompt(shot, product)
    IN  shot.lock /\ IdentityRules \notin {l.line : l \in ToSet(LinesSent(prompt))}

\* A shot that was locked after it was made has the rules and no image to be
\* held to, though the product has one.
LockedWithoutReference(shot, links) ==
    LET made == [shot |-> shot, references |-> References(shot, FALSE, links)]
        later == LockLater(made)
    IN  later.shot.lock /\ later.references = <<>> /\ RankIdentityAssets(links) # <<>>
=============================================================================
