------------------------------ MODULE MCServices ------------------------------
(***************************************************************************)
(* Small instances of Services for TLC. The services share no row, so part *)
(* says which one moves and the others rest at one of their initial states:*)
(* their interleavings would multiply the states and show nothing more. The*)
(* algorithms are checked on every small input.                            *)
(***************************************************************************)
EXTENDS Services, Sequences, TLC

VARIABLE part

Requests == [truth |-> 5, goods |-> 4, story |-> 3, post |-> 3, media |-> 3, staff |-> 4, sign |-> 2, brand |-> 4]

\* A few of the columns of CAPABILITIES, and two jobs of which one prefers.
SomeCapabilities ==
    "mock" :> [durations |-> {}, longest |-> 30, references |-> 4, qualities |-> {"FAST", "STANDARD"},
               cost |-> 0, latency |-> 2, priority |-> 10]
    @@ "runway" :> [durations |-> {5, 10}, longest |-> 10, references |-> 1, qualities |-> {"STANDARD"},
                    cost |-> 1, latency |-> 90, priority |-> 100]
TwoJobs ==
    "j1" :> [seconds |-> 5, references |-> 1, quality |-> "STANDARD", preferred |-> "runway"]
    @@ "j2" :> [seconds |-> 5, references |-> 0, quality |-> "STANDARD", preferred |-> "none"]
-----------------------------------------------------------------------------
\* One of the services moves.
Parts == {"truth", "goods", "story", "post", "cut", "media", "staff", "sign", "brand", "router"}

MCInit ==
    /\ part \in Parts
    /\ Init
    /\ part # "story" => project = [status |-> "DRAFT", duration |-> 8]
    /\ part # "cut" => \A t \in DOMAIN asked.open.lengths : asked.open.lengths[t] = 1

Moves ==
    \/ part = "truth" /\ TruthMoves
    \/ part = "goods" /\ GoodsMove
    \/ part = "story" /\ StoryMoves
    \/ part = "post" /\ PostMoves
    \/ part = "cut" /\ CutMoves
    \/ part = "media" /\ MediaMove
    \/ part = "staff" /\ StaffMoves
    \/ part = "sign" /\ SignMoves
    \/ part = "brand" /\ BrandMoves
    \/ part = "router" /\ RouterMoves

MCNext == Moves /\ UNCHANGED part

MCSpec == MCInit /\ [][MCNext]_<<vars, part>>

Symmetry == Permutations(Sessions) \cup Permutations(Tokens)
-----------------------------------------------------------------------------
(* The algorithms.                                                         *)

F == INSTANCE ShotFitting
N == INSTANCE Narration
K == INSTANCE Composition
Q == INSTANCE Quality
E == INSTANCE Quotes
D == INSTANCE Screening
I == INSTANCE Intake
H == INSTANCE Prompts
J == INSTANCE Writing
L == INSTANCE Adapters

UpTo(n, S_) == UNION {[1 .. k -> S_] : k \in 1 .. n}

\* Drafts of up to four shots, onto projects of five to sixty seconds.
ASSUME ShotsFillTheProject ==
    \A shots \in UpTo(4, {200, 333, 777, 1000}), target \in {500, 1500, 3000, 4500, 6000} :
        F!FitsWhenItCan(shots, target) /\ F!PacingKept(shots, target)
ASSUME SuggestionsAreReachable == \A seconds \in 2 .. 120 : F!SuggestionIsReachable(seconds)

\* The boards of Story are what drafts are fitted to.
InHundredths(shots) == [i \in DOMAIN shots |-> 100 * shots[i]]
ASSUME BoardsAreFitted ==
    \A target \in Durations : \A shots \in S!Fitted(target) :
        F!FitShotDurations(InHundredths(shots), 100 * target) = InHundredths(shots)

Splits == {parts \in UpTo(5, {1, 9, 18}) : N!IsSplit(parts)}
ASSUME NarrationIsCovered ==
    \A parts \in Splits, end \in {600, 1000, 2500, 4000, 9000} :
        N!CuesFollow(parts, 100, end) /\ N!NarrationCovered(parts, 100, end)
ASSUME ShortSegmentsLoseWords == \E parts \in Splits : N!LosesWords(parts, 0, 2000)
ASSUME StretchedCuesOverrun == \E parts \in Splits : N!Overruns(parts, 0, 3200)

ASSUME CommandsAreComplete == \A t \in K!Timelines(3) : K!EverythingIsUsed(t) /\ K!LabelsChain(t)

Checked == Q!Files({-1, 0, 70, 71}, {0, 19, 20})
ASSUME ReportsAreComplete == \A file \in Checked : Q!PassedIsComplete(file) /\ Q!DriftIsNotRerendered(file)
ASSUME OneRerender == \A file, next \in Checked : Q!RerendersOnce(file, next)

ASSUME QuotesCover ==
    \A shots \in UpTo(3, {2, 5, 10}), tier \in E!Tiers, n \in 0 .. 3 :
        E!ProjectCoversJobs(shots, tier, n) /\ E!ReservationCovers(shots, tier, n)

ASSUME ScreeningHolds ==
    \A texts \in [1 .. 2 -> SUBSET D!Categories] :
        D!StoredIsScreened(texts) /\ D!BlockedLeavesNoTrace(texts)

\* A good row, rows with one cell changed, and lines without any.
GoodRow == [name |-> "Mug", category |-> "home", sku |-> "", brand |-> "", language |-> "",
            ratio |-> "1:1", url |-> "", duration |-> [text |-> "number", halves |-> 31]]
EmptyRow == [GoodRow EXCEPT !.name = "", !.category = "", !.ratio = "", !.duration = [text |-> "", halves |-> 0]]
OddRows ==
    {[GoodRow EXCEPT !.name = n] : n \in {"", "long"}} \cup {[GoodRow EXCEPT !.sku = "long"]}
    \cup {[GoodRow EXCEPT !.brand = "long"], [GoodRow EXCEPT !.language = "long"], [GoodRow EXCEPT !.url = "ftp"]}
    \cup {[GoodRow EXCEPT !.ratio = r] : r \in {"", "2:1"}}
    \cup {[GoodRow EXCEPT !.duration = [text |-> w, halves |-> 0]] : w \in {"", "text", "inf"}}
    \cup {[GoodRow EXCEPT !.duration = [text |-> "number", halves |-> h]] : h \in {9, 10, 361, 362}}
Lines ==
    {[blank |-> "no", row |-> row] : row \in {GoodRow, [GoodRow EXCEPT !.name = ""], [GoodRow EXCEPT !.duration.text = "inf"]}}
    \cup {[blank |-> b, row |-> EmptyRow] : b \in {"line", "cells"}}
Sheets == UpTo(4, Lines)

ASSUME ImportsMatchTheFile ==
    \A lines \in Sheets :
        I!LinesAreTheUsers(lines, 3) /\ I!CountMatches("csv", lines, 3) /\ I!CountMatches("xlsx", lines, 3)
ASSUME BlankLinesShiftNumbers == \E lines \in Sheets : I!LinesAreOthers(lines, 3)
ASSUME BriefsAreValid ==
    \A row \in {GoodRow, EmptyRow} \cup OddRows, seconds \in {5, 180} :
        row.duration.text # "inf" => I!BriefIsValid(row, [seconds |-> seconds, ratio |-> "9:16"])
ASSUME SomeRowsFailLate == \E row \in OddRows : I!RefusedLate(row)

\* Shots of which every text may be blank, and pictures of a product.
Cup == [name |-> 3, colors |-> <<4, 5>>, materials |-> <<7>>, features |-> <<>>, style |-> 13, looks |-> <<<<5>>, <<>>>>]
Shots ==
    [description : {0, 28, 450}, title : {0, 30}, camera : {0, 31}, motion : {0, 32}, lighting : {0, 450},
     composition : {0, 29}, lock : BOOLEAN]
ShortShots == {s \in Shots : 450 \notin {s.description, s.lighting}}
PlainShots == {s \in ShortShots : {s.title, s.camera, s.motion, s.composition} = {0}}
Pictures == [role : {"FRONT", "BACK", "LOGO"}, ready : BOOLEAN, image : {TRUE}, primary : BOOLEAN]

ASSUME PromptsKeepTheirRules == \A shot \in Shots : H!RulesWithTheLock(shot, Cup)
ASSUME PromptsShowEdits == \A a, b \in ShortShots : H!EditsAreSeen(a, b, Cup)
ASSUME NegativesAreSaidOnce == \A extra \in UpTo(2, {"", "altered logo", "fog"}) : H!NegativesGrow(extra)
ASSUME BestPicturesAreTaken == \A shot \in PlainShots, pictures \in UpTo(4, Pictures) : H!BestAreTaken(shot, pictures)
ASSUME SomeRulesAreCut == \E shot \in Shots : H!RulesAreCut(shot, Cup)
ASSUME SomeLocksComeLate == \E shot \in PlainShots, pictures \in UpTo(1, Pictures) : H!LockedWithoutReference(shot, pictures)

\* Texts a script is made of, on the shortest project and on a usual one.
Narrations ==
    {[size |-> 0, boundaries |-> {}], [size |-> 200, boundaries |-> {}], [size |-> 40, boundaries |-> {1, 3, 12, 39}]}
ASSUME ScriptsFit ==
    /\ \A seconds \in 5 .. 180 : J!BudgetFits(seconds) /\ J!EnglishIsShort(seconds)
    /\ \A seconds \in {5, 15, 30, 180}, speed \in {10, 12, 20} : J!ChineseIsSaidInTime(seconds, speed)
    /\ \A texts \in [1 .. 9 -> Narrations], seconds \in {5, 30} : J!MockScriptFits(texts, seconds)
ASSUME RepliesAreChecked == \A replies \in [1 .. 4 -> J!Replies], retries \in 0 .. 3 : J!OnlyValidIsStored(replies, retries)
ASSUME SomeRetriesAreLost == \E reply \in J!Replies : J!RetryIsLost(J!Ends(reply))

Kinds == {"vision", "llm", "video"}
Answers == [status : {0, 200, 400, 401, 404, 429, 499, 500, 503}, id : BOOLEAN, taken : BOOLEAN]
ASSUME PayingIsDecided == \A s \in L!Settings, kind \in Kinds : L!PaidTakesThreeSwitches(kind, s)
ASSUME BootsWithItsKey == \A s \in L!Settings, kind \in Kinds \ {"video"} : L!BootIsEnough(kind, s)
ASSUME VideoBootsWithout == \E s \in L!Settings : ~L!BootIsEnough("video", s)
ASSUME SomeArePaidAllTheSame == \E s \in L!Settings : L!RoutedPastTheMocks(s)
ASSUME SomeAreTakenTwice == \E answer \in Answers : L!TakenIsRetried(answer)
ASSUME SomeClipsFallShort == \E shots \in UpTo(3, {200, 333, 375, 500}) : L!ClipsFallShort(shots)
ASSUME MocksTakeTime ==
    \A mode \in {"success", "slow", "timeout"}, since \in 0 .. 3, age \in 0 .. 25 : L!MockIsPolled(mode, since, since + age)
ASSUME RoutedMocksFail == \A mode \in {"success", "slow"} : L!RoutedMockIsUnknown(mode)
ASSUME ImagesAreScaled == \A w, h \in {1, 2, 2576, 2577, 9000} : L!ImagesFit(w, h)
=============================================================================
