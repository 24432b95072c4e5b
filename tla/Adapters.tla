-------------------------------- MODULE Adapters -------------------------------
(***************************************************************************)
(* providers/: which adapter is built, what the adapters make of a         *)
(* vendor's answer, and the video vendor that is made up. config.py says   *)
(* with which settings a process starts at all.                            *)
(***************************************************************************)
EXTENDS Integers, Sequences, SequencesExt, FiniteSetsExt, TLC

\* The settings of one kind of provider: USE_MOCK_PROVIDERS, its flag, its
\* name and whether there is a key.
Settings == [mocks : BOOLEAN, enabled : BOOLEAN, named : {"mock", "anthropic", "runway", "other"}, key : BOOLEAN]
Vendor == [vision |-> "anthropic", llm |-> "anthropic", video |-> "runway"]

\* _validate_provider_selection: nobody looks for the key of the video vendor.
Boots(kind, s) ==
    \/ s.mocks \/ ~s.enabled
    \/ s.named # "mock" /\ (kind = "video" \/ s.named # Vendor[kind] \/ s.key)

\* _build_client refuses without a key.
Built(kind, name, s) == IF name = Vendor[kind] /\ s.key THEN name ELSE "unavailable"

\* get_vision_provider, get_llm_provider and get_video_provider
Configured(kind, s) ==
    CASE s.mocks \/ s.named = "mock" -> "mock"
      [] OTHER -> IF s.enabled THEN Built(kind, s.named, s) ELSE "unavailable"

\* build_video_provider, for the router.
ByName(name, s) ==
    CASE name = "mock" -> "mock"
      [] OTHER -> IF s.enabled THEN Built("video", name, s) ELSE "unavailable"

-----------------------------------------------------------------------------
\* _request: the answer of a vendor as one of the errors of errors.py, or "ok".
Unreachable == 0
Mapped(status) ==
    CASE status = Unreachable -> "unavailable"
      [] status = 429 -> "rate_limited"
      [] status >= 500 -> "unavailable"
      [] status \in 400 .. 499 \ {429} -> "rejected"
      [] OTHER -> "ok"
Retryable == {"unavailable", "rate_limited"}

\* submit of RunwayVideoProvider: a picture to start from is asked for first,
\* and an answer without an id is an error.
Submit(references, answer) ==
    CASE references = 0 -> "rejected"
      [] Mapped(answer.status) # "ok" -> Mapped(answer.status)
      [] OTHER -> IF answer.id THEN "ok" ELSE "unavailable"

\* What it orders: whole seconds of a shot in hundredths.
Ordered(seconds) == seconds \div 100

-----------------------------------------------------------------------------
\* MockVideoProvider: one instance, with the time of each submission.
Fresh == [submitted |-> <<>>, canceled |-> {}]
WorkSeconds(mode) == IF mode = "slow" THEN 20 ELSE 2
MockSubmit(mock, handle, now) == [mock EXCEPT !.submitted = (handle :> now) @@ @]
MockCancel(mock, handle) == [mock EXCEPT !.canceled = @ \cup {handle}]
MockPoll(mock, handle, now, mode) ==
    CASE handle \in mock.canceled -> [state |-> "CANCELED", progress |-> 0]
      [] handle \notin DOMAIN mock.submitted -> [state |-> "rejected", progress |-> 0]
      [] mode = "timeout" -> [state |-> "RUNNING", progress |-> 50]
      [] OTHER ->
            LET elapsed == now - mock.submitted[handle]
            IN  IF elapsed < WorkSeconds(mode)
                THEN [state |-> "RUNNING", progress |-> Min({95, (100 * elapsed) \div WorkSeconds(mode)})]
                ELSE [state |-> "SUCCEEDED", progress |-> 100]

-----------------------------------------------------------------------------
\* _downscale of providers/anthropic_vision.py: a side of an image, in pixels.
MaxImageEdge == 2576
Downscaled(side, longest) ==
    IF longest <= MaxImageEdge THEN side
    ELSE Max({1, (2 * side * MaxImageEdge + longest) \div (2 * longest)})

-----------------------------------------------------------------------------
\* A vendor is paid only with mocks off, its flag on and its key at hand; with
\* mocks on, nothing but the mock is configured.
PaidTakesThreeSwitches(kind, s) ==
    /\ Configured(kind, s) \notin {"mock", "unavailable"} => ~s.mocks /\ s.enabled /\ s.key
    /\ s.mocks => Configured(kind, s) = "mock"

\* A process that starts with a flag on and the vendor named has it: a missing
\* key costs a deploy and not somebody's upload. Not so the video vendor.
BootIsEnough(kind, s) ==
    Boots(kind, s) /\ ~s.mocks /\ s.enabled /\ s.named = Vendor[kind] => Configured(kind, s) = Vendor[kind]

\* A vendor that the router names is paid though mocks are on, where "the
\* three-switch rule still applies to the real providers".
RoutedPastTheMocks(s) == s.mocks /\ ByName("runway", s) = "runway"

\* A generation that the vendor took and will charge for is submitted again.
TakenIsRetried(answer) == answer.taken /\ Submit(1, answer) \in Retryable

\* Shots that add up to the film are ordered as clips that do not.
ClipsFallShort(shots) ==
    LET sum == FoldSeq(LAMBDA s, n : s + n, 0, shots)
    IN  FoldSeq(LAMBDA s, n : 100 * Ordered(s) + n, 0, shots) < sum

\* The mock is never done at the first look, so the loop that polls is used,
\* and its progress does not go back.
MockIsPolled(mode, since, later) ==
    LET mock == MockSubmit(Fresh, "h", since)
        At(t) == MockPoll(mock, "h", t, mode)
    IN  /\ At(since).state = "RUNNING"
        /\ since <= later => At(later).progress <= At(later + 1).progress
        /\ MockPoll(MockCancel(mock, "h"), "h", later, mode).state = "CANCELED"

\* A job routed to the mock is polled at the runner's own one, which never saw
\* it: it fails for good, though its clip is on its way.
RoutedMockIsUnknown(mode) ==
    LET routed == MockSubmit(Fresh, "h", 0)
    IN  /\ MockPoll(routed, "h", WorkSeconds(mode), mode).state = "SUCCEEDED"
        /\ MockPoll(Fresh, "h", WorkSeconds(mode), mode).state = "rejected"

\* An image is sent no larger than is of use, with its longer side the longer.
ImagesFit(width, height) ==
    LET longest == Max({width, height})
        w == Downscaled(width, longest)
        h == Downscaled(height, longest)
    IN  w \in 1 .. MaxImageEdge /\ h \in 1 .. MaxImageEdge /\ (width >= height => w >= h)
=============================================================================
