----------------------------- MODULE QualityControl -----------------------------
(* The quality of one Publisher of the Extension                                *)
(* (packages/extension/src/offscreen.ts, media-quality-policy.ts).  Core asks   *)
(* for configurations and presets, suspends the media and replaces its capture; *)
(* in automatic mode a sampler of the Publisher adapts the encoding itself.     *)
(* All of them change one RTCRtpSender and one capture in several awaited       *)
(* steps, so they queue in mediaOperations, and what the sampler decides may    *)
(* wait there behind a request that makes it obsolete.                          *)
(*                                                                              *)
(* An encoding (bitrate, frame rate and scale) is a level: the higher, the more *)
(* media.                                                                       *)
EXTENDS Naturals, Sequences, FiniteSetsExt

CONSTANTS
    Ceiling,         \* the limits of the Session
    Balanced,        \* what a Publisher and automatic mode begin with, within these limits
    Pressured,       \* samples under pressure before a reduction: 3 in the code
    Recovered,       \* healthy samples before a recovery: 6 in the code
    Diagnostics,     \* the Session granted diagnostics: the sampler always runs
    MaxRequests,     \* bound: what Core asks of the Publisher
    None

ASSUME QualityAssumption ==
    /\ {Ceiling, Pressured, Recovered, MaxRequests} \subseteq Nat \ {0}
    /\ Balanced \in 1..Ceiling
    /\ Diagnostics \in BOOLEAN
    /\ None \notin Nat

VARIABLES
    alive,       \* the Publisher is in publishers
    connected,   \* peer.connectionState is "connected"
    suspended, replacing,
    sender,      \* the level of the RTCRtpSender
    capture,     \* the level of the capture track
    settings,    \* encodingSettings
    quality,     \* qualityState: what set it, in which mode, and what was applied
    operations,  \* mediaOperations
    step,        \* what the operation at its head awaits
    saved,       \* the snapshot it rolls back to
    next,        \* the capture it has acquired
    timer,       \* metricsTimer
    sampling,    \* metricsSampling, and whether metricsRevision is still that of the sample
    baseline,    \* metricsHistory has an earlier sample to measure from
    history,     \* automaticQualityHistory
    asked,       \* how much Core has asked
    answers,     \* how the configurations among it were answered
    reported,    \* history: the level Core was told last
    since        \* history: samples begun since the media changed otherwise

mediaVars == <<sender, capture, settings, quality, next, saved>>
queueVars == <<operations, step>>
samplerVars == <<timer, sampling, baseline, history, since>>
coreVars == <<asked, answers, reported>>
vars == <<alive, connected, suspended, replacing, mediaVars, queueVars, samplerVars, coreVars>>

Levels == 1..Ceiling
Ids == 1..MaxRequests
Modes == {"auto", "manual"}
Qualities == [by : Ids, mode : Modes, level : Levels]
Operations == [op : {"configure"}, id : Ids, mode : Modes, level : Levels]
                \cup [op : {"preset"}, id : Ids, level : Levels]
                \cup [op : {"adapt"}, for : Qualities, level : Levels]
                \cup [op : {"suspend", "resume", "replace"}, id : Ids]

TypeOK ==
    /\ {alive, connected, suspended, replacing, timer, baseline} \subseteq BOOLEAN
    /\ {sender, capture, settings} \subseteq Levels
    /\ quality \in Qualities \cup {None}
    /\ operations \in Seq(Operations)
    /\ step \in {"queued", "sender", "capture", "acquire", "rate", "swap", "parameters"}
    /\ saved \in Levels \cup {None} /\ next \in Levels \cup {None}
    /\ sampling \in {"no", "fresh", "stale", "adapting"}
    /\ history \in [pressure : 0..Pressured, healthy : 0..Recovered]
    /\ asked \in 0..MaxRequests
    /\ answers \in [Ids -> {"none", "asked", "ok", "failed"}]
    /\ reported \in Levels /\ since \in 0..Pressured + Recovered

NoHistory == [pressure |-> 0, healthy |-> 0]

Init ==
    /\ alive = TRUE /\ connected = FALSE /\ suspended = FALSE /\ replacing = FALSE
    /\ sender = Balanced /\ capture = Balanced /\ settings = Balanced
    /\ quality = None /\ operations = <<>> /\ step = "queued" /\ saved = None /\ next = None
    /\ timer = FALSE /\ sampling = "no" /\ baseline = FALSE /\ history = NoHistory
    /\ asked = 0 /\ answers = [i \in Ids |-> "none"] /\ reported = Balanced /\ since = 0

-----------------------------------------------------------------------------
Automatic == quality # None /\ quality.mode = "auto"

(* resetAutomaticQualityHistory: what is being sampled belongs to an older      *)
(* revision.                                                                    *)
ResetHistory ==
    /\ sampling' = IF sampling = "fresh" THEN "stale" ELSE sampling
    /\ baseline' = FALSE /\ history' = NoHistory /\ since' = 0

(* startPublisherMetrics, for the quality q *)
MetricsStart(q) ==
    timer' = \/ timer
             \/ /\ sampling = "no" /\ connected
                /\ Diagnostics \/ (q # None /\ q.mode = "auto")

(* stopPublisher *)
Stop == alive' = FALSE /\ timer' = FALSE

HeadIs(op, s) == operations # <<>> /\ Head(operations).op = op /\ step = s
Await(s) == step' = s /\ UNCHANGED operations
Pop == operations' = Tail(operations) /\ step' = "queued" /\ saved' = None /\ next' = None

Encodes == {"configure", "preset", "adapt"}
Encoding(s) == operations # <<>> /\ Head(operations).op \in Encodes /\ step = s
Target == Head(operations).level

Answer(ok) ==
    answers' = IF Head(operations).op = "configure"
               THEN [answers EXCEPT ![Head(operations).id] = IF ok THEN "ok" ELSE "failed"]
               ELSE answers

-----------------------------------------------------------------------------
(* What Core asks.                                                              *)

Ask == asked < MaxRequests /\ asked' = asked + 1
Enqueue(o) == operations' = Append(operations, o) /\ UNCHANGED step

(* configurePublisherQuality and configuredEncoding *)
Configure(mode, level) ==
    /\ Ask /\ (mode = "auto" => level = Balanced)
    /\ IF alive
       THEN /\ Enqueue([op |-> "configure", id |-> asked + 1, mode |-> mode,
                        level |-> Min({level, Ceiling})])
            /\ answers' = [answers EXCEPT ![asked + 1] = "asked"]
       ELSE /\ answers' = [answers EXCEPT ![asked + 1] = "failed"]
            /\ UNCHANGED queueVars
    /\ UNCHANGED <<alive, connected, suspended, replacing, mediaVars, samplerVars, reported>>

(* setPublisherQuality *)
SetQuality(level) ==
    /\ Ask /\ alive
    /\ Enqueue([op |-> "preset", id |-> asked + 1, level |-> level])
    /\ UNCHANGED <<alive, connected, suspended, replacing, mediaVars, samplerVars, answers,
                   reported>>

(* setPublisherSuspended *)
SetSuspended(op) ==
    /\ Ask /\ alive
    /\ Enqueue([op |-> op, id |-> asked + 1])
    /\ UNCHANGED <<alive, connected, suspended, replacing, mediaVars, samplerVars, answers,
                   reported>>

(* beginCaptureReplacement; other requests are refused. *)
ReplaceCapture ==
    /\ Ask /\ alive /\ ~replacing /\ connected
    /\ replacing' = TRUE
    /\ Enqueue([op |-> "replace", id |-> asked + 1])
    /\ UNCHANGED <<alive, connected, suspended, mediaVars, samplerVars, answers, reported>>

-----------------------------------------------------------------------------
(* withPublisherMedia and applyPublisherEncoding.                               *)

(* Mutant: who asked is not told that the operation did not run. *)
OverSilently ==
    /\ replacing' = (replacing /\ Head(operations).op # "replace")
    /\ Pop
    /\ UNCHANGED answers

(* An operation ends without having changed anything, an adaptation on behalf   *)
(* of the sampler that waits for it.                                            *)
Over ==
    /\ Answer(FALSE)
    /\ replacing' = (replacing /\ Head(operations).op # "replace")
    /\ Pop

SamplerGoesOn(q) ==
    /\ sampling' = "no"
    /\ timer' = (alive /\ connected /\ (Diagnostics \/ (q # None /\ q.mode = "auto")))

(* The Publisher was stopped while the operation was queued. *)
Retired ==
    /\ operations # <<>> /\ step = "queued" /\ ~alive
    /\ Over
    /\ IF Head(operations).op = "adapt" THEN SamplerGoesOn(quality) ELSE UNCHANGED <<timer, sampling>>
    /\ UNCHANGED <<alive, connected, suspended, sender, capture, settings, quality, baseline,
                   history, since, asked, reported>>

(* Mutant: the quality it was decided for is not compared. *)
StillWantedWhatever(o) == ~suspended /\ ~replacing /\ connected

(* What adaptPublisherQuality looks at again *)
StillWanted(o) == quality = o.for /\ ~suspended /\ ~replacing /\ connected

EncodingBegins ==
    /\ Encoding("queued") /\ alive
    /\ Head(operations).op = "adapt" => StillWanted(Head(operations))
    /\ saved' = sender
    /\ Await("sender")
    /\ UNCHANGED <<alive, connected, suspended, replacing, sender, capture, settings, quality,
                   next, samplerVars, coreVars>>

AdaptationDropped ==
    /\ HeadIs("adapt", "queued") /\ alive /\ ~StillWanted(Head(operations))
    /\ Over /\ SamplerGoesOn(quality)
    /\ UNCHANGED <<alive, connected, suspended, sender, capture, settings, quality, baseline,
                   history, since, asked, reported>>

(* setParameters *)
SenderSet ==
    /\ Encoding("sender")
    /\ sender' = Target
    /\ Await("capture")
    /\ UNCHANGED <<alive, connected, suspended, replacing, capture, settings, quality, next, saved,
                   samplerVars, coreVars>>

(* What failure leaves to the caller: an automatic one asks for a fresh window. *)
Failed ==
    /\ Answer(FALSE)
    /\ Pop
    /\ IF Head(operations).op = "adapt"
       THEN SamplerGoesOn(quality) /\ baseline' = FALSE /\ history' = NoHistory /\ since' = 0
       ELSE UNCHANGED <<timer, sampling, baseline, history, since>>
    /\ UNCHANGED <<connected, suspended, replacing, settings, quality, asked, reported>>

(* The track is gone, or setParameters failed: there is nothing to undo. *)
SenderFails ==
    /\ Encoding("sender")
    /\ Failed
    /\ UNCHANGED <<alive, sender, capture>>

(* Mutant: the sender keeps what the capture did not follow. *)
CaptureFailsHalfway ==
    /\ Encoding("capture")
    /\ Failed
    /\ UNCHANGED <<alive, sender, capture>>

(* The capture did not follow, or Chrome did not enforce the encoding: the      *)
(* stages that were applied are undone, and if that fails the Publisher is      *)
(* stopped.                                                                     *)
CaptureFails ==
    /\ Encoding("capture")
    /\ Failed
    /\ sender' = saved
    /\ UNCHANGED <<alive, capture>>

RollbackFails ==
    /\ Encoding("capture")
    /\ Answer(FALSE) /\ Pop /\ Stop
    /\ sampling' = IF Head(operations).op = "adapt" THEN "no" ELSE sampling
    /\ baseline' = FALSE /\ history' = NoHistory /\ since' = 0
    /\ UNCHANGED <<connected, suspended, replacing, sender, capture, settings, quality, asked,
                   reported>>

(* Applied: the state is the Publisher's, and Core is told. *)
Applied ==
    /\ Encoding("capture")
    /\ capture' = Target /\ settings' = Target
    /\ LET o == Head(operations)
           q == CASE o.op = "configure" -> [by |-> o.id, mode |-> o.mode, level |-> o.level]
                  [] o.op = "preset" -> None
                  [] o.op = "adapt" -> [o.for EXCEPT !.level = o.level]
       IN IF alive
          THEN /\ quality' = q /\ reported' = Target
               /\ CASE o.op = "configure" -> ResetHistory /\ MetricsStart(q)
                    [] o.op = "preset" -> ResetHistory /\ UNCHANGED timer
                    [] o.op = "adapt" -> SamplerGoesOn(q) /\ UNCHANGED <<baseline, history, since>>
          ELSE /\ UNCHANGED <<quality, reported, baseline, history, since>>
               /\ IF o.op = "adapt" THEN SamplerGoesOn(quality) ELSE UNCHANGED <<timer, sampling>>
    /\ Answer(alive)
    /\ Pop
    /\ UNCHANGED <<alive, connected, suspended, replacing, sender, asked>>

-----------------------------------------------------------------------------
(* Suspension and replacement of the capture, in the same queue.                *)

Suspends == operations # <<>> /\ Head(operations).op \in {"suspend", "resume"} /\ step = "queued"

SuspensionSet ==
    /\ Suspends /\ alive
    /\ suspended' = (Head(operations).op = "suspend")
    /\ ResetHistory
    /\ Pop
    /\ UNCHANGED <<alive, connected, replacing, sender, capture, settings, quality, timer, coreVars>>

SuspensionFails ==
    /\ Suspends /\ alive
    /\ Stop /\ Pop
    /\ UNCHANGED <<connected, suspended, replacing, sender, capture, settings, quality, sampling,
                   baseline, history, since, coreVars>>

(* replaceCapture *)
ReplacementBegins ==
    /\ HeadIs("replace", "queued") /\ alive
    /\ Await("acquire")
    /\ UNCHANGED <<alive, connected, suspended, replacing, mediaVars, samplerVars, coreVars>>

(* A capture is acquired with the frame rate of the Session's limits. *)
Acquired ==
    /\ HeadIs("replace", "acquire") /\ alive
    /\ next' = Ceiling
    /\ Await("rate")
    /\ UNCHANGED <<alive, connected, suspended, replacing, sender, capture, settings, quality,
                   saved, samplerVars, coreVars>>

RateApplied ==
    /\ HeadIs("replace", "rate")
    /\ next' = settings
    /\ Await("swap")
    /\ UNCHANGED <<alive, connected, suspended, replacing, sender, capture, settings, quality,
                   saved, samplerVars, coreVars>>

Swapped ==
    /\ HeadIs("replace", "swap") /\ alive
    /\ capture' = next /\ replacing' = FALSE
    /\ ResetHistory
    /\ Pop
    /\ UNCHANGED <<alive, connected, suspended, sender, settings, quality, timer, coreVars>>

(* Before the first sender has changed the old capture stays. *)
ReplacementFails ==
    /\ operations # <<>> /\ Head(operations).op = "replace" /\ step \in {"acquire", "rate", "swap"}
    /\ IF step = "swap" THEN Stop ELSE UNCHANGED <<alive, timer>>
    /\ replacing' = FALSE
    /\ Pop
    /\ UNCHANGED <<connected, suspended, sender, capture, settings, quality, sampling, baseline,
                   history, since, coreVars>>

-----------------------------------------------------------------------------
(* The sampler and the connection.                                              *)

(* samplePublisherMetrics *)
SampleStarts ==
    /\ timer
    /\ timer' = FALSE
    /\ IF alive /\ connected
       THEN sampling' = "fresh" /\ since' = Min({since + 1, Pressured + Recovered})
       ELSE UNCHANGED <<sampling, since>>
    /\ UNCHANGED <<alive, connected, suspended, replacing, mediaVars, queueVars, baseline, history,
                   coreVars>>

SampleFails ==
    /\ sampling \in {"fresh", "stale"}
    /\ SamplerGoesOn(quality)
    /\ baseline' = FALSE /\ history' = NoHistory /\ since' = 0
    /\ UNCHANGED <<alive, connected, suspended, replacing, mediaVars, queueVars, coreVars>>

(* adaptEncoding: what counts, and what follows from it *)
Counted(kind) ==
    [pressure |-> IF kind = "pressure" THEN history.pressure + 1 ELSE 0,
     healthy |-> IF kind = "healthy" THEN history.healthy + 1 ELSE 0]

Decided(kind) ==
    IF Counted(kind).pressure >= Pressured THEN Max({1, quality.level - 1})
    ELSE IF Counted(kind).healthy >= Recovered THEN Min({quality.level + 1, Ceiling})
    ELSE quality.level

Remembered(kind) ==
    [pressure |-> Counted(kind).pressure % Pressured, healthy |-> Counted(kind).healthy % Recovered]

Adapting == alive /\ connected /\ ~suspended /\ ~replacing

(* A sample is over that does not lead to an adaptation: there is nothing to    *)
(* adapt, its revision has passed, or it does not complete a window.            *)
SampleEnds(kind) ==
    /\ sampling \in {"fresh", "stale"}
    /\ kind # "invalid" => baseline
    /\ SamplerGoesOn(quality)
    /\ IF sampling = "stale" \/ ~Automatic
       THEN UNCHANGED <<history, since>> /\ baseline' = (baseline \/ sampling = "fresh")
       ELSE IF Adapting
            THEN /\ Decided(kind) = quality.level
                 /\ history' = Remembered(kind) /\ baseline' = TRUE /\ UNCHANGED since
            ELSE baseline' = FALSE /\ history' = NoHistory /\ since' = 0
    /\ UNCHANGED <<alive, connected, suspended, replacing, mediaVars, queueVars, coreVars>>

(* adaptPublisherQuality: the decision queues, and the sampler waits for it. *)
AdaptationQueued(kind) ==
    /\ sampling = "fresh" /\ baseline /\ Automatic /\ Adapting
    /\ Decided(kind) # quality.level
    /\ sampling' = "adapting" /\ history' = Remembered(kind)
    /\ Enqueue([op |-> "adapt", for |-> quality, level |-> Decided(kind)])
    /\ UNCHANGED <<alive, connected, suspended, replacing, mediaVars, timer, baseline, since, coreVars>>

(* connectionstatechange *)
Connects ==
    /\ alive /\ ~connected
    /\ connected' = TRUE
    /\ timer' = (timer \/ ((Diagnostics \/ Automatic) /\ sampling = "no"))
    /\ UNCHANGED <<alive, suspended, replacing, mediaVars, queueVars, sampling, baseline, history,
                   since, coreVars>>

Disconnects ==
    /\ alive /\ connected
    /\ connected' = FALSE
    /\ ResetHistory
    /\ UNCHANGED <<alive, suspended, replacing, mediaVars, queueVars, timer, coreVars>>

(* Core stops the media, the capture ends, or the connection has failed. *)
PublisherStops ==
    /\ alive
    /\ Stop
    /\ UNCHANGED <<connected, suspended, replacing, mediaVars, queueVars, sampling, baseline,
                   history, since, coreVars>>

-----------------------------------------------------------------------------
Operate ==
    \/ Retired \/ EncodingBegins \/ AdaptationDropped
    \/ SenderSet \/ SenderFails \/ CaptureFails \/ RollbackFails \/ Applied
    \/ SuspensionSet \/ SuspensionFails
    \/ ReplacementBegins \/ Acquired \/ RateApplied \/ Swapped \/ ReplacementFails

Kinds == {"pressure", "healthy", "neither", "invalid"}

Sample ==
    \/ SampleStarts \/ SampleFails
    \/ \E kind \in Kinds : SampleEnds(kind) \/ AdaptationQueued(kind)

Next ==
    \/ \E mode \in Modes, level \in Levels : Configure(mode, level)
    \/ \E level \in Levels : SetQuality(level)
    \/ \E op \in {"suspend", "resume"} : SetSuspended(op)
    \/ ReplaceCapture
    \/ Operate \/ Sample
    \/ Connects \/ Disconnects \/ PublisherStops

(* Chrome settles what it is asked; timers fire. *)
Fairness == WF_vars(Operate) /\ WF_vars(Sample)

Spec == Init /\ [][Next]_vars /\ Fairness

-----------------------------------------------------------------------------
(* Between operations, the sender, the capture and what Core was told last      *)
(* agree, whichever step of an operation failed: a capture that replaces        *)
(* another has the rate of the encoding, and a failure leaves no half of one.   *)
ReportedIsApplied ==
    alive /\ step = "queued" => sender = reported /\ capture = reported /\ settings = reported

(* Only a configuration that is still in force is adapted, and not while the    *)
(* media is suspended: a decision that waited in the queue behind a request of  *)
(* Core does not undo it.                                                       *)
AutomaticYields ==
    [][sender' # sender /\ operations # <<>> /\ Head(operations).op = "adapt" /\ step = "sender"
         => quality = Head(operations).for /\ Automatic /\ ~suspended]_vars

(* What counts towards an adaptation was sampled after the last change of       *)
(* configuration, suspension, capture or connection, although a sample is       *)
(* awaited across such changes.                                                 *)
CountsAreFresh == history.pressure <= since /\ history.healthy <= since

(* Every configuration is answered, also by a Publisher that stops meanwhile.   *)
ConfigurationsAnswered == \A i \in Ids : answers[i] = "asked" ~> answers[i] # "asked"

(* In automatic mode the sampler never stops while the peer is connected,       *)
(* although it ends with each disconnection and each manual configuration.      *)
SamplerLives == []<>(sampling = "fresh" \/ ~(alive /\ connected /\ Automatic))

(* What Core was told is applied, and what is counted towards an adaptation     *)
(* was sampled under it.                                                        *)
Consistent == TypeOK /\ ReportedIsApplied /\ CountsAreFresh

(* Neither an answer nor the sampler is lost.                                   *)
Settles == ConfigurationsAnswered /\ SamplerLives
=============================================================================
