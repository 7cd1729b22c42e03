---------------------------- MODULE MediaRuntime ----------------------------
(***************************************************************************)
(* The media of one Session across the loopback socket: Core               *)
(* (packages/core/src/extension-loopback.ts and the parts of session.ts    *)
(* that call it) asks, the media runtime of the Extension                  *)
(* (packages/extension/src/offscreen.ts) starts, replaces, suspends and    *)
(* stops the Publisher.  Acquiring a capture is slow and cannot be         *)
(* cancelled, so requests overtake the acquisitions they make obsolete;    *)
(* requests time out at Core; the socket is lost and opened again.         *)
(* A capture and a Publisher are named by the request that asked for them. *)
(***************************************************************************)
EXTENDS Naturals, Sequences, FiniteSets

CONSTANTS
  MaxRequests,    \* bound: what Core asks of the media runtime
  MaxGeneration,  \* bound: takeovers
  MaxLosses,      \* bound: losses of the loopback socket
  MaxInFlight,    \* bound: what Core has sent and the Extension not yet read
  None

ASSUME MediaRuntimeAssumption ==
  /\ {MaxRequests, MaxLosses, MaxInFlight} \subseteq Nat /\ MaxGeneration \in Nat \ {0}
  /\ None \notin Nat

VARIABLES
  session,     \* "open", or "over" once the Session failed or was closed
  generation,  \* #viewerGeneration
  client,      \* what the signaling client of the Session reached
  greeted,     \* the Viewer said hello over its data channel
  takeover,    \* the stop a createViewerTicket waits for
  revision,    \* #windowRevision
  requests,    \* how many requests were sent
  pending,     \* #pendingMediaStops and #pendingCaptureReplacements
  resolved,    \* the requests whose promise was resolved
  bound,       \* Core holds a media socket in #runtimes
  toExtension, \* messages on the socket, in order
  toCore,
  losses,      \* sockets lost so far
  socket,      \* the socket of the Extension is open
  ready,       \* the Session is in peerReadySessions
  attempt,     \* publisherStartAttempts
  starts,      \* runs of startPublisher that have not settled
  publisher,   \* publishers
  replacements,\* runs of replaceCapture that have not settled
  stops,       \* runs of stopPublisherAndAcknowledge that have not ended
  live         \* captures whose tracks run

coreVars == <<session, generation, client, greeted, takeover, revision, requests, pending, resolved, bound>>
wireVars == <<toExtension, toCore, losses, socket>>
captureVars == <<attempt, starts, publisher, replacements, live>>
extensionVars == <<ready, captureVars, stops>>
vars == <<coreVars, wireVars, extensionVars>>

-----------------------------------------------------------------------------
Ids == 1 .. MaxRequests
Requests == [op : {"stop", "replace"}, id : Ids]
ToExtension ==
  [op : {"peer_ready", "peer_left"}]
    \cup [op : {"start", "replace"}, id : Ids, generation : Nat, revision : Nat]
    \cup [op : {"stop", "suspend", "resume", "restart_ice"}, id : Ids]
ToCore ==
  [op : {"start_failed"}]
    \cup [op : {"hello"}, generation : Nat]
    \cup [op : {"stopped", "replaced", "replace_failed"}, id : Ids]
Starts == [id : Ids, generation : Nat, revision : Nat, ready : BOOLEAN, step : {"acquiring", "offering"}]
Publishers == [id : Ids, generation : Nat, revision : Nat, stream : Ids, ready : BOOLEAN,
               offer : {"no", "making", "sent"}, ice : {"new", "connected", "failed", "restarting"},
               suspended : BOOLEAN, enabled : BOOLEAN,
               operations : Seq([op : {"suspend", "resume", "replace"}, id : Ids])]
\* Where there is no Publisher, there is something else than one.
ASSUME NoPublisherAssumption == None \notin Publishers

Replacements == [id : Ids, publisher : Ids, generation : Nat, revision : Nat,
                 step : {"queued", "acquiring", "swapping"}]
Stops == [id : Ids, waits : SUBSET Ids]

TypeOK ==
  /\ session \in {"open", "over"} /\ generation \in 1 .. MaxGeneration
  /\ client \in {"no", "paired", "started"} /\ greeted \in BOOLEAN
  /\ takeover \in Ids \cup {None} /\ revision \in Nat /\ requests \in 0 .. MaxRequests
  /\ pending \subseteq Requests /\ resolved \subseteq Requests /\ bound \in BOOLEAN
  /\ toExtension \in Seq(ToExtension) /\ toCore \in Seq(ToCore)
  /\ losses \in 0 .. MaxLosses /\ socket \in BOOLEAN
  /\ ready \in BOOLEAN /\ attempt \in Ids \cup {None}
  /\ starts \subseteq Starts /\ publisher \in Publishers \cup {None}
  /\ replacements \subseteq Replacements /\ stops \subseteq Stops /\ live \subseteq Ids

Init ==
  /\ session = "open" /\ generation = 1 /\ client = "no" /\ greeted = FALSE
  /\ takeover = None /\ revision = 0 /\ requests = 0 /\ pending = {} /\ resolved = {} /\ bound = TRUE
  /\ toExtension = <<>> /\ toCore = <<>> /\ losses = 0 /\ socket = TRUE
  /\ ready = FALSE /\ attempt = None /\ starts = {} /\ publisher = None
  /\ replacements = {} /\ stops = {} /\ live = {}

-----------------------------------------------------------------------------
(* The socket.  One end sees the close first; what the other sends until   *)
(* it notices is lost.                                                     *)

wire == bound /\ socket
Ask(m) == toExtension' = IF wire THEN Append(toExtension, m) ELSE toExtension
Tell(m) == toCore' = IF wire THEN Append(toCore, m) ELSE toCore
Request(op) == [op |-> op, id |-> requests + 1]
Unread == Len(toExtension) < MaxInFlight
Asks == Unread /\ requests < MaxRequests /\ requests' = requests + 1

Lost == toExtension' = <<>> /\ toCore' = <<>>

(***************************************************************************)
(* Core.  The Session fails or is closed: #cleanup stops the media.        *)
(***************************************************************************)
Over(left) ==
  /\ session' = "over" /\ client' = "no" /\ greeted' = FALSE /\ takeover' = None
  /\ IF bound /\ requests < MaxRequests
       THEN /\ requests' = requests + 1
            /\ pending' = left \cup {Request("stop")} /\ Ask(Request("stop"))
       ELSE pending' = left /\ UNCHANGED <<requests, toExtension>>
  /\ UNCHANGED <<generation, revision>>

PeerReady ==
  /\ session = "open" /\ client = "no" /\ Unread
  /\ IF bound
       THEN /\ client' = "paired" /\ Ask([op |-> "peer_ready"])
            /\ UNCHANGED <<session, generation, greeted, takeover, revision, requests, pending>>
       ELSE Over(pending)
  /\ UNCHANGED <<resolved, bound, toCore, losses, socket, extensionVars>>

\* prepareCapture is answered; the client it was for is still the current one.
StartMedia ==
  /\ session = "open" /\ client = "paired" /\ bound /\ Asks
  /\ client' = "started"
  /\ Ask([op |-> "start", id |-> requests + 1, generation |-> generation, revision |-> revision])
  /\ UNCHANGED <<session, generation, greeted, takeover, revision, pending, resolved, bound,
                 toCore, losses, socket, extensionVars>>

\* The Viewer leaves, or the signaling client fails.
PeerLeaves ==
  /\ session = "open" /\ client # "no" /\ Unread
  /\ IF bound
       THEN /\ client' = "no" /\ greeted' = FALSE /\ Ask([op |-> "peer_left"])
            /\ UNCHANGED <<session, generation, takeover, revision, requests, pending>>
       ELSE Over(pending)
  /\ UNCHANGED <<resolved, bound, toCore, losses, socket, extensionVars>>

Replacing == \E r \in pending : r.op = "replace"

ReplaceMediaCapture ==
  /\ session = "open" /\ greeted /\ takeover = None /\ ~Replacing /\ bound /\ Asks
  /\ revision' = revision + 1
  /\ pending' = pending \cup {Request("replace")}
  /\ Ask([op |-> "replace", id |-> requests + 1, generation |-> generation, revision |-> revision + 1])
  /\ UNCHANGED <<session, generation, client, greeted, takeover, resolved, bound,
                 toCore, losses, socket, extensionVars>>

\* The Viewer suspends or resumes, or asks for an ICE restart.
Forwards(op) ==
  /\ session = "open" /\ bound /\ Asks
  /\ IF op = "restart_ice" THEN client = "started" ELSE greeted
  /\ Ask(Request(op))
  /\ UNCHANGED <<session, generation, client, greeted, takeover, revision, pending, resolved, bound,
                 toCore, losses, socket, extensionVars>>

\* createViewerTicket, after the control chain (a replacement included) drained.
TakeoverStops ==
  /\ session = "open" /\ takeover = None /\ generation < MaxGeneration /\ ~Replacing /\ bound /\ Asks
  /\ takeover' = requests + 1
  /\ pending' = pending \cup {Request("stop")} /\ Ask(Request("stop"))
  /\ UNCHANGED <<session, generation, client, greeted, revision, resolved, bound,
                 toCore, losses, socket, extensionVars>>

Closes ==
  /\ session = "open"
  /\ Over(pending)
  /\ UNCHANGED <<resolved, bound, toCore, losses, socket, extensionVars>>

\* A stop that a takeover waited for is rejected: createViewerTicket throws.
StopTimesOut(r) ==
  /\ r \in pending /\ r.op = "stop"
  /\ pending' = pending \ {r}
  /\ takeover' = IF takeover = r.id THEN None ELSE takeover
  /\ UNCHANGED <<session, generation, client, greeted, revision, requests, resolved, bound,
                 wireVars, extensionVars>>

\* The acknowledgement is uncertain: the media is stopped and the Session fails.
ReplacementTimesOut(r) ==
  /\ r \in pending /\ r.op = "replace"
  /\ Over(pending \ {r})
  /\ UNCHANGED <<resolved, bound, toCore, losses, socket, extensionVars>>

-----------------------------------------------------------------------------
(* Core receives.                                                          *)

CoreHears(op) == toCore # <<>> /\ Head(toCore).op = op /\ toCore' = Tail(toCore)

\* Mutant: an answer resolves whatever stop of the Session is pending.
AnsweredBySession(m) == {r \in pending : r.id = m.id \/ r.op = "stop"}

\* Only the pending request of that identity is resolved; an answer to none is ignored.
Answered(m) == {r \in pending : r.id = m.id}

StoppedArrives ==
  /\ CoreHears("stopped")
  /\ LET hit == Answered(Head(toCore))
         commits == \E r \in hit : r.id = takeover
     IN /\ pending' = pending \ hit /\ resolved' = resolved \cup hit
        /\ IF commits
             THEN /\ generation' = generation + 1 /\ takeover' = None
                  /\ client' = "no" /\ greeted' = FALSE
             ELSE UNCHANGED <<generation, takeover, client, greeted>>
  /\ UNCHANGED <<session, revision, requests, bound, toExtension, losses, socket, extensionVars>>

ReplacedArrives ==
  /\ CoreHears("replaced")
  /\ LET hit == Answered(Head(toCore))
     IN pending' = pending \ hit /\ resolved' = resolved \cup hit
  /\ UNCHANGED <<session, generation, client, greeted, takeover, revision, requests, bound,
                 toExtension, losses, socket, extensionVars>>

ReplaceFailedArrives ==
  /\ CoreHears("replace_failed")
  /\ LET hit == Answered(Head(toCore))
     IN IF hit # {} /\ session = "open"
          THEN Over(pending \ hit)
          ELSE /\ pending' = pending \ hit
               /\ UNCHANGED <<session, generation, client, greeted, takeover, revision, requests, toExtension>>
  /\ UNCHANGED <<resolved, bound, losses, socket, extensionVars>>

StartFailedArrives ==
  /\ CoreHears("start_failed")
  /\ IF session = "open"
       THEN Over(pending)
       ELSE UNCHANGED <<session, generation, client, greeted, takeover, revision, requests, pending, toExtension>>
  /\ UNCHANGED <<resolved, bound, losses, socket, extensionVars>>

HelloArrives ==
  /\ CoreHears("hello")
  /\ greeted' = (greeted \/ (session = "open" /\ client = "started" /\ Head(toCore).generation = generation))
  /\ UNCHANGED <<session, generation, client, takeover, revision, requests, pending, resolved, bound,
                 toExtension, losses, socket, extensionVars>>

\* #removePeer: everything that waits for this socket is rejected.
CoreLosesSocket ==
  /\ bound /\ (socket => losses < MaxLosses)
  /\ losses' = IF socket THEN losses + 1 ELSE losses
  /\ bound' = FALSE /\ Lost /\ pending' = {}
  /\ IF Replacing /\ session = "open"
       THEN session' = "over" /\ client' = "no" /\ greeted' = FALSE
       ELSE UNCHANGED <<session, client, greeted>>
  /\ takeover' = None
  /\ UNCHANGED <<generation, revision, requests, resolved, socket, extensionVars>>

-----------------------------------------------------------------------------
(* The Extension.  stopPublisher retires the attempt and the Publisher,    *)
(* but not what already waits for getUserMedia.                            *)

Current(r) == publisher # None /\ publisher.id = r.publisher

Stopped(captures) ==
  /\ ready' = FALSE /\ attempt' = None /\ publisher' = None
  /\ live' = IF publisher = None THEN captures ELSE captures \ {publisher.stream}

Hears(op) == socket /\ toExtension # <<>> /\ Head(toExtension).op = op /\ toExtension' = Tail(toExtension)

ReadyArrives ==
  /\ Hears("peer_ready")
  /\ ready' = TRUE
  /\ publisher' = IF publisher = None THEN None
                  ELSE [publisher EXCEPT !.ready = TRUE, !.offer = IF @ = "no" THEN "making" ELSE @]
  /\ UNCHANGED <<coreVars, toCore, losses, socket, attempt, starts, replacements, stops, live>>

LeftArrives ==
  /\ Hears("peer_left")
  /\ Stopped(live)
  /\ UNCHANGED <<coreVars, toCore, losses, socket, starts, replacements, stops>>

\* Mutant: the old Publisher is stopped first, and with it the readiness.
KeptTooLate == FALSE

\* beginPublisherStart: the readiness of the pairing is kept for this attempt.
Kept == ready

StartArrives ==
  /\ Hears("start")
  /\ ready' = FALSE /\ publisher' = None
  /\ live' = IF publisher = None THEN live ELSE live \ {publisher.stream}
  /\ attempt' = Head(toExtension).id
  /\ starts' = starts \cup {[id |-> Head(toExtension).id, generation |-> Head(toExtension).generation,
                             revision |-> Head(toExtension).revision, ready |-> Kept, step |-> "acquiring"]}
  /\ UNCHANGED <<coreVars, toCore, losses, socket, replacements, stops>>

\* Mutant: the token is not compared.
WantedAnyway(s) == TRUE

\* The token of the attempt decides whether the capture is still wanted.
Wanted(s) == attempt = s.id

PublisherOf(s) ==
  [id |-> s.id, generation |-> s.generation, revision |-> s.revision, stream |-> s.id, ready |-> s.ready,
   offer |-> IF s.ready THEN "making" ELSE "no", ice |-> "new", suspended |-> FALSE, enabled |-> TRUE,
   operations |-> <<>>]

\* acquireTabCapture: getUserMedia grants the capture that a start or a replacement
\* waits for, and its tracks run while their frame rate is lowered to the limit.
CaptureGranted(x) ==
  /\ x.step = "acquiring" /\ x.id \notin live
  /\ live' = live \cup {x.id}
  /\ UNCHANGED <<coreVars, wireVars, ready, attempt, starts, publisher, replacements, stops>>

\* It is acquired, at once where Core set no limit.
Acquired(s) ==
  /\ s \in starts /\ s.step = "acquiring"
  /\ IF Wanted(s)
       THEN /\ publisher' = PublisherOf(s) /\ live' = live \cup {s.id}
            /\ IF s.ready THEN /\ starts' = (starts \ {s}) \cup {[s EXCEPT !.step = "offering"]}
                               /\ UNCHANGED attempt
                          ELSE starts' = starts \ {s} /\ attempt' = None
       ELSE starts' = starts \ {s} /\ live' = live \ {s.id} /\ UNCHANGED <<publisher, attempt>>
  /\ UNCHANGED <<coreVars, wireVars, ready, replacements, stops>>

\* getUserMedia, the frame rate, createOffer or setLocalDescription fails, and the
\* capture ends; a retired attempt is not reported.
StartFails(s) ==
  /\ s \in starts
  /\ starts' = starts \ {s}
  /\ IF attempt = s.id
       THEN Stopped(live \ {s.id}) /\ Tell([op |-> "start_failed"])
       ELSE live' = live \ {s.id} /\ UNCHANGED <<ready, attempt, publisher, toCore>>
  /\ UNCHANGED <<coreVars, toExtension, losses, socket, replacements, stops>>

OfferMade ==
  /\ publisher # None /\ publisher.offer = "making"
  /\ publisher' = [publisher EXCEPT !.offer = "sent"]
  /\ starts' = {s \in starts : s.id # publisher.id}
  /\ attempt' = IF attempt = publisher.id THEN None ELSE attempt
  /\ UNCHANGED <<coreVars, wireVars, ready, replacements, stops, live>>

\* The Viewer answered and its data channel carries its hello.
Connects ==
  /\ publisher # None /\ publisher.offer = "sent" /\ publisher.ice \in {"new", "failed", "restarting"}
  /\ publisher' = [publisher EXCEPT !.ice = "connected"]
  /\ IF publisher.ice = "new" THEN Tell([op |-> "hello", generation |-> publisher.generation]) ELSE UNCHANGED toCore
  /\ UNCHANGED <<coreVars, toExtension, losses, socket, ready, attempt, starts, replacements, stops, live>>

IceFails ==
  /\ publisher # None /\ publisher.ice \in {"connected", "restarting"}
  /\ publisher' = [publisher EXCEPT !.ice = "failed"]
  /\ UNCHANGED <<coreVars, wireVars, ready, attempt, starts, replacements, stops, live>>

FailureTimer ==
  /\ publisher # None /\ publisher.ice = "failed"
  /\ Stopped(live)
  /\ UNCHANGED <<coreVars, wireVars, starts, replacements, stops>>

RestartArrives ==
  /\ Hears("restart_ice")
  /\ publisher' = IF publisher # None /\ publisher.offer = "sent" /\ publisher.ice \in {"connected", "failed"}
                    THEN [publisher EXCEPT !.ice = "restarting"] ELSE publisher
  /\ UNCHANGED <<coreVars, toCore, losses, socket, ready, attempt, starts, replacements, stops, live>>

StopArrives ==
  /\ Hears("stop")
  /\ stops' = stops \cup {[id |-> Head(toExtension).id,
        waits |-> ({attempt} \ {None}) \cup {r.id : r \in {x \in replacements : Current(x)}}]}
  /\ Stopped(live)
  /\ UNCHANGED <<coreVars, toCore, losses, socket, starts, replacements>>

\* The acknowledgement waits until what the stop retired has let go of its capture.
Settled(t) == t.waits \cap {x.id : x \in starts \cup replacements} = {}

StopAcknowledged(t) ==
  /\ t \in stops /\ Settled(t)
  /\ stops' = stops \ {t} /\ Tell([op |-> "stopped", id |-> t.id])
  /\ UNCHANGED <<coreVars, toExtension, losses, socket, ready, captureVars>>

\* withPublisherMedia: one operation after the other.
SuspensionArrives ==
  /\ \/ Hears("suspend") \/ Hears("resume")
  /\ publisher' = IF publisher = None THEN None
                  ELSE [publisher EXCEPT !.operations = Append(@, Head(toExtension))]
  /\ UNCHANGED <<coreVars, toCore, losses, socket, ready, attempt, starts, replacements, stops, live>>

Operates(op) == publisher # None /\ publisher.operations # <<>> /\ Head(publisher.operations).op = op

SuspensionApplied ==
  /\ \E op \in {"suspend", "resume"} : Operates(op)
  /\ LET suspended == Head(publisher.operations).op = "suspend"
     IN \/ /\ publisher' = [publisher EXCEPT !.suspended = suspended, !.enabled = ~suspended,
                                             !.operations = Tail(@)]
           /\ UNCHANGED <<ready, attempt, live>>
        \/ Stopped(live)                     \* setParameters fails
  /\ UNCHANGED <<coreVars, wireVars, starts, replacements, stops>>

\* beginCaptureReplacement
Replaceable(m) ==
  /\ publisher # None /\ publisher.generation = m.generation
  /\ publisher.ice = "connected" /\ m.revision > publisher.revision
  /\ \A r \in replacements : r.publisher # publisher.id

ReplaceArrives ==
  /\ Hears("replace")
  /\ LET m == Head(toExtension)
     IN IF Replaceable(m)
          THEN /\ replacements' = replacements \cup {[id |-> m.id, publisher |-> publisher.id,
                     generation |-> m.generation, revision |-> m.revision, step |-> "queued"]}
               /\ publisher' = [publisher EXCEPT !.operations = Append(@, [op |-> "replace", id |-> m.id])]
               /\ UNCHANGED toCore
          ELSE /\ Tell([op |-> "replace_failed", id |-> m.id])
               /\ UNCHANGED <<replacements, publisher>>
  /\ UNCHANGED <<coreVars, losses, socket, ready, attempt, starts, stops, live>>

Ends(r) == replacements' = replacements \ {r}
Done == [publisher EXCEPT !.operations = Tail(@)]

\* An operation whose Publisher was retired before its turn ends without an answer.
ReplacementBegins(r) ==
  /\ r \in replacements /\ r.step = "queued"
  /\ IF Current(r)
       THEN /\ Operates("replace")
            /\ replacements' = (replacements \ {r}) \cup {[r EXCEPT !.step = "acquiring"]}
       ELSE Ends(r)
  /\ UNCHANGED <<coreVars, wireVars, ready, attempt, starts, publisher, stops, live>>

\* Acquired: a retired Publisher drops it, otherwise the senders are given the new tracks.
ReplacementAcquired(r) ==
  /\ r \in replacements /\ r.step = "acquiring"
  /\ IF Current(r)
       THEN /\ replacements' = (replacements \ {r}) \cup {[r EXCEPT !.step = "swapping"]}
            /\ live' = live \cup {r.id} /\ UNCHANGED toCore
       ELSE Ends(r) /\ Tell([op |-> "replace_failed", id |-> r.id]) /\ live' = live \ {r.id}
  /\ UNCHANGED <<coreVars, toExtension, losses, socket, ready, attempt, starts, publisher, stops>>

ReplacementCommits(r) ==
  /\ r \in replacements /\ r.step = "swapping" /\ Current(r)
  /\ publisher' = [Done EXCEPT !.stream = r.id, !.revision = r.revision, !.enabled = ~publisher.suspended]
  /\ live' = live \ {publisher.stream}
  /\ Ends(r) /\ Tell([op |-> "replaced", id |-> r.id])
  /\ UNCHANGED <<coreVars, toExtension, losses, socket, ready, attempt, starts, stops>>

\* Before the first sender is touched the old source survives, afterwards nothing does.
ReplacementFails(r) ==
  /\ r \in replacements /\ r.step \in {"acquiring", "swapping"}
  /\ Ends(r) /\ Tell([op |-> "replace_failed", id |-> r.id])
  /\ IF ~Current(r)
       THEN live' = live \ {r.id} /\ UNCHANGED <<ready, attempt, publisher>>
       ELSE \/ /\ publisher' = Done /\ live' = live \ {r.id}
               /\ UNCHANGED <<ready, attempt>>
            \/ r.step = "swapping" /\ Stopped(live \ {r.id})
  /\ UNCHANGED <<coreVars, toExtension, losses, socket, starts, stops>>

\* closeAllPublishers: readiness is forgotten with a Publisher or an attempt only.
ExtensionLosesSocket ==
  /\ socket /\ (bound => losses < MaxLosses)
  /\ losses' = IF bound THEN losses + 1 ELSE losses
  /\ socket' = FALSE /\ Lost
  /\ IF publisher # None \/ attempt # None THEN Stopped(live)
                                           ELSE UNCHANGED <<ready, attempt, publisher, live>>
  /\ UNCHANGED <<coreVars, starts, replacements, stops>>

\* runtime.bind; a socket Core still held is replaced, and what waits for it is left to its timer.
Rebinds ==
  /\ ~socket
  /\ socket' = TRUE /\ bound' = TRUE
  /\ UNCHANGED <<session, generation, client, greeted, takeover, revision, requests, pending, resolved,
                 toExtension, toCore, losses, extensionVars>>

-----------------------------------------------------------------------------
CoreStep ==
  \/ PeerReady \/ StartMedia \/ PeerLeaves \/ ReplaceMediaCapture \/ TakeoverStops \/ Closes
  \/ \E op \in {"suspend", "resume", "restart_ice"} : Forwards(op)
  \/ \E r \in pending : StopTimesOut(r) \/ ReplacementTimesOut(r)

CoreReceives ==
  \/ StoppedArrives \/ ReplacedArrives \/ ReplaceFailedArrives \/ StartFailedArrives
  \/ HelloArrives

ExtensionReceives ==
  \/ ReadyArrives \/ LeftArrives \/ StartArrives \/ StopArrives
  \/ SuspensionArrives \/ ReplaceArrives \/ RestartArrives

CaptureStep ==
  \/ \E x \in starts \cup replacements : CaptureGranted(x)
  \/ \E s \in starts : Acquired(s) \/ StartFails(s)
  \/ OfferMade

ReplacementStep ==
  \/ \E r \in replacements : ReplacementBegins(r) \/ ReplacementAcquired(r) \/ ReplacementCommits(r) \/ ReplacementFails(r)
  \/ SuspensionApplied

PeerStep == Connects \/ IceFails \/ FailureTimer
Acknowledges == \E t \in stops : StopAcknowledged(t)
SocketStep == CoreLosesSocket \/ ExtensionLosesSocket \/ Rebinds

Next ==
  \/ CoreStep \/ CoreReceives \/ ExtensionReceives \/ CaptureStep \/ ReplacementStep
  \/ PeerStep \/ Acknowledges \/ SocketStep

\* The sockets deliver, getUserMedia and WebRTC answer, and every wait ends.
Fairness ==
  /\ WF_vars(CoreReceives) /\ WF_vars(ExtensionReceives)
  /\ WF_vars(CaptureStep) /\ WF_vars(ReplacementStep) /\ WF_vars(Acknowledges)

Spec == Init /\ [][Next]_vars /\ Fairness

-----------------------------------------------------------------------------
(* Properties.                                                             *)

\* The tab is captured by the Publisher and by a replacement that swaps its
\* senders, and beside them only for a start or a replacement that still waits
\* for its capture: one that was acquired for a start, a stop or a departure too
\* late is released.
Serving == (IF publisher = None THEN {} ELSE {publisher.stream})
             \cup {r.id : r \in {x \in replacements : x.step = "swapping"}}
Awaited == {x.id : x \in {y \in starts \cup replacements : y.step = "acquiring"}}
CapturesAccounted == Serving \subseteq live /\ live \subseteq Serving \cup Awaited

\* When stopMedia resolves, nothing asked for before that stop publishes or
\* is being started, whatever stops timed out and were asked for again.
StopMeansStopped ==
  \A r \in resolved : r.op = "stop" =>
    /\ publisher = None \/ publisher.id > r.id
    /\ attempt = None \/ attempt > r.id

\* When replaceMediaCapture resolves, the Publisher shows that capture or a
\* later one, or was retired.
ReplacedMeansCaptured ==
  \A r \in resolved : r.op = "replace" =>
    publisher = None \/ publisher.id > r.id \/ publisher.stream >= r.id

\* A capture that is swapped in while the Viewer has suspended the Session
\* stays dark, and a resumed Session shows the capture it has now.
SuspensionHolds == publisher # None => publisher.enabled = ~publisher.suspended

\* A stop that reached the Extension is answered: what it waits for ends,
\* also a replacement whose turn never comes since its Publisher is gone.
StopsAnswered == \A i \in Ids : (\E t \in stops : t.id = i) ~> (\A t \in stops : t.id # i)

\* The pairing precedes the start of the media, which retires another
\* Publisher: the Viewer is offered the new one all the same, unless it leaves,
\* the start fails or is superseded, a stop is asked for, the socket is lost, or the late hello of
\* a Viewer that left passes for its own.
Expected == client = "started" /\ losses = 0 /\ ~greeted
            /\ \A i \in DOMAIN toExtension : toExtension[i].op # "stop"
OffersSettle ==
  (Expected /\ ready /\ toExtension # <<>> /\ Head(toExtension).op = "start")
    ~> (~Expected \/ (publisher # None /\ publisher.offer = "sent"))

\* The tab is captured for the Publisher alone, and dark while it is suspended.
Consistent == TypeOK /\ CapturesAccounted /\ SuspensionHolds

\* An acknowledgement means what it says, although a request that timed out is
\* repeated, and overtaken by the answer to the one before.
AnswersAreTrue == StopMeansStopped /\ ReplacedMeansCaptured

\* A stop is answered, and a paired Viewer is offered its media.
Settles == StopsAnswered /\ OffersSettle
=============================================================================
