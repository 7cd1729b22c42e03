----------------------------- MODULE ViewerRequests -----------------------------
(* What Core and a Viewer ask each other over the reliable control channel      *)
(* (session.ts, notice-requests.ts, remote-tab-client.ts): notices that Core    *)
(* wants answered, confirmations of pages that are opened on the Viewer's       *)
(* device, navigations, and quality configurations that Extension applies.      *)
(* Every request has an identifier and its own timer.                           *)
(*                                                                              *)
(* What a Viewer sends waits in #controlChain, whose head may await a hook of   *)
(* the Embedder or the answer to a notice; answers to notices go round it.      *)
(* The limit of ten notices a minute only refuses requests and is left out.     *)
EXTENDS Naturals, Sequences, FiniteSets, SequencesExt

CONSTANTS
    Notices, Opens, Navigations, Configs,   \* the requests that may be made
    MaxPending,                             \* pending notices; also what a Viewer holds
    MaxChain,                               \* bound: what is queued while the chain is shorter
    MaxGeneration,                          \* bound: Viewer generations
    MaxRequests,                            \* bound: requests made in a behaviour
    None

ASSUME RequestsAssumption ==
    /\ {MaxPending, MaxChain, MaxGeneration, MaxRequests} \subseteq Nat \ {0}
    /\ IsFiniteSet(Notices)
    /\ None \notin Notices \cup Opens \cup Navigations \cup Configs
    /\ Configs \cap (Notices \cup Opens \cup Navigations) = {}

VARIABLES
    generation,   \* #viewerGeneration
    phase,        \* the state of the Session, as far as requests see it
    takeover,     \* progress of createViewerTicket
    control,      \* #noticeControlAvailable
    granted,      \* the capabilities of this module, granted together
    chain,        \* #controlChain
    step,         \* what its head awaits
    confirming,   \* the notice it awaits
    notices,      \* NoticeRequests: #pending, and how each request ended
    opens,        \* #pendingLocalOpenRequests
    requests,     \* #qualityRequests: the generation of each
    media,        \* configurations Extension is still to answer
    linked,       \* a Viewer of this generation holds the channel
    viewer,       \* what that Viewer has: capabilities, prompts, pending configuration
    replies,      \* answers to notices under way, with the generation they carry
    down,         \* Core's messages under way
    asker,        \* history: the generation that asked for a navigation or configuration
    applied,      \* history: the configurations Extension applied
    outcome       \* history: what the callers of configureQuality() were told

sessionVars == <<generation, phase, takeover, control, granted>>
chainVars == <<chain, step, confirming>>
coreVars == <<notices, opens, requests>>
viewerVars == <<linked, viewer, replies>>
historyVars == <<asker, applied, outcome>>
vars == <<sessionVars, chainVars, coreVars, media, viewerVars, down, historyVars>>

Generations == 1..MaxGeneration
Asked == Navigations \cup Configs
Cancellations == {"expired", "cancelled", "viewer-replaced", "connection-lost",
                  "capability-revoked", "session-closed"}
NoViewer == [granted |-> "unknown", shown |-> {}, opens |-> {}, config |-> None]

Upward == [type : {"hello", "navigate", "configure", "openResult", "open", "drain"},
           id : Opens \cup Asked \cup {None}, generation : Generations]
Downward == [type : {"accepted", "acceptedWithout", "capabilities", "error", "notice", "cancel", "openRequest",
                     "navigationResult", "configured", "configureFailed"},
             id : Notices \cup Opens \cup Asked \cup {None}]

TypeOK ==
    /\ generation \in Generations
    /\ phase \in {"negotiating", "active", "away", "closed"}
    /\ takeover \in {"no", "queued", "drained"}
    /\ {control, granted, linked} \subseteq BOOLEAN
    /\ chain \in Seq(Upward) /\ step \in {"start", "hook", "confirm"}
    /\ confirming \in Notices \cup {None}
    /\ notices \in [Notices -> {"new", "pending", "response"} \cup Cancellations]
    /\ opens \in [Opens -> {"new", "queued", "pending", "answered", "over"}]
    /\ requests \in [Configs -> 0..MaxGeneration]
    /\ media \in Seq(Configs \cup {None})
    /\ viewer \in [granted : {"unknown", "yes", "no"}, shown : SUBSET Notices,
                   opens : SUBSET Opens, config : Configs \cup {None}]
    /\ replies \in SUBSET [id : Notices, generation : Generations]
    /\ down \in Seq(Downward)
    /\ asker \in [Asked -> 0..MaxGeneration]
    /\ applied \in SUBSET Configs
    /\ outcome \in [Configs -> {"none", "asked", "resolved", "rejected"}]

Init ==
    /\ generation = 1 /\ phase = "negotiating" /\ takeover = "no"
    /\ control = FALSE /\ granted = TRUE
    /\ chain = <<>> /\ step = "start" /\ confirming = None
    /\ notices = [n \in Notices |-> "new"] /\ opens = [o \in Opens |-> "new"]
    /\ requests = [q \in Configs |-> 0] /\ media = <<>>
    /\ linked = FALSE /\ viewer = NoViewer /\ replies = {} /\ down = <<>>
    /\ asker = [a \in Asked |-> 0] /\ applied = {}
    /\ outcome = [q \in Configs |-> "none"]

-----------------------------------------------------------------------------
Closed == phase = "closed"
Message(type, id) == [type |-> type, id |-> id]

(* #send: what no Viewer holds the channel for is lost. *)
Send(ms) == down' = IF linked THEN down \o ms ELSE down

Room == Len(chain) < MaxChain
Up(type, id) ==
    /\ chain' = Append(chain, [type |-> type, id |-> id, generation |-> generation])
    /\ UNCHANGED <<step, confirming>>

(* #requireActiveCapability *)
Active == phase = "active" /\ granted

(* The checks of #handleControl before a message is looked at *)
MayServe(m) == m.generation = generation /\ phase # "negotiating"

(* How many requests were made *)
More == Cardinality({n \in Notices : notices[n] # "new"}) + Cardinality({o \in Opens : opens[o] # "new"})
          + Cardinality({a \in Asked : asker[a] # 0}) < MaxRequests

Pending == {n \in Notices : notices[n] = "pending"}

(* #finish for each of some notices *)
Finish(ns, reason) == notices' = [n \in Notices |-> IF n \in ns THEN reason ELSE notices[n]]
Cancels(ns) == [i \in 1..Cardinality(ns) |-> Message("cancel", SetToSeq(ns)[i])]

(* #cancelLocalOpenRequests *)
OpensCancelled == [o \in Opens |-> IF opens[o] = "pending" THEN "over" ELSE opens[o]]

-----------------------------------------------------------------------------
(* Notices.                                                                     *)

(* requestNotice() *)
Askable == Active /\ control /\ Cardinality(Pending) < MaxPending

Ask(n) ==
    /\ notices[n] = "new" /\ More /\ Askable
    /\ notices' = [notices EXCEPT ![n] = "pending"]
    /\ Send(<<Message("notice", n)>>)

RequestNotice(n) ==
    /\ Ask(n)
    /\ UNCHANGED <<sessionVars, chainVars, opens, requests, media, viewerVars, historyVars>>

NoticeExpires(n) ==
    /\ n \in Pending
    /\ Finish({n}, "expired")
    /\ Send(Cancels({n}))
    /\ UNCHANGED <<sessionVars, chainVars, opens, requests, media, viewerVars, historyVars>>

(* The caller's AbortSignal, or another window *)
NoticeAborted(n) ==
    /\ n \in Pending
    /\ Finish({n}, "cancelled")
    /\ Send(Cancels({n}))
    /\ UNCHANGED <<sessionVars, chainVars, opens, requests, media, viewerVars, historyVars>>

(* respondToNotice() *)
RespondToNotice(n) ==
    /\ linked /\ n \in viewer.shown
    /\ viewer' = [viewer EXCEPT !.shown = @ \ {n}]
    /\ replies' = replies \cup {[id |-> n, generation |-> generation]}
    /\ UNCHANGED <<sessionVars, chainVars, coreVars, media, linked, down, historyVars>>

(* notice.response does not wait in the chain.  One that crosses the end of its *)
(* request changes nothing; one that Core does not serve is an error.           *)
ResponseArrives(r) ==
    /\ r \in replies /\ ~Closed
    /\ replies' = replies \ {r}
    /\ IF MayServe(r) /\ Active
       THEN Finish({r.id} \cap Pending, "response") /\ UNCHANGED down
       ELSE Send(<<Message("error", None)>>) /\ UNCHANGED notices
    /\ UNCHANGED <<sessionVars, chainVars, opens, requests, media, linked, viewer, historyVars>>

-----------------------------------------------------------------------------
(* The Viewer.                                                                  *)

(* The next Viewer opens the channel and says hello. *)
ViewerConnects ==
    /\ phase = "negotiating" /\ ~linked /\ takeover = "no" /\ Room
    /\ \A i \in DOMAIN chain : chain[i].type # "hello"
    /\ linked' = TRUE
    /\ Up("hello", None)
    /\ UNCHANGED <<sessionVars, coreVars, media, viewer, replies, down, historyVars>>

Navigate(v) ==
    /\ linked /\ Room /\ viewer.granted # "unknown" /\ asker[v] = 0 /\ More
    /\ asker' = [asker EXCEPT ![v] = generation]
    /\ Up("navigate", v)
    /\ UNCHANGED <<sessionVars, coreVars, media, viewerVars, down, applied, outcome>>

Told(q, what) == outcome' = IF q = None THEN outcome ELSE [outcome EXCEPT ![q] = what]

(* configureQuality(); a request that waits is rejected in favour of the new one. *)
ConfigureQuality(q) ==
    /\ linked /\ Room /\ viewer.granted = "yes" /\ asker[q] = 0 /\ More
    /\ asker' = [asker EXCEPT ![q] = generation]
    /\ viewer' = [viewer EXCEPT !.config = q]
    /\ outcome' = [c \in Configs |-> IF c = q THEN "asked"
                                     ELSE IF c = viewer.config THEN "rejected" ELSE outcome[c]]
    /\ Up("configure", q)
    /\ UNCHANGED <<sessionVars, coreVars, media, linked, replies, down, applied>>

ConfigureTimeout ==
    /\ viewer.config # None
    /\ Told(viewer.config, "rejected")
    /\ viewer' = [viewer EXCEPT !.config = None]
    /\ UNCHANGED <<sessionVars, chainVars, coreVars, media, linked, replies, down, asker, applied>>

(* respondToLocalOpen() *)
RespondToOpen(o) ==
    /\ linked /\ Room /\ o \in viewer.opens
    /\ viewer' = [viewer EXCEPT !.opens = @ \ {o}]
    /\ Up("openResult", o)
    /\ UNCHANGED <<sessionVars, coreVars, media, linked, replies, down, historyVars>>

(* The Viewer's own timer for a prompt *)
PromptExpires(p) ==
    /\ p \in viewer.shown \cup viewer.opens
    /\ viewer' = [viewer EXCEPT !.shown = @ \ {p}, !.opens = @ \ {p}]
    /\ UNCHANGED <<sessionVars, chainVars, coreVars, media, linked, replies, down, historyVars>>

(* The transport is gone: prompts are closed, what was asked is rejected. *)
Unlink ==
    /\ linked' = FALSE /\ viewer' = NoViewer /\ down' = <<>>
    /\ Told(viewer.config, "rejected")

(* What fails the whole connection when it is received *)
Unacceptable(m) ==
    \/ /\ m.type = "notice"
       /\ \/ viewer.granted # "yes"
          \/ m.id \in viewer.shown
          \/ Cardinality(viewer.shown) >= MaxPending
    \/ m.type = "openRequest" /\ m.id \in viewer.opens
    \/ m.type = "configured" /\ viewer.granted # "yes"

(* Mutant: any configuration that Core reports settles what is pending. *)
ResolvesAny(m) == viewer.config # None

Resolves(m) == m.id # None /\ m.id = viewer.config

(* #handleControlMessage for each type *)
Received(m) ==
    CASE m.type = "accepted" -> [viewer EXCEPT !.granted = "yes"]
      [] m.type = "acceptedWithout" -> [viewer EXCEPT !.granted = "no"]
      [] m.type = "capabilities" -> [viewer EXCEPT !.granted = "no", !.config = None]
      [] m.type = "notice" -> [viewer EXCEPT !.shown = @ \cup {m.id}]
      [] m.type = "cancel" -> [viewer EXCEPT !.shown = @ \ {m.id}]
      [] m.type = "openRequest" -> [viewer EXCEPT !.opens = @ \cup {m.id}]
      [] m.type = "error" -> [viewer EXCEPT !.config = None]
      [] m.type \in {"configured", "configureFailed"} ->
            IF Resolves(m) THEN [viewer EXCEPT !.config = None] ELSE viewer
      [] OTHER -> viewer

ViewerReceives(m) ==
    /\ IF Unacceptable(m) THEN Unlink
       ELSE /\ viewer' = Received(m)
            /\ IF viewer.config # None /\ Received(m).config = None
               THEN Told(viewer.config, IF m.type = "configured" THEN "resolved" ELSE "rejected")
               ELSE UNCHANGED outcome
            /\ down' = Tail(down) /\ UNCHANGED linked
    /\ UNCHANGED <<sessionVars, chainVars, coreVars, media, replies, asker, applied>>

-----------------------------------------------------------------------------
(* Core, at the head of its chain.                                              *)

Head1 == Head(chain)
At(s) == chain # <<>> /\ step = s /\ ~Closed
HeadIs(type) == At("start") /\ Head1.type = type
Pop == chain' = Tail(chain) /\ step' = "start" /\ confirming' = None
Await(s) == step' = s /\ UNCHANGED chain

(* A stale generation, no handshake yet, or a state that does not allow it *)
HeadRefused ==
    /\ At("start") /\ Head1.type \in {"navigate", "configure", "openResult"}
    /\ \/ ~MayServe(Head1)
       \/ /\ Head1.type = "navigate"
          /\ phase # "active"
    /\ Send(<<Message(IF Head1.type = "configure" /\ Head1.generation = generation
                      THEN "configureFailed" ELSE "error",
                      IF Head1.type = "configure" /\ Head1.generation = generation
                      THEN Head1.id ELSE None)>>)
    /\ Pop
    /\ UNCHANGED <<sessionVars, coreVars, media, viewerVars, historyVars>>

(* #acceptHello; Core configures the quality it has on its own. *)
HelloServed ==
    /\ HeadIs("hello")
    /\ IF Head1.generation = generation /\ phase = "negotiating"
       THEN /\ phase' = "active" /\ control' = TRUE
            /\ Send(<<Message(IF granted THEN "accepted" ELSE "acceptedWithout", None)>>)
            /\ media' = IF granted THEN Append(media, None) ELSE media
       ELSE Send(<<Message("error", None)>>) /\ UNCHANGED <<phase, control, media>>
    /\ Pop
    /\ UNCHANGED <<generation, takeover, granted, coreVars, viewerVars, historyVars>>

(* #handleNavigation up to the hook *)
NavigationServed ==
    /\ HeadIs("navigate") /\ MayServe(Head1) /\ phase = "active"
    /\ Await("hook") /\ UNCHANGED confirming
    /\ UNCHANGED <<sessionVars, coreVars, media, viewerVars, down, historyVars>>

(* The hook has decided, and what it allowed was done. *)
NavigationEnds ==
    /\ At("hook") /\ Head1.type = "navigate"
    /\ Send(<<Message("navigationResult", Head1.id)>>)
    /\ Pop
    /\ UNCHANGED <<sessionVars, coreVars, media, viewerVars, historyVars>>

(* confirmNavigation() of the document that is loaded *)
NavigationConfirms(n) ==
    /\ At("hook") /\ Head1.type = "navigate"
    /\ Ask(n)
    /\ Await("confirm") /\ confirming' = n
    /\ UNCHANGED <<sessionVars, opens, requests, media, viewerVars, historyVars>>

(* Mutant: only an answer ends the confirmation. *)
ConfirmationEndsOnAnswer ==
    /\ At("confirm") /\ confirming \in Notices /\ notices[confirming] = "response"
    /\ Send(<<Message("navigationResult", Head1.id)>>)
    /\ Pop
    /\ UNCHANGED <<sessionVars, coreVars, media, viewerVars, historyVars>>

(* Confirmed or not, the navigation has its result. *)
ConfirmationEnds ==
    /\ At("confirm") /\ confirming \notin Pending
    /\ Send(<<Message("navigationResult", Head1.id)>>)
    /\ Pop
    /\ UNCHANGED <<sessionVars, coreVars, media, viewerVars, historyVars>>

(* #configureQuality *)
ConfigureServed ==
    /\ HeadIs("configure") /\ MayServe(Head1)
    /\ IF Active
       THEN /\ requests' = [requests EXCEPT ![Head1.id] = generation]
            /\ media' = Append(media, Head1.id)
            /\ UNCHANGED down
       ELSE Send(<<Message("configureFailed", Head1.id)>>) /\ UNCHANGED <<requests, media>>
    /\ Pop
    /\ UNCHANGED <<sessionVars, notices, opens, viewerVars, historyVars>>

(* The page opens a window that belongs on the Viewer's device. *)
PageOpens(o) ==
    /\ opens[o] = "new" /\ More /\ ~Closed /\ Room
    /\ opens' = [opens EXCEPT ![o] = "queued"]
    /\ Up("open", o)
    /\ UNCHANGED <<sessionVars, notices, requests, media, viewerVars, down, historyVars>>

(* #handleLocalOpenRequest up to the hook *)
OpenServed ==
    /\ HeadIs("open")
    /\ IF Active THEN Await("hook") /\ UNCHANGED <<confirming, opens>>
       ELSE Pop /\ opens' = [opens EXCEPT ![Head1.id] = "over"]
    /\ UNCHANGED <<sessionVars, notices, requests, media, viewerVars, down, historyVars>>

(* After the hook the state is looked at again, the capability is not. *)
OpenDecided(allowed) ==
    /\ At("hook") /\ Head1.type = "open"
    /\ IF allowed /\ phase = "active"
       THEN /\ opens' = [opens EXCEPT ![Head1.id] = "pending"]
            /\ Send(<<Message("openRequest", Head1.id)>>)
       ELSE opens' = [opens EXCEPT ![Head1.id] = "over"] /\ UNCHANGED down
    /\ Pop
    /\ UNCHANGED <<sessionVars, notices, requests, media, viewerVars, historyVars>>

OpenExpires(o) ==
    /\ opens[o] = "pending"
    /\ opens' = [opens EXCEPT ![o] = "over"]
    /\ UNCHANGED <<sessionVars, chainVars, notices, requests, media, viewerVars, down,
                   historyVars>>

(* #handleLocalOpenResult: what matches nothing pending is an error. *)
OpenAnswered ==
    /\ HeadIs("openResult") /\ MayServe(Head1)
    /\ IF opens[Head1.id] = "pending"
       THEN opens' = [opens EXCEPT ![Head1.id] = "answered"] /\ UNCHANGED down
       ELSE Send(<<Message("error", None)>>) /\ UNCHANGED opens
    /\ Pop
    /\ UNCHANGED <<sessionVars, notices, requests, media, viewerVars, historyVars>>

-----------------------------------------------------------------------------
(* Beside the chain.                                                            *)

(* Mutant: an answer is passed on without looking up its request. *)
MediaAnswersPassedOn(ok) ==
    /\ media # <<>> /\ ~Closed
    /\ media' = Tail(media)
    /\ applied' = IF ok /\ Head(media) # None THEN applied \cup {Head(media)} ELSE applied
    /\ Send(<<Message(IF ok THEN "configured" ELSE "configureFailed", Head(media))>>)
    /\ UNCHANGED <<sessionVars, chainVars, coreVars, viewerVars, asker, outcome>>

(* Extension applies configurations in turn, for a publisher that may be gone.  *)
(* Core passes an answer on to the Viewer that asked.                           *)
MediaAnswers(ok) ==
    /\ media # <<>> /\ ~Closed
    /\ LET q == Head(media) IN
       /\ media' = Tail(media)
       /\ applied' = IF ok /\ q # None THEN applied \cup {q} ELSE applied
       /\ IF q # None /\ requests[q] = generation /\ granted
          THEN /\ requests' = [requests EXCEPT ![q] = 0]
               /\ Send(<<Message(IF ok THEN "configured" ELSE "configureFailed", q)>>)
          ELSE /\ UNCHANGED requests
               /\ IF q = None /\ ok /\ granted /\ phase # "negotiating"
                  THEN Send(<<Message("configured", None)>>) ELSE UNCHANGED down
    /\ UNCHANGED <<sessionVars, chainVars, notices, opens, viewerVars, asker, outcome>>

(* updateCapabilities without any of these *)
Revoke ==
    /\ granted /\ phase = "active"
    /\ granted' = FALSE
    /\ LET failed == {q \in Configs : requests[q] = generation} IN
       Send([i \in 1..Cardinality(failed) |-> Message("configureFailed", SetToSeq(failed)[i])]
            \o Cancels(Pending) \o <<Message("capabilities", None)>>)
    /\ requests' = [q \in Configs |-> 0]
    /\ Finish(Pending, "capability-revoked")
    /\ UNCHANGED <<generation, phase, takeover, control, chainVars, opens, media, viewerVars,
                   historyVars>>

(* The transport of the Viewer is lost, or the Viewer goes. *)
ViewerGoes ==
    /\ linked
    /\ Unlink
    /\ UNCHANGED <<sessionVars, chainVars, coreVars, media, replies, asker, applied>>

(* media.control_closed *)
ControlCloses ==
    /\ ~linked /\ control /\ ~Closed
    /\ control' = FALSE
    /\ Finish(Pending, "connection-lost")
    /\ UNCHANGED <<generation, phase, takeover, granted, chainVars, opens, requests, media,
                   viewerVars, down, historyVars>>

(* #handleViewerDeparture *)
PeerLeft ==
    /\ ~linked /\ phase = "active"
    /\ phase' = "away"
    /\ Finish(Pending, "connection-lost")
    /\ opens' = OpensCancelled
    /\ UNCHANGED <<generation, takeover, control, granted, chainVars, requests, media,
                   viewerVars, down, historyVars>>

(* createViewerTicket cancels what is pending, then waits for the chain. *)
TakeoverStarts ==
    /\ takeover = "no" /\ generation < MaxGeneration /\ ~Closed
    /\ takeover' = "queued"
    /\ Finish(Pending, "viewer-replaced")
    /\ Send(Cancels(Pending))
    /\ opens' = OpensCancelled
    /\ Up("drain", None)
    /\ UNCHANGED <<generation, phase, control, granted, requests, media, viewerVars, historyVars>>

Drained ==
    /\ HeadIs("drain")
    /\ takeover' = "drained"
    /\ Pop
    /\ UNCHANGED <<generation, phase, control, granted, coreVars, media, viewerVars, down,
                   historyVars>>

(* The media has stopped and the generation changes. *)
ViewerReplaced ==
    /\ takeover = "drained" /\ ~Closed
    /\ generation' = generation + 1 /\ phase' = "negotiating" /\ takeover' = "no"
    /\ requests' = [q \in Configs |-> 0]
    /\ Unlink
    /\ UNCHANGED <<control, granted, chainVars, notices, opens, media, replies, asker, applied>>

(* #cleanup *)
Close ==
    /\ ~Closed
    /\ phase' = "closed"
    /\ Finish(Pending, "session-closed")
    /\ opens' = OpensCancelled
    /\ Unlink
    /\ UNCHANGED <<generation, takeover, control, granted, chainVars, requests, media, replies,
                   asker, applied>>

-----------------------------------------------------------------------------
Chain ==
    \/ HeadRefused \/ HelloServed \/ NavigationServed \/ NavigationEnds
    \/ \E n \in Notices : NavigationConfirms(n)
    \/ ConfirmationEnds \/ ConfigureServed
    \/ OpenServed \/ \E allowed \in BOOLEAN : OpenDecided(allowed)
    \/ OpenAnswered \/ Drained

Next ==
    \/ \E n \in Notices : RequestNotice(n) \/ NoticeExpires(n) \/ NoticeAborted(n)
                             \/ RespondToNotice(n)
    \/ \E r \in replies : ResponseArrives(r)
    \/ ViewerConnects \/ ViewerGoes
    \/ \E v \in Navigations : Navigate(v)
    \/ \E q \in Configs : ConfigureQuality(q)
    \/ ConfigureTimeout
    \/ \E o \in Opens : PageOpens(o) \/ OpenExpires(o) \/ RespondToOpen(o)
    \/ \E p \in Notices \cup Opens : PromptExpires(p)
    \/ down # <<>> /\ ViewerReceives(Head(down))
    \/ Chain
    \/ \E ok \in BOOLEAN : MediaAnswers(ok)
    \/ Revoke \/ ControlCloses \/ PeerLeft
    \/ TakeoverStarts \/ ViewerReplaced \/ Close

(* The chain goes on; the timers of the requests fire. *)
Fairness ==
    /\ WF_vars(Chain)
    /\ WF_vars(ConfigureTimeout)
    /\ \A n \in Notices : WF_vars(NoticeExpires(n))

Spec == Init /\ [][Next]_vars /\ Fairness

-----------------------------------------------------------------------------
(* Core never sends its Viewer what the Viewer answers by failing: a notice too *)
(* many, one it still shows, or the state of a capability it has lost.          *)
PromptsAreAcceptable == linked /\ down # <<>> => ~Unacceptable(Head(down))

(* The answer to a configuration reaches the Viewer that asked, and no          *)
(* successor, although Extension is awaited across takeovers.                   *)
AnswersReachTheirCaller ==
    \A i \in DOMAIN down : down[i].id \in Configs => asker[down[i].id] = generation

(* configureQuality() succeeds only for a configuration that was applied, and   *)
(* that no later request has replaced at the Viewer.                            *)
ResolvedMeansApplied == \A q \in Configs : outcome[q] = "resolved" => q \in applied

(* Whatever becomes of its Viewer, a request settles.                           *)
RequestsSettle ==
    /\ \A n \in Notices : notices[n] = "pending" ~> notices[n] # "pending"
    /\ \A q \in Configs : outcome[q] = "asked" ~> outcome[q] # "asked"

(* No decision that is waited for stops the commands behind it for good.        *)
CommandsGoOn == chain # <<>> ~> chain = <<>> \/ Closed

(* What the Viewer is shown and what its callers are told is so.                *)
Consistent == TypeOK /\ PromptsAreAcceptable /\ ResolvedMeansApplied

(* Neither a request nor the chain behind it waits for ever.                    *)
Settles == RequestsSettle /\ CommandsGoOn
=============================================================================
