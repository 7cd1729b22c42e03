----------------------------- MODULE CoreSession -----------------------------
(***************************************************************************)
(* A Remote Tab Session of packages/core: the RemoteTabSession of          *)
(* session.ts with the CoreSignalingClient it runs, from attachment to     *)
(* cleanup.  createViewerTicket replaces the Viewer in several awaits; a   *)
(* signaling client pairs, fails, is retried; control messages wait in the *)
(* control chain; close and failure end the Session.                       *)
(*                                                                         *)
(* The process is single threaded: an action is one run of the event loop  *)
(* up to the next await.  The state kept by a suspended call is its record *)
(* in calls; what the Extension was told and may still answer is media,    *)
(* inbox and replies.                                                      *)
(***************************************************************************)
EXTENDS Naturals, Sequences, FiniteSets

CONSTANTS
  MaxGeneration,   \* bound: Viewer generations the Embedder uses
  Slots,           \* bound: signaling clients alive at a time
  MaxChain,        \* bound: control messages waiting
  Concurrent,      \* the Embedder may overlap createViewerTicket calls
  MediaFaults,     \* what the Extension media runtime may do: "timeout", "disconnect"
  None

ASSUME CoreSessionAssumption ==
  /\ MaxGeneration \in Nat \ {0} /\ MaxChain \in Nat \ {0}
  /\ IsFiniteSet(Slots) /\ None \notin Slots
  /\ Concurrent \in BOOLEAN
  /\ MediaFaults \subseteq {"timeout", "disconnect"}

VARIABLES
  state,        \* RemoteTabStateMachine
  generation,   \* #viewerGeneration, 0 for undefined
  expired,      \* #viewerTicketExpiresAtMs has passed
  signaling,    \* #signaling
  clients,      \* per slot: a CoreSignalingClient
  retry,        \* the generation of #signalingRetryTimer, 0 if not armed
  calls,        \* suspended createViewerTicket calls
  chain,        \* #controlChain: what waits in it
  media,        \* generation whose publisher the Extension was last told to run
  inbox,        \* control messages the Viewers may still send
  replies,      \* media.suspension_changed replies under way
  mediaUp,      \* the media socket of the Extension is open
  termination,  \* how far #terminate is; "none" is ~#closed
  greeted       \* history: "yes" if a hello of this generation was accepted, "inherited"
                \* if the takeover that issued it left the Session served, else "no"

vars == <<state, generation, expired, signaling, clients, retry, calls, chain,
          media, inbox, replies, mediaUp, termination, greeted>>

\* What changes only by a takeover, only with the media runtime, ...
ticketVars == <<generation, expired, calls>>
mediaVars == <<media, inbox, replies, mediaUp>>

-----------------------------------------------------------------------------
\* The call that has read state and client and awaits the end of the old Viewer.
Retiring(call) == call.step \in {"drain", "stop"}

\* The state it has read.
Remembered == IF \E call \in calls : Retiring(call)
                THEN (CHOOSE call \in calls : Retiring(call)).from ELSE "none"

Lifecycle == INSTANCE SessionLifecycle
               WITH state <- state, generation <- generation, remembered <- Remembered,
                    MaxGeneration <- MaxGeneration

Generations == 1..MaxGeneration
NoClient == [gen |-> 0, phase |-> "none"]
Phases == {"connecting", "preparing", "up", "abandoned"}
Client == [gen : Generations, phase : Phases] \cup {NoClient}
Call == [gen : Generations, step : {"issue", "drain", "stop", "close"},
         prev : Slots \cup {None}, from : Lifecycle!States]
Suspended(g, step, prev, from) == [gen |-> g, step |-> step, prev |-> prev, from |-> from]
ViewerMessages(g) == {[kind |-> kind, gen |-> g] : kind \in {"hello", "suspend", "resume"}}
ChainItem == [kind : {"hello", "suspend", "resume", "drain"}, gen : Generations]

TypeOK ==
  /\ state \in Lifecycle!States
  /\ generation \in 0..MaxGeneration
  /\ expired \in BOOLEAN
  /\ signaling \in Slots \cup {None}
  /\ clients \in [Slots -> Client]
  /\ retry \in 0..MaxGeneration
  /\ calls \in SUBSET Call
  /\ chain \in Seq(ChainItem)
  /\ media \in 0..MaxGeneration
  /\ inbox \in SUBSET UNION {ViewerMessages(g) : g \in Generations}
  /\ replies \in SUBSET BOOLEAN
  /\ mediaUp \in BOOLEAN
  /\ termination \in {"none", "stopMedia", "closeSignaling", "closeTab", "retryable", "done"}
  /\ greeted \in {"no", "yes", "inherited"}

\* attachSession has returned: the tab is bound and the Session READY.
Init ==
  /\ state = "READY" /\ generation = 0 /\ expired = FALSE
  /\ signaling = None /\ clients = [c \in Slots |-> NoClient] /\ retry = 0
  /\ calls = {} /\ chain = <<>>
  /\ media = 0 /\ inbox = {} /\ replies = {} /\ mediaUp = TRUE
  /\ termination = "none" /\ greeted = "no"

-----------------------------------------------------------------------------
Closed == termination # "none"

\* Mutant: the identity of the client is not compared.
AnyClientCurrent(c) == ~Closed /\ c \in Slots

\* Mutant: a closed Session still follows its client.
CurrentWhenClosed(c) == signaling = c

\* The guard this.#closed || this.#signaling !== signaling, negated.
Current(c) == ~Closed /\ signaling = c

Negotiating == state \in {"NEGOTIATING", "RECONNECTING"}
Served == state \in {"CONNECTED", "SUSPENDED"}
Open(c) == clients[c].phase \in {"connecting", "preparing", "up"}
Paired(c) == clients[c].phase \in {"preparing", "up"}

MoveTo(s) == state' = s
MoveIfLegal(s) == state' = IF Lifecycle!CanTransition(state, s) THEN s ELSE state

\* CoreSignalingClient.close.  A capture being prepared goes on without it.
CloseClient(c) ==
  clients' = [d \in Slots |->
                IF d # c THEN clients[d]
                ELSE IF clients[d].phase = "preparing"
                       THEN [clients[d] EXCEPT !.phase = "abandoned"] ELSE NoClient]

\* #terminate with the part of #cleanup before its first await.
Terminate(s) ==
  /\ MoveIfLegal(s)
  /\ retry' = 0
  /\ termination' = "stopMedia"

\* #fail: while a termination runs, or after it, nothing happens.
Fail == ~Closed /\ Terminate("FAILED")

\* Mutant: the stop is acknowledged before what is under way has been sent.
StopAcknowledgedEarly ==
  /\ inbox' = inbox \cap (IF media = 0 THEN {} ELSE ViewerMessages(media))
  /\ UNCHANGED <<media, mediaUp, replies>>

\* What the media runtime sends no more once it has acknowledged a stop.
StopAcknowledged ==
  /\ inbox' = inbox \cap (IF media = 0 THEN {} ELSE ViewerMessages(media))
  /\ replies' = {}
  /\ UNCHANGED <<media, mediaUp>>

\* #finishNegotiationFailure
FinishNegotiationFailure == state' = IF Negotiating THEN "READY" ELSE state

\* A slot no client and no suspended call refers to.
Free(c) == clients[c].phase = "none" /\ c # signaling /\ \A call \in calls : call.prev # c

\* #startNegotiation
StartNegotiation(g) ==
  IF Closed \/ generation # g \/ expired
    THEN FinishNegotiationFailure /\ UNCHANGED <<signaling, clients>>
    ELSE \E c \in Slots :
           /\ Free(c)
           /\ clients' = [clients EXCEPT ![c] = [gen |-> g, phase |-> "connecting"]]
           /\ signaling' = c
           /\ UNCHANGED state

-----------------------------------------------------------------------------
(* createViewerTicket *)

Ticketable == {"READY", "NEGOTIATING", "CONNECTED", "SUSPENDED", "RECONNECTING"}

\* createViewerTicket up to the await of the issuer.
RequestTicket(g) ==
  /\ state \in Ticketable /\ g > generation
  /\ Concurrent \/ calls = {}
  /\ \A call \in calls : call.gen # g
  /\ calls' = calls \cup {Suspended(g, "issue", None, "READY")}
  /\ UNCHANGED <<state, generation, expired, signaling, clients, retry, chain, mediaVars,
                 termination, greeted>>

\* The call ends by throwing.
CallRejected(call) ==
  /\ calls' = calls \ {call}
  /\ UNCHANGED <<state, generation, expired, signaling, clients, retry, chain, mediaVars,
                 termination, greeted>>

IssueFails(call) == call \in calls /\ call.step = "issue" /\ CallRejected(call)

\* Mutant: a suspended Session is not taken to negotiation.
TakeoverStateIgnoringSuspended(from) ==
  CASE from = "READY" -> "NEGOTIATING"
    [] from = "CONNECTED" -> "RECONNECTING"
    [] OTHER -> from

\* What the state becomes, from what it was before the awaits.
TakeoverState(from) ==
  CASE from = "READY" -> "NEGOTIATING"
    [] from \in {"CONNECTED", "SUSPENDED"} -> "RECONNECTING"
    [] OTHER -> from

\* From the commit of the new generation to the await of the old client's
\* close.  A transition that is not legal throws: the generation stays, the
\* old client is not closed.
Commit(call, prev, from) ==
  LET next == TakeoverState(from)
      legal == next = from \/ Lifecycle!CanTransition(state, next)
  IN /\ generation' = call.gen
     /\ expired' = FALSE
     /\ signaling' = None
     /\ IF legal
          THEN /\ state' = IF next = from THEN state ELSE next
               /\ calls' = (calls \ {call}) \cup {Suspended(call.gen, "close", prev, "READY")}
               /\ CloseClient(prev)
          ELSE /\ calls' = calls \ {call}
               /\ UNCHANGED <<state, clients>>
     /\ greeted' = IF Served' THEN "inherited" ELSE "no"

\* The issuer has answered: the retry timer is cancelled, the state and the
\* client are remembered.  The first generation has nobody to replace.
TicketIssued(call) ==
  /\ call \in calls /\ call.step = "issue"
  /\ retry' = 0
  /\ IF generation = 0
       THEN Commit(call, signaling, state) /\ UNCHANGED chain
       ELSE /\ calls' = (calls \ {call}) \cup {Suspended(call.gen, "drain", signaling, state)}
            /\ chain' = Append(chain, [kind |-> "drain", gen |-> call.gen])
            /\ UNCHANGED <<state, generation, expired, signaling, clients, greeted>>
  /\ UNCHANGED <<mediaVars, termination>>

\* The file flow of the old Viewer is cancelled: stopMedia is sent, or throws.
Drained(g) ==
  /\ \E call \in calls :
       /\ call.gen = g /\ call.step = "drain"
       /\ calls' = (calls \ {call}) \cup (IF mediaUp THEN {Suspended(g, "stop", call.prev, call.from)} ELSE {})
  /\ media' = 0
  /\ UNCHANGED <<state, generation, expired, signaling, clients, retry, inbox, replies, mediaUp,
                 termination, greeted>>

\* The Extension acknowledged the stop.
MediaStopped(call) ==
  /\ call \in calls /\ call.step = "stop" /\ mediaUp
  /\ Commit(call, call.prev, call.from)
  /\ StopAcknowledged
  /\ UNCHANGED <<retry, chain, termination>>

StopFails(call) ==
  /\ "timeout" \in MediaFaults /\ call \in calls /\ call.step = "stop"
  /\ CallRejected(call)

\* The old client is closed: negotiation starts unless the Session closed.
FinishTakeover(call) ==
  /\ call \in calls /\ call.step = "close"
  /\ calls' = calls \ {call}
  /\ IF Closed THEN UNCHANGED <<state, signaling, clients>> ELSE StartNegotiation(call.gen)
  /\ UNCHANGED <<generation, expired, retry, chain, mediaVars, termination, greeted>>

TicketExpires ==
  /\ generation # 0 /\ ~expired
  /\ expired' = TRUE
  /\ UNCHANGED <<state, generation, signaling, clients, retry, calls, chain, mediaVars,
                 termination, greeted>>

-----------------------------------------------------------------------------
(* Signaling *)

RetryFires ==
  /\ retry # 0
  /\ retry' = 0
  /\ StartNegotiation(retry)
  /\ UNCHANGED <<ticketVars, chain, mediaVars, termination, greeted>>

\* connect resolves: both signal.ready and signal.peer-ready are in.  A client
\* that is not the Session's any more just stays.
ClientPaired(c) ==
  /\ clients[c].phase = "connecting"
  /\ clients' = [clients EXCEPT ![c].phase = IF Current(c) /\ mediaUp THEN "preparing" ELSE "up"]
  /\ IF Current(c) /\ ~mediaUp
       THEN Fail
       ELSE UNCHANGED <<state, retry, termination>>
  /\ UNCHANGED <<ticketVars, signaling, chain, mediaVars, greeted>>

Preparing(c) == clients[c].phase \in {"preparing", "abandoned"}

CaptureSettled(c) ==
  clients' = [clients EXCEPT ![c] = IF @.phase = "abandoned" THEN NoClient
                                    ELSE [@ EXCEPT !.phase = "up"]]

\* prepareCapture resolves: startMedia.
CapturePrepared(c) ==
  /\ Preparing(c)
  /\ Current(c) => mediaUp
  /\ CaptureSettled(c)
  /\ IF Current(c)
       THEN media' = clients[c].gen /\ inbox' = inbox \cup ViewerMessages(clients[c].gen)
       ELSE UNCHANGED <<media, inbox>>
  /\ UNCHANGED <<state, ticketVars, signaling, retry, chain, replies, mediaUp, termination,
                 greeted>>

\* Mutant: a failure that may be retried is left to a timer nobody arms.
GiveUpOrWait(retryable) ==
  /\ media' = 0
  /\ IF retryable /\ ~expired THEN UNCHANGED state ELSE FinishNegotiationFailure
  /\ UNCHANGED <<retry, termination>>

\* #handleSignalingFailure of the current client, in a state that negotiates:
\* the media runtime forgets the Viewer, and the same generation is tried
\* again or the Session is ready for the next.
GiveUpOrRetry(retryable) ==
  /\ media' = 0
  /\ IF retryable /\ ~expired
       THEN retry' = generation /\ UNCHANGED state
       ELSE FinishNegotiationFailure /\ UNCHANGED retry
  /\ UNCHANGED termination

\* The client has failed by itself: socket lost, pairing timed out, an error
\* message, a protocol violation.
ClientFails(c, retryable) ==
  /\ Open(c)
  /\ CloseClient(c)
  /\ signaling' = IF Current(c) THEN None ELSE signaling
  /\ IF ~Current(c) \/ ~Negotiating
       THEN UNCHANGED <<state, retry, media, termination>>
       ELSE IF mediaUp THEN GiveUpOrRetry(retryable)
       ELSE Fail /\ UNCHANGED media
  /\ UNCHANGED <<ticketVars, chain, inbox, replies, mediaUp, greeted>>

\* #handleSignalingFailure comes to its last statement.
ClosedBehind(c) == Current(c) /\ (mediaUp \/ ~Negotiating)

\* prepareCapture or startMedia throws: the client itself is intact.  With the
\* media runtime gone the handler throws in its turn, into an unhandled
\* rejection (the process is taken to survive it).
CaptureFails(c, retryable) ==
  /\ Preparing(c)
  /\ signaling' = IF Current(c) THEN None ELSE signaling
  /\ IF ~Current(c) \/ ~Negotiating
       THEN UNCHANGED <<state, retry, media, termination>>
       ELSE IF mediaUp THEN GiveUpOrRetry(retryable)
       ELSE UNCHANGED <<state, retry, media, termination>>
  /\ IF ClosedBehind(c) THEN clients' = [clients EXCEPT ![c] = NoClient]
                        ELSE CaptureSettled(c)
  /\ UNCHANGED <<ticketVars, chain, inbox, replies, mediaUp, greeted>>

\* #handleViewerDeparture on signal.peer-left.
ViewerLeaves(c) ==
  /\ Paired(c) /\ Current(c)
  /\ signaling' = None
  /\ IF mediaUp
       THEN /\ retry' = 0
            /\ media' = 0
            /\ state' = CASE state \in {"NEGOTIATING", "RECONNECTING"} -> "READY"
                          [] state \in {"CONNECTED", "SUSPENDED"} -> "RECONNECTING"
                          [] OTHER -> state
            /\ CloseClient(c)
            /\ UNCHANGED termination
       ELSE Fail /\ UNCHANGED <<media, clients>>
  /\ UNCHANGED <<ticketVars, chain, inbox, replies, mediaUp, greeted>>

-----------------------------------------------------------------------------
(* Control messages *)

\* A frame of a Viewer reaches the Session: it is queued.  A Viewer says hello
\* once.
MessageArrives(m) ==
  /\ ~Closed /\ mediaUp /\ m \in inbox /\ Len(chain) < MaxChain
  /\ chain' = Append(chain, m)
  /\ inbox' = IF m.kind = "hello" THEN inbox \ {m} ELSE inbox
  /\ UNCHANGED <<state, ticketVars, signaling, clients, retry, media, replies, mediaUp,
                 termination, greeted>>

\* #handleControl passes the message to its case.
Admitted(m) ==
  /\ ~Closed /\ mediaUp /\ m.gen = generation
  /\ m.kind # "hello" => state # "NEGOTIATING"

\* What the case wants of the state.
Expected(m) ==
  CASE m.kind = "hello" -> Negotiating
    [] m.kind = "suspend" -> state = "CONNECTED"
    [] m.kind = "resume" -> state = "SUSPENDED"
    [] OTHER -> FALSE

Obey(m) ==
  /\ UNCHANGED <<retry, termination>>
  /\ IF m.kind = "hello"
       THEN MoveTo("CONNECTED") /\ greeted' = "yes" /\ UNCHANGED replies
       ELSE /\ replies' = IF media # 0 THEN replies \cup {m.kind = "suspend"} ELSE replies
            /\ UNCHANGED <<state, greeted>>

\* An error answer, fatal when it cannot be sent; nothing once closed.
Refuse ==
  /\ IF ~Closed /\ ~mediaUp THEN Fail ELSE UNCHANGED <<state, retry, termination>>
  /\ UNCHANGED <<greeted, replies>>

\* The head of the control chain is handled.
HandleControl ==
  /\ chain # <<>>
  /\ chain' = Tail(chain)
  /\ IF Head(chain).kind = "drain" THEN Drained(Head(chain).gen)
     ELSE /\ IF Admitted(Head(chain)) /\ Expected(Head(chain)) THEN Obey(Head(chain)) ELSE Refuse
          /\ UNCHANGED <<ticketVars, signaling, clients, media, inbox, mediaUp>>

\* #handleMediaSignal of suspension-changed: the reply names no generation.
SuspensionChanged(suspended) ==
  /\ ~Closed /\ mediaUp /\ suspended \in replies
  /\ replies' = replies \ {suspended}
  /\ MoveIfLegal(IF suspended THEN "SUSPENDED" ELSE "CONNECTED")
  /\ UNCHANGED <<ticketVars, signaling, clients, retry, chain, media, inbox, mediaUp,
                 termination, greeted>>

-----------------------------------------------------------------------------
(* The media runtime, failure and cleanup *)

\* The media socket closes: pending stops are rejected, the publisher is gone.
MediaDisconnects ==
  /\ "disconnect" \in MediaFaults /\ mediaUp
  /\ mediaUp' = FALSE /\ media' = 0 /\ inbox' = {} /\ replies' = {}
  /\ calls' = {call \in calls : call.step # "stop"}
  /\ UNCHANGED <<state, generation, expired, signaling, clients, retry, chain, termination,
                 greeted>>

MediaReturns ==
  /\ ~mediaUp /\ mediaUp' = TRUE
  /\ UNCHANGED <<state, ticketVars, signaling, clients, retry, chain, media, inbox, replies,
                 termination, greeted>>

\* media.start_failed, the end of the main window's capture, an unexpected
\* error: #fail.
SessionFails ==
  /\ Fail
  /\ UNCHANGED <<ticketVars, signaling, clients, chain, mediaVars, greeted>>

\* close, also again after a cleanup that did not finish.
Close ==
  /\ termination \in {"none", "retryable"}
  /\ Terminate("CLOSING")
  /\ UNCHANGED <<ticketVars, signaling, clients, chain, mediaVars, greeted>>

\* stopMedia has been answered, or failed: the current client is closed.
CleanupStopsMedia ==
  /\ termination = "stopMedia"
  /\ media' = 0 /\ inbox' = {} /\ replies' = {}
  /\ CloseClient(signaling)
  /\ termination' = "closeSignaling"
  /\ UNCHANGED <<state, ticketVars, signaling, retry, chain, mediaUp, greeted>>

CleanupSignalingClosed ==
  /\ termination = "closeSignaling"
  /\ signaling' = None
  /\ termination' = "closeTab"
  /\ UNCHANGED <<state, ticketVars, clients, retry, chain, mediaVars, greeted>>

\* The tab and the Session storage are closed, or that fails and close may be
\* tried again.
CleanupEnds(succeeds) ==
  /\ termination = "closeTab"
  /\ termination' = IF succeeds THEN "done" ELSE "retryable"
  /\ IF succeeds THEN MoveIfLegal("CLOSED") ELSE UNCHANGED state
  /\ UNCHANGED <<ticketVars, signaling, clients, retry, chain, mediaVars, greeted>>

-----------------------------------------------------------------------------
CallStep(call) ==
  \/ IssueFails(call) \/ TicketIssued(call) \/ MediaStopped(call) \/ StopFails(call)
  \/ FinishTakeover(call)

ClientStep(c) ==
  \/ ClientPaired(c) \/ CapturePrepared(c) \/ ViewerLeaves(c)
  \/ \E retryable \in BOOLEAN : ClientFails(c, retryable) \/ CaptureFails(c, retryable)

Next ==
  \/ \E g \in Generations : RequestTicket(g)
  \/ \E call \in calls : CallStep(call)
  \/ TicketExpires \/ RetryFires
  \/ \E c \in Slots : ClientStep(c)
  \/ \E m \in inbox : MessageArrives(m)
  \/ HandleControl
  \/ \E suspended \in BOOLEAN : SuspensionChanged(suspended)
  \/ MediaDisconnects \/ MediaReturns
  \/ SessionFails \/ Close
  \/ CleanupStopsMedia \/ CleanupSignalingClosed
  \/ \E succeeds \in BOOLEAN : CleanupEnds(succeeds)

Spec == Init /\ [][Next]_vars

\* Sockets close, timers fire, the control chain and the requests to the
\* Extension settle (requestTimeoutMs), hooks return.  The ticket issuer may
\* never answer, the Viewer may never come, the Embedder may never close.
Fairness ==
  /\ WF_vars(TicketExpires) /\ WF_vars(RetryFires)
  /\ WF_vars(HandleControl)
  /\ \A c \in Slots :
       /\ WF_vars(clients[c].phase = "connecting" /\ \E r \in BOOLEAN : ClientFails(c, r))
       /\ WF_vars(CapturePrepared(c) \/ \E r \in BOOLEAN : CaptureFails(c, r))
  /\ WF_vars(\E call \in calls : MediaStopped(call) \/ StopFails(call))
  /\ WF_vars(\E call \in calls : FinishTakeover(call))
  /\ WF_vars(CleanupStopsMedia) /\ WF_vars(CleanupSignalingClosed)
  /\ WF_vars(\E succeeds \in BOOLEAN : CleanupEnds(succeeds))

FairSpec == Spec /\ Fairness

-----------------------------------------------------------------------------
(* Safety *)

\* The Session implements its lifecycle, whatever the retiring Viewer does while
\* a takeover awaits its end: the state moves along LEGAL_TRANSITIONS, generations
\* grow, a takeover that finds the state it remembers takes the Session to
\* negotiation with the same step, and one that was overtaken moves it legally or
\* not at all (createViewerTicket; one call at a time).
ImplementsLifecycle == Lifecycle!Spec

\* A Session becomes CONNECTED or SUSPENDED only for a generation that has said
\* hello: no late message, and no late reply of the media runtime, which names no
\* generation, brings the Viewer of an earlier one back.  What a takeover left
\* served is told apart as inherited (#acceptHello, createViewerTicket,
\* #handleMediaSignal).
ServedIsGreeted == Served => greeted # "no"

\* #signaling is a client that has not failed, and it negotiates for the
\* current generation (#startNegotiation, createViewerTicket).
SignalingCurrent ==
  ~Closed /\ signaling # None => Open(signaling) /\ clients[signaling].gen = generation

\* What a Session holds belongs to its current generation: the client it listens
\* to, and the Viewer that serves it.
Consistent == TypeOK /\ SignalingCurrent /\ ServedIsGreeted

\* A publisher is started for the generation that is current at that moment or
\* not at all, however many clients and takeovers came and went while its capture
\* was prepared (#startNegotiation).
PublishesCurrent == [][media' \in {0, media, generation}]_vars

\* Once #closed is set nothing is started: no client, no publisher, no retry,
\* whatever was suspended at that moment.
ClosedStartsNothing ==
  [][Closed =>
       /\ \A c \in Slots : Open(c)' => Open(c)
       /\ media' \in {0, media}
       /\ retry' = 0]_vars

-----------------------------------------------------------------------------
(* What the documents say of a takeover and the code does not do.  session.cfg *)
(* checks none of these: TLC refutes each when it is added there, GenerationGrows *)
(* with Concurrent = TRUE (README.md, "Where the code departs from its documents"). *)

\* Issuing a generation takes the Session to negotiation, from the state it is
\* in: the state createViewerTicket read before its awaits is not looked at again
\* (docs/design/03-embedding-api.md: "enters RECONNECTING").
TakeoverNegotiates == [][generation' # generation => state' = Lifecycle!NegotiatesIn(state)]_vars

\* A Session serves only a Viewer that has said hello with the current generation
\* (docs/design/06-signaling-and-ice.md: issuing a ticket invalidates the control
\* frames of the previous generation).
ConnectedIsGreeted == Served => greeted = "yes"

\* A Session that negotiates is served again only by a hello, not by a late reply
\* of the media runtime (docs/design/02-architecture.md: "authorized reconnect").
ServedByHello ==
  [][Negotiating /\ Served' => chain # <<>> /\ Head(chain).kind = "hello"]_vars

\* A Viewer generation is never taken back by an older one: the check is made
\* before the awaits, the assignment after them (createViewerTicket).
GenerationGrows == [][generation' >= generation]_vars

\* Between takeovers the Extension publishes for the current generation only: a
\* capture that was prepared for the old one is not started after its stop
\* (docs/design/13-phase-3-lifecycle.md: the old publisher is gone before the
\* capture of the successor is asked for).
MediaServesCurrent == calls = {} => media \in {0, generation}

\* While the client of the current generation negotiates, the Session does too:
\* no retry of an older generation takes it to READY (#scheduleSignalingRetry;
\* docs/design/03-embedding-api.md: it remains NEGOTIATING until its ticket expires).
NegotiationKept ==
  [][Negotiating /\ signaling # None /\ UNCHANGED <<signaling, clients>>
       => state' # "READY"]_vars

\* A Session without a client does not negotiate beyond its ticket: the expiry
\* returns it to READY, also after a takeover that cancelled the retry and failed
\* (docs/design/03-embedding-api.md).
ExpiryEndsNegotiation ==
  state = "NEGOTIATING" /\ signaling = None /\ expired ~>
    state # "NEGOTIATING" \/ ~expired \/ calls # {}

(* Liveness *)

\* A negotiation that is under way, or that a retry will take up again, never
\* hangs in Core: it ends, or pairs, or a takeover is about to replace it.
NegotiationSettles ==
  state = "NEGOTIATING" /\ (signaling # None \/ retry # 0) ~>
    \/ state # "NEGOTIATING"
    \/ signaling # None /\ Paired(signaling)
    \/ calls # {}

\* A Session that is closing is closed, or its Embedder is told to try again.
CloseSettles == Closed ~> termination \in {"retryable", "done"}

\* Neither a negotiation nor a close hangs in Core.
SessionSettles == NegotiationSettles /\ CloseSettles
=============================================================================
