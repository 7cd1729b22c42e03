------------------------------ MODULE ViewerClient ------------------------------
(* The connection of BrowserRemoteTabClient (packages/headless-client): the     *)
(* signaling socket, the peer connection and the reliable channel of one        *)
(* Viewer, the ICE restarts over a live socket, and the recovery that asks the  *)
(* Embedder for a new ticket when the transport is lost.                        *)
(*                                                                              *)
(* `client` is the object: one field per private field that decides something.  *)
(* A handler runs to its first await in one step.  The awaits are steps of      *)
(* their own: the delay and the provider of a recovery, and the answer to an    *)
(* offer.  Events of a socket or channel the client has replaced still arrive.  *)
(* A closed RTCPeerConnection dispatches nothing and settles no promise.        *)
EXTENDS Naturals

CONSTANTS
    MaxAttempts,        \* reconnect.maxAttempts; 0 for a client without a provider
    MaxRestarts,        \* iceRestart.maxAttempts
    MaxOffers,          \* bound: offers being answered at once
    ConnectAfterClose   \* whether connect() may be called on a client that was disconnected

ASSUME ViewerAssumption ==
    /\ MaxAttempts \in Nat
    /\ MaxRestarts \in Nat
    /\ MaxOffers \in Nat \ {0}
    /\ ConnectAfterClose \in BOOLEAN

VARIABLES
    client,     \* the fields of the object
    told        \* what Core last said on the reliable channel: hello.accepted or session.state

vars == <<client, told>>

Serving == {"CONNECTED", "SUSPENDED"}
Terminal == {"FAILED", "CLOSED"}
States == Serving \cup Terminal \cup {"ATTACHING", "NEGOTIATING", "RECONNECTING"}

ConnectStates == {"none", "pending", "resolved", "rejected"}
Recoveries == {"idle", "delay", "provider"}
IceTimers == {"off", "delay", "attempt"}
SocketStates == {"none", "connecting", "open", "closing"}
PeerStates == {"none", "new", "connecting", "connected", "disconnected", "failed", "closed"}
ChannelStates == {"none", "open", "closed"}
Targets == Serving \cup {"none"}

ClientFields ==
    [state : States,
     before : Serving,                  \* #stateBeforeRecovery
     connect : ConnectStates,
     connectedOnce : BOOLEAN,
     disconnecting : BOOLEAN,
     requesting : BOOLEAN,              \* #requestingReconnectCredentials
     recovery : Recoveries,             \* where that run is suspended
     awaiting : BOOLEAN,                \* #awaitingReconnectHandshake
     attempts : 0..MaxAttempts,
     restarts : 0..MaxRestarts,
     connTimer : BOOLEAN,
     iceTimer : IceTimers,
     socket : SocketStates,
     peer : PeerStates,
     offers : 0..MaxOffers,             \* offers whose answer is awaited
     channel : ChannelStates,           \* #reliableChannel
     pending : Targets,                 \* #pendingStateTransition
     window : BOOLEAN,                  \* #pendingWindow
     closing : SUBSET {"socket", "channel"}]    \* replaced, its close event still to come

TypeOK ==
    /\ client \in ClientFields
    /\ told \in Targets

Init ==
    /\ client = [state |-> "ATTACHING", before |-> "CONNECTED", connect |-> "none",
                 connectedOnce |-> FALSE, disconnecting |-> FALSE,
                 requesting |-> FALSE, recovery |-> "idle", awaiting |-> FALSE,
                 attempts |-> 0, restarts |-> 0, connTimer |-> FALSE, iceTimer |-> "off",
                 socket |-> "none", peer |-> "none", offers |-> 0, channel |-> "none",
                 pending |-> "none", window |-> FALSE, closing |-> {}]
    /\ told = "none"

-----------------------------------------------------------------------------
(* What the handlers call.  Each takes the object and returns it.               *)

(* #rejectPendingActions *)
RejectPending(c) == [c EXCEPT !.pending = "none", !.window = FALSE]

(* #cancelReconnectDelay: the suspended run resumes with false and gives up. *)
CancelDelay(c) ==
    IF c.recovery = "delay" THEN [c EXCEPT !.recovery = "idle", !.requesting = FALSE] ELSE c

(* Whose close event is now to come. *)
Closed(c) ==
    c.closing \cup (IF c.socket \in {"connecting", "open"} THEN {"socket"} ELSE {})
              \cup (IF c.channel = "open" THEN {"channel"} ELSE {})

(* #fail.  The socket and the peer are closed and stay referenced. *)
Fail(c) ==
    IF c.state \in Terminal THEN c
    ELSE [RejectPending(CancelDelay(c)) EXCEPT
            !.connTimer = FALSE, !.iceTimer = "off",
            !.requesting = FALSE, !.awaiting = FALSE, !.state = "FAILED",
            !.connect = IF @ = "pending" THEN "rejected" ELSE @,
            !.peer = IF @ = "none" THEN @ ELSE "closed",
            !.offers = 0,
            !.channel = IF @ = "none" THEN @ ELSE "closed",
            !.socket = IF @ = "none" THEN @ ELSE "closing"]

(* Mutant: the timers of the lost transport are left to it. *)
TeardownLeavesTimers(c) ==
    [c EXCEPT !.socket = "none", !.peer = "none", !.offers = 0, !.channel = "none",
              !.closing = Closed(c)]

(* #teardownTransport *)
Teardown(c) ==
    [c EXCEPT !.connTimer = FALSE, !.iceTimer = "off", !.socket = "none", !.peer = "none",
              !.offers = 0, !.channel = "none", !.closing = Closed(c)]

(* The state an ICE restart or a recovery is to come back to. *)
Remember(c) == IF c.state \in Serving THEN c.state ELSE c.before

(* #requestReconnectCredentials up to the delay *)
RequestCredentials(c) ==
    IF c.requesting \/ c.disconnecting THEN c
    ELSE IF c.attempts >= MaxAttempts THEN Fail(c)
    ELSE [Teardown(RejectPending(c)) EXCEPT
            !.requesting = TRUE, !.recovery = "delay", !.attempts = @ + 1,
            !.before = Remember(c), !.state = "RECONNECTING"]

(* #handleFailure *)
HandleFailure(c, retryable) ==
    IF c.state \in Terminal THEN c
    ELSE IF retryable /\ c.connectedOnce /\ MaxAttempts > 0 /\ ~c.disconnecting
         THEN RequestCredentials(c)
         ELSE Fail(c)

(* Mutant: the attempts start again with every socket. *)
OpenSignalingAnew(c) == [c EXCEPT !.socket = "connecting", !.connTimer = TRUE, !.attempts = 0]

(* #openSignaling *)
OpenSignaling(c) == [c EXCEPT !.socket = "connecting", !.connTimer = TRUE]

(* #requestIceRestart *)
RequestIceRestart(c) ==
    IF c.state \in Terminal \/ c.disconnecting THEN c
    ELSE IF c.socket # "open" \/ c.restarts >= MaxRestarts THEN HandleFailure(c, TRUE)
    ELSE [c EXCEPT !.before = Remember(c), !.state = "RECONNECTING",
                   !.restarts = @ + 1, !.iceTimer = "attempt"]

(* The test of a listener: is the object that raised the event still the client's? *)
IsCurrent(which) == which = "current"

-----------------------------------------------------------------------------
(* Calls of the Embedder.                                                       *)

(* connect(); every later call returns the same promise. *)
Connect ==
    /\ client.connect = "none"
    /\ client.state = "CLOSED" => ConnectAfterClose
    /\ client' = [OpenSignaling(client) EXCEPT !.connect = "pending", !.state = "NEGOTIATING"]
    /\ UNCHANGED told

(* disconnect(), also what an aborted signal does *)
Disconnect ==
    /\ ~client.disconnecting /\ client.state # "CLOSED"
    /\ LET c == RejectPending(CancelDelay(client)) IN
       client' = [Teardown(c) EXCEPT
                    !.disconnecting = TRUE, !.state = "CLOSED",
                    !.connect = IF @ = "pending" THEN "rejected" ELSE @]
    /\ UNCHANGED told

(* suspend() and resume().  A call that finds another target pending rejects that *)
(* request, and the rejected call, as it unwinds, rejects everything pending,     *)
(* this call included.                                                            *)
RequestState(target) ==
    /\ client.channel = "open" /\ client.state # target
    /\ client' = IF client.pending \in {"none", target}
                 THEN [client EXCEPT !.pending = target]
                 ELSE RejectPending(client)
    /\ UNCHANGED told

(* Its acknowledgement timer; the call unwinds through #rejectPendingActions. *)
StateTimeout ==
    /\ client.pending # "none"
    /\ client' = RejectPending(client)
    /\ UNCHANGED told

(* selectWindow() and closeWindow(), once Core has published the windows *)
SelectWindow ==
    /\ client.channel = "open" /\ told # "none" /\ ~client.window
    /\ client' = [client EXCEPT !.window = TRUE]
    /\ UNCHANGED told

(* window.state carrying the request's identifier, or the capability revoked *)
WindowAnswered ==
    /\ client.channel = "open" /\ client.window
    /\ client' = [client EXCEPT !.window = FALSE]
    /\ UNCHANGED told

(* A selection without an acknowledgement is a failure that is not retried. *)
WindowTimeout ==
    /\ client.window
    /\ client' = HandleFailure(client, FALSE)
    /\ UNCHANGED told

-----------------------------------------------------------------------------
(* The signaling socket.                                                        *)

SocketOpens ==
    /\ client.socket = "connecting"
    /\ client' = [client EXCEPT !.socket = "open"]
    /\ UNCHANGED told

SocketErrors ==
    /\ client.socket \in {"connecting", "open"}
    /\ client' = HandleFailure(client, TRUE)
    /\ UNCHANGED told

(* The close listener: a connected peer outlives its signaling. *)
OnSocketClose(which) ==
    IF ~IsCurrent(which) THEN client
    ELSE LET c == [client EXCEPT !.socket = "none"] IN
         IF /\ ~c.disconnecting /\ c.state \notin Terminal
            /\ ~c.connectedOnce \/ c.peer # "connected"
         THEN HandleFailure(c, TRUE) ELSE c

SocketCloses ==
    /\ client.socket # "none"
    /\ client' = OnSocketClose("current")
    /\ UNCHANGED told

RetiredSocketCloses ==
    /\ "socket" \in client.closing
    /\ LET c == OnSocketClose("retired") IN
       client' = [c EXCEPT !.closing = @ \ {"socket"}]
    /\ UNCHANGED told

(* #createPeerConnection: what the peer before it had is forgotten. *)
NewPeer(c) == [c EXCEPT !.peer = "new", !.channel = "none", !.offers = 0]

(* signal.ready: a recovered client accepts only a later generation of its own  *)
(* Session; the peer connection of this transport is created.                   *)
SignalReady(advances) ==
    /\ client.socket = "open" /\ client.peer = "none"
    /\ client' = IF client.connectedOnce /\ ~advances THEN HandleFailure(client, FALSE)
                 ELSE NewPeer(client)
    /\ UNCHANGED told

(* signal.description, up to the answer *)
SignalOffer ==
    /\ client.socket = "open" /\ client.peer \notin {"none", "closed"}
    /\ client.offers < MaxOffers
    /\ client' = [client EXCEPT !.offers = @ + 1]
    /\ UNCHANGED told

(* The answer is ready: it can only be sent while the socket is open. *)
AnswerReady ==
    /\ client.offers > 0
    /\ LET c == [client EXCEPT !.offers = @ - 1] IN
       client' = IF c.socket = "open"
                 THEN [c EXCEPT !.peer = IF @ = "connected" THEN @ ELSE "connecting"]
                 ELSE HandleFailure(c, TRUE)
    /\ UNCHANGED told

(* The browser rejects the description or a candidate. *)
AnswerRejected ==
    /\ client.offers > 0
    /\ client' = HandleFailure([client EXCEPT !.offers = @ - 1], FALSE)
    /\ UNCHANGED told

(* signal.peer-left, and signal.error with the error it names *)
SignalFailure(retryable) ==
    /\ client.socket = "open"
    /\ client' = HandleFailure(client, retryable)
    /\ UNCHANGED told

-----------------------------------------------------------------------------
(* The peer connection and its reliable channel.                                *)

(* Mutant: a recovered transport counts before Core has greeted it. *)
PeerConnectsUngreeted ==
    /\ client.peer \in {"connecting", "disconnected"}
    /\ LET c == [client EXCEPT !.peer = "connected", !.iceTimer = "off", !.restarts = 0] IN
       client' = IF c.connectedOnce /\ c.state = "RECONNECTING"
                 THEN [c EXCEPT !.state = c.before] ELSE c
    /\ UNCHANGED told

PeerConnects ==
    /\ client.peer \in {"connecting", "disconnected"}
    /\ LET c == [client EXCEPT !.peer = "connected", !.iceTimer = "off", !.restarts = 0] IN
       client' = IF c.connectedOnce /\ ~c.awaiting /\ c.state = "RECONNECTING"
                 THEN [c EXCEPT !.state = c.before] ELSE c
    /\ UNCHANGED told

(* #scheduleIceRestart: one timer at a time *)
PeerDisconnects ==
    /\ client.peer = "connected"
    /\ client' = [client EXCEPT !.peer = "disconnected",
                                !.iceTimer = IF @ = "off" THEN "delay" ELSE @]
    /\ UNCHANGED told

PeerFails ==
    /\ client.peer \in {"connecting", "disconnected"}
    /\ client' = RequestIceRestart([client EXCEPT !.peer = "failed"])
    /\ UNCHANGED told

(* datachannel and its open event, which sends hello *)
ChannelOpens ==
    /\ client.peer = "connected" /\ client.channel = "none"
    /\ client' = [client EXCEPT !.channel = "open"]
    /\ told' = "none"

OnChannelClose(which) ==
    IF IsCurrent(which) /\ ~client.disconnecting
    THEN HandleFailure([client EXCEPT !.channel = "closed"], TRUE)
    ELSE [client EXCEPT !.channel = IF IsCurrent(which) THEN "closed" ELSE @]

ChannelCloses ==
    /\ client.channel = "open"
    /\ client' = OnChannelClose("current")
    /\ UNCHANGED told

RetiredChannelCloses ==
    /\ "channel" \in client.closing
    /\ LET c == OnChannelClose("retired") IN
       client' = [c EXCEPT !.closing = @ \ {"channel"}]
    /\ UNCHANGED told

(* hello.accepted ends a connect() and a recovery. *)
HelloAccepted ==
    /\ client.channel = "open" /\ told = "none"
    /\ client' = [client EXCEPT !.state = "CONNECTED", !.connectedOnce = TRUE,
                                !.attempts = 0, !.awaiting = FALSE, !.connTimer = FALSE,
                                !.connect = "resolved"]
    /\ told' = "CONNECTED"

(* session.state: what Extension applied, and the answer to suspend() or resume() *)
SessionState(s) ==
    /\ client.channel = "open" /\ told \in Serving \ {s}
    /\ client' = [client EXCEPT !.state = s, !.pending = IF @ = s THEN "none" ELSE @]
    /\ told' = s

(* error: Core refused some action of this Viewer; which one it does not say. *)
ErrorMessage ==
    /\ client.channel = "open"
    /\ client.pending # "none" \/ client.window
    /\ client' = RejectPending(client)
    /\ UNCHANGED told

-----------------------------------------------------------------------------
(* Timers, and the run of #requestReconnectCredentials.                         *)

ConnectionTimeout ==
    /\ client.connTimer
    /\ client' = HandleFailure([client EXCEPT !.connTimer = FALSE], TRUE)
    /\ UNCHANGED told

IceTimeout ==
    /\ client.iceTimer # "off"
    /\ LET c == [client EXCEPT !.iceTimer = "off"] IN
       client' = IF \/ client.iceTimer = "delay" /\ c.peer = "disconnected"
                    \/ client.iceTimer = "attempt" /\ c.peer # "connected"
                 THEN RequestIceRestart(c) ELSE c
    /\ UNCHANGED told

DelayElapses ==
    /\ client.recovery = "delay"
    /\ client' = [client EXCEPT !.recovery = "provider"]
    /\ UNCHANGED told

(* Mutant: a client that was disconnected meanwhile is not looked at. *)
ProviderAnswersAnyway ==
    /\ client.recovery = "provider"
    /\ client' = [OpenSignaling([client EXCEPT !.recovery = "idle", !.requesting = FALSE])
                    EXCEPT !.awaiting = TRUE, !.state = "RECONNECTING"]
    /\ UNCHANGED told

(* getConnection() resolved: the run gives up only on a disconnected client. *)
ProviderAnswers ==
    /\ client.recovery = "provider"
    /\ LET c == [client EXCEPT !.recovery = "idle", !.requesting = FALSE] IN
       client' = IF c.disconnecting \/ c.state = "CLOSED" THEN c
                 ELSE [OpenSignaling(c) EXCEPT !.awaiting = TRUE, !.state = "RECONNECTING"]
    /\ UNCHANGED told

(* getConnection() threw, or gave empty credentials. *)
ProviderFails(retryable) ==
    /\ client.recovery = "provider"
    /\ client' = HandleFailure([client EXCEPT !.recovery = "idle", !.requesting = FALSE], retryable)
    /\ UNCHANGED told

-----------------------------------------------------------------------------
Provider == ProviderAnswers \/ \E retryable \in BOOLEAN : ProviderFails(retryable)

Next ==
    \/ Connect \/ Disconnect
    \/ \E s \in Serving : RequestState(s) \/ SessionState(s)
    \/ StateTimeout \/ SelectWindow \/ WindowAnswered \/ WindowTimeout
    \/ SocketOpens \/ SocketErrors \/ SocketCloses \/ RetiredSocketCloses
    \/ \E b \in BOOLEAN : SignalReady(b) \/ SignalFailure(b)
    \/ SignalOffer \/ AnswerReady \/ AnswerRejected
    \/ PeerConnects \/ PeerDisconnects \/ PeerFails
    \/ ChannelOpens \/ ChannelCloses \/ RetiredChannelCloses
    \/ HelloAccepted \/ ErrorMessage
    \/ ConnectionTimeout \/ IceTimeout \/ DelayElapses \/ Provider

(* The timers fire; the Embedder's provider settles. *)
Fairness ==
    /\ WF_vars(ConnectionTimeout)
    /\ WF_vars(IceTimeout)
    /\ WF_vars(DelayElapses)
    /\ WF_vars(Provider)

Spec == Init /\ [][Next]_vars /\ Fairness

-----------------------------------------------------------------------------
(* A client that says RECONNECTING has something that will end it: a timer, or  *)
(* the run that fetches new credentials.  No event of the lost transport needs  *)
(* to arrive.                                                                   *)
RecoveryIsTimed ==
    client.state = "RECONNECTING" =>
        client.connTimer \/ client.iceTimer # "off" \/ client.recovery # "idle"

(* The client serves in the state Core last told it on this very transport: an  *)
(* ICE recovery does not resurrect an older state, and a transport that Core    *)
(* has not greeted never counts as connected.                                   *)
ServesAsTold ==
    client.state \in Serving => /\ told = client.state
                                /\ client.channel # "none"

(* While credentials are being fetched the old transport is gone and untimed,   *)
(* so one recovery never overlaps another or a connection.                      *)
QuietWhileFetching ==
    client.requesting =>
        /\ client.recovery # "idle"
        /\ client.socket = "none" /\ client.peer = "none" /\ client.channel = "none"
        /\ ~client.connTimer /\ client.iceTimer = "off"

(* No request outlives the channel it was sent on: whoever called is answered   *)
(* when the transport is lost, replaced, failed or closed.                      *)
RequestsDieWithChannel ==
    client.pending # "none" \/ client.window =>
        client.channel = "open" /\ client.state \notin Terminal

(* A client that failed or was closed stays so: no late event, provider answer  *)
(* or timer brings it back.                                                     *)
TerminalIsFinal ==
    [][/\ client.state = "FAILED" => client'.state \in Terminal
       /\ client.state = "CLOSED" => client'.state = "CLOSED"]_vars

(* connect() settles whatever the network does. *)
ConnectSettles == client.connect = "pending" ~> client.connect \in {"resolved", "rejected"}

(* So does every recovery, by its bounded attempts. *)
RecoverySettles == client.state = "RECONNECTING" ~> client.state # "RECONNECTING"

(* A connection is recovered by one run at a time, which a timer will end, and  *)
(* nothing of the lost transport outlives it.                                   *)
Consistent == TypeOK /\ RecoveryIsTimed /\ QuietWhileFetching /\ RequestsDieWithChannel

(* Neither connect() nor a recovery hangs.                                      *)
Settles == ConnectSettles /\ RecoverySettles
=============================================================================
