------------------------- MODULE ViewerClient_proofs -------------------------
(***************************************************************************)
(* Theorems about ViewerClient, for every number of reconnection attempts, *)
(* ICE restarts and offers under way, and every order of network events;   *)
(* and, in the last part, about the files of this client in FileWire.      *)
(***************************************************************************)
EXTENDS ViewerClient, FiniteSetTheorems, SequenceTheorems, TLAPS

(* The inductive invariant, about the object c and what Core last said, t. *)

\* A run that fetches credentials is marked as such, and the transport is gone.
Fetching(c) ==
  /\ c.requesting <=> c.recovery # "idle"
  /\ c.requesting => /\ c.socket = "none" /\ c.peer = "none" /\ c.channel = "none"
                     /\ ~c.connTimer /\ c.iceTimer = "off"

\* Before connect() there is nothing, and before the first greeting no recovery
\* that a lost transport could start.
Fresh(c) ==
  /\ c.connect = "none" =>
       /\ c.state \in {"ATTACHING", "CLOSED"} /\ c.recovery = "idle"
       /\ c.socket = "none" /\ c.peer = "none" /\ c.channel = "none"
       /\ ~c.connTimer /\ c.iceTimer = "off"
  /\ c.state \in {"ATTACHING", "NEGOTIATING"} => ~c.connectedOnce
  /\ c.state \in Serving => c.connectedOnce
  /\ c.state = "ATTACHING" => c.connect = "none"

\* What an ended client still has dispatches nothing.
Ended(c) ==
  /\ c.state = "CLOSED" <=> c.disconnecting
  /\ c.state = "FAILED" => c.recovery = "idle"
  /\ c.state \in Terminal =>
       /\ c.channel # "open" /\ c.peer \in {"none", "closed"}
       /\ c.socket \in {"none", "closing"} /\ c.offers = 0
       /\ ~c.connTimer /\ c.iceTimer = "off"

\* Requests need an open channel, a channel its peer, and so does a restart.
Layered(c) ==
  /\ c.pending # "none" \/ c.window => c.channel = "open" /\ c.state \notin Terminal
  /\ c.channel # "none" \/ c.offers > 0 => c.peer # "none"
  /\ c.iceTimer = "attempt" => c.peer \notin {"none", "connected"}

\* What will end a recovery.
Timed(c) ==
  /\ c.state = "RECONNECTING" =>
       c.connTimer \/ c.iceTimer = "attempt" \/ c.recovery # "idle"
  /\ c.state = "NEGOTIATING" => c.connTimer
  /\ c.state = "RECONNECTING" /\ ~c.connectedOnce => c.connTimer
  /\ c.awaiting /\ c.state \notin Terminal => c.connTimer \/ c.recovery # "idle"

\* What the client serves as, or will serve as after an ICE restart, is what
\* Core said on this transport.
Told(c, t) ==
  /\ t \in Serving => c.connectedOnce
  /\ c.state \in Serving => t = c.state /\ c.channel # "none"
  /\ c.state = "RECONNECTING" /\ c.connectedOnce /\ ~c.awaiting /\ c.recovery = "idle" =>
       t = c.before /\ c.channel # "none"

Sound(c, t) ==
  /\ c \in ClientFields /\ t \in Targets
  /\ Fetching(c) /\ Fresh(c) /\ Ended(c) /\ Layered(c) /\ Timed(c) /\ Told(c, t)

-----------------------------------------------------------------------------
(* Types. *)

\* The values the methods assign.
LEMMA Values ==
  /\ "FAILED" \in States /\ "CLOSED" \in States /\ "NEGOTIATING" \in States
  /\ "RECONNECTING" \in States /\ Serving \subseteq States
  /\ "pending" \in ConnectStates /\ "resolved" \in ConnectStates /\ "rejected" \in ConnectStates
  /\ "idle" \in Recoveries /\ "delay" \in Recoveries /\ "provider" \in Recoveries
  /\ "off" \in IceTimers /\ "delay" \in IceTimers /\ "attempt" \in IceTimers
  /\ "none" \in SocketStates /\ "closing" \in SocketStates
  /\ "connecting" \in SocketStates /\ "open" \in SocketStates
  /\ "none" \in PeerStates /\ "closed" \in PeerStates /\ "new" \in PeerStates
  /\ "connecting" \in PeerStates /\ "connected" \in PeerStates
  /\ "disconnected" \in PeerStates /\ "failed" \in PeerStates
  /\ "none" \in ChannelStates /\ "open" \in ChannelStates /\ "closed" \in ChannelStates
  /\ "none" \in Targets /\ Serving \subseteq Targets /\ "CONNECTED" \in Serving
  BY DEF States, Serving, Terminal, ConnectStates, Recoveries, IceTimers, SocketStates,
         PeerStates, ChannelStates, Targets

LEMMA Zero == 0 \in 0..MaxAttempts /\ 0 \in 0..MaxRestarts /\ 0 \in 0..MaxOffers
  BY ViewerAssumption DEF ViewerAssumption

\* #rejectPendingActions, #cancelReconnectDelay and #teardownTransport.
LEMMA HelperTypes ==
  ASSUME NEW c \in ClientFields
  PROVE  RejectPending(c) \in ClientFields /\ CancelDelay(c) \in ClientFields
         /\ Teardown(c) \in ClientFields
<1>1. RejectPending(c) \in ClientFields
  BY Values, Zenon DEF RejectPending, ClientFields
<1>2. CancelDelay(c) \in ClientFields
  BY Values, Zenon DEF CancelDelay, ClientFields
<1>3. Closed(c) \in SUBSET {"socket", "channel"}
  BY DEF Closed, ClientFields
<1>4. Teardown(c) \in ClientFields
  BY <1>3, Values, Zero, Zenon DEF Teardown, ClientFields
<1> QED BY <1>1, <1>2, <1>4

\* The fields after #teardownTransport.
LEMMA TeardownFields ==
  ASSUME NEW c \in ClientFields, NEW d, d = Teardown(RejectPending(c))
  PROVE  /\ d.attempts = c.attempts /\ d.disconnecting = c.disconnecting /\ d.connect = c.connect
         /\ d.connectedOnce = c.connectedOnce /\ d.requesting = c.requesting
         /\ d.recovery = c.recovery /\ d.state = c.state
         /\ d.socket = "none" /\ d.peer = "none" /\ d.channel = "none" /\ d.offers = 0
         /\ d.connTimer = FALSE /\ d.iceTimer = "off" /\ d.pending = "none" /\ d.window = FALSE
  BY Zenon DEF Teardown, RejectPending, ClientFields

\* #fail assigns these fields and no other.
LEMMA FailFields ==
  ASSUME NEW c \in ClientFields, NEW f, c.recovery # "delay", f = Fail(c), c.state \notin Terminal
  PROVE  /\ f \in ClientFields
         /\ f.state = "FAILED" /\ f.recovery = c.recovery /\ f.requesting = FALSE
         /\ f.disconnecting = c.disconnecting /\ f.pending = "none" /\ f.window = FALSE
         /\ f.connect = (IF c.connect = "pending" THEN "rejected" ELSE c.connect)
         /\ f.connTimer = FALSE /\ f.iceTimer = "off" /\ f.offers = 0
         /\ f.channel = (IF c.channel = "none" THEN c.channel ELSE "closed")
         /\ f.peer = (IF c.peer = "none" THEN c.peer ELSE "closed")
         /\ f.socket = (IF c.socket = "none" THEN c.socket ELSE "closing")
         /\ f.connectedOnce = c.connectedOnce
<1> DEFINE e  == RejectPending(CancelDelay(c))
           v1 == IF e.connect = "pending" THEN "rejected" ELSE e.connect
           v2 == IF e.peer = "none" THEN e.peer ELSE "closed"
           v3 == IF e.channel = "none" THEN e.channel ELSE "closed"
           v4 == IF e.socket = "none" THEN e.socket ELSE "closing"
<1>1. f = [e EXCEPT
            !.connTimer = FALSE, !.iceTimer = "off",
            !.requesting = FALSE, !.awaiting = FALSE, !.state = "FAILED",
            !.connect = v1, !.peer = v2, !.offers = 0, !.channel = v3, !.socket = v4]
  BY Zenon DEF Fail
<1>2. e = [c EXCEPT !.pending = "none", !.window = FALSE]
  BY Zenon DEF RejectPending, CancelDelay
<1>3. e \in ClientFields
  BY HelperTypes DEF CancelDelay
<1> HIDE DEF e
<1>12. e.recovery = c.recovery /\ e.disconnecting = c.disconnecting
       /\ e.pending = "none" /\ e.window = FALSE
  BY <1>2, ZenonT(60) DEF ClientFields
<1>4. /\ e.connect = c.connect /\ e.channel = c.channel
      /\ e.peer = c.peer /\ e.socket = c.socket /\ e.connectedOnce = c.connectedOnce
  BY <1>2, ZenonT(60) DEF ClientFields
<1>5. v1 \in ConnectStates /\ v2 \in PeerStates
  BY <1>3, Values, ZenonT(60) DEF ClientFields
<1>6. v3 \in ChannelStates /\ v4 \in SocketStates
  BY <1>3, Values, ZenonT(60) DEF ClientFields
<1> HIDE DEF v1, v2, v3, v4
<1>7. "off" \in IceTimers /\ "FAILED" \in States /\ 0 \in 0..MaxOffers
  BY Values, Zero
<1>8. f \in ClientFields
  <2> DEFINE g == [e EXCEPT !.connTimer = FALSE, !.iceTimer = "off",
                            !.requesting = FALSE, !.awaiting = FALSE, !.state = "FAILED"]
  <2>1. g \in ClientFields
    BY <1>3, <1>7, ZenonT(60) DEF ClientFields
  <2>2. f = [g EXCEPT !.connect = v1, !.peer = v2, !.offers = 0, !.channel = v3, !.socket = v4]
    BY <1>1, ZenonT(60)
  <2> HIDE DEF g
  <2> QED BY <2>1, <2>2, <1>5, <1>6, <1>7, ZenonT(60) DEF ClientFields
<1>9. /\ f.state = "FAILED" /\ f.recovery = e.recovery /\ f.requesting = FALSE
      /\ f.disconnecting = e.disconnecting /\ f.pending = e.pending /\ f.window = e.window
      /\ f.connTimer = FALSE /\ f.iceTimer = "off" /\ f.offers = 0
      /\ f.connectedOnce = e.connectedOnce
  BY <1>1, <1>3, ZenonT(60) DEF ClientFields
<1>10. f.connect = v1 /\ f.peer = v2 /\ f.channel = v3 /\ f.socket = v4
  BY <1>1, <1>3, ZenonT(60) DEF ClientFields
<1>11. /\ v1 = (IF c.connect = "pending" THEN "rejected" ELSE c.connect)
       /\ v2 = (IF c.peer = "none" THEN c.peer ELSE "closed")
       /\ v3 = (IF c.channel = "none" THEN c.channel ELSE "closed")
       /\ v4 = (IF c.socket = "none" THEN c.socket ELSE "closing")
  BY <1>4, Zenon DEF v1, v2, v3, v4
<1> QED BY <1>4, <1>8, <1>9, <1>10, <1>11, <1>12

-----------------------------------------------------------------------------
(* What #fail, #requestReconnectCredentials, #handleFailure and               *)
(* #requestIceRestart make of a client that is live and fetches nothing.      *)

LEMMA FailSound ==
  ASSUME NEW c \in ClientFields, NEW t \in Targets,
         c.recovery = "idle", ~c.requesting, c.state \notin Terminal, ~c.disconnecting,
         c.connect # "none", c.channel # "none" => c.peer # "none",
         t \in Serving => c.connectedOnce
  PROVE  Sound(Fail(c), t)
<1> SUFFICES ASSUME NEW f, f = Fail(c) PROVE Sound(f, t)
  OBVIOUS
<1>0. /\ f \in ClientFields
      /\ f.state = "FAILED" /\ f.recovery = c.recovery /\ f.requesting = FALSE
      /\ f.disconnecting = c.disconnecting /\ f.pending = "none" /\ f.window = FALSE
      /\ f.connect = (IF c.connect = "pending" THEN "rejected" ELSE c.connect)
      /\ f.connTimer = FALSE /\ f.iceTimer = "off" /\ f.offers = 0
      /\ f.channel = (IF c.channel = "none" THEN c.channel ELSE "closed")
      /\ f.peer = (IF c.peer = "none" THEN c.peer ELSE "closed")
      /\ f.socket = (IF c.socket = "none" THEN c.socket ELSE "closing")
      /\ f.connectedOnce = c.connectedOnce
  BY FailFields, ZenonT(60)
<1>1. /\ f \in ClientFields
      /\ f.state = "FAILED" /\ f.recovery = "idle" /\ f.requesting = FALSE
      /\ f.disconnecting = c.disconnecting /\ f.pending = "none" /\ f.window = FALSE
      /\ f.connect # "none" /\ f.connTimer = FALSE /\ f.iceTimer = "off" /\ f.offers = 0
      /\ f.channel \in {"none", "closed"} /\ f.peer \in {"none", "closed"}
      /\ f.socket \in {"none", "closing"} /\ (f.channel # "none" => f.peer # "none")
      /\ f.connectedOnce = c.connectedOnce
  BY <1>0
<1>2. Fetching(f) /\ Fresh(f) /\ Ended(f)
  BY <1>1 DEF Fetching, Fresh, Ended, Serving, Terminal
<1>3. Layered(f) /\ Timed(f) /\ Told(f, t)
  BY <1>1 DEF Layered, Timed, Told, Serving, Terminal
<1> QED BY <1>1, <1>2, <1>3 DEF Sound

LEMMA RequestFields ==
  ASSUME NEW c \in ClientFields, NEW f, f = RequestCredentials(c),
         c.requesting = FALSE, c.disconnecting = FALSE, ~(c.attempts >= MaxAttempts)
  PROVE  /\ f \in ClientFields
         /\ f.state = "RECONNECTING" /\ f.recovery = "delay" /\ f.requesting = TRUE
         /\ f.disconnecting = c.disconnecting /\ f.connect = c.connect
         /\ f.connectedOnce = c.connectedOnce /\ f.offers = 0
         /\ f.socket = "none" /\ f.peer = "none" /\ f.channel = "none"
         /\ f.connTimer = FALSE /\ f.iceTimer = "off" /\ f.pending = "none" /\ f.window = FALSE
<1> DEFINE d == Teardown(RejectPending(c))
<1>1. f = [d EXCEPT
          !.requesting = TRUE, !.recovery = "delay", !.attempts = @ + 1,
          !.before = Remember(c), !.state = "RECONNECTING"]
  BY DEF RequestCredentials
<1>2. d \in ClientFields
  BY HelperTypes
<1>3. /\ d.attempts = c.attempts /\ d.disconnecting = c.disconnecting /\ d.connect = c.connect
      /\ d.connectedOnce = c.connectedOnce
      /\ d.socket = "none" /\ d.peer = "none" /\ d.channel = "none" /\ d.offers = 0
      /\ d.connTimer = FALSE /\ d.iceTimer = "off" /\ d.pending = "none" /\ d.window = FALSE
  BY TeardownFields
<1>4. Remember(c) \in Serving
  BY Zenon DEF Remember, ClientFields
<1> HIDE DEF d
<1>5. c.attempts \in 0..MaxAttempts
  BY Zenon DEF ClientFields
<1>6. d.attempts + 1 \in 0..MaxAttempts
  BY <1>3, <1>5, ViewerAssumption DEF ViewerAssumption
<1>7. f \in ClientFields
  <2> DEFINE a == d.attempts + 1
             b == Remember(c)
  <2>1. a \in 0..MaxAttempts /\ b \in Serving
    BY <1>4, <1>6
  <2>2. f = [d EXCEPT !.requesting = TRUE, !.recovery = "delay", !.attempts = a,
                      !.before = b, !.state = "RECONNECTING"]
    BY <1>1, Zenon
  <2> HIDE DEF a, b
  <2>3. "delay" \in Recoveries /\ "RECONNECTING" \in States
    BY Values
  <2> QED BY <1>2, <2>1, <2>2, <2>3, ZenonT(60) DEF ClientFields
<1>8. /\ f.state = "RECONNECTING" /\ f.recovery = "delay" /\ f.requesting = TRUE
      /\ f.disconnecting = d.disconnecting /\ f.connect = d.connect
      /\ f.connectedOnce = d.connectedOnce /\ f.offers = d.offers
      /\ f.socket = d.socket /\ f.peer = d.peer /\ f.channel = d.channel
      /\ f.connTimer = d.connTimer /\ f.iceTimer = d.iceTimer
      /\ f.pending = d.pending /\ f.window = d.window
  BY <1>1, <1>2, Zenon DEF ClientFields
<1> QED BY <1>3, <1>7, <1>8

LEMMA RequestSound ==
  ASSUME NEW c \in ClientFields, NEW t \in Targets,
         c.recovery = "idle", ~c.requesting, c.state \notin Terminal, ~c.disconnecting,
         c.connect # "none", c.channel # "none" => c.peer # "none",
         c.connectedOnce
  PROVE  Sound(RequestCredentials(c), t)
<1>1. CASE c.attempts >= MaxAttempts
  BY <1>1, FailSound DEF RequestCredentials
<1>2. CASE ~(c.attempts >= MaxAttempts)
  <2> SUFFICES ASSUME NEW f, f = RequestCredentials(c) PROVE Sound(f, t)
    OBVIOUS
  <2>1. c.requesting = FALSE /\ c.disconnecting = FALSE
    BY Zenon DEF ClientFields
  <2>2. /\ f \in ClientFields
        /\ f.state = "RECONNECTING" /\ f.recovery = "delay" /\ f.requesting = TRUE
        /\ f.disconnecting = c.disconnecting /\ f.connect = c.connect
        /\ f.connectedOnce = c.connectedOnce /\ f.offers = 0
        /\ f.socket = "none" /\ f.peer = "none" /\ f.channel = "none"
        /\ f.connTimer = FALSE /\ f.iceTimer = "off" /\ f.pending = "none" /\ f.window = FALSE
    BY <1>2, <2>1, RequestFields, ZenonT(60)
  <2>3. Fetching(f) /\ Fresh(f) /\ Ended(f)
    BY <2>2 DEF Fetching, Fresh, Ended, Serving, Terminal
  <2>4. Layered(f) /\ Timed(f) /\ Told(f, t)
    BY <2>2 DEF Layered, Timed, Told, Serving, Terminal
  <2> QED BY <2>2, <2>3, <2>4 DEF Sound
<1> QED BY <1>1, <1>2

LEMMA FailureSound ==
  ASSUME NEW c \in ClientFields, NEW t \in Targets, NEW retryable \in BOOLEAN,
         c.recovery = "idle", ~c.requesting, c.state \notin Terminal, ~c.disconnecting,
         c.connect # "none", c.channel # "none" => c.peer # "none",
         t \in Serving => c.connectedOnce
  PROVE  Sound(HandleFailure(c, retryable), t)
<1>1. CASE retryable /\ c.connectedOnce /\ MaxAttempts > 0
  BY <1>1, RequestSound DEF HandleFailure
<1>2. CASE ~(retryable /\ c.connectedOnce /\ MaxAttempts > 0)
  BY <1>2, FailSound DEF HandleFailure
<1> QED BY <1>1, <1>2

\* A client with a live transport, or a timer, is none of what the lemmas exclude.
LEMMA LiveFacts ==
  ASSUME NEW c, NEW t, Sound(c, t),
         \/ c.socket \in {"connecting", "open"} \/ c.peer \notin {"none", "closed"}
         \/ c.channel = "open" \/ c.connTimer \/ c.iceTimer # "off" \/ c.offers > 0
  PROVE  /\ c.recovery = "idle" /\ ~c.requesting /\ c.state \notin Terminal
         /\ ~c.disconnecting /\ c.connect # "none"
         /\ ~c.connectedOnce => c.connTimer
         /\ c.awaiting => c.connTimer
         /\ c.connectedOnce /\ ~c.awaiting => t = Remember(c) /\ c.channel # "none"
<1>1. c \in ClientFields /\ Fetching(c) /\ Fresh(c) /\ Ended(c) /\ Layered(c) /\ Timed(c) /\ Told(c, t)
  BY DEF Sound
<1>0. c.state \in States
  BY <1>1, Zenon DEF ClientFields
<1>2. c.state \notin Terminal
  BY <1>1 DEF Ended
<1>3. ~c.disconnecting
  BY <1>1, <1>2 DEF Ended, Terminal
<1>4. c.recovery = "idle" /\ ~c.requesting
  BY <1>1 DEF Fetching, Layered
<1>5. c.connect # "none"
  BY <1>1 DEF Fresh, Layered
<1>6. c.state # "ATTACHING"
  BY <1>1, <1>5 DEF Fresh
<1>7. c.state \in Serving \cup {"NEGOTIATING", "RECONNECTING"}
  BY <1>0, <1>2, <1>6 DEF States, Terminal
<1>8. ~c.connectedOnce => c.connTimer
  BY <1>1, <1>7 DEF Fresh, Timed
<1>9. c.awaiting => c.connTimer
  BY <1>1, <1>2, <1>4 DEF Timed
<1>10. c.connectedOnce /\ ~c.awaiting => t = Remember(c) /\ c.channel # "none"
  BY <1>1, <1>4, <1>7 DEF Told, Fresh, Remember, Serving
<1> QED BY <1>2, <1>3, <1>4, <1>5, <1>8, <1>9, <1>10

\* A live client stays sound when #handleFailure ends or recovers it.
LEMMA LiveFails ==
  ASSUME NEW c, NEW t, Sound(c, t), NEW d \in ClientFields, NEW retryable \in BOOLEAN,
         \/ c.socket \in {"connecting", "open"} \/ c.peer \notin {"none", "closed"}
         \/ c.channel = "open" \/ c.connTimer \/ c.iceTimer # "off" \/ c.offers > 0,
         d.recovery = c.recovery, d.requesting = c.requesting, d.state = c.state,
         d.disconnecting = c.disconnecting, d.connect = c.connect, d.peer = c.peer,
         d.connectedOnce = c.connectedOnce, d.channel # "none" => d.peer # "none"
  PROVE  Sound(HandleFailure(d, retryable), t)
<1>1. t \in Targets /\ (t \in Serving => c.connectedOnce)
  BY DEF Sound, Told
<1> QED BY <1>1, LiveFacts, FailureSound

LEMMA RestartFields ==
  ASSUME NEW c \in ClientFields, NEW f, f = RequestIceRestart(c), c.state \notin Terminal,
         c.disconnecting = FALSE, ~(c.socket # "open" \/ c.restarts >= MaxRestarts)
  PROVE  /\ f \in ClientFields
         /\ f.state = "RECONNECTING" /\ f.recovery = c.recovery /\ f.requesting = c.requesting
         /\ f.disconnecting = c.disconnecting /\ f.connect = c.connect
         /\ f.iceTimer = "attempt" /\ f.peer = c.peer /\ f.channel = c.channel
         /\ f.pending = c.pending /\ f.window = c.window /\ f.connTimer = c.connTimer
         /\ f.connectedOnce = c.connectedOnce /\ f.awaiting = c.awaiting
         /\ f.before = Remember(c)
<1>1. f = [c EXCEPT !.before = Remember(c), !.state = "RECONNECTING",
                    !.restarts = @ + 1, !.iceTimer = "attempt"]
  BY DEF RequestIceRestart
<1>2. Remember(c) \in Serving /\ c.restarts \in 0..MaxRestarts
  BY Zenon DEF Remember, ClientFields
<1>3. c.restarts + 1 \in 0..MaxRestarts
  BY <1>2, ViewerAssumption DEF ViewerAssumption
<1>0. "RECONNECTING" \in States /\ "attempt" \in IceTimers
  BY Values
<1>4. f \in ClientFields
  <2> DEFINE r == c.restarts + 1
             b == Remember(c)
  <2>1. r \in 0..MaxRestarts /\ b \in Serving
    BY <1>2, <1>3
  <2>2. f = [c EXCEPT !.before = b, !.state = "RECONNECTING", !.restarts = r, !.iceTimer = "attempt"]
    BY <1>1, Zenon
  <2> HIDE DEF r, b
  <2> QED BY <1>0, <2>1, <2>2, ZenonT(60) DEF ClientFields
<1>5. /\ f.state = "RECONNECTING" /\ f.recovery = c.recovery /\ f.requesting = c.requesting
      /\ f.disconnecting = c.disconnecting /\ f.connect = c.connect
      /\ f.iceTimer = "attempt" /\ f.peer = c.peer /\ f.channel = c.channel
      /\ f.pending = c.pending /\ f.window = c.window /\ f.connTimer = c.connTimer
      /\ f.connectedOnce = c.connectedOnce /\ f.awaiting = c.awaiting
      /\ f.before = Remember(c)
  BY <1>1, Zenon DEF ClientFields
<1> QED BY <1>4, <1>5

\* #requestIceRestart over a transport whose peer is not connected.
LEMMA RestartSound ==
  ASSUME NEW c \in ClientFields, NEW t \in Targets,
         c.recovery = "idle", ~c.requesting, c.state \notin Terminal, ~c.disconnecting,
         c.connect # "none", c.peer \notin {"none", "connected"},
         t \in Serving => c.connectedOnce,
         c.pending # "none" \/ c.window => c.channel = "open",
         ~c.connectedOnce => c.connTimer, c.awaiting => c.connTimer,
         c.connectedOnce /\ ~c.awaiting => t = Remember(c) /\ c.channel # "none"
  PROVE  Sound(RequestIceRestart(c), t)
<1>1. CASE c.socket # "open" \/ c.restarts >= MaxRestarts
  BY <1>1, FailureSound DEF RequestIceRestart
<1>2. CASE ~(c.socket # "open" \/ c.restarts >= MaxRestarts)
  <2> SUFFICES ASSUME NEW f, f = RequestIceRestart(c) PROVE Sound(f, t)
    OBVIOUS
  <2>1. c.disconnecting = FALSE
    BY Zenon DEF ClientFields
  <2>2. /\ f \in ClientFields
        /\ f.state = "RECONNECTING" /\ f.recovery = c.recovery /\ f.requesting = c.requesting
        /\ f.disconnecting = c.disconnecting /\ f.connect = c.connect
        /\ f.iceTimer = "attempt" /\ f.peer = c.peer /\ f.channel = c.channel
        /\ f.pending = c.pending /\ f.window = c.window /\ f.connTimer = c.connTimer
        /\ f.connectedOnce = c.connectedOnce /\ f.awaiting = c.awaiting
        /\ f.before = Remember(c)
    BY <1>2, <2>1, RestartFields, ZenonT(60)
  <2>3. Fetching(f) /\ Fresh(f) /\ Ended(f)
    BY <2>2 DEF Fetching, Fresh, Ended, Serving, Terminal
  <2>4. Layered(f) /\ Timed(f) /\ Told(f, t)
    BY <2>2 DEF Layered, Timed, Told, Serving, Terminal
  <2> QED BY <2>2, <2>3, <2>4 DEF Sound
<1> QED BY <1>1, <1>2
-----------------------------------------------------------------------------
(* The steps.                                                                 *)

\* What a step leaves of the course of the connection, of its transport and of
\* the requests made on it.
SameCourse(f, c) ==
  /\ f.state = c.state /\ f.before = c.before /\ f.connect = c.connect
  /\ f.connectedOnce = c.connectedOnce /\ f.disconnecting = c.disconnecting
  /\ f.requesting = c.requesting /\ f.recovery = c.recovery /\ f.awaiting = c.awaiting
  /\ f.connTimer = c.connTimer
SameTransport(f, c) ==
  /\ f.iceTimer = c.iceTimer /\ f.socket = c.socket /\ f.peer = c.peer
  /\ f.offers = c.offers /\ f.channel = c.channel
SameRequests(f, c) == f.pending = c.pending /\ f.window = c.window

LEMMA Parts ==
  ASSUME NEW c, NEW t, Sound(c, t)
  PROVE  /\ c \in ClientFields /\ t \in Targets
         /\ Fetching(c) /\ Fresh(c) /\ Ended(c) /\ Layered(c) /\ Timed(c) /\ Told(c, t)
  BY DEF Sound

\* A step of the requests alone.
LEMMA RequestsStep ==
  ASSUME NEW c, NEW t, Sound(c, t), NEW f \in ClientFields, SameCourse(f, c), SameTransport(f, c),
         f.pending # "none" \/ f.window => f.channel = "open" /\ f.state \notin Terminal
  PROVE  Sound(f, t)
<1>1. Fetching(f) /\ Fresh(f) /\ Ended(f)
  BY Parts DEF Fetching, Fresh, Ended, SameCourse, SameTransport
<1>2. Layered(f) /\ Timed(f) /\ Told(f, t)
  BY Parts DEF Layered, Timed, Told, SameCourse, SameTransport
<1> QED BY <1>1, <1>2, Parts DEF Sound

\* A step of a live transport: whatever it makes of socket and peer, the
\* channel and an armed restart keep what they need.
LEMMA TransportStep ==
  ASSUME NEW c, NEW t, Sound(c, t), NEW f \in ClientFields, NEW u \in Targets,
         SameCourse(f, c), SameRequests(f, c), c.state \notin Terminal, ~c.requesting,
         c.connect # "none",
         c.channel = "open" => f.channel = "open",
         f.channel # "none" \/ f.offers > 0 => f.peer # "none",
         f.iceTimer = "attempt" => f.peer \notin {"none", "connected"},
         c.iceTimer = "attempt" => f.iceTimer = "attempt" \/ c.connTimer,
         (u = t /\ f.channel = c.channel) \/ (c.channel = "none" /\ u = "none")
  PROVE  Sound(f, u)
<1>1. Fetching(f) /\ Fresh(f) /\ Ended(f)
  BY Parts DEF Fetching, Fresh, Ended, SameCourse
<1>2. Layered(f) /\ Timed(f)
  BY Parts DEF Layered, Timed, SameCourse, SameRequests
<1>3. Told(f, u)
  BY Parts DEF Told, SameCourse, Serving
<1> QED BY <1>1, <1>2, <1>3 DEF Sound

LEMMA RequestActions ==
  ASSUME Sound(client, told),
         \/ \E s \in Serving : RequestState(s)
         \/ StateTimeout \/ SelectWindow \/ WindowAnswered \/ ErrorMessage
  PROVE  Sound(client', told')
<1>0. client \in ClientFields
  BY Parts
<1>1. client.channel = "open" => client.state \notin Terminal
  BY LiveFacts
<1>2. ASSUME client' = RejectPending(client), told' = told
      PROVE  Sound(client', told')
  <2>1. client' \in ClientFields
    BY <1>0, <1>2, HelperTypes
  <2>2. client'.pending = "none" /\ client'.window = FALSE
    BY <1>0, <1>2, Zenon DEF RejectPending, ClientFields
  <2>3. SameCourse(client', client) /\ SameTransport(client', client)
    BY <1>0, <1>2, Zenon DEF RejectPending, ClientFields, SameCourse, SameTransport
  <2> QED BY <1>2, <2>1, <2>2, <2>3, RequestsStep
<1>3. ASSUME NEW s \in Serving, RequestState(s)
      PROVE  Sound(client', told')
  <2>1. CASE ~(client.pending \in {"none", s})
    BY <1>2, <1>3, <2>1 DEF RequestState
  <2>2. CASE client.pending \in {"none", s}
    <3>1. client.channel = "open" /\ client' = [client EXCEPT !.pending = s] /\ told' = told
      BY <1>3, <2>2 DEF RequestState
    <3>2. s \in Targets
      BY Values
    <3>3. client' \in ClientFields
      BY <1>0, <3>1, <3>2, Zenon DEF ClientFields
    <3>4. SameCourse(client', client) /\ SameTransport(client', client)
      BY <1>0, <3>1, Zenon DEF ClientFields, SameCourse, SameTransport
    <3>5. client'.channel = "open" /\ client'.state \notin Terminal
      BY <1>1, <3>1, <3>4 DEF SameCourse, SameTransport
    <3> QED BY <3>1, <3>3, <3>4, <3>5, RequestsStep
  <2> QED BY <2>1, <2>2
<1>4. ASSUME SelectWindow \/ WindowAnswered
      PROVE  Sound(client', told')
  <2>1. PICK w \in BOOLEAN : client' = [client EXCEPT !.window = w]
    BY <1>4 DEF SelectWindow, WindowAnswered
  <2>2. client.channel = "open" /\ told' = told
    BY <1>4 DEF SelectWindow, WindowAnswered
  <2>3. client' \in ClientFields
    BY <1>0, <2>1, Zenon DEF ClientFields
  <2>4. SameCourse(client', client) /\ SameTransport(client', client)
    BY <1>0, <2>1, Zenon DEF ClientFields, SameCourse, SameTransport
  <2>5. client'.channel = "open" /\ client'.state \notin Terminal
    BY <1>1, <2>2, <2>4 DEF SameCourse, SameTransport
  <2> QED BY <2>2, <2>3, <2>4, <2>5, RequestsStep
<1> QED BY <1>2, <1>3, <1>4 DEF StateTimeout, ErrorMessage

\* The steps that fail a live client.
LEMMA FailureActions ==
  ASSUME Sound(client, told),
         \/ WindowTimeout \/ SocketErrors \/ AnswerRejected \/ ConnectionTimeout \/ ChannelCloses
         \/ \E b \in BOOLEAN : SignalFailure(b)
  PROVE  Sound(client', told')
<1>0. client \in ClientFields /\ Layered(client) /\ Ended(client)
  BY Parts
<1>1. ASSUME NEW b \in BOOLEAN, client' = HandleFailure(client, b), told' = told,
             client.socket \in {"connecting", "open"} \/ client.channel = "open"
      PROVE  Sound(client', told')
  BY <1>0, <1>1, LiveFails DEF Layered
<1>2. CASE WindowTimeout
  <2>1. client.channel = "open"
    BY <1>0, <1>2 DEF WindowTimeout, Layered
  <2> QED BY <1>1, <1>2, <2>1 DEF WindowTimeout
<1>3. CASE SocketErrors
  BY <1>1, <1>3 DEF SocketErrors
<1>4. ASSUME NEW b \in BOOLEAN, SignalFailure(b) PROVE Sound(client', told')
  BY <1>1, <1>4 DEF SignalFailure
<1>5. CASE AnswerRejected
  <2> SUFFICES ASSUME NEW d, d = [client EXCEPT !.offers = @ - 1]
               PROVE  Sound(HandleFailure(d, FALSE), told)
    BY <1>5 DEF AnswerRejected
  <2>1. client.offers \in 0..MaxOffers
    BY <1>0, Zenon DEF ClientFields
  <2>2. client.offers - 1 \in 0..MaxOffers
    BY <1>5, <2>1, ViewerAssumption DEF AnswerRejected, ViewerAssumption
  <2>3. d \in ClientFields
    BY <1>0, <2>2, Zenon DEF ClientFields
  <2>4. SameCourse(d, client) /\ d.peer = client.peer /\ d.channel = client.channel
    BY <1>0, Zenon DEF ClientFields, SameCourse
  <2> QED BY <1>0, <1>5, <2>3, <2>4, LiveFails DEF AnswerRejected, SameCourse, Layered
<1>6. CASE ConnectionTimeout
  <2> SUFFICES ASSUME NEW d, d = [client EXCEPT !.connTimer = FALSE]
               PROVE  Sound(HandleFailure(d, TRUE), told)
    BY <1>6 DEF ConnectionTimeout
  <2>1. d \in ClientFields
    BY <1>0, Zenon DEF ClientFields
  <2>2. /\ d.recovery = client.recovery /\ d.requesting = client.requesting
        /\ d.state = client.state /\ d.disconnecting = client.disconnecting
        /\ d.connect = client.connect /\ d.peer = client.peer
        /\ d.connectedOnce = client.connectedOnce /\ d.channel = client.channel
    BY <1>0, Zenon DEF ClientFields
  <2> QED BY <1>0, <1>6, <2>1, <2>2, LiveFails DEF ConnectionTimeout, Layered
<1>7. CASE ChannelCloses
  <2>1. ~client.disconnecting
    BY <1>7, LiveFacts DEF ChannelCloses
  <2> SUFFICES ASSUME NEW d, d = [client EXCEPT !.channel = "closed"]
               PROVE  Sound(HandleFailure(d, TRUE), told)
    BY <1>7, <2>1 DEF ChannelCloses, OnChannelClose, IsCurrent
  <2>2. d \in ClientFields
    BY <1>0, Values, Zenon DEF ClientFields
  <2>3. SameCourse(d, client) /\ d.peer = client.peer
    BY <1>0, Zenon DEF ClientFields, SameCourse
  <2>4. d.peer # "none"
    BY <1>0, <1>7, <2>3 DEF ChannelCloses, Layered
  <2> QED BY <1>7, <2>2, <2>3, <2>4, LiveFails DEF ChannelCloses, SameCourse
<1> QED BY <1>2, <1>3, <1>4, <1>5, <1>6, <1>7

\* The steps of a live transport.
LEMMA TransportActions ==
  ASSUME Sound(client, told),
         \/ SocketOpens \/ SignalOffer \/ AnswerReady \/ PeerDisconnects \/ ChannelOpens
         \/ \E b \in BOOLEAN : SignalReady(b)
  PROVE  Sound(client', told')
<1>0. client \in ClientFields /\ told \in Targets /\ Layered(client)
  BY Parts
<1>1. CASE SocketOpens
  <2>1. client.socket = "connecting" /\ client' = [client EXCEPT !.socket = "open"] /\ told' = told
    BY <1>1 DEF SocketOpens
  <2>2. client' \in ClientFields
    BY <1>0, <2>1, Values, Zenon DEF ClientFields
  <2>3. /\ SameCourse(client', client) /\ SameRequests(client', client)
        /\ client'.channel = client.channel /\ client'.offers = client.offers
        /\ client'.peer = client.peer /\ client'.iceTimer = client.iceTimer
    BY <1>0, <2>1, Zenon DEF ClientFields, SameCourse, SameRequests
  <2>4. client.state \notin Terminal /\ ~client.requesting /\ client.connect # "none"
    BY <2>1, LiveFacts
  <2>5. /\ client'.channel # "none" \/ client'.offers > 0 => client'.peer # "none"
        /\ client'.iceTimer = "attempt" => client'.peer \notin {"none", "connected"}
    BY <1>0, <2>3 DEF Layered
  <2> QED BY <1>0, <2>1, <2>2, <2>3, <2>4, <2>5, TransportStep
<1>2. CASE SignalOffer
  <2>1. /\ client.socket = "open" /\ client.peer # "none" /\ client.offers < MaxOffers
        /\ client' = [client EXCEPT !.offers = @ + 1] /\ told' = told
    BY <1>2 DEF SignalOffer
  <2>2. client.offers \in 0..MaxOffers
    BY <1>0, Zenon DEF ClientFields
  <2>3. client.offers + 1 \in 0..MaxOffers
    BY <2>1, <2>2, ViewerAssumption DEF ViewerAssumption
  <2>4. client' \in ClientFields
    BY <1>0, <2>1, <2>3, Zenon DEF ClientFields
  <2>5. /\ SameCourse(client', client) /\ SameRequests(client', client)
        /\ client'.channel = client.channel
        /\ client'.peer = client.peer /\ client'.iceTimer = client.iceTimer
    BY <1>0, <2>1, Zenon DEF ClientFields, SameCourse, SameRequests
  <2> QED BY <1>0, <2>1, <2>4, <2>5, LiveFacts, TransportStep DEF Layered
<1>3. CASE AnswerReady
  <2> SUFFICES ASSUME NEW d, d = [client EXCEPT !.offers = @ - 1],
                      client' = IF d.socket = "open"
                                THEN [d EXCEPT !.peer = IF @ = "connected" THEN @ ELSE "connecting"]
                                ELSE HandleFailure(d, TRUE)
               PROVE  Sound(client', told)
    BY <1>3 DEF AnswerReady
  <2>1. client.offers > 0 /\ client.offers \in 0..MaxOffers
    <3>1. client.offers \in 0..MaxOffers
      BY <1>0, Zenon DEF ClientFields
    <3> QED BY <1>3, <3>1 DEF AnswerReady
  <2>2. client.offers - 1 \in 0..MaxOffers
    BY <2>1, ViewerAssumption DEF ViewerAssumption
  <2>3. d \in ClientFields
    BY <1>0, <2>2, Zenon DEF ClientFields
  <2>4. /\ SameCourse(d, client) /\ SameRequests(d, client)
        /\ d.channel = client.channel /\ d.peer = client.peer /\ d.iceTimer = client.iceTimer
    BY <1>0, Zenon DEF ClientFields, SameCourse, SameRequests
  <2>5. client.peer # "none"
    BY <1>0, <2>1 DEF Layered
  <2>6. CASE d.socket = "open"
    <3>1. client' = [d EXCEPT !.peer = IF @ = "connected" THEN @ ELSE "connecting"]
      BY <2>6
    <3>2. client' \in ClientFields
      BY <2>3, <3>1, Values, Zenon DEF ClientFields
    <3>3. /\ SameCourse(client', d) /\ SameRequests(client', d)
          /\ client'.channel = d.channel /\ client'.iceTimer = d.iceTimer
          /\ client'.peer = (IF d.peer = "connected" THEN d.peer ELSE "connecting")
      BY <2>3, <3>1, Zenon DEF ClientFields, SameCourse, SameRequests
    <3>4. SameCourse(client', client) /\ SameRequests(client', client)
      BY <2>4, <3>3 DEF SameCourse, SameRequests
    <3>5. /\ client'.channel = client.channel /\ client'.iceTimer = client.iceTimer
          /\ client'.peer # "none" /\ (client'.peer = "connected" => client.peer = "connected")
      BY <2>4, <2>5, <3>3
    <3> QED BY <1>0, <2>1, <3>2, <3>4, <3>5, LiveFacts, TransportStep DEF Layered
  <2>7. CASE d.socket # "open"
    <3>1. client' = HandleFailure(d, TRUE)
      BY <2>7
    <3>2. d.channel # "none" => d.peer # "none"
      BY <2>4, <2>5
    <3> QED BY <2>1, <2>3, <2>4, <3>1, <3>2, LiveFails DEF SameCourse
  <2> QED BY <2>6, <2>7
<1>4. CASE PeerDisconnects
  <2>1. /\ client.peer = "connected" /\ told' = told
        /\ client' = [client EXCEPT !.peer = "disconnected",
                                    !.iceTimer = IF @ = "off" THEN "delay" ELSE @]
    BY <1>4 DEF PeerDisconnects
  <2>2. client' \in ClientFields
    BY <1>0, <2>1, Values, Zenon DEF ClientFields
  <2>3. /\ SameCourse(client', client) /\ SameRequests(client', client)
        /\ client'.channel = client.channel /\ client'.peer = "disconnected"
    BY <1>0, <2>1, Zenon DEF ClientFields, SameCourse, SameRequests
  <2>4. client.iceTimer # "attempt"
    BY <1>0, <2>1 DEF Layered
  <2>5. client.state \notin Terminal /\ ~client.requesting /\ client.connect # "none"
    BY <2>1, LiveFacts
  <2> QED BY <1>0, <2>1, <2>2, <2>3, <2>4, <2>5, TransportStep
<1>5. CASE ChannelOpens
  <2>1. /\ client.peer = "connected" /\ client.channel = "none" /\ told' = "none"
        /\ client' = [client EXCEPT !.channel = "open"]
    BY <1>5 DEF ChannelOpens
  <2>2. client' \in ClientFields
    BY <1>0, <2>1, Values, Zenon DEF ClientFields
  <2>3. /\ SameCourse(client', client) /\ SameRequests(client', client)
        /\ client'.channel = "open" /\ client'.peer = client.peer
        /\ client'.iceTimer = client.iceTimer
    BY <1>0, <2>1, Zenon DEF ClientFields, SameCourse, SameRequests
  <2>4. "none" \in Targets
    BY Values
  <2> QED BY <1>0, <2>1, <2>2, <2>3, <2>4, LiveFacts, TransportStep DEF Layered
<1>6. ASSUME NEW b \in BOOLEAN, SignalReady(b)
      PROVE  Sound(client', told')
  <2>1. client.socket = "open" /\ client.peer = "none" /\ told' = told
    BY <1>6 DEF SignalReady
  <2>2. CASE client.connectedOnce /\ ~b
    <3>1. client' = HandleFailure(client, FALSE)
      BY <1>6, <2>2 DEF SignalReady
    <3> QED BY <1>0, <2>1, <3>1, LiveFails DEF Layered
  <2>3. CASE ~(client.connectedOnce /\ ~b)
    <3>1. client' = [client EXCEPT !.peer = "new", !.channel = "none", !.offers = 0]
      BY <1>6, <2>3 DEF SignalReady, NewPeer
    <3>2. client' \in ClientFields
      BY <1>0, <3>1, Values, Zero, Zenon DEF ClientFields
    <3>3. /\ SameCourse(client', client) /\ SameRequests(client', client)
          /\ client'.channel = "none" /\ client'.peer = "new" /\ client'.iceTimer = client.iceTimer
      BY <1>0, <3>1, Zenon DEF ClientFields, SameCourse, SameRequests
    <3>4. client.channel = "none"
      BY <1>0, <2>1 DEF Layered
    <3> QED BY <1>0, <2>1, <3>2, <3>3, <3>4, LiveFacts, TransportStep DEF Layered
  <2> QED BY <2>2, <2>3
<1> QED BY <1>1, <1>2, <1>3, <1>4, <1>5, <1>6

\* The close events, of which those of a replaced socket or channel are ignored.
LEMMA CloseActions ==
  ASSUME Sound(client, told), SocketCloses \/ RetiredSocketCloses \/ RetiredChannelCloses
  PROVE  Sound(client', told')
<1>0. client \in ClientFields /\ told \in Targets
  BY Parts
<1>1. CASE SocketCloses
  <2> SUFFICES ASSUME NEW d, d = [client EXCEPT !.socket = "none"],
                      \/ client' = d
                      \/ client' = HandleFailure(d, TRUE) /\ d.state \notin Terminal
               PROVE  Sound(client', told)
    BY <1>1 DEF SocketCloses, OnSocketClose, IsCurrent
  <2>1. d \in ClientFields
    BY <1>0, Values, Zenon DEF ClientFields
  <2>2. /\ SameCourse(d, client) /\ SameRequests(d, client) /\ d.socket = "none"
        /\ d.channel = client.channel /\ d.offers = client.offers
        /\ d.peer = client.peer /\ d.iceTimer = client.iceTimer
    BY <1>0, Zenon DEF ClientFields, SameCourse, SameRequests
  <2>3. Sound(d, told)
    <3>1. Fetching(d) /\ Fresh(d) /\ Ended(d)
      BY <2>2, Parts DEF Fetching, Fresh, Ended, SameCourse
    <3>2. Layered(d) /\ Timed(d) /\ Told(d, told)
      BY <2>2, Parts DEF Layered, Timed, Told, SameCourse, SameRequests
    <3> QED BY <1>0, <2>1, <3>1, <3>2 DEF Sound
  <2>4. CASE client' = HandleFailure(d, TRUE) /\ d.state \notin Terminal
    <3>1. client.socket # "none"
      BY <1>1 DEF SocketCloses
    <3>2. ~client.requesting /\ client.recovery = "idle" /\ client.connect # "none"
      BY <3>1, Parts DEF Fetching, Fresh
    <3>3. ~client.disconnecting
      BY <2>2, <2>4, Parts DEF Ended, SameCourse, Terminal
    <3>4. (d.channel # "none" => d.peer # "none") /\ (told \in Serving => d.connectedOnce)
      BY <2>3, Parts DEF Layered, Told
    <3> QED BY <1>0, <2>1, <2>2, <2>4, <3>2, <3>3, <3>4, FailureSound DEF SameCourse
  <2> QED BY <2>3, <2>4
<1>2. CASE RetiredSocketCloses \/ RetiredChannelCloses
  <2>1. PICK C \in SUBSET {"socket", "channel"} :
          client' = [client EXCEPT !.closing = C] \/ client' = [[client EXCEPT !.channel = @] EXCEPT !.closing = C]
    <3>1. client.closing \in SUBSET {"socket", "channel"}
      BY <1>0, Zenon DEF ClientFields
    <3>2. CASE RetiredSocketCloses
      <4>1. client' = [client EXCEPT !.closing = @ \ {"socket"}]
        BY <3>2 DEF RetiredSocketCloses, OnSocketClose, IsCurrent
      <4> QED BY <3>1, <4>1
    <3>3. CASE RetiredChannelCloses
      <4>1. client' = [[client EXCEPT !.channel = @] EXCEPT !.closing = @ \ {"channel"}]
        BY <3>3 DEF RetiredChannelCloses, OnChannelClose, IsCurrent
      <4>2. [client EXCEPT !.channel = @].closing = client.closing
        BY <1>0, Zenon DEF ClientFields
      <4> QED BY <3>1, <4>1, <4>2
    <3> QED BY <1>2, <3>2, <3>3
  <2>2. client' \in ClientFields
    BY <1>0, <2>1, ZenonT(60) DEF ClientFields
  <2>3. SameCourse(client', client) /\ SameTransport(client', client) /\ SameRequests(client', client)
    BY <1>0, <2>1, Zenon DEF ClientFields, SameCourse, SameTransport, SameRequests
  <2>4. told' = told
    BY <1>2 DEF RetiredSocketCloses, RetiredChannelCloses
  <2>5. client'.pending # "none" \/ client'.window => client'.channel = "open" /\ client'.state \notin Terminal
    BY <2>3, Parts DEF Layered, SameCourse, SameTransport, SameRequests
  <2> QED BY <2>2, <2>3, <2>4, <2>5, RequestsStep
<1> QED BY <1>1, <1>2

\* connect(), called at most once and not on a client that was disconnected.
LEMMA ConnectAction ==
  ASSUME Sound(client, told), ConnectAfterClose = FALSE, Connect
  PROVE  Sound(client', told')
<1>0. client \in ClientFields /\ told \in Targets
  BY Parts
<1>1. /\ client.connect = "none" /\ client.state # "CLOSED" /\ told' = told
      /\ client' = [[client EXCEPT !.socket = "connecting", !.connTimer = TRUE]
                     EXCEPT !.connect = "pending", !.state = "NEGOTIATING"]
  BY DEF Connect, OpenSignaling
<1>2. client' \in ClientFields
  BY <1>0, <1>1, Values, Zenon DEF ClientFields
<1>3. /\ client'.connect = "pending" /\ client'.state = "NEGOTIATING" /\ client'.connTimer = TRUE
      /\ client'.connectedOnce = client.connectedOnce /\ client'.disconnecting = client.disconnecting
      /\ client'.requesting = client.requesting /\ client'.recovery = client.recovery
      /\ client'.peer = client.peer /\ client'.channel = client.channel
      /\ client'.offers = client.offers /\ client'.iceTimer = client.iceTimer
      /\ SameRequests(client', client)
  BY <1>0, <1>1, Zenon DEF ClientFields, SameRequests
<1>4. /\ client.state = "ATTACHING" /\ ~client.connectedOnce /\ ~client.disconnecting
      /\ client.recovery = "idle" /\ ~client.requesting
  BY <1>1, Parts DEF Fresh, Ended, Fetching
<1>5. Fetching(client') /\ Fresh(client') /\ Ended(client')
  BY <1>3, <1>4, Parts DEF Fetching, Fresh, Ended, Serving, Terminal
<1>6. Layered(client') /\ Timed(client') /\ Told(client', told)
  BY <1>3, <1>4, Parts DEF Layered, Timed, Told, SameRequests, Serving, Terminal
<1> QED BY <1>0, <1>1, <1>2, <1>5, <1>6 DEF Sound

\* disconnect() ends whatever is under way, but a provider that was asked.
LEMMA DisconnectAction ==
  ASSUME Sound(client, told), Disconnect
  PROVE  Sound(client', told')
<1>0. client \in ClientFields /\ told \in Targets
  BY Parts
<1> DEFINE k == CancelDelay(client)
           d == Teardown(RejectPending(k))
           v == IF d.connect = "pending" THEN "rejected" ELSE d.connect
<1>1. /\ client' = [d EXCEPT !.disconnecting = TRUE, !.state = "CLOSED",
                              !.connect = IF @ = "pending" THEN "rejected" ELSE @]
      /\ told' = told
  BY DEF Disconnect
<1>2. k \in ClientFields
  BY <1>0, HelperTypes
<1>3. d \in ClientFields
  BY <1>2, HelperTypes
<1>4. /\ k.connect = client.connect /\ k.connectedOnce = client.connectedOnce
      /\ k.recovery = (IF client.recovery = "delay" THEN "idle" ELSE client.recovery)
      /\ k.requesting = (IF client.recovery = "delay" THEN FALSE ELSE client.requesting)
  BY <1>0, Zenon DEF CancelDelay, ClientFields
<1>5. /\ d.connect = k.connect /\ d.connectedOnce = k.connectedOnce
      /\ d.requesting = k.requesting /\ d.recovery = k.recovery
      /\ d.socket = "none" /\ d.peer = "none" /\ d.channel = "none" /\ d.offers = 0
      /\ d.connTimer = FALSE /\ d.iceTimer = "off" /\ d.pending = "none" /\ d.window = FALSE
  BY <1>2, TeardownFields
<1> HIDE DEF k, d
<1>6. v \in ConnectStates
  BY <1>3, Values, Zenon DEF ClientFields
<1>7. client' = [d EXCEPT !.disconnecting = TRUE, !.state = "CLOSED", !.connect = v]
  BY <1>1, Zenon
<1>8. client' \in ClientFields
  <2> HIDE DEF v
  <2> QED BY <1>3, <1>6, <1>7, Values, Zenon DEF ClientFields
<1>9. /\ client'.connect = v /\ client'.connectedOnce = d.connectedOnce
      /\ client'.disconnecting = TRUE /\ client'.state = "CLOSED"
      /\ client'.requesting = d.requesting /\ client'.recovery = d.recovery
      /\ client'.socket = d.socket /\ client'.peer = d.peer /\ client'.channel = d.channel
      /\ client'.offers = d.offers /\ client'.connTimer = d.connTimer
      /\ client'.iceTimer = d.iceTimer /\ SameRequests(client', d)
  BY <1>3, <1>7, Zenon DEF ClientFields, SameRequests
<1>10. /\ client'.connect = "none" => client.connect = "none"
       /\ client'.connectedOnce = client.connectedOnce
       /\ client'.disconnecting = TRUE /\ client'.state = "CLOSED"
       /\ client'.recovery = (IF client.recovery = "delay" THEN "idle" ELSE client.recovery)
       /\ client'.requesting = (IF client.recovery = "delay" THEN FALSE ELSE client.requesting)
       /\ client'.socket = "none" /\ client'.peer = "none" /\ client'.channel = "none"
       /\ client'.offers = 0 /\ client'.connTimer = FALSE /\ client'.iceTimer = "off"
       /\ client'.pending = "none" /\ client'.window = FALSE
  BY <1>4, <1>5, <1>9 DEF SameRequests
<1>11. Fetching(client') /\ Fresh(client') /\ Ended(client')
  BY <1>10, Parts DEF Fetching, Fresh, Ended, Serving, Terminal
<1>12. Layered(client') /\ Timed(client') /\ Told(client', told)
  BY <1>10, Parts DEF Layered, Timed, Told, Serving, Terminal
<1> QED BY <1>0, <1>1, <1>8, <1>11, <1>12 DEF Sound

\* What Core says on the reliable channel.
LEMMA CoreActions ==
  ASSUME Sound(client, told), HelloAccepted \/ \E s \in Serving : SessionState(s)
  PROVE  Sound(client', told')
<1>0. client \in ClientFields
  BY Parts
<1>1. CASE HelloAccepted
  <2>1. /\ client.channel = "open" /\ told' = "CONNECTED"
        /\ client' = [client EXCEPT !.state = "CONNECTED", !.connectedOnce = TRUE,
                                    !.attempts = 0, !.awaiting = FALSE, !.connTimer = FALSE,
                                    !.connect = "resolved"]
    BY <1>1 DEF HelloAccepted
  <2>2. "CONNECTED" \in States /\ "CONNECTED" \in Targets
    BY DEF States, Targets, Serving
  <2>3. client' \in ClientFields
    BY <1>0, <2>1, <2>2, Values, Zero, Zenon DEF ClientFields
  <2>4. /\ client'.state = "CONNECTED" /\ client'.connectedOnce = TRUE
        /\ client'.awaiting = FALSE /\ client'.connTimer = FALSE /\ client'.connect = "resolved"
        /\ client'.disconnecting = client.disconnecting
        /\ client'.requesting = client.requesting /\ client'.recovery = client.recovery
        /\ SameTransport(client', client) /\ SameRequests(client', client)
    BY <1>0, <2>1, Zenon DEF ClientFields, SameTransport, SameRequests
  <2>5. ~client.disconnecting /\ client.recovery = "idle" /\ ~client.requesting
    BY <2>1, LiveFacts
  <2>6. Fetching(client') /\ Fresh(client') /\ Ended(client')
    BY <2>4, <2>5 DEF Fetching, Fresh, Ended, Serving, Terminal
  <2>7. Layered(client') /\ Timed(client') /\ Told(client', "CONNECTED")
    BY <2>1, <2>4, Parts DEF Layered, Timed, Told, Serving, Terminal, SameTransport, SameRequests
  <2> QED BY <2>1, <2>2, <2>3, <2>6, <2>7 DEF Sound
<1>2. ASSUME NEW s \in Serving, SessionState(s)
      PROVE  Sound(client', told')
  <2>1. /\ client.channel = "open" /\ told \in Serving /\ told' = s
        /\ client' = [client EXCEPT !.state = s, !.pending = IF @ = s THEN "none" ELSE @]
    BY <1>2 DEF SessionState
  <2>2. s \in States /\ s \in Targets
    BY Values
  <2>3. client' \in ClientFields
    BY <1>0, <2>1, <2>2, Values, Zenon DEF ClientFields
  <2>4. /\ client'.state = s /\ client'.connectedOnce = client.connectedOnce
        /\ client'.awaiting = client.awaiting /\ client'.connTimer = client.connTimer
        /\ client'.connect = client.connect /\ client'.disconnecting = client.disconnecting
        /\ client'.requesting = client.requesting /\ client'.recovery = client.recovery
        /\ SameTransport(client', client)
    BY <1>0, <2>1, Zenon DEF ClientFields, SameTransport
  <2>5. /\ ~client.disconnecting /\ client.recovery = "idle" /\ ~client.requesting
        /\ client.connect # "none" /\ (client.awaiting => client.connTimer)
    BY <2>1, LiveFacts
  <2>6. client.connectedOnce
    BY <2>1, Parts DEF Told
  <2>7. s # "CLOSED" /\ s # "FAILED" /\ s \notin {"ATTACHING", "NEGOTIATING", "RECONNECTING"}
    BY DEF Serving
  <2>8. Fetching(client') /\ Fresh(client') /\ Ended(client')
    BY <2>4, <2>5, <2>6, <2>7 DEF Fetching, Fresh, Ended, Terminal
  <2>9. Layered(client') /\ Timed(client') /\ Told(client', s)
    BY <2>1, <2>4, <2>5, <2>6, <2>7, Parts DEF Layered, Timed, Told, Terminal, SameTransport
  <2> QED BY <2>1, <2>2, <2>3, <2>8, <2>9 DEF Sound
<1> QED BY <1>1, <1>2

\* A peer that connects, after a restart or for the first time.
LEMMA PeerConnectsAction ==
  ASSUME Sound(client, told), PeerConnects
  PROVE  Sound(client', told')
<1>0. client \in ClientFields /\ told \in Targets
  BY Parts
<1> DEFINE d == [client EXCEPT !.peer = "connected", !.iceTimer = "off", !.restarts = 0]
<1>1. /\ client.peer \in {"connecting", "disconnected"} /\ told' = told
      /\ client' = IF d.connectedOnce /\ ~d.awaiting /\ d.state = "RECONNECTING"
                   THEN [d EXCEPT !.state = d.before] ELSE d
  BY DEF PeerConnects
<1>2. d \in ClientFields
  BY <1>0, Values, Zero, Zenon DEF ClientFields
<1>3. /\ SameCourse(d, client) /\ SameRequests(d, client)
      /\ d.channel = client.channel /\ d.offers = client.offers
      /\ d.peer = "connected" /\ d.iceTimer = "off"
  BY <1>0, Zenon DEF ClientFields, SameCourse, SameRequests
<1> HIDE DEF d
<1>4. /\ client.recovery = "idle" /\ ~client.requesting /\ client.state \notin Terminal
      /\ ~client.disconnecting /\ client.connect # "none"
      /\ (~client.connectedOnce => client.connTimer) /\ (client.awaiting => client.connTimer)
      /\ (client.connectedOnce /\ ~client.awaiting =>
             told = Remember(client) /\ client.channel # "none")
  BY <1>1, LiveFacts
<1>5. CASE ~(d.connectedOnce /\ ~d.awaiting /\ d.state = "RECONNECTING")
  <2>1. client' = d
    BY <1>1, <1>5
  <2>2. Fetching(d) /\ Fresh(d) /\ Ended(d)
    BY <1>3, <1>4, Parts DEF Fetching, Fresh, Ended, SameCourse
  <2>3. Layered(d)
    BY <1>3, <1>4, Parts DEF Layered, SameCourse, SameRequests
  <2>4. Timed(d)
    BY <1>3, <1>4, <1>5, Parts DEF Timed, SameCourse
  <2>5. Told(d, told)
    BY <1>3, Parts DEF Told, SameCourse
  <2> QED BY <1>0, <1>1, <1>2, <2>1, <2>2, <2>3, <2>4, <2>5 DEF Sound
<1>6. CASE d.connectedOnce /\ ~d.awaiting /\ d.state = "RECONNECTING"
  <2>1. client' = [d EXCEPT !.state = d.before]
    BY <1>1, <1>6
  <2>2. d.before \in Serving
    BY <1>2, Zenon DEF ClientFields
  <2>3. d.before \in States
    BY <2>2, Values
  <2>4. client' \in ClientFields
    BY <1>2, <2>1, <2>3, Zenon DEF ClientFields
  <2>5. /\ client'.state = d.before /\ client'.connectedOnce = d.connectedOnce
        /\ client'.awaiting = d.awaiting /\ client'.connTimer = d.connTimer
        /\ client'.connect = d.connect /\ client'.disconnecting = d.disconnecting
        /\ client'.requesting = d.requesting /\ client'.recovery = d.recovery
        /\ SameTransport(client', d) /\ SameRequests(client', d)
    BY <1>2, <2>1, Zenon DEF ClientFields, SameTransport, SameRequests
  <2>6. told = d.before /\ d.channel # "none"
    BY <1>3, <1>4, <1>6, Parts DEF Told, SameCourse
  <2>7. /\ d.before # "CLOSED" /\ d.before # "FAILED"
        /\ d.before \notin {"ATTACHING", "NEGOTIATING", "RECONNECTING"}
    BY <2>2 DEF Serving
  <2>8. Fetching(client') /\ Fresh(client') /\ Ended(client')
    BY <1>3, <1>4, <1>6, <2>2, <2>5, <2>7 DEF Fetching, Fresh, Ended, Terminal, SameCourse
  <2>9. Layered(client')
    BY <1>3, <2>5, <2>7, Parts DEF Layered, Terminal, SameCourse, SameTransport, SameRequests
  <2>10. Timed(client') /\ Told(client', told)
    BY <1>3, <1>6, <2>2, <2>5, <2>6, <2>7 DEF Timed, Told, SameTransport
  <2> QED BY <1>0, <1>1, <2>4, <2>8, <2>9, <2>10 DEF Sound
<1> QED BY <1>5, <1>6

\* The steps that restart ICE.
LEMMA RestartActions ==
  ASSUME Sound(client, told), PeerFails \/ IceTimeout
  PROVE  Sound(client', told')
<1>0. client \in ClientFields /\ told \in Targets
  BY Parts
<1>1. ASSUME NEW d \in ClientFields, SameCourse(d, client), SameRequests(d, client),
             d.channel = client.channel, d.peer \notin {"none", "connected"},
             client.peer \in {"connecting", "disconnected"} \/ client.iceTimer # "off"
      PROVE  Sound(RequestIceRestart(d), told)
  <2>1. /\ client.recovery = "idle" /\ ~client.requesting /\ client.state \notin Terminal
        /\ ~client.disconnecting /\ client.connect # "none"
        /\ (~client.connectedOnce => client.connTimer) /\ (client.awaiting => client.connTimer)
        /\ (client.connectedOnce /\ ~client.awaiting =>
               told = Remember(client) /\ client.channel # "none")
    BY <1>1, LiveFacts
  <2>2. Remember(d) = Remember(client)
    BY <1>1 DEF Remember, SameCourse
  <2>3. /\ told \in Serving => client.connectedOnce
        /\ client.pending # "none" \/ client.window => client.channel = "open"
    BY Parts DEF Told, Layered
  <2>4. /\ d.recovery = "idle" /\ ~d.requesting /\ d.state \notin Terminal
        /\ ~d.disconnecting /\ d.connect # "none"
        /\ (told \in Serving => d.connectedOnce)
        /\ (d.pending # "none" \/ d.window => d.channel = "open")
        /\ (~d.connectedOnce => d.connTimer) /\ (d.awaiting => d.connTimer)
        /\ (d.connectedOnce /\ ~d.awaiting => told = Remember(d) /\ d.channel # "none")
    BY <1>1, <2>1, <2>2, <2>3 DEF SameCourse, SameRequests
  <2> QED BY <1>0, <1>1, <2>4, RestartSound
<1>2. CASE PeerFails
  <2> SUFFICES ASSUME NEW d, d = [client EXCEPT !.peer = "failed"]
               PROVE  Sound(RequestIceRestart(d), told)
    BY <1>2 DEF PeerFails
  <2>1. d \in ClientFields
    BY <1>0, Values, Zenon DEF ClientFields
  <2>2. /\ SameCourse(d, client) /\ SameRequests(d, client)
        /\ d.channel = client.channel /\ d.peer = "failed"
    BY <1>0, Zenon DEF ClientFields, SameCourse, SameRequests
  <2>3. client.peer \in {"connecting", "disconnected"}
    BY <1>2 DEF PeerFails
  <2> QED BY <1>1, <2>1, <2>2, <2>3
<1>3. CASE IceTimeout
  <2> SUFFICES ASSUME NEW d, d = [client EXCEPT !.iceTimer = "off"], client.iceTimer # "off",
                      client' = IF \/ client.iceTimer = "delay" /\ d.peer = "disconnected"
                                   \/ client.iceTimer = "attempt" /\ d.peer # "connected"
                                THEN RequestIceRestart(d) ELSE d
               PROVE  Sound(client', told)
    BY <1>3 DEF IceTimeout
  <2>1. d \in ClientFields
    BY <1>0, Values, Zenon DEF ClientFields
  <2>2. /\ SameCourse(d, client) /\ SameRequests(d, client) /\ d.iceTimer = "off"
        /\ d.channel = client.channel /\ d.offers = client.offers
        /\ d.peer = client.peer /\ d.socket = client.socket
    BY <1>0, Zenon DEF ClientFields, SameCourse, SameRequests
  <2>3. CASE \/ client.iceTimer = "delay" /\ d.peer = "disconnected"
             \/ client.iceTimer = "attempt" /\ d.peer # "connected"
    <3>1. d.peer \notin {"none", "connected"}
      BY <2>2, <2>3, Parts DEF Layered
    <3> QED BY <1>1, <2>1, <2>2, <2>3, <3>1
  <2>4. CASE ~(\/ client.iceTimer = "delay" /\ d.peer = "disconnected"
               \/ client.iceTimer = "attempt" /\ d.peer # "connected")
    <3>1. client' = d
      BY <2>4
    <3>2. client.iceTimer # "attempt"
      BY <2>2, <2>4, Parts DEF Layered
    <3>3. /\ client.state \notin Terminal /\ ~client.requesting /\ client.connect # "none"
      BY LiveFacts
    <3>4. d.channel # "none" \/ d.offers > 0 => d.peer # "none"
      BY <2>2, Parts DEF Layered
    <3> QED BY <1>0, <2>1, <2>2, <3>1, <3>2, <3>3, <3>4, TransportStep
  <2> QED BY <2>3, <2>4
<1> QED BY <1>2, <1>3

\* The run of #requestReconnectCredentials after its delay: the Embedder's
\* provider is asked, and its answer opens a socket, or does not.
LEMMA RecoveryActions ==
  ASSUME Sound(client, told),
         DelayElapses \/ ProviderAnswers \/ \E b \in BOOLEAN : ProviderFails(b)
  PROVE  Sound(client', told')
<1>0. client \in ClientFields /\ told \in Targets
  BY Parts
<1>1. CASE DelayElapses
  <2>1. /\ client.recovery = "delay" /\ told' = told
        /\ client' = [client EXCEPT !.recovery = "provider"]
    BY <1>1 DEF DelayElapses
  <2>2. client' \in ClientFields
    BY <1>0, <2>1, Values, Zenon DEF ClientFields
  <2>3. /\ client'.recovery = "provider" /\ client'.state = client.state
        /\ client'.before = client.before /\ client'.connect = client.connect
        /\ client'.connectedOnce = client.connectedOnce
        /\ client'.disconnecting = client.disconnecting
        /\ client'.requesting = client.requesting /\ client'.awaiting = client.awaiting
        /\ client'.connTimer = client.connTimer
        /\ SameTransport(client', client) /\ SameRequests(client', client)
    BY <1>0, <2>1, Zenon DEF ClientFields, SameTransport, SameRequests
  <2>4. Fetching(client') /\ Fresh(client') /\ Ended(client')
    BY <2>1, <2>3, Parts DEF Fetching, Fresh, Ended, SameTransport
  <2>5. Layered(client') /\ Timed(client') /\ Told(client', told)
    BY <2>1, <2>3, Parts DEF Layered, Timed, Told, SameTransport, SameRequests
  <2> QED BY <1>0, <2>1, <2>2, <2>4, <2>5 DEF Sound
<1> DEFINE d == [client EXCEPT !.recovery = "idle", !.requesting = FALSE]
<1>2. d \in ClientFields
  BY <1>0, Values, Zenon DEF ClientFields
<1>3. /\ d.recovery = "idle" /\ d.requesting = FALSE /\ d.state = client.state
      /\ d.connect = client.connect /\ d.connectedOnce = client.connectedOnce
      /\ d.disconnecting = client.disconnecting /\ d.connTimer = client.connTimer
      /\ SameTransport(d, client) /\ SameRequests(d, client)
  BY <1>0, Zenon DEF ClientFields, SameTransport, SameRequests
<1>d. [client EXCEPT !.recovery = "idle", !.requesting = FALSE] = d
  OBVIOUS
<1> HIDE DEF d
<1>4. ASSUME client.recovery = "provider"
      PROVE  /\ client.socket = "none" /\ client.peer = "none" /\ client.channel = "none"
             /\ client.offers = 0 \/ client.state \in Terminal \/ ~(client.offers > 0)
             /\ ~client.connTimer /\ client.iceTimer = "off" /\ client.connect # "none"
             /\ client.state # "FAILED" /\ client.state # "ATTACHING"
             /\ client.pending = "none" /\ ~client.window
             /\ (told \in Serving => client.connectedOnce)
             /\ (client.state = "CLOSED" <=> client.disconnecting)
  BY <1>4, Parts DEF Fetching, Fresh, Ended, Layered, Told
<1>5. ASSUME client.recovery = "provider", client.state = "CLOSED"
      PROVE  Sound(d, told)
  <2>1. Fetching(d) /\ Fresh(d) /\ Ended(d)
    BY <1>3, <1>4, <1>5, Parts DEF Fetching, Fresh, Ended, SameTransport, Serving, Terminal
  <2>2. Layered(d) /\ Timed(d) /\ Told(d, told)
    BY <1>3, <1>4, <1>5, Parts DEF Layered, Timed, Told, SameTransport, SameRequests, Serving, Terminal
  <2> QED BY <1>0, <1>2, <2>1, <2>2 DEF Sound
<1>6. CASE ProviderAnswers
  <2>1. /\ client.recovery = "provider" /\ told' = told
        /\ client' = IF d.disconnecting \/ d.state = "CLOSED" THEN d
                     ELSE [OpenSignaling(d) EXCEPT !.awaiting = TRUE, !.state = "RECONNECTING"]
    BY <1>6, <1>d DEF ProviderAnswers
  <2>2. CASE client.state = "CLOSED"
    <3>1. client' = d
      BY <1>3, <2>1, <2>2
    <3> QED BY <1>5, <2>1, <2>2, <3>1
  <2>3. CASE client.state # "CLOSED"
    <3>1. client' = [[d EXCEPT !.socket = "connecting", !.connTimer = TRUE]
                     EXCEPT !.awaiting = TRUE, !.state = "RECONNECTING"]
      BY <1>3, <1>4, <2>1, <2>3 DEF OpenSignaling
    <3>2. client' \in ClientFields
      BY <1>2, <3>1, Values, Zenon DEF ClientFields
    <3>3. /\ client'.state = "RECONNECTING" /\ client'.awaiting = TRUE /\ client'.connTimer = TRUE
          /\ client'.recovery = d.recovery /\ client'.requesting = d.requesting
          /\ client'.connect = d.connect /\ client'.connectedOnce = d.connectedOnce
          /\ client'.disconnecting = d.disconnecting
          /\ client'.peer = d.peer /\ client'.channel = d.channel
          /\ client'.offers = d.offers /\ client'.iceTimer = d.iceTimer
          /\ SameRequests(client', d)
      BY <1>2, <3>1, Zenon DEF ClientFields, SameRequests
    <3>4. /\ client'.connect # "none" /\ ~client'.disconnecting
          /\ client'.recovery = "idle" /\ ~client'.requesting
          /\ client'.channel = "none" /\ ~(client'.offers > 0)
          /\ client'.iceTimer = "off" /\ client'.pending = "none" /\ ~client'.window
          /\ (told \in Serving => client'.connectedOnce)
      <4>1. ~(client.offers > 0)
        BY <2>1, Parts DEF Layered, Fetching
      <4> QED BY <1>3, <1>4, <2>1, <2>3, <3>3, <4>1 DEF SameTransport, SameRequests
    <3>5. Fetching(client') /\ Fresh(client') /\ Ended(client')
      BY <3>3, <3>4 DEF Fetching, Fresh, Ended, Serving, Terminal
    <3>6. Layered(client') /\ Timed(client') /\ Told(client', told)
      BY <3>3, <3>4 DEF Layered, Timed, Told, Serving, Terminal
    <3> QED BY <1>0, <2>1, <3>2, <3>5, <3>6 DEF Sound
  <2> QED BY <2>2, <2>3
<1>7. ASSUME NEW b \in BOOLEAN, ProviderFails(b)
      PROVE  Sound(client', told')
  <2>1. client.recovery = "provider" /\ told' = told /\ client' = HandleFailure(d, b)
    BY <1>7, <1>d DEF ProviderFails
  <2>2. CASE client.state = "CLOSED"
    <3>1. client' = d
      BY <1>3, <2>1, <2>2 DEF HandleFailure, Terminal
    <3> QED BY <1>5, <2>1, <2>2, <3>1
  <2>3. CASE client.state # "CLOSED"
    <3>1. /\ d.state \notin Terminal /\ ~d.disconnecting /\ d.connect # "none"
          /\ d.channel = "none" /\ (told \in Serving => d.connectedOnce)
      BY <1>3, <1>4, <2>1, <2>3 DEF Terminal, SameTransport
    <3> QED BY <1>0, <1>2, <1>3, <2>1, <3>1, FailureSound
  <2> QED BY <2>2, <2>3
<1> QED BY <1>1, <1>6, <1>7

-----------------------------------------------------------------------------
(* The theorems.                                                              *)

LEMMA InitSound == Init => Sound(client, told)
<1> SUFFICES ASSUME Init PROVE Sound(client, told)
  OBVIOUS
<1>1. client \in ClientFields
  <2>1. "ATTACHING" \in States /\ "CONNECTED" \in Serving /\ "none" \in ConnectStates
        /\ {} \in SUBSET {"socket", "channel"}
    BY DEF States, Serving, ConnectStates
  <2> QED BY <2>1, Values, Zero, Zenon DEF Init, ClientFields
<1>2. told \in Targets
  BY DEF Init, Targets
<1>3. Fetching(client) /\ Fresh(client) /\ Ended(client)
  BY DEF Init, Fetching, Fresh, Ended, Serving, Terminal
<1>4. Layered(client) /\ Timed(client) /\ Told(client, told)
  BY DEF Init, Layered, Timed, Told, Serving, Terminal
<1> QED BY <1>1, <1>2, <1>3, <1>4 DEF Sound

LEMMA NextSound ==
  ASSUME ConnectAfterClose = FALSE, Sound(client, told), [Next]_vars
  PROVE  Sound(client', told')
<1>1. CASE UNCHANGED vars
  BY <1>1 DEF vars
<1>2. CASE Next
  BY <1>2, ConnectAction, DisconnectAction, RequestActions, FailureActions, TransportActions,
     CloseActions, CoreActions, PeerConnectsAction, RestartActions, RecoveryActions, Zenon
     DEF Next, Provider
<1> QED BY <1>1, <1>2

LEMMA AlwaysSound ==
  ASSUME ConnectAfterClose = FALSE
  PROVE  Spec => []Sound(client, told)
<1>1. Sound(client, told) /\ [Next]_vars => Sound(client, told)'
  BY NextSound
<1>2. Spec => Init /\ [][Next]_vars
  BY DEF Spec
<1> QED BY <1>1, <1>2, InitSound, PTL

\* A connection is recovered by one run of #requestReconnectCredentials at a
\* time, while which the lost transport is gone and untimed; a client that says
\* RECONNECTING has a timer or that run to end it; and no suspend, resume or
\* window selection outlives the channel it was sent on.
THEOREM ConsistentAlways ==
  ASSUME ConnectAfterClose = FALSE
  PROVE  Spec => []Consistent
<1>1. Sound(client, told) => Consistent
  <2> SUFFICES ASSUME Sound(client, told) PROVE Consistent
    OBVIOUS
  <2>1. TypeOK
    BY Parts DEF TypeOK
  <2>2. RecoveryIsTimed /\ QuietWhileFetching
    BY Parts DEF RecoveryIsTimed, QuietWhileFetching, Timed, Fetching
  <2>3. RequestsDieWithChannel
    BY Parts DEF RequestsDieWithChannel, Layered
  <2> QED BY <2>1, <2>2, <2>3 DEF Consistent
<1> QED BY <1>1, AlwaysSound, PTL

\* The client serves only in the state Core last told it on this transport:
\* neither a peer that connects again nor a recovery that Core has not greeted
\* resurrects an older one.
THEOREM ServesAsToldAlways ==
  ASSUME ConnectAfterClose = FALSE
  PROVE  Spec => []ServesAsTold
<1>1. Sound(client, told) => ServesAsTold
  BY Parts DEF ServesAsTold, Told
<1> QED BY <1>1, AlwaysSound, PTL

\* What can still happen to a client that failed or was closed.
LEMMA TerminalSteps ==
  ASSUME ConnectAfterClose = FALSE, Sound(client, told), client.state \in Terminal, Next
  PROVE  \/ Disconnect /\ client.state = "FAILED"
         \/ SocketCloses \/ RetiredSocketCloses \/ RetiredChannelCloses
         \/ DelayElapses \/ Provider
<1>1. /\ client.channel # "open" /\ client.peer \in {"none", "closed"}
      /\ client.socket \in {"none", "closing"} /\ client.offers = 0
      /\ ~client.connTimer /\ client.iceTimer = "off"
      /\ client.pending = "none" /\ ~client.window
  BY Parts DEF Ended, Layered
<1>2. ~Connect
  BY Parts DEF Connect, Fresh, Terminal
<1>3. ~(client.offers > 0)
  BY <1>1
<1>4. /\ \A s \in Serving : ~RequestState(s) /\ ~SessionState(s)
      /\ ~StateTimeout /\ ~SelectWindow /\ ~WindowAnswered /\ ~WindowTimeout
  BY <1>1, Zenon
     DEF RequestState, SessionState, StateTimeout, SelectWindow, WindowAnswered, WindowTimeout
<1>5. /\ ~SocketOpens /\ ~SocketErrors /\ ~SignalOffer
      /\ \A b \in BOOLEAN : ~SignalReady(b) /\ ~SignalFailure(b)
  BY <1>1 DEF SocketOpens, SocketErrors, SignalOffer, SignalReady, SignalFailure
<1>6. ~AnswerReady /\ ~AnswerRejected
  BY <1>3, Zenon DEF AnswerReady, AnswerRejected
<1>7. ~PeerConnects /\ ~PeerDisconnects /\ ~PeerFails
  BY <1>1 DEF PeerConnects, PeerDisconnects, PeerFails
<1>8. ~ChannelOpens /\ ~ChannelCloses /\ ~HelloAccepted /\ ~ErrorMessage
  BY <1>1 DEF ChannelOpens, ChannelCloses, HelloAccepted, ErrorMessage
<1>9. ~ConnectionTimeout /\ ~IceTimeout
  BY <1>1, Zenon DEF ConnectionTimeout, IceTimeout
<1>10. Disconnect => client.state = "FAILED"
  BY DEF Disconnect, Terminal
<1> QED BY <1>2, <1>4, <1>5, <1>6, <1>7, <1>8, <1>9, <1>10, Zenon DEF Next

LEMMA TerminalStep ==
  ASSUME ConnectAfterClose = FALSE, Sound(client, told), client.state \in Terminal, Next
  PROVE  client'.state = client.state \/ (client.state = "FAILED" /\ client'.state = "CLOSED")
<1>0. client \in ClientFields
  BY Parts
<1>1. ASSUME Disconnect PROVE client'.state = "CLOSED"
  <2> DEFINE d == Teardown(RejectPending(CancelDelay(client)))
  <2>1. client' = [d EXCEPT !.disconnecting = TRUE, !.state = "CLOSED",
                            !.connect = IF @ = "pending" THEN "rejected" ELSE @]
    BY <1>1 DEF Disconnect
  <2>2. d \in ClientFields
    BY <1>0, HelperTypes
  <2> HIDE DEF d
  <2> QED BY <2>1, <2>2, Zenon DEF ClientFields
<1>2. ASSUME SocketCloses PROVE client'.state = client.state
  <2> SUFFICES ASSUME NEW d, d = [client EXCEPT !.socket = "none"],
                      client' = IF /\ ~d.disconnecting /\ d.state \notin Terminal
                                   /\ ~d.connectedOnce \/ d.peer # "connected"
                                THEN HandleFailure(d, TRUE) ELSE d
               PROVE  client'.state = client.state
    BY <1>2 DEF SocketCloses, OnSocketClose, IsCurrent
  <2>1. d.state = client.state
    BY <1>0, Zenon DEF ClientFields
  <2> QED BY <2>1
<1>3. ASSUME RetiredSocketCloses PROVE client'.state = client.state
  <2>1. client' = [client EXCEPT !.closing = @ \ {"socket"}]
    BY <1>3 DEF RetiredSocketCloses, OnSocketClose, IsCurrent
  <2> QED BY <1>0, <2>1, Zenon DEF ClientFields
<1>4. ASSUME RetiredChannelCloses PROVE client'.state = client.state
  <2>1. client' = [[client EXCEPT !.channel = @] EXCEPT !.closing = @ \ {"channel"}]
    BY <1>4 DEF RetiredChannelCloses, OnChannelClose, IsCurrent
  <2> QED BY <1>0, <2>1, Zenon DEF ClientFields
<1>5. ASSUME DelayElapses PROVE client'.state = client.state
  <2>1. client' = [client EXCEPT !.recovery = "provider"]
    BY <1>5 DEF DelayElapses
  <2> QED BY <1>0, <2>1, Zenon DEF ClientFields
<1>6. ASSUME Provider PROVE client'.state = client.state
  <2> DEFINE d == [client EXCEPT !.recovery = "idle", !.requesting = FALSE]
  <2>1. d.state = client.state /\ d.disconnecting = client.disconnecting
    BY <1>0, Zenon DEF ClientFields
  <2>2. client.recovery = "provider"
    BY <1>6 DEF Provider, ProviderAnswers, ProviderFails
  <2>3. client.state = "CLOSED"
    BY <2>2, Parts DEF Ended, Terminal
  <2>4. CASE ProviderAnswers
    <3>1. client' = IF d.disconnecting \/ d.state = "CLOSED" THEN d
                    ELSE [OpenSignaling(d) EXCEPT !.awaiting = TRUE, !.state = "RECONNECTING"]
      BY <2>4 DEF ProviderAnswers
    <3> HIDE DEF d
    <3> QED BY <2>1, <2>3, <3>1
  <2>5. ASSUME NEW b \in BOOLEAN, ProviderFails(b) PROVE client'.state = client.state
    <3>1. client' = HandleFailure(d, b)
      BY <2>5 DEF ProviderFails
    <3> HIDE DEF d
    <3>2. client' = d
      BY <2>1, <2>3, <3>1 DEF HandleFailure, Terminal
    <3> QED BY <2>1, <3>2
  <2> QED BY <1>6, <2>4, <2>5 DEF Provider
<1> QED BY <1>1, <1>2, <1>3, <1>4, <1>5, <1>6, TerminalSteps, Zenon

\* A client that failed or was closed stays so: no late event of a socket or
\* channel, answer of the provider or timer brings it back.
THEOREM TerminalIsFinalAlways ==
  ASSUME ConnectAfterClose = FALSE
  PROVE  Spec => TerminalIsFinal
<1>1. Sound(client, told) /\ [Next]_vars
      => [/\ client.state = "FAILED" => client'.state \in Terminal
          /\ client.state = "CLOSED" => client'.state = "CLOSED"]_vars
  <2>1. CASE Next
    BY <2>1, TerminalStep DEF Terminal
  <2>2. CASE UNCHANGED vars
    BY <2>2
  <2> QED BY <2>1, <2>2
<1>2. Spec => [][Next]_vars
  BY DEF Spec
<1> QED BY <1>1, <1>2, AlwaysSound, PTL DEF TerminalIsFinal

-----------------------------------------------------------------------------
(***************************************************************************)
(* The files of the client, as they cross the channel: theorems about      *)
(* FileWire.  For any files of any length, an upload the user is told of   *)
(* is with the page, and the data of a download arrives in order although  *)
(* what waits in the Extension is passed by later messages.                *)
(***************************************************************************)
CONSTANTS Uploads, Drops, Downloads, Chunks, MaxFiles, None

VARIABLES shown, pending, accepted, sender, promise, received, failed,
          opened, chooser, transfer, written, step, owed, page,
          serving, stream, relay, up, down

W == INSTANCE FileWire

-----------------------------------------------------------------------------
(* The inductive invariant.                                                     *)

ClientTypes ==
  /\ shown \in SUBSET Uploads /\ pending \in Uploads \cup {None}
  /\ accepted \in BOOLEAN /\ failed \in BOOLEAN
  /\ sender \in [Uploads -> Nat] /\ \A u \in Uploads : sender[u] <= Chunks[u]
  /\ promise \in [W!Files -> {"none", "offered", "pending", "resolved", "rejected"}]
  /\ received \in [Downloads -> Nat] /\ \A d \in Downloads : received[d] <= Chunks[d]

CoreTypes ==
  /\ chooser \in Uploads \cup {None} /\ transfer \in Uploads \cup {None}
  /\ opened \in SUBSET Uploads /\ owed \in SUBSET Uploads /\ page \in SUBSET Uploads
  /\ written \in [Uploads -> Nat]
  /\ step \in [at : {"start", "reserve", "write", "commit", "refuse", "abort", "replace"},
               for : Uploads \cup {None}, old : Uploads \cup {None}]

ServeTypes ==
  /\ serving \in [Downloads -> {"none", "offered", "accepted", "gone"}]
  /\ stream \in [Downloads -> [at : {"off", "read", "forward"}, sent : Nat]]
  /\ relay \in [Downloads -> {"idle", "waiting", "forwarded"}]

ChannelTypes == up \in Seq(W!Message) /\ down \in Seq(W!Message)

(* What the page was given was written to its end, and the Viewer is told so    *)
(* of no other upload; data comes of downloads only.                            *)
PageInv ==
  /\ \A u \in Uploads : written[u] <= Chunks[u]
  /\ step.at = "write" => step.for \in Uploads /\ written[step.for] < Chunks[step.for]
  /\ step.at = "commit" => step.for \in Uploads /\ written[step.for] = Chunks[step.for]
  /\ \A u \in page : written[u] = Chunks[u]

SentInv == \A i \in DOMAIN up : up[i].type = "chunk" => up[i].id \in Uploads /\ up[i].arg < Chunks[up[i].id]

ToldInv ==
  /\ \A i \in DOMAIN down : down[i].type = "result" /\ down[i].arg = 1 => down[i].id \in page
  /\ \A i \in DOMAIN down : down[i].type \in {"chunk", "complete"} => down[i].id \in Downloads
  /\ \A u \in Uploads : promise[u] = "resolved" => u \in page

(* Messages to the Viewer about a download, the chunks the Extension has        *)
(* forwarded, and a download whose stream has not begun                         *)
About(d, kinds) == {i \in DOMAIN down : down[i].id = d /\ down[i].type \in kinds}
Sent(d) == stream[d].sent + (IF relay[d] = "forwarded" THEN 1 ELSE 0)
Unstarted(d) == stream[d].at = "off" /\ stream[d].sent = 0 /\ relay[d] = "idle"

StreamInv(d) ==
  /\ stream[d].sent <= Chunks[d]
  /\ relay[d] # "idle" \/ stream[d].at # "off" => stream[d].sent < Chunks[d]
  /\ stream[d].at = "read" => relay[d] = "idle"
  /\ serving[d] \in {"none", "offered"} => Unstarted(d)

(* A download is offered once, and its stream begins after it was accepted.     *)
OfferInv(d) ==
  /\ serving[d] = "none" => promise[d] = "none" /\ About(d, {"offer"}) = {}
  /\ \A i, j \in About(d, {"offer"}) : i = j
  /\ About(d, {"offer"}) # {} => promise[d] = "none"
  /\ promise[d] \in {"none", "offered"} =>
       /\ Unstarted(d) /\ received[d] = 0
       /\ \A i \in DOMAIN up : ~(up[i].type = "accept" /\ up[i].id = d)

(* The chunks on the way to the Viewer are in order, and while the Viewer waits *)
(* for the download they are those between what it has and what was sent.       *)
ChunkInv(d) ==
  /\ \A i \in About(d, {"chunk"}) : down[i].arg < Sent(d)
  /\ \A i, j \in About(d, {"chunk"}) : i < j => down[i].arg < down[j].arg
  /\ \A i \in About(d, {"complete"}) :
       stream[d].sent = Chunks[d] /\ \A j \in About(d, {"chunk"}) : j < i
  /\ promise[d] = "pending" =>
       /\ received[d] <= Sent(d)
       /\ \A i \in About(d, {"chunk"}) : received[d] <= down[i].arg
       /\ \A n \in received[d]..Sent(d) - 1 : \E i \in About(d, {"chunk"}) : down[i].arg = n

DownInv(d) == StreamInv(d) /\ OfferInv(d) /\ ChunkInv(d)

WireTypes == ClientTypes /\ CoreTypes /\ ServeTypes /\ ChannelTypes

WireInv ==
  /\ WireTypes /\ PageInv /\ SentInv /\ ToldInv
  /\ \A d \in Downloads : DownInv(d)

LEMMA WireConstants ==
  ASSUME W!FileWireAssumption
  PROVE  /\ Uploads \cap Downloads = {} /\ Drops \subseteq Uploads
         /\ \A f \in W!Files : Chunks[f] \in Nat /\ Chunks[f] > 0
         /\ None \notin Uploads /\ None \notin Downloads
         /\ Uploads \subseteq W!Files /\ Downloads \subseteq W!Files
BY DEF W!Files

LEMMA ChunkNumbers ==
  ASSUME W!FileWireAssumption
  PROVE  /\ \A f \in W!Files, n \in Nat : n <= Chunks[f] => n \in W!AnyChunk
         /\ \A f \in W!Files : 0 \in W!AnyChunk
BY WireConstants DEF W!AnyChunk

LEMMA Messages ==
  ASSUME W!FileWireAssumption
  PROVE  /\ \A f \in W!Files, type \in {"request", "offer", "accept", "chunk", "complete", "cancel", "result"} :
              W!Msg(type, f) \in W!Message
         /\ \A f \in W!Files, ok \in BOOLEAN : W!Result(f, ok) \in W!Message
         /\ \A f \in W!Files, n \in Nat :
              n <= Chunks[f] => [type |-> "chunk", id |-> f, arg |-> n] \in W!Message
BY ChunkNumbers DEF W!Msg, W!Result, W!Message

-----------------------------------------------------------------------------
(* The channels.                                                                *)

(* Nothing but M is new on the way *)
UpMoves(M) ==
  /\ up' \in Seq(W!Message)
  /\ \A i \in DOMAIN up' : up'[i] \in M \/ \E j \in DOMAIN up : up'[i] = up[j]
DownMoves(M) ==
  /\ down' \in Seq(W!Message)
  /\ \A i \in DOMAIN down' : down'[i] \in M \/ \E j \in DOMAIN down : down'[i] = down[j]

Carries(d, m) == m.id = d /\ m.type \in {"offer", "chunk", "complete"}

(* What is on the way about d moves k places on. *)
Passes(d, k) ==
  /\ \A i \in DOMAIN down' : Carries(d, down'[i]) =>
       i + k \in DOMAIN down /\ down'[i] = down[i + k]
  /\ promise'[d] = "pending" =>
       \A i \in DOMAIN down : down[i].id = d /\ down[i].type = "chunk" =>
         i - k \in DOMAIN down' /\ down'[i - k] = down[i]

LEMMA UpStays ==
  ASSUME ChannelTypes, UNCHANGED up
  PROVE  UpMoves({})
BY DEF ChannelTypes, UpMoves

LEMMA UpTaken ==
  ASSUME ChannelTypes, up # <<>>, up' = Tail(up)
  PROVE  UpMoves({}) /\ up[1] \in W!Message /\ 1 \in DOMAIN up
<1>1. up \in Seq(W!Message)  BY DEF ChannelTypes
<1>2. /\ up' \in Seq(W!Message)
      /\ \A i \in DOMAIN up' : i + 1 \in DOMAIN up /\ up'[i] = up[i + 1]
  BY <1>1
<1> QED  BY <1>1, <1>2 DEF UpMoves

LEMMA UpSent ==
  ASSUME ChannelTypes, NEW m \in W!Message, W!ToCore(m)
  PROVE  UpMoves({m})
<1>1. up \in Seq(W!Message) /\ up' = Append(up, m)  BY DEF ChannelTypes, W!ToCore
<1>2. /\ up' \in Seq(W!Message)
      /\ \A i \in DOMAIN up' : (i \in DOMAIN up /\ up'[i] = up[i]) \/ up'[i] = m
  BY <1>1
<1> QED  BY <1>2 DEF UpMoves

LEMMA UpSentAll ==
  ASSUME ChannelTypes, NEW ms \in Seq(W!Message), up' = up \o ms
  PROVE  UpMoves({ms[j] : j \in DOMAIN ms})
<1>1. up \in Seq(W!Message)  BY DEF ChannelTypes
<1>2. /\ up' \in Seq(W!Message) /\ Len(up') = Len(up) + Len(ms)
      /\ \A i \in 1..Len(up') : up'[i] = IF i <= Len(up) THEN up[i] ELSE ms[i - Len(up)]
  BY <1>1, ConcatProperties
<1>3. ASSUME NEW i \in DOMAIN up'
      PROVE  (i \in DOMAIN up /\ up'[i] = up[i]) \/ (\E j \in DOMAIN ms : up'[i] = ms[j])
  <2>1. i \in 1..Len(up') /\ Len(up) \in Nat /\ Len(ms) \in Nat  BY <1>1, <1>2
  <2>2. CASE i <= Len(up)  BY <1>1, <1>2, <2>1, <2>2
  <2>3. CASE i > Len(up)
    <3>1. i - Len(up) \in DOMAIN ms /\ up'[i] = ms[i - Len(up)]  BY <1>2, <2>1, <2>3
    <3> QED  BY <3>1
  <2> QED  BY <2>1, <2>2, <2>3
<1> QED  BY <1>2, <1>3 DEF UpMoves

LEMMA DownStays ==
  ASSUME ChannelTypes, UNCHANGED down
  PROVE  DownMoves({}) /\ \A d \in Downloads : Passes(d, 0)
<1>1. down \in Seq(W!Message)  BY DEF ChannelTypes
<1>2. \A i \in DOMAIN down : i + 0 = i /\ i - 0 = i  BY <1>1
<1> QED  BY <1>1, <1>2 DEF DownMoves, Passes

LEMMA DownTaken ==
  ASSUME ChannelTypes, down # <<>>, down' = Tail(down)
  PROVE  /\ DownMoves({}) /\ down[1] \in W!Message /\ 1 \in DOMAIN down
         /\ \A d \in Downloads :
              (promise'[d] = "pending" => ~(down[1].id = d /\ down[1].type = "chunk")) => Passes(d, 1)
<1>1. down \in Seq(W!Message)  BY DEF ChannelTypes
<1>2. /\ down' \in Seq(W!Message)
      /\ \A i \in DOMAIN down' : i + 1 \in DOMAIN down /\ down'[i] = down[i + 1]
      /\ \A i \in DOMAIN down : i # 1 => i - 1 \in DOMAIN down' /\ down'[i - 1] = down[i]
  BY <1>1
<1>3. DownMoves({})  BY <1>2 DEF DownMoves
<1>4. down[1] \in W!Message /\ 1 \in DOMAIN down  BY <1>1
<1> QED  BY <1>2, <1>3, <1>4 DEF Passes

LEMMA Appends ==
  ASSUME ChannelTypes, NEW ms \in Seq(W!Message), W!ToViewer(ms)
  PROVE  /\ down' \in Seq(W!Message)
         /\ \A i \in DOMAIN down : i \in DOMAIN down' /\ down'[i] = down[i]
         /\ \A i \in DOMAIN down' : i \in DOMAIN down \/ (\E j \in DOMAIN ms : i = Len(down) + j /\ down'[i] = ms[j])
         /\ \A j \in DOMAIN ms : Len(down) + j \in DOMAIN down' /\ down'[Len(down) + j] = ms[j]
<1>1. down \in Seq(W!Message) /\ down' = down \o ms  BY DEF ChannelTypes, W!ToViewer
<1>2. /\ down' \in Seq(W!Message) /\ Len(down') = Len(down) + Len(ms)
      /\ \A i \in 1..Len(down') : down'[i] = IF i <= Len(down) THEN down[i] ELSE ms[i - Len(down)]
  BY <1>1, ConcatProperties
<1>3. Len(down) \in Nat /\ Len(ms) \in Nat  BY <1>1
<1>4. \A i \in DOMAIN down : i \in DOMAIN down' /\ down'[i] = down[i]
  BY <1>1, <1>2, <1>3
<1>5. ASSUME NEW i \in DOMAIN down', i \notin DOMAIN down
      PROVE  \E j \in DOMAIN ms : i = Len(down) + j /\ down'[i] = ms[j]
  <2>1. i \in 1..Len(down') /\ i > Len(down)  BY <1>1, <1>2, <1>3, <1>5
  <2>2. /\ i - Len(down) \in DOMAIN ms /\ down'[i] = ms[i - Len(down)]
        /\ i = Len(down) + (i - Len(down))
    BY <1>2, <1>3, <2>1
  <2> QED  BY <2>2
<1>6. ASSUME NEW j \in DOMAIN ms
      PROVE  Len(down) + j \in DOMAIN down' /\ down'[Len(down) + j] = ms[j]
  <2>1. j \in 1..Len(ms) /\ Len(down) + j \in 1..Len(down') /\ ~(Len(down) + j <= Len(down))
        /\ (Len(down) + j) - Len(down) = j
    BY <1>2, <1>3
  <2> QED  BY <1>2, <2>1
<1> QED  BY <1>2, <1>4, <1>5, <1>6

LEMMA DownSent ==
  ASSUME ChannelTypes, NEW ms \in Seq(W!Message), W!ToViewer(ms)
  PROVE  /\ DownMoves({ms[j] : j \in DOMAIN ms})
         /\ \A d \in Downloads : (\A j \in DOMAIN ms : ~Carries(d, ms[j])) => Passes(d, 0)
<1>1. DownMoves({ms[j] : j \in DOMAIN ms})  BY Appends DEF DownMoves
<1>2. ASSUME NEW d \in Downloads, \A j \in DOMAIN ms : ~Carries(d, ms[j])
      PROVE  Passes(d, 0)
  <2>1. \A i \in DOMAIN down : i + 0 = i /\ i - 0 = i  BY DEF ChannelTypes
  <2>2. \A i \in DOMAIN down' : Carries(d, down'[i]) => i \in DOMAIN down  BY <1>2, Appends
  <2> QED  BY <2>1, <2>2, Appends DEF Passes
<1> QED  BY <1>1, <1>2

-----------------------------------------------------------------------------
(* What a step keeps.                                                           *)

LEMMA SentKept ==
  ASSUME SentInv, NEW M, UpMoves(M),
         \A m \in M : m.type = "chunk" => m.id \in Uploads /\ m.arg < Chunks[m.id]
  PROVE  SentInv'
BY DEF SentInv, UpMoves

LEMMA ToldKept ==
  ASSUME ToldInv, NEW M, DownMoves(M), page \subseteq page',
         \A m \in M : m.type = "result" /\ m.arg = 1 => m.id \in page',
         \A m \in M : m.type \in {"chunk", "complete"} => m.id \in Downloads,
         \A u \in Uploads : promise'[u] = "resolved" => promise[u] = "resolved" \/ u \in page
  PROVE  ToldInv'
BY DEF ToldInv, DownMoves

(* What a step does to d when it neither begins, sends nor receives it. *)
Leaves(d) ==
  /\ stream'[d] = stream[d] /\ relay'[d] = relay[d] /\ received'[d] = received[d]
  /\ serving'[d] = serving[d] \/ (serving[d] \in {"offered", "accepted"} /\ serving'[d] = "gone")
  /\ \/ promise'[d] = promise[d]
     \/ promise[d] = "offered" /\ promise'[d] = "pending"
     \/ promise[d] \in {"offered", "pending"} /\ promise'[d] \in {"rejected", "resolved"}

LEMMA PassKept ==
  ASSUME W!FileWireAssumption, WireTypes, NEW d \in Downloads, DownInv(d), down' \in Seq(W!Message),
         NEW k \in {0, 1}, Passes(d, k), Sent(d)' = Sent(d),
         stream'[d].sent = stream[d].sent \/ About(d, {"complete"}) = {},
         received'[d] = received[d],
         promise'[d] = "pending" => promise[d] \in {"offered", "pending"}
  PROVE  /\ ChunkInv(d)'
         /\ About(d, {"offer"}) = {} => About(d, {"offer"})' = {}
         /\ \A i, j \in About(d, {"offer"})' : i = j
<1>0. /\ \A i \in DOMAIN down : i \in Nat
      /\ \A i \in DOMAIN down' : i \in Nat
      /\ \A i \in DOMAIN down : down[i].arg \in Nat
      /\ Chunks[d] \in Nat /\ Chunks[d] > 0 /\ received[d] \in Nat /\ stream[d].sent \in Nat
  <2>1. down \in Seq(W!Message)  BY DEF WireTypes, ChannelTypes
  <2>2. \A m \in W!Message : m.arg \in Nat  BY WireConstants DEF W!Message, W!AnyChunk
  <2> QED  BY <2>1, <2>2, WireConstants DEF WireTypes, ClientTypes, ServeTypes
<1>1. Sent(d) \in Nat
  BY <1>0 DEF Sent
<1>3. ASSUME NEW kinds \in SUBSET {"offer", "chunk", "complete"}, NEW i \in About(d, kinds)'
      PROVE  i \in Nat /\ i + k \in About(d, kinds) /\ down'[i] = down[i + k]
  <2>1. i \in DOMAIN down' /\ Carries(d, down'[i])  BY <1>3 DEF About, Carries
  <2>2. i + k \in DOMAIN down /\ down'[i] = down[i + k]  BY <2>1 DEF Passes
  <2> QED  BY <1>0, <1>3, <2>1, <2>2 DEF About
<1>4. About(d, {"offer"}) = {} => About(d, {"offer"})' = {}  BY <1>3
<1>6. \A i, j \in About(d, {"offer"})' : i = j
  <2> SUFFICES ASSUME NEW i \in About(d, {"offer"})', NEW j \in About(d, {"offer"})'
               PROVE  i = j
    OBVIOUS
  <2>1. i + k = j + k  BY <1>3 DEF DownInv, OfferInv
  <2> QED  BY <1>3, <2>1
<1>5. ChunkInv(d)'
  <2>1. \A i \in About(d, {"chunk"})' : down'[i].arg < Sent(d)'
    BY <1>1, <1>3 DEF DownInv, ChunkInv
  <2>2. ASSUME NEW i \in About(d, {"chunk"})', NEW j \in About(d, {"chunk"})', i < j
        PROVE  down'[i].arg < down'[j].arg
    <3>1. i + k < j + k  BY <1>3, <2>2
    <3> QED  BY <1>3, <3>1 DEF DownInv, ChunkInv
  <2>3. ASSUME NEW i \in About(d, {"complete"})', NEW j \in About(d, {"chunk"})'
        PROVE  j < i
    <3>1. j + k < i + k  BY <1>3 DEF DownInv, ChunkInv
    <3> QED  BY <1>3, <3>1
  <2>4. \A i \in About(d, {"complete"})' : stream'[d].sent = Chunks[d]
    BY <1>3 DEF DownInv, ChunkInv
  <2>5. ASSUME promise'[d] = "pending"
        PROVE  /\ received'[d] <= Sent(d)'
               /\ \A i \in About(d, {"chunk"})' : received'[d] <= down'[i].arg
               /\ \A n \in received'[d]..Sent(d)' - 1 : \E i \in About(d, {"chunk"})' : down'[i].arg = n
    <3>1. CASE promise[d] = "pending"
      <4>1. ASSUME NEW n \in received[d]..Sent(d) - 1
            PROVE  \E i \in About(d, {"chunk"})' : down'[i].arg = n
        <5>1. PICK i \in About(d, {"chunk"}) : down[i].arg = n
          BY <3>1 DEF DownInv, ChunkInv
        <5>2. i - k \in DOMAIN down' /\ down'[i - k] = down[i]
          BY <2>5, <5>1 DEF Passes, About
        <5>3. i - k \in About(d, {"chunk"})'  BY <5>1, <5>2 DEF About
        <5> QED  BY <5>1, <5>2, <5>3
      <4>2. received[d] <= Sent(d) /\ \A i \in About(d, {"chunk"}) : received[d] <= down[i].arg
        BY <3>1 DEF DownInv, ChunkInv
      <4>3. \A i \in About(d, {"chunk"})' : received[d] <= down'[i].arg  BY <1>3, <4>2
      <4> QED  BY <1>1, <4>1, <4>2, <4>3
    <3>2. CASE promise[d] = "offered"
      <4>1. Sent(d) = 0 /\ received[d] = 0
        BY <3>2 DEF DownInv, OfferInv, Unstarted, Sent
      <4>2. \A n \in 0..0 - 1 : FALSE  OBVIOUS
      <4>3. \A i \in About(d, {"chunk"})' : i + k \in About(d, {"chunk"})  BY <1>3
      <4>4. About(d, {"chunk"}) = {}  BY <1>0, <4>1 DEF DownInv, ChunkInv, About
      <4> QED  BY <1>1, <4>1, <4>2, <4>3, <4>4
    <3> QED  BY <2>5, <3>1, <3>2
  <2> QED  BY <2>1, <2>2, <2>3, <2>4, <2>5 DEF ChunkInv
<1> QED  BY <1>4, <1>5, <1>6

LEMMA DownKept ==
  ASSUME W!FileWireAssumption, WireTypes, NEW d \in Downloads, DownInv(d), Leaves(d), down' \in Seq(W!Message),
         NEW k \in {0, 1}, Passes(d, k), NEW M, UpMoves(M),
         \A m \in M : m.type = "accept" /\ m.id = d => promise'[d] \notin {"none", "offered"}
  PROVE  DownInv(d)'
<1>1. Sent(d)' = Sent(d) /\ (Unstarted(d) <=> Unstarted(d)')
  BY DEF Leaves, Sent, Unstarted
<1>2. StreamInv(d)'  BY <1>1 DEF DownInv, StreamInv, Leaves
<1>3. /\ ChunkInv(d)'
      /\ About(d, {"offer"}) = {} => About(d, {"offer"})' = {}
      /\ \A i, j \in About(d, {"offer"})' : i = j
  BY <1>1, PassKept DEF Leaves
<1>4. OfferInv(d)'
  <2>3. promise[d] = "none" => promise'[d] = "none"  BY DEF Leaves
  <2>4. serving'[d] = "none" => serving[d] = "none"  BY DEF Leaves
  <2>5. ASSUME promise'[d] \in {"none", "offered"}
        PROVE  /\ Unstarted(d)' /\ received'[d] = 0
               /\ \A i \in DOMAIN up' : ~(up'[i].type = "accept" /\ up'[i].id = d)
    <3>1. promise'[d] = promise[d]  BY <2>5 DEF Leaves
    <3>2. /\ Unstarted(d) /\ received[d] = 0
          /\ \A i \in DOMAIN up : ~(up[i].type = "accept" /\ up[i].id = d)
      BY <2>5, <3>1 DEF DownInv, OfferInv
    <3> QED  BY <1>1, <2>5, <3>2 DEF Leaves, UpMoves
  <2> QED  BY <1>3, <2>3, <2>4, <2>5 DEF DownInv, OfferInv
<1> QED  BY <1>2, <1>3, <1>4 DEF DownInv

(* The downloads beside a step of the uploads *)
LEMMA DownBeside ==
  ASSUME W!FileWireAssumption, WireInv, UNCHANGED <<received, W!coreDownloadVars>>, down' \in Seq(W!Message),
         NEW k \in {0, 1}, \A d \in Downloads : Passes(d, k),
         NEW M, UpMoves(M), \A m \in M : m.type # "accept",
         \A d \in Downloads : \/ promise'[d] = promise[d]
                              \/ promise[d] \in {"offered", "pending"} /\ promise'[d] = "rejected"
  PROVE  \A d \in Downloads : DownInv(d)'
<1> SUFFICES ASSUME NEW d \in Downloads  PROVE DownInv(d)'  OBVIOUS
<1>1. Leaves(d)  BY DEF Leaves, W!coreDownloadVars
<1> QED  BY <1>1, DownKept DEF WireInv

-----------------------------------------------------------------------------
(* The uploads of the Viewer.                                                   *)

LEMMA SettleTypes ==
  ASSUME ClientTypes, NEW F, NEW how \in {"offered", "pending", "resolved", "rejected"}, W!Settle(F, how)
  PROVE  /\ promise' \in [W!Files -> {"none", "offered", "pending", "resolved", "rejected"}]
         /\ \A f \in W!Files : f \in F => promise'[f] = how
         /\ \A f \in W!Files : f \notin F => promise'[f] = promise[f]
BY DEF ClientTypes, W!Settle

LEMMA UploadNoDownload ==
  ASSUME W!FileWireAssumption
  PROVE  \A u \in Uploads : u \in W!Files /\ u \notin Downloads /\ u # None
BY WireConstants

(* A step of the Viewer's uploads that Core does not see yet *)
LEMMA ViewerMoves ==
  ASSUME W!FileWireAssumption, WireInv, ClientTypes', UNCHANGED <<W!coreUploadVars, W!coreDownloadVars, received>>,
         NEW k \in {0, 1}, \A d \in Downloads : Passes(d, k), DownMoves({}),
         NEW M, UpMoves(M), \A m \in M : m.type # "accept",
         \A m \in M : m.type = "chunk" => m.id \in Uploads /\ m.arg < Chunks[m.id],
         \A f \in W!Files :
           \/ promise'[f] = promise[f]
           \/ f \in Uploads /\ (promise'[f] = "resolved" => f \in page)
           \/ promise[f] \in {"offered", "pending"} /\ promise'[f] = "rejected"
  PROVE  WireInv'
<1>1. CoreTypes' /\ PageInv'  BY DEF WireInv, WireTypes, CoreTypes, PageInv, W!coreUploadVars
<1>2. ServeTypes'  BY DEF WireInv, WireTypes, ServeTypes, W!coreDownloadVars
<1>3. ChannelTypes'  BY DEF UpMoves, DownMoves, ChannelTypes
<1>4. SentInv'  BY SentKept DEF WireInv
<1>5. page' = page  BY DEF W!coreUploadVars
<1>6. \A u \in Uploads : promise'[u] = "resolved" => promise[u] = "resolved" \/ u \in page
  BY UploadNoDownload
<1>7. ToldInv'  BY <1>5, <1>6, ToldKept DEF WireInv
<1>8. \A d \in Downloads : \/ promise'[d] = promise[d]
                           \/ promise[d] \in {"offered", "pending"} /\ promise'[d] = "rejected"
  BY WireConstants
<1>9. \A d \in Downloads : DownInv(d)'  BY <1>8, DownBeside DEF DownMoves
<1> QED  BY <1>1, <1>2, <1>3, <1>4, <1>7, <1>9 DEF WireInv, WireTypes

LEMMA UploadFilesInv ==
  ASSUME W!FileWireAssumption, WireInv, NEW u \in Uploads, W!UploadFiles(u)
  PROVE  WireInv'
<1>1. W!Msg("offer", u) \in W!Message  BY Messages, UploadNoDownload
<1>2. UpMoves({W!Msg("offer", u)})  BY <1>1, UpSent DEF W!UploadFiles, WireInv, WireTypes
<1>3. DownMoves({}) /\ \A d \in Downloads : Passes(d, 0)
  BY DownStays DEF W!UploadFiles, WireInv, WireTypes
<1>4. /\ promise' \in [W!Files -> {"none", "offered", "pending", "resolved", "rejected"}]
      /\ promise'[u] = "pending" /\ \A f \in W!Files : f # u => promise'[f] = promise[f]
  BY SettleTypes, UploadNoDownload DEF W!UploadFiles, WireInv, WireTypes
<1>5. ClientTypes'  BY <1>4 DEF W!UploadFiles, WireInv, WireTypes, ClientTypes
<1> QED  BY <1>2, <1>3, <1>4, <1>5, ViewerMoves DEF W!UploadFiles, W!Msg

LEMMA RejectTypes ==
  ASSUME W!FileWireAssumption, ClientTypes, NEW u \in Uploads, W!RejectUpload(u)
  PROVE  /\ promise' \in [W!Files -> {"none", "offered", "pending", "resolved", "rejected"}]
         /\ promise'[u] = "rejected" /\ \A f \in W!Files : f # u => promise'[f] = promise[f]
         /\ pending' = None /\ accepted' = FALSE
BY SettleTypes, UploadNoDownload DEF W!RejectUpload

LEMMA CancelUploadInv ==
  ASSUME W!FileWireAssumption, WireInv, NEW u \in Uploads, W!CancelUpload(u)
  PROVE  WireInv'
<1>1. W!Msg("cancel", u) \in W!Message  BY Messages, UploadNoDownload
<1>2. UpMoves({W!Msg("cancel", u)})  BY <1>1, UpSent DEF W!CancelUpload, WireInv, WireTypes
<1>3. DownMoves({}) /\ \A d \in Downloads : Passes(d, 0)
  BY DownStays DEF W!CancelUpload, WireInv, WireTypes
<1>4. CASE pending = u
  <2>1. W!RejectUpload(u)  BY <1>4 DEF W!CancelUpload
  <2>2. /\ promise' \in [W!Files -> {"none", "offered", "pending", "resolved", "rejected"}]
        /\ promise'[u] = "rejected" /\ \A f \in W!Files : f # u => promise'[f] = promise[f]
        /\ pending' = None /\ accepted' = FALSE
    BY <2>1, RejectTypes DEF WireInv, WireTypes
  <2>3. ClientTypes'  BY <2>2 DEF W!CancelUpload, WireInv, WireTypes, ClientTypes
  <2> QED  BY <1>2, <1>3, <2>2, <2>3, ViewerMoves DEF W!CancelUpload, W!Msg
<1>5. CASE pending # u
  <2>1. ClientTypes'  BY <1>5 DEF W!CancelUpload, WireInv, WireTypes, ClientTypes
  <2> QED  BY <1>2, <1>3, <1>5, <2>1, ViewerMoves DEF W!CancelUpload, W!Msg
<1> QED  BY <1>4, <1>5

LEMMA RequestExpiresInv ==
  ASSUME W!FileWireAssumption, WireInv, NEW u \in Uploads, W!RequestExpires(u)
  PROVE  WireInv'
<1>1. UpMoves({})  BY UpStays DEF W!RequestExpires, WireInv, WireTypes
<1>2. DownMoves({}) /\ \A d \in Downloads : Passes(d, 0)
  BY DownStays DEF W!RequestExpires, WireInv, WireTypes
<1>3. ClientTypes'  BY DEF W!RequestExpires, WireInv, WireTypes, ClientTypes
<1> QED  BY <1>1, <1>2, <1>3, ViewerMoves DEF W!RequestExpires

LEMMA SendUploadBytesInv ==
  ASSUME W!FileWireAssumption, WireInv, NEW u \in Uploads, W!SendUploadBytes(u)
  PROVE  WireInv'
<1> DEFINE chunk == [type |-> "chunk", id |-> u, arg |-> sender[u]]
           ms == IF sender[u] + 1 = Chunks[u] /\ pending = u THEN <<chunk, W!Msg("complete", u)>> ELSE <<chunk>>
<1>1. sender[u] \in Nat /\ sender[u] < Chunks[u] /\ Chunks[u] \in Nat
  BY WireConstants, UploadNoDownload DEF W!SendUploadBytes, W!Off, WireInv, WireTypes, ClientTypes
<1>2. chunk \in W!Message /\ W!Msg("complete", u) \in W!Message
  BY <1>1, Messages, UploadNoDownload
<1>3. ms \in Seq(W!Message) /\ \A j \in DOMAIN ms : ms[j] \in {chunk, W!Msg("complete", u)}
  BY <1>2
<1>4. up' = up \o ms  BY DEF W!SendUploadBytes
<1> HIDE DEF ms
<1>5. UpMoves({ms[j] : j \in DOMAIN ms})
  BY <1>3, <1>4, UpSentAll DEF WireInv, WireTypes
<1>6. DownMoves({}) /\ \A d \in Downloads : Passes(d, 0)
  BY DownStays DEF W!SendUploadBytes, WireInv, WireTypes
<1>7. sender' = [sender EXCEPT ![u] = IF pending = u THEN sender[u] + 1 ELSE Chunks[u]]
  BY DEF W!SendUploadBytes, W!Off
<1>8. /\ sender' \in [Uploads -> Nat] /\ \A v \in Uploads : sender'[v] <= Chunks[v]
  BY <1>1, <1>7 DEF WireInv, WireTypes, ClientTypes
<1>9. ClientTypes'  BY <1>8 DEF W!SendUploadBytes, WireInv, WireTypes, ClientTypes
<1>10. \A m \in {ms[j] : j \in DOMAIN ms} :
         m.type # "accept" /\ (m.type = "chunk" => m.id \in Uploads /\ m.arg < Chunks[m.id])
  BY <1>1, <1>3 DEF W!Msg
<1> QED  BY <1>5, <1>6, <1>9, <1>10, ViewerMoves DEF W!SendUploadBytes

LEMMA SendingFailsInv ==
  ASSUME W!FileWireAssumption, WireInv, NEW u \in Uploads, W!SendingFails(u)
  PROVE  WireInv'
<1>1. W!Msg("cancel", u) \in W!Message  BY Messages, UploadNoDownload
<1>2. DownMoves({}) /\ \A d \in Downloads : Passes(d, 0)
  BY DownStays DEF W!SendingFails, WireInv, WireTypes
<1>3. sender' \in [Uploads -> Nat] /\ \A v \in Uploads : sender'[v] <= Chunks[v]
  BY WireConstants, UploadNoDownload DEF W!SendingFails, W!Off, WireInv, WireTypes, ClientTypes
<1>4. CASE pending = u
  <2>1. W!RejectUpload(u) /\ W!ToCore(W!Msg("cancel", u))  BY <1>4 DEF W!SendingFails
  <2>2. UpMoves({W!Msg("cancel", u)})  BY <1>1, <2>1, UpSent DEF WireInv, WireTypes
  <2>3. /\ promise' \in [W!Files -> {"none", "offered", "pending", "resolved", "rejected"}]
        /\ promise'[u] = "rejected" /\ \A f \in W!Files : f # u => promise'[f] = promise[f]
        /\ pending' = None /\ accepted' = FALSE
    BY <2>1, RejectTypes DEF WireInv, WireTypes
  <2>4. ClientTypes'  BY <1>3, <2>3 DEF W!SendingFails, WireInv, WireTypes, ClientTypes
  <2> QED  BY <1>2, <2>2, <2>3, <2>4, ViewerMoves DEF W!SendingFails, W!Msg
<1>5. CASE pending # u
  <2>1. UpMoves({})  BY <1>5, UpStays DEF W!SendingFails, WireInv, WireTypes
  <2>2. ClientTypes'  BY <1>3, <1>5 DEF W!SendingFails, WireInv, WireTypes, ClientTypes
  <2> QED  BY <1>2, <1>5, <2>1, <2>2, ViewerMoves DEF W!SendingFails
<1> QED  BY <1>4, <1>5

(* What the Viewer receives of its uploads. *)
LEMMA Received ==
  ASSUME WireInv, NEW type, NEW f, W!Incoming(type, f), type # "chunk"
  PROVE  /\ DownMoves({}) /\ \A d \in Downloads : Passes(d, 1)
         /\ down # <<>> /\ down[1] \in W!Message /\ 1 \in DOMAIN down
BY DownTaken DEF W!Incoming, WireInv, WireTypes

LEMMA FailsTypes ==
  ASSUME ClientTypes, W!ViewerFails, UNCHANGED <<sender, received>>
  PROVE  /\ ClientTypes'
         /\ \A f \in W!Files : \/ promise'[f] = promise[f]
                               \/ promise[f] \in {"offered", "pending"} /\ promise'[f] = "rejected"
<1>1. promise' = [f \in W!Files |-> IF promise[f] \in {"offered", "pending"} THEN "rejected" ELSE promise[f]]
  BY DEF W!ViewerFails, W!Settle
<1> QED  BY <1>1 DEF W!ViewerFails, ClientTypes

LEMMA ReceiveUploadInv ==
  ASSUME W!FileWireAssumption, WireInv, NEW u \in Uploads,
         \/ W!ReceiveRequest(u) \/ W!ReceiveUploadAccept(u)
         \/ W!ReceiveUploadCancel(u) \/ W!ReceiveUploadResult(u)
  PROVE  WireInv'
<1>1. UNCHANGED <<received, W!coreUploadVars, W!coreDownloadVars, up>>
  BY DEF W!ReceiveRequest, W!ReceiveUploadAccept, W!ReceiveUploadCancel, W!ReceiveUploadResult
<1>2. UpMoves({})  BY <1>1, UpStays DEF WireInv, WireTypes
<1>3. /\ DownMoves({}) /\ \A d \in Downloads : Passes(d, 1)
      /\ down # <<>> /\ down[1] \in W!Message /\ 1 \in DOMAIN down
  BY Received DEF W!ReceiveRequest, W!ReceiveUploadAccept, W!ReceiveUploadCancel, W!ReceiveUploadResult
<1>4. CASE W!ReceiveRequest(u)
  <2>1. ClientTypes'  BY <1>4 DEF W!ReceiveRequest, WireInv, WireTypes, ClientTypes
  <2> QED  BY <1>1, <1>2, <1>3, <1>4, <2>1, ViewerMoves DEF W!ReceiveRequest
<1>5. CASE W!ReceiveUploadAccept(u)
  <2>1. CASE pending = u /\ ~accepted
    <3>1. sender' \in [Uploads -> Nat] /\ \A v \in Uploads : sender'[v] <= Chunks[v]
      BY <1>5, <2>1, WireConstants, UploadNoDownload DEF W!ReceiveUploadAccept, WireInv, WireTypes, ClientTypes
    <3>2. ClientTypes'  BY <1>5, <2>1, <3>1 DEF W!ReceiveUploadAccept, WireInv, WireTypes, ClientTypes
    <3> QED  BY <1>1, <1>2, <1>3, <1>5, <2>1, <3>2, ViewerMoves DEF W!ReceiveUploadAccept
  <2>2. CASE ~(pending = u /\ ~accepted)
    <3>1. W!ViewerFails /\ UNCHANGED sender  BY <1>5, <2>2 DEF W!ReceiveUploadAccept
    <3> QED  BY <1>1, <1>2, <1>3, <3>1, FailsTypes, ViewerMoves DEF WireInv, WireTypes
  <2> QED  BY <2>1, <2>2
<1>6. CASE W!ReceiveUploadCancel(u)
  <2>1. CASE pending = u
    <3>1. W!RejectUpload(u)  BY <1>6, <2>1 DEF W!ReceiveUploadCancel
    <3>2. ClientTypes'
      BY <1>6, <3>1, RejectTypes DEF W!ReceiveUploadCancel, WireInv, WireTypes, ClientTypes
    <3> QED  BY <1>1, <1>2, <1>3, <3>1, <3>2, RejectTypes, ViewerMoves DEF WireInv, WireTypes
  <2>2. CASE pending # u
    <3>1. ClientTypes'  BY <1>6, <2>2 DEF W!ReceiveUploadCancel, WireInv, WireTypes, ClientTypes
    <3> QED  BY <1>1, <1>2, <1>3, <1>6, <2>2, <3>1, ViewerMoves DEF W!ReceiveUploadCancel
  <2> QED  BY <2>1, <2>2
<1>7. CASE W!ReceiveUploadResult(u)
  <2>1. CASE pending = u
    <3>1. /\ promise' \in [W!Files -> {"none", "offered", "pending", "resolved", "rejected"}]
          /\ promise'[u] = IF down[1].arg = 1 THEN "resolved" ELSE "rejected"
          /\ \A f \in W!Files : f # u => promise'[f] = promise[f]
      BY <1>7, <2>1, SettleTypes, UploadNoDownload DEF W!ReceiveUploadResult, WireInv, WireTypes
    <3>2. down[1].arg = 1 => u \in page
      BY <1>3, <1>7 DEF W!ReceiveUploadResult, W!Incoming, WireInv, ToldInv
    <3>3. ClientTypes'
      BY <1>7, <2>1, <3>1 DEF W!ReceiveUploadResult, WireInv, WireTypes, ClientTypes
    <3>4. \A f \in W!Files : \/ promise'[f] = promise[f]
                             \/ f \in Uploads /\ (promise'[f] = "resolved" => f \in page)
      BY <3>1, <3>2
    <3> QED  BY <1>1, <1>2, <1>3, <3>3, <3>4, ViewerMoves
  <2>2. CASE pending # u
    <3>1. W!ViewerFails /\ UNCHANGED sender  BY <1>7, <2>2 DEF W!ReceiveUploadResult
    <3> QED  BY <1>1, <1>2, <1>3, <3>1, FailsTypes, ViewerMoves DEF WireInv, WireTypes
  <2> QED  BY <2>1, <2>2
<1> QED  BY <1>4, <1>5, <1>6, <1>7

-----------------------------------------------------------------------------
(* The uploads of Core.                                                         *)

LEMMA CoreMoves ==
  ASSUME W!FileWireAssumption, WireInv, UNCHANGED <<W!viewerVars, W!coreDownloadVars>>, CoreTypes', PageInv',
         page \subseteq page', UpMoves({}),
         NEW k \in {0, 1}, \A d \in Downloads : Passes(d, k), NEW M, DownMoves(M),
         \A m \in M : /\ m.type = "result" /\ m.arg = 1 => m.id \in page'
                      /\ m.type \notin {"chunk", "complete"}
  PROVE  WireInv'
<1>1. ClientTypes'  BY DEF WireInv, WireTypes, ClientTypes, W!viewerVars, W!uploadVars
<1>2. ServeTypes'  BY DEF WireInv, WireTypes, ServeTypes, W!coreDownloadVars
<1>3. ChannelTypes'  BY DEF UpMoves, DownMoves, ChannelTypes
<1>4. SentInv'  BY SentKept DEF WireInv
<1>5. UNCHANGED promise /\ UNCHANGED received  BY DEF W!viewerVars
<1>6. ToldInv'  BY <1>5, ToldKept DEF WireInv
<1>7. \A d \in Downloads : DownInv(d)'  BY <1>5, DownBeside DEF DownMoves
<1> QED  BY <1>1, <1>2, <1>3, <1>4, <1>6, <1>7 DEF WireInv, WireTypes

(* Core tells the Viewer of uploads only. *)
UploadMessages == {m \in W!Message : m.type \in {"accept", "cancel", "result", "request"}}

LEMMA ToldUploads ==
  ASSUME WireInv, NEW ms, ms \in Seq(UploadMessages), W!ToViewer(ms)
  PROVE  /\ DownMoves({ms[j] : j \in DOMAIN ms}) /\ \A d \in Downloads : Passes(d, 0)
         /\ \A j \in DOMAIN ms : ms[j].type \notin {"chunk", "complete"}
<1>1. ms \in Seq(W!Message) /\ \A j \in DOMAIN ms : ms[j] \in UploadMessages
  BY DEF UploadMessages
<1>2. \A d \in Downloads, j \in DOMAIN ms : ~Carries(d, ms[j])
  BY <1>1 DEF UploadMessages, Carries
<1>3. \A j \in DOMAIN ms : ms[j].type \notin {"chunk", "complete"}  BY <1>1 DEF UploadMessages
<1> QED  BY <1>1, <1>2, <1>3, DownSent DEF WireInv, WireTypes

LEMMA UploadTold ==
  ASSUME W!FileWireAssumption, NEW u \in Uploads
  PROVE  /\ \A type \in {"accept", "cancel", "request"} : W!Msg(type, u) \in UploadMessages
         /\ \A ok \in BOOLEAN : W!Result(u, ok) \in UploadMessages
         /\ \A type \in {"accept", "cancel", "request"} : W!Msg(type, u).arg = 0
         /\ W!Result(u, FALSE).arg = 0
BY Messages, UploadNoDownload DEF UploadMessages, W!Msg, W!Result

(* A message is taken, and the head goes on. *)
LEMMA ArrivesInv ==
  ASSUME W!FileWireAssumption, WireInv, NEW type, NEW u, W!Arrived(type, u),
         UNCHANGED <<W!viewerVars, W!coreDownloadVars, written, page, down>>, CoreTypes', PageInv'
  PROVE  WireInv'
<1>1. UpMoves({})  BY UpTaken DEF W!Arrived, WireInv, WireTypes
<1>2. DownMoves({}) /\ \A d \in Downloads : Passes(d, 0)  BY DownStays DEF WireInv, WireTypes
<1> QED  BY <1>1, <1>2, CoreMoves

LEMMA QuietCore ==
  ASSUME W!FileWireAssumption, WireInv, UNCHANGED <<W!viewerVars, W!coreDownloadVars, up, down>>, CoreTypes', PageInv',
         page \subseteq page'
  PROVE  WireInv'
<1>1. UpMoves({})  BY UpStays DEF WireInv, WireTypes
<1>2. DownMoves({}) /\ \A d \in Downloads : Passes(d, 0)  BY DownStays DEF WireInv, WireTypes
<1> QED  BY <1>1, <1>2, CoreMoves

LEMMA TellsInv ==
  ASSUME W!FileWireAssumption, WireInv, UNCHANGED <<W!viewerVars, W!coreDownloadVars, up>>, CoreTypes', PageInv',
         page \subseteq page', NEW ms, ms \in Seq(UploadMessages), W!ToViewer(ms),
         \A j \in DOMAIN ms : ms[j].type = "result" /\ ms[j].arg = 1 => ms[j].id \in page'
  PROVE  WireInv'
<1>1. UpMoves({})  BY UpStays DEF WireInv, WireTypes
<1>2. /\ DownMoves({ms[j] : j \in DOMAIN ms}) /\ \A d \in Downloads : Passes(d, 0)
      /\ \A j \in DOMAIN ms : ms[j].type \notin {"chunk", "complete"}
  BY ToldUploads
<1> QED  BY <1>1, <1>2, CoreMoves

(* The steps of the head that write no file *)
LEMMA PageKept ==
  ASSUME PageInv, UNCHANGED <<written, page>>, step' = step \/ step'.at \notin {"write", "commit"}
  PROVE  PageInv'
BY DEF PageInv

LEMMA RefuseTypes ==
  ASSUME CoreTypes, NEW u \in Uploads, W!Refuse(u), UNCHANGED <<opened, written, owed, page>>
  PROVE  CoreTypes' /\ step'.at = "refuse"
BY DEF CoreTypes, W!Refuse, W!Await

LEMMA IdleStep == W!Idle.at = "start" /\ W!Idle.for = None /\ W!Idle.old = None
                  /\ W!Idle \in [at : {"start", "reserve", "write", "commit", "refuse", "abort", "replace"},
                               for : Uploads \cup {None}, old : Uploads \cup {None}]
BY DEF W!Idle

(* One message with no good news *)
LEMMA TellsOne ==
  ASSUME W!FileWireAssumption, WireInv, UNCHANGED <<W!viewerVars, W!coreDownloadVars, up>>, CoreTypes', PageInv',
         page \subseteq page', NEW m \in UploadMessages, W!ToViewer(<<m>>),
         m.type = "result" /\ m.arg = 1 => m.id \in page'
  PROVE  WireInv'
<1> DEFINE ms == <<m>>
<1>1. ms \in Seq(UploadMessages) /\ \A j \in DOMAIN ms : ms[j] = m  OBVIOUS
<1>2. W!ToViewer(ms)  OBVIOUS
<1> HIDE DEF ms
<1> QED  BY <1>1, <1>2, TellsInv

LEMMA AwaitTypes ==
  ASSUME CoreTypes, NEW u \in Uploads,
         NEW s \in {"reserve", "write", "commit", "refuse", "abort"}, W!Await(s, u)
  PROVE  /\ step'.at = s /\ step'.for = u
         /\ step' \in [at : {"start", "reserve", "write", "commit", "refuse", "abort", "replace"},
                       for : Uploads \cup {None}, old : Uploads \cup {None}]
BY DEF W!Await

LEMMA ArrivalsInv ==
  ASSUME W!FileWireAssumption, WireInv, NEW u \in Uploads,
         W!UploadOffered(u) \/ W!WriteUploadChunk(u) \/ W!CompleteUpload(u) \/ W!CancelUploadRequest(u)
  PROVE  WireInv'
<1>1. UNCHANGED <<W!viewerVars, W!coreDownloadVars, down>> /\ UNCHANGED <<opened, written, owed, page>>
  BY DEF W!UploadOffered, W!WriteUploadChunk, W!CompleteUpload, W!CancelUploadRequest
<1>2. CoreTypes /\ PageInv /\ written[u] \in Nat  BY DEF WireInv, WireTypes, CoreTypes
<1>3. CASE W!Refuse(u)
  <2>1. CoreTypes' /\ PageInv'  BY <1>1, <1>2, <1>3, RefuseTypes, PageKept
  <2> QED
    BY <1>1, <2>1, ArrivesInv DEF W!UploadOffered, W!WriteUploadChunk, W!CompleteUpload, W!CancelUploadRequest
<1>4. CASE W!UploadOffered(u) /\ ~W!Refuse(u)
  <2>1. W!Arrived("offer", u) /\ W!Await("reserve", u) /\ UNCHANGED <<chooser, transfer>>
    BY <1>4 DEF W!UploadOffered
  <2>2. CoreTypes'  BY <1>1, <1>2, <2>1, AwaitTypes DEF CoreTypes
  <2>3. PageInv'  BY <1>1, <1>2, <2>1, AwaitTypes, PageKept
  <2> QED  BY <1>1, <2>1, <2>2, <2>3, ArrivesInv
<1>5. CASE W!WriteUploadChunk(u) /\ ~W!Refuse(u)
  <2>1. /\ W!Arrived("chunk", u) /\ W!Await("write", u) /\ UNCHANGED <<chooser, transfer>>
        /\ up[1].arg = written[u]
    BY <1>5 DEF W!WriteUploadChunk
  <2>2. CoreTypes'  BY <1>1, <1>2, <2>1, AwaitTypes DEF CoreTypes
  <2>3. 1 \in DOMAIN up /\ up[1].type = "chunk" /\ up[1].id = u
    BY <2>1, UpTaken DEF W!Arrived, WireInv, WireTypes
  <2>4. written[u] < Chunks[u]  BY <2>1, <2>3 DEF WireInv, SentInv
  <2>5. PageInv'  BY <1>1, <1>2, <2>1, <2>4, AwaitTypes DEF PageInv
  <2> QED  BY <1>1, <2>1, <2>2, <2>5, ArrivesInv
<1>6. CASE W!CompleteUpload(u) /\ ~W!Refuse(u)
  <2>1. /\ W!Arrived("complete", u) /\ W!Await("commit", u) /\ UNCHANGED <<chooser, transfer>>
        /\ written[u] = Chunks[u]
    BY <1>6 DEF W!CompleteUpload
  <2>2. CoreTypes'  BY <1>1, <1>2, <2>1, AwaitTypes DEF CoreTypes
  <2>3. PageInv'  BY <1>1, <1>2, <2>1, AwaitTypes DEF PageInv
  <2> QED  BY <1>1, <2>1, <2>2, <2>3, ArrivesInv
<1>7. CASE W!CancelUploadRequest(u)
  <2>1. /\ W!Arrived("cancel", u) /\ chooser' \in Uploads \cup {None} /\ transfer' \in Uploads \cup {None}
        /\ step' = step \/ W!Await("abort", u)
    BY <1>2, <1>7 DEF W!CancelUploadRequest, CoreTypes
  <2>2. CoreTypes'  BY <1>1, <1>2, <2>1, AwaitTypes DEF CoreTypes
  <2>3. PageInv'  BY <1>1, <1>2, <2>1, AwaitTypes, PageKept
  <2> QED  BY <1>1, <2>1, <2>2, <2>3, ArrivesInv
<1> QED  BY <1>3, <1>4, <1>5, <1>6, <1>7

LEMMA QuietHeadInv ==
  ASSUME W!FileWireAssumption, WireInv,
         \/ W!Aborted \/ W!UploadExpires
         \/ \E u \in Uploads : W!ChunkWritten(u) \/ W!UploadFails(u)
  PROVE  WireInv'
<1>1. CoreTypes /\ PageInv  BY DEF WireInv, WireTypes
<1>2. CASE W!Aborted
  <2>1. CoreTypes' /\ PageInv'  BY <1>1, <1>2, IdleStep, PageKept DEF W!Aborted, CoreTypes
  <2> QED  BY <1>2, <2>1, QuietCore DEF W!Aborted
<1>3. CASE W!UploadExpires
  <2>1. CoreTypes' /\ PageInv'  BY <1>1, <1>3, PageKept DEF W!UploadExpires, CoreTypes
  <2> QED  BY <1>3, <2>1, QuietCore DEF W!UploadExpires
<1>4. ASSUME NEW u \in Uploads, W!ChunkWritten(u)  PROVE WireInv'
  <2>1. /\ written[u] \in Nat /\ written[u] < Chunks[u] /\ Chunks[u] \in Nat
        /\ written' = [written EXCEPT ![u] = written[u] + 1] /\ step' = W!Idle
        /\ UNCHANGED <<opened, chooser, transfer, owed, page>>
    BY <1>1, <1>4, WireConstants, UploadNoDownload DEF W!ChunkWritten, W!At, PageInv, CoreTypes
  <2>2. CoreTypes'  BY <1>1, <2>1, IdleStep DEF CoreTypes
  <2>3. u \notin page  BY <1>1, <2>1 DEF PageInv
  <2>4. \A v \in Uploads : written'[v] <= Chunks[v]  BY <1>1, <2>1 DEF PageInv, CoreTypes
  <2>5. \A v \in page' : written'[v] = Chunks[v]  BY <1>1, <2>1, <2>3 DEF PageInv, CoreTypes
  <2>6. PageInv'  BY <2>1, <2>4, <2>5, IdleStep DEF PageInv
  <2> QED  BY <1>4, <2>2, <2>6, QuietCore DEF W!ChunkWritten
<1>5. ASSUME NEW u \in Uploads, W!UploadFails(u)  PROVE WireInv'
  <2>1. CoreTypes' /\ PageInv'  BY <1>1, <1>5, RefuseTypes, PageKept DEF W!UploadFails
  <2> QED  BY <1>5, <2>1, QuietCore DEF W!UploadFails
<1> QED  BY <1>2, <1>3, <1>4, <1>5

LEMMA TellingHeadInv ==
  ASSUME W!FileWireAssumption, WireInv,
         \/ W!ChooserExpires
         \/ \E u \in Uploads : W!UploadReserved(u) \/ W!UploadDelivered(u) \/ W!Refused(u) \/ W!ExpiryReported(u)
  PROVE  WireInv'
<1>1. CoreTypes /\ PageInv  BY DEF WireInv, WireTypes
<1>2. CASE W!ChooserExpires
  <2>1. chooser \in Uploads /\ W!Msg("cancel", chooser) \in UploadMessages /\ W!Msg("cancel", chooser).arg = 0
    BY <1>1, <1>2, UploadTold DEF W!ChooserExpires, CoreTypes
  <2>2. CoreTypes' /\ PageInv'  BY <1>1, <1>2, PageKept DEF W!ChooserExpires, CoreTypes
  <2> QED  BY <1>2, <2>1, <2>2, TellsOne DEF W!ChooserExpires
<1>3. ASSUME NEW u \in Uploads, W!UploadReserved(u)  PROVE WireInv'
  <2>1. CoreTypes' /\ PageInv'  BY <1>1, <1>3, IdleStep, PageKept DEF W!UploadReserved, CoreTypes
  <2>2. W!Msg("accept", u) \in UploadMessages /\ W!Msg("accept", u).arg = 0  BY UploadTold
  <2> QED  BY <1>3, <2>1, <2>2, TellsOne DEF W!UploadReserved
<1>4. ASSUME NEW u \in Uploads, W!UploadDelivered(u)  PROVE WireInv'
  <2>1. CoreTypes'  BY <1>1, <1>4, IdleStep DEF W!UploadDelivered, CoreTypes
  <2>2. PageInv'  BY <1>1, <1>4, IdleStep DEF W!UploadDelivered, W!At, PageInv
  <2>3. W!Result(u, TRUE) \in UploadMessages /\ W!Result(u, TRUE).id = u
    BY UploadTold DEF W!Result
  <2> QED  BY <1>4, <2>1, <2>2, <2>3, TellsOne DEF W!UploadDelivered
<1>5. ASSUME NEW u \in Uploads, W!Refused(u)  PROVE WireInv'
  <2>1. CoreTypes' /\ PageInv'  BY <1>1, <1>5, IdleStep, PageKept DEF W!Refused, CoreTypes
  <2> DEFINE m == W!Result(u, FALSE)
  <2>2. m \in UploadMessages /\ m.arg = 0  BY UploadTold
  <2>3. W!ToViewer(<<m>>) /\ page' = page /\ UNCHANGED <<W!viewerVars, W!coreDownloadVars, up>>
    BY <1>5 DEF W!Refused
  <2> HIDE DEF m
  <2> QED  BY <2>1, <2>2, <2>3, TellsOne
<1>6. ASSUME NEW u \in Uploads, W!ExpiryReported(u)  PROVE WireInv'
  <2>1. CoreTypes' /\ PageInv'  BY <1>1, <1>6, PageKept DEF W!ExpiryReported, CoreTypes
  <2> DEFINE m == W!Result(u, FALSE)
  <2>2. m \in UploadMessages /\ m.arg = 0  BY UploadTold
  <2>3. W!ToViewer(<<m>>) /\ page' = page /\ UNCHANGED <<W!viewerVars, W!coreDownloadVars, up>>
    BY <1>6 DEF W!ExpiryReported
  <2> HIDE DEF m
  <2> QED  BY <2>1, <2>2, <2>3, TellsOne
<1> QED  BY <1>2, <1>3, <1>4, <1>5, <1>6

LEMMA ChooserOpensInv ==
  ASSUME W!FileWireAssumption, WireInv, NEW u \in Uploads, W!ChooserOpens(u)
  PROVE  WireInv'
<1> DEFINE ms == IF chooser = None THEN <<>> ELSE <<W!Msg("cancel", chooser)>>
<1>1. CoreTypes /\ PageInv  BY DEF WireInv, WireTypes
<1>2. CoreTypes' /\ PageInv'  BY <1>1, PageKept DEF W!ChooserOpens, CoreTypes
<1>3. ms \in Seq(UploadMessages) /\ \A j \in DOMAIN ms : ms[j].arg = 0
  <2>1. CASE chooser = None  BY <2>1
  <2>2. CASE chooser # None
    <3>1. W!Msg("cancel", chooser) \in UploadMessages /\ W!Msg("cancel", chooser).arg = 0
      BY <1>1, <2>2, UploadTold DEF CoreTypes
    <3> QED  BY <2>2, <3>1
  <2> QED  BY <2>1, <2>2
<1>4. W!ToViewer(ms) /\ UNCHANGED <<W!viewerVars, W!coreDownloadVars, up>> /\ page' = page
  BY DEF W!ChooserOpens
<1> HIDE DEF ms
<1> QED  BY <1>2, <1>3, <1>4, TellsInv

LEMMA ChooserShownInv ==
  ASSUME W!FileWireAssumption, WireInv, NEW u \in Uploads, W!ChooserShown(u)
  PROVE  WireInv'
<1> DEFINE m == W!Msg("request", u)
           ms == (IF step.old = None THEN <<>> ELSE <<W!Result(step.old, FALSE)>>) \o <<m>>
<1>1. CoreTypes /\ PageInv  BY DEF WireInv, WireTypes
<1>2. CoreTypes' /\ PageInv'  BY <1>1, IdleStep, PageKept DEF W!ChooserShown, CoreTypes
<1>3. m \in UploadMessages /\ m.arg = 0  BY UploadTold
<1>4. ms \in Seq(UploadMessages) /\ \A j \in DOMAIN ms : ms[j].arg = 0
  <2> DEFINE n == W!Result(step.old, FALSE)
  <2> HIDE DEF m
  <2>1. CASE step.old = None
    <3>1. ms = <<m>>  BY <2>1
    <3>2. <<m>> \in Seq(UploadMessages) /\ \A j \in DOMAIN <<m>> : <<m>>[j].arg = 0  BY <1>3
    <3> QED  BY <3>1, <3>2
  <2>2. CASE step.old # None
    <3>1. n \in UploadMessages /\ n.arg = 0
      BY <1>1, <2>2, UploadTold DEF CoreTypes
    <3>2. ms = <<n>> \o <<m>>  BY <2>2
    <3> HIDE DEF n, ms
    <3>3. <<n>> \in Seq(UploadMessages) /\ <<m>> \in Seq(UploadMessages)  BY <1>3, <3>1
    <3>4. /\ ms \in Seq(UploadMessages) /\ Len(ms) = 2
          /\ \A j \in 1..2 : ms[j] = IF j <= 1 THEN <<n>>[j] ELSE <<m>>[j - 1]
      BY <3>2, <3>3, ConcatProperties
    <3>5. DOMAIN ms = {1, 2} /\ ms[1] = n /\ ms[2] = m  BY <3>4
    <3> QED  BY <1>3, <3>1, <3>4, <3>5
  <2> QED  BY <2>1, <2>2
<1>5. W!ToViewer(ms) /\ UNCHANGED <<W!viewerVars, W!coreDownloadVars, up>> /\ page' = page
  BY DEF W!ChooserShown
<1> HIDE DEF ms
<1> QED  BY <1>2, <1>4, <1>5, TellsInv

LEMMA CoreUploadsInv ==
  ASSUME W!FileWireAssumption, WireInv, W!CoreUploads
  PROVE  WireInv'
BY ArrivalsInv, QuietHeadInv, TellingHeadInv, ChooserOpensInv, ChooserShownInv DEF W!CoreUploads

-----------------------------------------------------------------------------
(* Downloads.                                                                   *)

LEMMA DownloadSide ==
  ASSUME W!FileWireAssumption, WireInv, NEW d \in Downloads, UNCHANGED <<W!uploadVars, failed, W!coreUploadVars>>,
         ClientTypes', ServeTypes', \A u \in Uploads : promise'[u] = promise[u],
         NEW M, UpMoves(M), \A m \in M : m.type # "chunk" /\ m.id = d,
         NEW N, DownMoves(N), \A m \in N : m.type # "result" /\ m.id = d,
         NEW k \in {0, 1}, \A e \in Downloads \ {d} : Passes(e, k) /\ Leaves(e),
         DownInv(d)'
  PROVE  WireInv'
<1>1. CoreTypes' /\ PageInv'  BY DEF WireInv, WireTypes, CoreTypes, PageInv, W!coreUploadVars
<1>2. ChannelTypes'  BY DEF UpMoves, DownMoves, ChannelTypes
<1>3. SentInv'  BY SentKept DEF WireInv
<1>4. page' = page  BY DEF W!coreUploadVars
<1>5. ToldInv'  BY <1>4, ToldKept DEF WireInv
<1>6. ASSUME NEW e \in Downloads, e # d  PROVE DownInv(e)'
  <2>1. \A m \in M : ~(m.type = "accept" /\ m.id = e)  BY <1>6
  <2> QED  BY <1>6, <2>1, DownKept DEF WireInv, DownMoves
<1> QED  BY <1>1, <1>2, <1>3, <1>5, <1>6 DEF WireInv, WireTypes

(* Only the Viewer's side of d moves. *)
LEMMA ViewerSide ==
  ASSUME W!FileWireAssumption, WireInv, NEW d \in Downloads,
         UNCHANGED <<W!uploadVars, received, failed, W!coreUploadVars, W!coreDownloadVars>>,
         promise' \in [W!Files -> {"none", "offered", "pending", "resolved", "rejected"}],
         \A f \in W!Files : f # d => promise'[f] = promise[f],
         \/ promise'[d] = promise[d]
         \/ promise[d] = "offered" /\ promise'[d] = "pending"
         \/ promise[d] \in {"offered", "pending"} /\ promise'[d] \in {"rejected", "resolved"},
         NEW M, UpMoves(M), \A m \in M : m.type # "chunk" /\ m.id = d,
         \A m \in M : m.type = "accept" => promise'[d] \notin {"none", "offered"},
         DownMoves({}), NEW k \in {0, 1}, \A e \in Downloads : Passes(e, k)
  PROVE  WireInv'
<1>1. ClientTypes'  BY DEF WireInv, WireTypes, ClientTypes, W!uploadVars
<1>2. ServeTypes'  BY DEF WireInv, WireTypes, ServeTypes, W!coreDownloadVars
<1>3. \A e \in Downloads : e # d => Leaves(e)
  BY WireConstants DEF Leaves, W!coreDownloadVars
<1>4. Leaves(d)  BY DEF Leaves, W!coreDownloadVars
<1>5. DownInv(d)'  BY <1>4, DownKept DEF WireInv, DownMoves
<1>6. \A u \in Uploads : promise'[u] = promise[u]  BY UploadNoDownload
<1> QED  BY <1>1, <1>2, <1>3, <1>5, <1>6, DownloadSide

LEMMA DownloadMessages ==
  ASSUME W!FileWireAssumption, NEW d \in Downloads
  PROVE  /\ d \in W!Files /\ d \notin Uploads
         /\ \A type \in {"offer", "accept", "complete", "cancel"} : W!Msg(type, d) \in W!Message
         /\ \A ok \in BOOLEAN : W!Result(d, ok) \in W!Message /\ W!Result(d, ok).type = "result" /\ W!Result(d, ok).id = d
         /\ \A type \in {"offer", "accept", "complete", "cancel"} : W!Msg(type, d).type = type /\ W!Msg(type, d).id = d
<1>1. d \in W!Files /\ d \notin Uploads  BY WireConstants
<1> QED  BY <1>1, Messages DEF W!Msg, W!Result

LEMMA ViewerDownloadInv ==
  ASSUME W!FileWireAssumption, WireInv, NEW d \in Downloads, W!AcceptDownload(d) \/ W!CancelDownload(d)
  PROVE  WireInv'
<1>1. DownMoves({}) /\ \A e \in Downloads : Passes(e, 0)
  BY DownStays DEF W!AcceptDownload, W!CancelDownload, WireInv, WireTypes
<1>2. CASE W!AcceptDownload(d)
  <2>1. UpMoves({W!Msg("accept", d)})
    BY <1>2, UpSent, DownloadMessages DEF W!AcceptDownload, WireInv, WireTypes
  <2>2. /\ promise' \in [W!Files -> {"none", "offered", "pending", "resolved", "rejected"}]
        /\ promise'[d] = "pending" /\ \A f \in W!Files : f # d => promise'[f] = promise[f]
    BY <1>2, SettleTypes, DownloadMessages DEF W!AcceptDownload, WireInv, WireTypes
  <2> QED  BY <1>1, <1>2, <2>1, <2>2, DownloadMessages, ViewerSide DEF W!AcceptDownload
<1>3. CASE W!CancelDownload(d)
  <2>1. UpMoves({W!Msg("cancel", d)})
    BY <1>3, UpSent, DownloadMessages DEF W!CancelDownload, WireInv, WireTypes
  <2>2. /\ promise' \in [W!Files -> {"none", "offered", "pending", "resolved", "rejected"}]
        /\ promise'[d] = "rejected" /\ \A f \in W!Files : f # d => promise'[f] = promise[f]
    BY <1>3, SettleTypes, DownloadMessages DEF W!CancelDownload, WireInv, WireTypes
  <2> QED  BY <1>1, <1>3, <2>1, <2>2, DownloadMessages, ViewerSide DEF W!CancelDownload
<1> QED  BY <1>2, <1>3

LEMMA ReceiveOfferInv ==
  ASSUME W!FileWireAssumption, WireInv, NEW d \in Downloads, W!ReceiveOffer(d)
  PROVE  WireInv'
<1>1. /\ W!Incoming("offer", d) /\ W!Settle({d}, "offered")
      /\ UNCHANGED <<W!uploadVars, received, failed, W!coreUploadVars, W!coreDownloadVars, up>>
  BY DEF W!ReceiveOffer
<1>2. /\ DownMoves({}) /\ (\A e \in Downloads : Passes(e, 1))
      /\ down[1] \in W!Message /\ 1 \in DOMAIN down /\ down[1].id = d /\ down[1].type = "offer"
  BY <1>1, Received DEF W!Incoming
<1>3. /\ promise' \in [W!Files -> {"none", "offered", "pending", "resolved", "rejected"}]
      /\ promise'[d] = "offered" /\ \A f \in W!Files : f # d => promise'[f] = promise[f]
  BY <1>1, SettleTypes, DownloadMessages DEF WireInv, WireTypes
<1>4. UpMoves({})  BY <1>1, UpStays DEF WireInv, WireTypes
<1>5. 1 \in About(d, {"offer"})  BY <1>2 DEF About
<1>6. DownInv(d) /\ promise[d] = "none" /\ Unstarted(d) /\ received[d] = 0
      /\ \A i \in DOMAIN up : ~(up[i].type = "accept" /\ up[i].id = d)
  BY <1>5 DEF WireInv, DownInv, OfferInv
<1>7. serving[d] # "none"  BY <1>5, <1>6 DEF DownInv, OfferInv
<1>8. UNCHANGED <<serving, stream, relay>>  BY <1>1 DEF W!coreDownloadVars
<1>9. About(d, {"offer"})' = {}
  <2> SUFFICES ASSUME NEW i \in About(d, {"offer"})'  PROVE FALSE  OBVIOUS
  <2>1. i \in DOMAIN down' /\ Carries(d, down'[i]) /\ down'[i].type = "offer"  BY DEF About, Carries
  <2>2. i + 1 \in DOMAIN down /\ down'[i] = down[i + 1]  BY <1>2, <2>1 DEF Passes
  <2>3. i + 1 \in About(d, {"offer"})  BY <2>1, <2>2 DEF About, Carries
  <2>4. i + 1 = 1  BY <1>5, <1>6, <2>3 DEF DownInv, OfferInv
  <2>5. i \in Nat /\ i >= 1  BY <1>2, <2>1 DEF DownMoves
  <2> QED  BY <2>4, <2>5
<1>10. ChunkInv(d)'
  BY <1>1, <1>2, <1>3, <1>6, <1>8, PassKept DEF WireInv, DownMoves, Sent
<1>11. OfferInv(d)'
  BY <1>1, <1>3, <1>6, <1>7, <1>8, <1>9 DEF OfferInv, Unstarted
<1>12. StreamInv(d)'  BY <1>6, <1>8 DEF DownInv, StreamInv, Unstarted
<1>13. ClientTypes' /\ ServeTypes'
  BY <1>1, <1>3, <1>8 DEF WireInv, WireTypes, ClientTypes, ServeTypes, W!uploadVars
<1>14. \A e \in Downloads \ {d} : Leaves(e)
  BY <1>1, <1>3, <1>8, WireConstants DEF Leaves
<1>15. \A u \in Uploads : promise'[u] = promise[u]  BY <1>3, UploadNoDownload
<1>16. DownInv(d)'  BY <1>10, <1>11, <1>12 DEF DownInv
<1> QED  BY <1>1, <1>2, <1>4, <1>13, <1>14, <1>15, <1>16, DownloadSide

LEMMA ReceiveEndInv ==
  ASSUME W!FileWireAssumption, WireInv, NEW d \in Downloads, W!ReceiveDownloadCancel(d) \/ W!ReceiveComplete(d)
  PROVE  WireInv'
<1>1. /\ UNCHANGED <<W!uploadVars, received, failed, W!coreUploadVars, W!coreDownloadVars>>
      /\ DownMoves({}) /\ (\A e \in Downloads : Passes(e, 1))
  BY Received DEF W!ReceiveDownloadCancel, W!ReceiveComplete
<1>2. promise \in [W!Files -> {"none", "offered", "pending", "resolved", "rejected"}]
  BY DEF WireInv, WireTypes, ClientTypes
<1>3. CASE W!ReceiveDownloadCancel(d)
  <2>1. UpMoves({})  BY <1>3, UpStays DEF W!ReceiveDownloadCancel, WireInv, WireTypes
  <2>2. CASE promise[d] \in {"offered", "pending"}
    <3>1. /\ promise' \in [W!Files -> {"none", "offered", "pending", "resolved", "rejected"}]
          /\ promise'[d] = "rejected" /\ \A f \in W!Files : f # d => promise'[f] = promise[f]
      BY <1>3, <2>2, SettleTypes, DownloadMessages DEF W!ReceiveDownloadCancel, WireInv, WireTypes
    <3> QED  BY <1>1, <2>1, <2>2, <3>1, ViewerSide
  <2>3. CASE promise[d] \notin {"offered", "pending"}
    <3>1. promise' = promise  BY <1>3, <2>3 DEF W!ReceiveDownloadCancel
    <3> QED  BY <1>1, <1>2, <2>1, <3>1, ViewerSide
  <2> QED  BY <2>2, <2>3
<1>4. CASE W!ReceiveComplete(d)
  <2> DEFINE whole == promise[d] = "pending" /\ received[d] = Chunks[d]
             m == W!Result(d, whole)
  <2>1. m \in W!Message /\ m.type = "result" /\ m.id = d  BY DownloadMessages
  <2>2. W!ToCore(m)  BY <1>4 DEF W!ReceiveComplete
  <2>3. promise[d] = "pending" => W!Settle({d}, IF whole THEN "resolved" ELSE "rejected")
    BY <1>4 DEF W!ReceiveComplete
  <2>4. promise[d] # "pending" => promise' = promise  BY <1>4 DEF W!ReceiveComplete
  <2> HIDE DEF m, whole
  <2>5. UpMoves({m})  BY <2>1, <2>2, UpSent DEF WireInv, WireTypes
  <2>6. CASE promise[d] = "pending"
    <3>1. PICK how \in {"resolved", "rejected"} : W!Settle({d}, how)  BY <2>3, <2>6
    <3>2. /\ promise' \in [W!Files -> {"none", "offered", "pending", "resolved", "rejected"}]
          /\ promise'[d] = how /\ \A f \in W!Files : f # d => promise'[f] = promise[f]
      BY <3>1, SettleTypes, DownloadMessages DEF WireInv, WireTypes
    <3> QED  BY <1>1, <2>1, <2>5, <2>6, <3>2, ViewerSide
  <2>7. CASE promise[d] # "pending"
    BY <1>1, <1>2, <2>1, <2>4, <2>5, <2>7, ViewerSide
  <2> QED  BY <2>6, <2>7
<1> QED  BY <1>3, <1>4

LEMMA StreamKinds ==
  ASSUME W!FileWireAssumption, WireTypes, NEW d \in Downloads
  PROVE  /\ stream[d].at \in {"off", "read", "forward"} /\ stream[d].sent \in Nat
         /\ relay[d] \in {"idle", "waiting", "forwarded"}
         /\ serving[d] \in {"none", "offered", "accepted", "gone"}
         /\ Chunks[d] \in Nat /\ Chunks[d] > 0 /\ received[d] \in Nat /\ received[d] <= Chunks[d]
         /\ Sent(d) \in Nat
<1>1. stream[d].sent \in Nat /\ relay[d] \in {"idle", "waiting", "forwarded"}
  BY DEF WireTypes, ServeTypes
<1>2. Sent(d) \in Nat  BY <1>1 DEF Sent
<1> QED  BY <1>1, <1>2, WireConstants DEF WireTypes, ServeTypes, ClientTypes

(* No more is forwarded than there is. *)
LEMMA SentBound ==
  ASSUME W!FileWireAssumption, WireInv, NEW d \in Downloads
  PROVE  Sent(d) <= Chunks[d]
BY StreamKinds DEF WireInv, DownInv, StreamInv, Sent

LEMMA DownNumbers ==
  ASSUME W!FileWireAssumption, WireInv
  PROVE  /\ down \in Seq(W!Message)
         /\ \A i \in DOMAIN down : i \in Nat /\ i >= 1 /\ down[i].arg \in Nat
<1>1. down \in Seq(W!Message)  BY DEF WireInv, WireTypes, ChannelTypes
<1>2. \A m \in W!Message : m.arg \in Nat  BY WireConstants DEF W!Message, W!AnyChunk
<1> QED  BY <1>1, <1>2

LEMMA ReceiveChunkInv ==
  ASSUME W!FileWireAssumption, WireInv, NEW d \in Downloads, W!ReceiveChunk(d)
  PROVE  WireInv'
<1>1. /\ UNCHANGED <<W!uploadVars, failed, W!coreUploadVars, W!coreDownloadVars>>
      /\ down # <<>> /\ down' = Tail(down) /\ down[1].id = d /\ down[1].type = "chunk"
  BY DEF W!ReceiveChunk, W!Incoming
<1>2. /\ DownMoves({}) /\ down[1] \in W!Message /\ 1 \in DOMAIN down
      /\ \A e \in Downloads : e # d \/ promise'[e] # "pending" => Passes(e, 1)
  BY <1>1, DownTaken DEF WireInv, WireTypes
<1>3. CASE ~(promise[d] = "pending" /\ down[1].arg = received[d])
  <2> DEFINE m == W!Result(d, FALSE)
  <2>1. m \in W!Message /\ m.type = "result" /\ m.id = d  BY DownloadMessages
  <2>2. /\ W!ToCore(m) /\ received' = received
        /\ promise[d] = "pending" => W!Settle({d}, "rejected")
        /\ promise[d] # "pending" => promise' = promise
    BY <1>3 DEF W!ReceiveChunk
  <2> HIDE DEF m
  <2>3. UpMoves({m})  BY <2>1, <2>2, UpSent DEF WireInv, WireTypes
  <2>4. /\ promise' \in [W!Files -> {"none", "offered", "pending", "resolved", "rejected"}]
        /\ \A f \in W!Files : f # d => promise'[f] = promise[f]
        /\ promise[d] = "pending" => promise'[d] = "rejected"
        /\ promise[d] # "pending" => promise'[d] = promise[d]
    <3>1. CASE promise[d] = "pending"
      BY <2>2, <3>1, SettleTypes, DownloadMessages DEF WireInv, WireTypes
    <3>2. CASE promise[d] # "pending"
      BY <2>2, <3>2 DEF WireInv, WireTypes, ClientTypes
    <3> QED  BY <3>1, <3>2
  <2>5. \A e \in Downloads : Passes(e, 1)  BY <1>2, <2>4
  <2> QED  BY <1>1, <1>2, <2>1, <2>2, <2>3, <2>4, <2>5, ViewerSide
<1>4. CASE promise[d] = "pending" /\ down[1].arg = received[d]
  <2>1. UNCHANGED promise /\ UNCHANGED up /\ received' = [received EXCEPT ![d] = received[d] + 1]
    BY <1>4 DEF W!ReceiveChunk
  <2>2. UNCHANGED <<serving, stream, relay>>  BY <1>1 DEF W!coreDownloadVars
  <2>3. UpMoves({})  BY <2>1, UpStays DEF WireInv, WireTypes
  <2>4. DownInv(d) /\ 1 \in About(d, {"chunk"})  BY <1>1, <1>2 DEF WireInv, About
  <2>5. received[d] < Sent(d) /\ Sent(d) <= Chunks[d] /\ Sent(d) \in Nat
        /\ received[d] \in Nat /\ Chunks[d] \in Nat
    BY <1>4, <2>4, SentBound, StreamKinds DEF WireInv, DownInv, ChunkInv
  <2>6. received'[d] = received[d] + 1 /\ \A e \in Downloads : e # d => received'[e] = received[e]
    BY <2>1 DEF WireInv, WireTypes, ClientTypes
  <2>7. ClientTypes'
    BY <1>1, <2>1, <2>5, <2>6 DEF WireInv, WireTypes, ClientTypes, W!uploadVars
  <2>8. ServeTypes'  BY <2>2 DEF WireInv, WireTypes, ServeTypes
  <2>9. /\ \A i \in DOMAIN down' : i \in Nat /\ i + 1 \in DOMAIN down /\ down'[i] = down[i + 1]
        /\ \A i \in DOMAIN down : i # 1 => i - 1 \in DOMAIN down' /\ down'[i - 1] = down[i]
    BY <1>1, DownNumbers
  <2>10. \A kinds : \A i \in About(d, kinds)' : i \in Nat /\ i + 1 \in About(d, kinds) /\ down'[i] = down[i + 1]
    BY <2>9 DEF About
  <2>11. Sent(d)' = Sent(d)  BY <2>2 DEF Sent
  <2>12. \A i \in About(d, {"chunk"})' : down'[i].arg < Sent(d)'
    BY <2>4, <2>10, <2>11 DEF DownInv, ChunkInv
  <2>13. ASSUME NEW i \in About(d, {"chunk"})', NEW j \in About(d, {"chunk"})', i < j
         PROVE  down'[i].arg < down'[j].arg
    <3>1. i + 1 < j + 1  BY <2>10, <2>13
    <3> QED  BY <2>4, <2>10, <3>1 DEF DownInv, ChunkInv
  <2>14. ASSUME NEW i \in About(d, {"complete"})'
         PROVE  stream'[d].sent = Chunks[d] /\ \A j \in About(d, {"chunk"})' : j < i
    <3>1. stream'[d].sent = Chunks[d] /\ \A j \in About(d, {"chunk"}) : j < i + 1
      BY <2>2, <2>4, <2>10 DEF DownInv, ChunkInv
    <3>2. ASSUME NEW j \in About(d, {"chunk"})'  PROVE j < i
      <4>1. j + 1 < i + 1 /\ j \in Nat /\ i \in Nat  BY <2>10, <3>1
      <4> QED  BY <4>1
    <3> QED  BY <3>1, <3>2
  <2>15. \A i \in About(d, {"chunk"})' : received'[d] <= down'[i].arg
    <3> SUFFICES ASSUME NEW i \in About(d, {"chunk"})'  PROVE received'[d] <= down'[i].arg
      OBVIOUS
    <3>0. i \in DOMAIN down' /\ down' \in Seq(W!Message)  BY <1>2 DEF About, DownMoves
    <3>1. i \in Nat /\ i >= 1 /\ i + 1 \in About(d, {"chunk"}) /\ down'[i] = down[i + 1]
      BY <2>10, <3>0
    <3>2. down[1].arg < down[i + 1].arg  BY <2>4, <3>1 DEF DownInv, ChunkInv
    <3>3. down[i + 1].arg \in Nat  BY <3>1, DownNumbers DEF About
    <3> QED  BY <1>4, <2>5, <2>6, <3>1, <3>2, <3>3
  <2>16. \A n \in received'[d]..Sent(d)' - 1 : \E i \in About(d, {"chunk"})' : down'[i].arg = n
    <3> SUFFICES ASSUME NEW n \in received'[d]..Sent(d)' - 1
                 PROVE  \E i \in About(d, {"chunk"})' : down'[i].arg = n
      OBVIOUS
    <3>1. n \in received[d]..Sent(d) - 1 /\ n # received[d]  BY <2>5, <2>6, <2>11
    <3>2. PICK i \in About(d, {"chunk"}) : down[i].arg = n
      BY <1>4, <2>4, <3>1 DEF DownInv, ChunkInv
    <3>3. i # 1  BY <1>4, <3>1, <3>2
    <3>4. i - 1 \in DOMAIN down' /\ down'[i - 1] = down[i]  BY <2>9, <3>3 DEF About
    <3>5. i - 1 \in About(d, {"chunk"})'  BY <3>4 DEF About
    <3> QED  BY <3>2, <3>4, <3>5
  <2>17. ChunkInv(d)'
    BY <2>5, <2>6, <2>11, <2>12, <2>13, <2>14, <2>15, <2>16 DEF ChunkInv
  <2>18. About(d, {"offer"})' = {}
    <3>1. About(d, {"offer"}) = {}  BY <1>4, <2>4 DEF DownInv, OfferInv
    <3> QED  BY <2>10, <3>1
  <2>19. OfferInv(d)'
    BY <1>4, <2>1, <2>2, <2>4, <2>18 DEF DownInv, OfferInv
  <2>20. StreamInv(d)'  BY <2>2, <2>4 DEF DownInv, StreamInv, Unstarted
  <2>21. DownInv(d)'  BY <2>17, <2>19, <2>20 DEF DownInv
  <2>22. \A e \in Downloads \ {d} : Passes(e, 1) /\ Leaves(e)
    BY <1>2, <2>1, <2>2, <2>6 DEF Leaves
  <2>23. \A u \in Uploads : promise'[u] = promise[u]  BY <2>1
  <2> QED  BY <1>1, <1>2, <2>3, <2>7, <2>8, <2>21, <2>22, <2>23, DownloadSide
<1> QED  BY <1>3, <1>4

LEMMA ViewerActsInv ==
  ASSUME W!FileWireAssumption, WireInv, W!ViewerActs \/ W!Receive
  PROVE  WireInv'
BY UploadFilesInv, CancelUploadInv, RequestExpiresInv, SendUploadBytesInv, SendingFailsInv,
   ViewerDownloadInv, ReceiveUploadInv, ReceiveOfferInv, ReceiveChunkInv, ReceiveEndInv
   DEF W!ViewerActs, W!Receive

-----------------------------------------------------------------------------
(* Downloads: Core and the Extension.                                           *)

LEMMA CoreSide ==
  ASSUME W!FileWireAssumption, WireInv, NEW d \in Downloads, UNCHANGED <<W!viewerVars, W!coreUploadVars>>, ServeTypes',
         UpMoves({}), NEW N, DownMoves(N), \A m \in N : m.type # "result" /\ m.id = d,
         NEW k \in {0, 1}, \A e \in Downloads : e # d => Passes(e, k),
         \A e \in Downloads : e # d =>
           serving'[e] = serving[e] /\ stream'[e] = stream[e] /\ relay'[e] = relay[e],
         DownInv(d)'
  PROVE  WireInv'
<1>1. ClientTypes'  BY DEF WireInv, WireTypes, ClientTypes, W!viewerVars, W!uploadVars
<1>2. \A e \in Downloads \ {d} : Leaves(e)  BY DEF Leaves, W!viewerVars
<1>3. UNCHANGED <<W!uploadVars, failed, promise>>  BY DEF W!viewerVars
<1> QED  BY <1>1, <1>2, <1>3, DownloadSide

(* Core's side of a download moves, and no chunk of it. *)
LEMMA ServeInv ==
  ASSUME W!FileWireAssumption, WireInv, NEW d \in Downloads, UNCHANGED <<W!viewerVars, W!coreUploadVars>>,
         UNCHANGED <<stream, relay>>,
         serving' = serving \/ (serving[d] \in {"offered", "accepted"} /\ W!End(d)),
         UpMoves({}), NEW N, DownMoves(N), \A m \in N : m.type # "result" /\ m.id = d,
         \A e \in Downloads : Passes(e, 0)
  PROVE  WireInv'
<1>1. /\ serving' \in [Downloads -> {"none", "offered", "accepted", "gone"}]
      /\ serving'[d] = serving[d] \/ (serving[d] \in {"offered", "accepted"} /\ serving'[d] = "gone")
      /\ \A e \in Downloads : e # d => serving'[e] = serving[e]
  BY DEF WireInv, WireTypes, ServeTypes, W!End
<1>2. ServeTypes'  BY <1>1 DEF WireInv, WireTypes, ServeTypes
<1>3. Leaves(d)  BY <1>1 DEF Leaves, W!viewerVars
<1>4. DownInv(d)'  BY <1>3, DownKept DEF WireInv, DownMoves
<1>5. \A e \in Downloads : e # d =>
        serving'[e] = serving[e] /\ stream'[e] = stream[e] /\ relay'[e] = relay[e]
  BY <1>1
<1>6. \A e \in Downloads : e # d => Passes(e, 0)  OBVIOUS
<1> QED  BY <1>2, <1>4, <1>5, <1>6, CoreSide

(* The stream of a download moves, and the Viewer is sent no data of it. *)
LEMMA StreamMoves ==
  ASSUME W!FileWireAssumption, WireInv, NEW d \in Downloads, UNCHANGED W!viewerVars, UpMoves({}),
         down' \in Seq(W!Message), Passes(d, 0), Sent(d)' = Sent(d),
         stream'[d].sent = stream[d].sent \/ About(d, {"complete"}) = {},
         promise[d] \notin {"none", "offered"}, serving'[d] # "none", StreamInv(d)'
  PROVE  DownInv(d)'
<1>1. promise' = promise /\ received' = received  BY DEF W!viewerVars
<1>2. DownInv(d)  BY DEF WireInv
<1>3. /\ ChunkInv(d)'
      /\ About(d, {"offer"}) = {} => About(d, {"offer"})' = {}
      /\ \A i, j \in About(d, {"offer"})' : i = j
  BY <1>1, <1>2, PassKept DEF WireInv
<1>4. About(d, {"offer"})' = {}  BY <1>2, <1>3 DEF DownInv, OfferInv
<1>5. OfferInv(d)'  BY <1>1, <1>3, <1>4 DEF OfferInv
<1> QED  BY <1>3, <1>5 DEF DownInv

LEMMA OfferDownloadInv ==
  ASSUME W!FileWireAssumption, WireInv, NEW d \in Downloads, W!OfferDownload(d)
  PROVE  WireInv'
<1> DEFINE m == W!Msg("offer", d)
           ms == <<m>>
           n == Len(down) + 1
<1>1. /\ serving[d] = "none" /\ serving' = [serving EXCEPT ![d] = "offered"] /\ W!ToViewer(ms)
      /\ UNCHANGED <<W!viewerVars, W!coreUploadVars, stream, relay, up>>
  BY DEF W!OfferDownload
<1>2. m \in W!Message /\ m.type = "offer" /\ m.id = d  BY DownloadMessages
<1>3. ms \in Seq(W!Message) /\ DOMAIN ms = {1} /\ ms[1] = m  BY <1>2
<1> HIDE DEF m, ms
<1>4. /\ down' \in Seq(W!Message)
      /\ \A i \in DOMAIN down : i \in DOMAIN down' /\ down'[i] = down[i]
      /\ \A i \in DOMAIN down' : i \in DOMAIN down \/ (i = n /\ down'[i] = m)
  BY <1>1, <1>3, Appends DEF WireInv, WireTypes
<1>5. /\ DownInv(d) /\ promise[d] = "none" /\ About(d, {"offer"}) = {}
      /\ Unstarted(d) /\ received[d] = 0
      /\ \A i \in DOMAIN up : ~(up[i].type = "accept" /\ up[i].id = d)
  BY <1>1 DEF WireInv, DownInv, OfferInv
<1>6. Sent(d) = 0 /\ stream[d].sent # Chunks[d]
  BY <1>5, StreamKinds DEF WireInv, Unstarted, Sent
<1>7. About(d, {"chunk"}) = {}
  <2> SUFFICES ASSUME NEW i \in About(d, {"chunk"})  PROVE FALSE  OBVIOUS
  <2>1. down[i].arg < 0 /\ down[i].arg \in Nat
    BY <1>5, <1>6, DownNumbers DEF DownInv, ChunkInv, About
  <2> QED  BY <2>1
<1>8. About(d, {"complete"}) = {}  BY <1>5, <1>6 DEF DownInv, ChunkInv
<1>9. /\ About(d, {"chunk"})' = {} /\ About(d, {"complete"})' = {}
      /\ \A i \in About(d, {"offer"})' : i = n
  BY <1>2, <1>4, <1>5, <1>7, <1>8 DEF About
<1>10. /\ promise' = promise /\ received' = received /\ stream' = stream /\ relay' = relay /\ up' = up
       /\ serving'[d] = "offered" /\ \A e \in Downloads : e # d => serving'[e] = serving[e]
  BY <1>1 DEF W!viewerVars, WireInv, WireTypes, ServeTypes
<1>11. Unstarted(d)' /\ StreamInv(d)'  BY <1>5, <1>10 DEF DownInv, StreamInv, Unstarted
<1>12. OfferInv(d)'  BY <1>5, <1>9, <1>10, <1>11 DEF OfferInv
<1>13. ChunkInv(d)'  BY <1>5, <1>9, <1>10 DEF ChunkInv
<1>14. DownInv(d)'  BY <1>11, <1>12, <1>13 DEF DownInv
<1>15. DownMoves({m}) /\ \A e \in Downloads : e # d => Passes(e, 0)
  <2>1. {ms[j] : j \in DOMAIN ms} = {m}  BY <1>3
  <2>2. \A e \in Downloads : e # d => \A j \in DOMAIN ms : ~Carries(e, ms[j])
    BY <1>2, <1>3 DEF Carries
  <2> QED  BY <1>1, <1>3, <2>1, <2>2, DownSent DEF WireInv, WireTypes
<1>16. ServeTypes'  BY <1>1 DEF WireInv, WireTypes, ServeTypes
<1>17. UpMoves({})  BY <1>1, UpStays DEF WireInv, WireTypes
<1> QED  BY <1>1, <1>2, <1>10, <1>14, <1>15, <1>16, <1>17, CoreSide

(* The Viewer is told of the end of d *)
LEMMA CancelTold ==
  ASSUME W!FileWireAssumption, WireInv, NEW d \in Downloads, W!ToViewer(<<W!Msg("cancel", d)>>)
  PROVE  /\ DownMoves({W!Msg("cancel", d)}) /\ \A e \in Downloads : Passes(e, 0)
         /\ \A m \in {W!Msg("cancel", d)} : m.type # "result" /\ m.id = d
<1> DEFINE m == W!Msg("cancel", d)
           ms == <<m>>
<1>1. m \in W!Message /\ m.type = "cancel" /\ m.id = d  BY DownloadMessages
<1>2. ms \in Seq(W!Message) /\ DOMAIN ms = {1} /\ ms[1] = m /\ W!ToViewer(ms)  BY <1>1
<1> HIDE DEF m, ms
<1>3. {ms[j] : j \in DOMAIN ms} = {m}  BY <1>2
<1>4. \A e \in Downloads : \A j \in DOMAIN ms : ~Carries(e, ms[j])  BY <1>1, <1>2 DEF Carries
<1>5. DownMoves({m}) /\ \A e \in Downloads : Passes(e, 0)
  BY <1>2, <1>3, <1>4, DownSent DEF WireInv, WireTypes
<1>6. \A x \in {m} : x.type # "result" /\ x.id = d  BY <1>1
<1> QED  BY <1>5, <1>6 DEF m

LEMMA EndsInv ==
  ASSUME W!FileWireAssumption, WireInv, NEW d \in Downloads,
         W!DownloadCancelled(d) \/ W!DownloadResult(d) \/ W!DownloadExpires(d)
  PROVE  WireInv'
<1>1. CASE W!DownloadCancelled(d) \/ W!DownloadResult(d)
  <2>1. UpMoves({})
    BY <1>1, UpTaken DEF W!DownloadCancelled, W!DownloadResult, W!Arrived, WireInv, WireTypes
  <2>2. DownMoves({}) /\ \A e \in Downloads : Passes(e, 0)
    BY <1>1, DownStays DEF W!DownloadCancelled, W!DownloadResult, WireInv, WireTypes
  <2> QED  BY <1>1, <2>1, <2>2, ServeInv DEF W!DownloadCancelled, W!DownloadResult, W!Active
<1>2. CASE W!DownloadExpires(d)
  <2>1. UpMoves({})  BY <1>2, UpStays DEF W!DownloadExpires, WireInv, WireTypes
  <2>2. /\ DownMoves({W!Msg("cancel", d)}) /\ \A e \in Downloads : Passes(e, 0)
        /\ \A m \in {W!Msg("cancel", d)} : m.type # "result" /\ m.id = d
    BY <1>2, CancelTold DEF W!DownloadExpires
  <2> QED  BY <1>2, <2>1, <2>2, ServeInv DEF W!DownloadExpires, W!Active
<1> QED  BY <1>1, <1>2

LEMMA DownloadAcceptedInv ==
  ASSUME W!FileWireAssumption, WireInv, NEW d \in Downloads, W!DownloadAccepted(d)
  PROVE  WireInv'
<1>1. /\ up # <<>> /\ up' = Tail(up) /\ up[1].type = "accept" /\ up[1].id = d
      /\ UNCHANGED <<W!viewerVars, W!coreUploadVars, relay, down>>
  BY DEF W!DownloadAccepted, W!Arrived
<1>2. UpMoves({}) /\ 1 \in DOMAIN up /\ DownMoves({}) /\ \A e \in Downloads : Passes(e, 0)
  BY <1>1, UpTaken, DownStays DEF WireInv, WireTypes
<1>3. promise[d] \notin {"none", "offered"}  BY <1>1, <1>2 DEF WireInv, DownInv, OfferInv
<1>4. CASE serving[d] # "offered"
  BY <1>1, <1>2, <1>4, ServeInv DEF W!DownloadAccepted
<1>5. CASE serving[d] = "offered"
  <2>1. /\ serving' = [serving EXCEPT ![d] = "accepted"]
        /\ stream' = [stream EXCEPT ![d] = [at |-> "read", sent |-> 0]]
    BY <1>5 DEF W!DownloadAccepted, W!Streams
  <2>2. ServeTypes'  BY <1>1, <2>1 DEF WireInv, WireTypes, ServeTypes
  <2>3. /\ serving'[d] = "accepted" /\ stream'[d] = [at |-> "read", sent |-> 0] /\ relay'[d] = relay[d]
        /\ \A e \in Downloads : e # d =>
             serving'[e] = serving[e] /\ stream'[e] = stream[e] /\ relay'[e] = relay[e]
    BY <1>1, <2>1 DEF WireInv, WireTypes, ServeTypes
  <2>4. Unstarted(d)  BY <1>5 DEF WireInv, DownInv, StreamInv
  <2>5. Sent(d)' = Sent(d) /\ stream'[d].sent = stream[d].sent
    BY <2>3, <2>4 DEF Unstarted, Sent
  <2>6. StreamInv(d)'  BY <2>3, <2>4, StreamKinds DEF WireInv, Unstarted, StreamInv
  <2>7. DownInv(d)'  BY <1>1, <1>2, <1>3, <2>3, <2>5, <2>6, StreamMoves DEF DownMoves
  <2> QED  BY <1>1, <1>2, <2>2, <2>3, <2>7, CoreSide
<1> QED  BY <1>4, <1>5

(* A stream that has begun is of a download the Viewer has accepted. *)
LEMMA Streaming ==
  ASSUME W!FileWireAssumption, WireInv, NEW d \in Downloads, relay[d] # "idle" \/ stream[d].at # "off"
  PROVE  /\ stream[d].sent < Chunks[d] /\ stream[d].sent \in Nat
         /\ serving[d] \notin {"none", "offered"} /\ promise[d] \notin {"none", "offered"}
         /\ About(d, {"complete"}) = {} /\ About(d, {"offer"}) = {}
<1>1. DownInv(d) /\ stream[d].sent \in Nat /\ Chunks[d] \in Nat  BY StreamKinds DEF WireInv
<1>2. /\ stream[d].sent < Chunks[d] /\ stream[d].sent # Chunks[d]
      /\ serving[d] \notin {"none", "offered"} /\ promise[d] \notin {"none", "offered"}
  BY <1>1 DEF DownInv, StreamInv, OfferInv, Unstarted
<1>3. About(d, {"complete"}) = {}  BY <1>1, <1>2 DEF DownInv, ChunkInv
<1>4. About(d, {"offer"}) = {}  BY <1>1, <1>2 DEF DownInv, OfferInv
<1> QED  BY <1>1, <1>2, <1>3, <1>4

LEMMA RelayInv ==
  ASSUME W!FileWireAssumption, WireInv, NEW d \in Downloads, W!ChunkRead(d) \/ W!ChunkDropped(d)
  PROVE  WireInv'
<1>1. /\ UNCHANGED <<W!viewerVars, W!coreUploadVars, serving, up, down>>
      /\ UpMoves({}) /\ DownMoves({}) /\ \A e \in Downloads : Passes(e, 0)
  BY UpStays, DownStays DEF W!ChunkRead, W!ChunkDropped, WireInv, WireTypes
<1>2. ServeTypes'
  <2>1. ServeTypes /\ UNCHANGED serving
    BY <1>1 DEF WireInv, WireTypes
  <2>2. relay' = [relay EXCEPT ![d] = "waiting"] \/ relay' = [relay EXCEPT ![d] = "idle"]
    BY DEF W!ChunkRead, W!ChunkDropped, W!Forward
  <2>3. stream' = [stream EXCEPT ![d] = [stream[d] EXCEPT !.at = "forward"]] \/ UNCHANGED stream
    BY DEF W!ChunkRead, W!ChunkDropped, W!Streams
  <2>4. relay' \in [Downloads -> {"idle", "waiting", "forwarded"}]
    BY <2>1, <2>2 DEF ServeTypes
  <2>5. stream' \in [Downloads -> [at : {"off", "read", "forward"}, sent : Nat]]
    BY <2>1, <2>3 DEF ServeTypes
  <2> QED  BY <2>1, <2>4, <2>5 DEF ServeTypes
<1>3. \A e \in Downloads : e # d =>
        serving'[e] = serving[e] /\ stream'[e] = stream[e] /\ relay'[e] = relay[e]
  BY <1>1 DEF W!ChunkRead, W!ChunkDropped, W!Forward, W!Streams, WireInv, WireTypes, ServeTypes
<1>4. /\ stream[d].sent < Chunks[d] /\ DownInv(d)
      /\ serving[d] \notin {"none", "offered"} /\ promise[d] \notin {"none", "offered"}
  BY Streaming DEF W!ChunkRead, W!ChunkDropped, WireInv
<1>5. /\ stream'[d].sent = stream[d].sent /\ relay[d] # "forwarded" /\ relay'[d] # "forwarded"
      /\ stream'[d].at = "read" => relay'[d] = "idle"
  <2>1. CASE W!ChunkRead(d)
    BY <1>4, <2>1 DEF W!ChunkRead, W!Forward, W!Streams, WireInv, WireTypes, ServeTypes, DownInv, StreamInv
  <2>2. CASE W!ChunkDropped(d)
    BY <2>2 DEF W!ChunkDropped, WireInv, WireTypes, ServeTypes
  <2> QED  BY <2>1, <2>2
<1>6. Sent(d)' = Sent(d)  BY <1>5 DEF Sent
<1>7. StreamInv(d)'
  <2>1. stream'[d].sent <= Chunks[d]  BY <1>4, <1>5, StreamKinds DEF WireInv
  <2> QED  BY <1>1, <1>4, <1>5, <2>1 DEF StreamInv
<1>8. DownInv(d)'  BY <1>1, <1>4, <1>5, <1>6, <1>7, StreamMoves DEF DownMoves
<1> QED  BY <1>1, <1>2, <1>3, <1>8, CoreSide

LEMMA StreamFailsInv ==
  ASSUME W!FileWireAssumption, WireInv, NEW d \in Downloads, W!StreamFails(d)
  PROVE  WireInv'
<1>1. /\ UNCHANGED <<W!viewerVars, W!coreUploadVars, relay, up>> /\ stream[d].at # "off"
      /\ stream' = [stream EXCEPT ![d] = [stream[d] EXCEPT !.at = "off"]]
      /\ \/ W!Active(d) /\ W!End(d) /\ W!ToViewer(<<W!Msg("cancel", d)>>)
         \/ UNCHANGED <<serving, down>>
  BY DEF W!StreamFails, W!Streams
<1>2. /\ stream[d].sent < Chunks[d] /\ stream[d].sent \in Nat /\ Chunks[d] \in Nat
      /\ serving[d] \notin {"none", "offered"} /\ promise[d] \notin {"none", "offered"}
  BY <1>1, Streaming, StreamKinds DEF WireInv
<1>3. /\ serving' \in [Downloads -> {"none", "offered", "accepted", "gone"}]
      /\ serving'[d] \in {serving[d], "gone"}
      /\ \A e \in Downloads : e # d => serving'[e] = serving[e]
  BY <1>1 DEF W!End, WireInv, WireTypes, ServeTypes
<1>4. /\ stream'[d].sent = stream[d].sent /\ stream'[d].at = "off" /\ relay' = relay
      /\ \A e \in Downloads : e # d => stream'[e] = stream[e]
      /\ ServeTypes'
  <2>1. /\ ServeTypes /\ UNCHANGED relay
        /\ stream' = [stream EXCEPT ![d] = [stream[d] EXCEPT !.at = "off"]]
    BY <1>1 DEF WireInv, WireTypes
  <2>2. stream' \in [Downloads -> [at : {"off", "read", "forward"}, sent : Nat]]
    BY <2>1 DEF ServeTypes
  <2>3. ServeTypes'
    BY <1>3, <2>1, <2>2 DEF ServeTypes
  <2> QED  BY <2>1, <2>3 DEF ServeTypes
<1>5. Sent(d)' = Sent(d)  BY <1>4 DEF Sent
<1>6. StreamInv(d)'  BY <1>2, <1>3, <1>4 DEF StreamInv
<1>7. UpMoves({})  BY <1>1, UpStays DEF WireInv, WireTypes
<1>8. PICK N : /\ DownMoves(N) /\ \A m \in N : m.type # "result" /\ m.id = d
               /\ \A e \in Downloads : Passes(e, 0)
  <2>1. CASE UNCHANGED down
    <3>1. \A m \in {} : m.type # "result" /\ m.id = d  OBVIOUS
    <3> QED  BY <2>1, <3>1, DownStays DEF WireInv, WireTypes
  <2>2. CASE W!ToViewer(<<W!Msg("cancel", d)>>)  BY <2>2, CancelTold
  <2> QED  BY <1>1, <2>1, <2>2
<1>9. serving'[d] # "none"  BY <1>2, <1>3
<1>10. DownInv(d)'  BY <1>1, <1>2, <1>4, <1>5, <1>6, <1>7, <1>8, <1>9, StreamMoves DEF DownMoves
<1> QED  BY <1>1, <1>3, <1>4, <1>7, <1>8, <1>10, CoreSide

LEMMA ChunkForwardedInv ==
  ASSUME W!FileWireAssumption, WireInv, NEW d \in Downloads, W!ChunkForwarded(d)
  PROVE  WireInv'
<1> DEFINE m == W!Chunk(d, stream[d].sent)
           ms == <<m>>
           n == Len(down) + 1
<1>1. /\ UNCHANGED <<W!viewerVars, W!coreUploadVars, serving, stream, up>> /\ W!ToViewer(ms)
      /\ relay[d] = "waiting" /\ relay' = [relay EXCEPT ![d] = "forwarded"]
  BY DEF W!ChunkForwarded
<1>2. /\ stream[d].sent \in Nat /\ stream[d].sent < Chunks[d] /\ Chunks[d] \in Nat
      /\ serving[d] \notin {"none", "offered"} /\ promise[d] \notin {"none", "offered"}
      /\ About(d, {"complete"}) = {} /\ About(d, {"offer"}) = {} /\ DownInv(d)
      /\ Sent(d) = stream[d].sent
  BY <1>1, Streaming, StreamKinds DEF WireInv, Sent
<1>3. m \in W!Message /\ m.type = "chunk" /\ m.id = d /\ m.arg = stream[d].sent
  BY <1>2, Messages, DownloadMessages DEF W!Chunk
<1>4. ms \in Seq(W!Message) /\ DOMAIN ms = {1} /\ ms[1] = m  BY <1>3
<1> HIDE DEF m, ms
<1>5. /\ down \in Seq(W!Message) /\ down' \in Seq(W!Message)
      /\ \A i \in DOMAIN down : i \in DOMAIN down' /\ down'[i] = down[i]
      /\ \A i \in DOMAIN down' : i \in DOMAIN down \/ (i = n /\ down'[i] = m)
      /\ n \in DOMAIN down' /\ down'[n] = m
  BY <1>1, <1>4, Appends DEF WireInv, WireTypes, ChannelTypes
<1>6. \A i \in DOMAIN down : i \in Nat /\ i < n  BY <1>5
<1>7. /\ relay'[d] = "forwarded" /\ stream' = stream /\ serving' = serving
      /\ promise' = promise /\ received' = received
      /\ \A e \in Downloads : e # d => relay'[e] = relay[e]
      /\ ServeTypes'
  BY <1>1 DEF W!viewerVars, WireInv, WireTypes, ServeTypes
<1>8. Sent(d)' = stream[d].sent + 1  BY <1>7 DEF Sent
<1>9. StreamInv(d)'
  <2>1. stream[d].at # "read"  BY <1>1, <1>2 DEF DownInv, StreamInv
  <2> QED  BY <1>2, <1>7, <2>1 DEF StreamInv
<1>10. /\ \A i \in About(d, {"chunk"})' :
            (i \in About(d, {"chunk"}) /\ down'[i] = down[i] /\ i < n) \/ (i = n /\ down'[i] = m)
       /\ \A i \in About(d, {"chunk"}) : i \in About(d, {"chunk"})' /\ down'[i] = down[i]
       /\ n \in About(d, {"chunk"})'
       /\ About(d, {"complete"})' = {} /\ About(d, {"offer"})' = {}
  BY <1>2, <1>3, <1>5, <1>6 DEF About
<1>11. OfferInv(d)'  BY <1>2, <1>7, <1>10 DEF OfferInv
<1>12. ChunkInv(d)'
  <2>1. \A i \in About(d, {"chunk"}) : down[i].arg < stream[d].sent /\ down[i].arg \in Nat
    BY <1>2, DownNumbers DEF DownInv, ChunkInv, About
  <2>2. \A i \in About(d, {"chunk"})' : down'[i].arg < Sent(d)'
    BY <1>2, <1>3, <1>8, <1>10, <2>1
  <2>3. ASSUME NEW i \in About(d, {"chunk"})', NEW j \in About(d, {"chunk"})', i < j
        PROVE  down'[i].arg < down'[j].arg
    <3>1. i \in About(d, {"chunk"}) /\ down'[i] = down[i]
      <4>1. CASE i = n
        <5>1. n \in Nat /\ j \in Nat /\ (j < n \/ j = n)  BY <1>5, <1>6, <1>10 DEF About
        <5> QED  BY <2>3, <4>1, <5>1
      <4> QED  BY <1>10, <4>1
    <3>2. CASE j = n  BY <1>3, <1>5, <2>1, <3>1, <3>2
    <3>3. CASE j # n
      <4>1. j \in About(d, {"chunk"}) /\ down'[j] = down[j]  BY <1>10, <3>3
      <4> QED  BY <1>2, <2>3, <3>1, <4>1 DEF DownInv, ChunkInv
    <3> QED  BY <3>2, <3>3
  <2>4. ASSUME promise'[d] = "pending"
        PROVE  /\ received'[d] <= Sent(d)'
               /\ \A i \in About(d, {"chunk"})' : received'[d] <= down'[i].arg
               /\ \A k \in received'[d]..Sent(d)' - 1 : \E i \in About(d, {"chunk"})' : down'[i].arg = k
    <3>1. /\ received[d] <= stream[d].sent /\ received[d] \in Nat
          /\ \A i \in About(d, {"chunk"}) : received[d] <= down[i].arg
          /\ \A k \in received[d]..stream[d].sent - 1 : \E i \in About(d, {"chunk"}) : down[i].arg = k
      BY <1>2, <1>7, <2>4, StreamKinds DEF WireInv, DownInv, ChunkInv
    <3>2. ASSUME NEW k \in received'[d]..Sent(d)' - 1
          PROVE  \E i \in About(d, {"chunk"})' : down'[i].arg = k
      <4>1. CASE k = stream[d].sent  BY <1>3, <1>5, <1>10, <4>1
      <4>2. CASE k # stream[d].sent
        <5>1. k \in received[d]..stream[d].sent - 1  BY <1>2, <1>7, <1>8, <3>1, <3>2, <4>2
        <5> QED  BY <1>10, <3>1, <5>1
      <4> QED  BY <4>1, <4>2
    <3>3. \A i \in About(d, {"chunk"})' : received[d] <= down'[i].arg  BY <1>3, <1>10, <3>1
    <3>4. received[d] <= stream[d].sent + 1  BY <1>2, <3>1
    <3> QED  BY <1>7, <1>8, <3>2, <3>3, <3>4
  <2> QED  BY <1>10, <2>2, <2>3, <2>4 DEF ChunkInv
<1>13. DownInv(d)'  BY <1>9, <1>11, <1>12 DEF DownInv
<1>14. DownMoves({m}) /\ \A e \in Downloads : e # d => Passes(e, 0)
  <2>1. {ms[j] : j \in DOMAIN ms} = {m}  BY <1>4
  <2>2. \A e \in Downloads : e # d => \A j \in DOMAIN ms : ~Carries(e, ms[j])
    BY <1>3, <1>4 DEF Carries
  <2> QED  BY <1>1, <1>4, <2>1, <2>2, DownSent DEF WireInv, WireTypes
<1>15. UpMoves({})  BY <1>1, UpStays DEF WireInv, WireTypes
<1> QED  BY <1>1, <1>3, <1>7, <1>13, <1>14, <1>15, CoreSide

LEMMA ChunkAcknowledgedInv ==
  ASSUME W!FileWireAssumption, WireInv, NEW d \in Downloads, W!ChunkAcknowledged(d)
  PROVE  WireInv'
<1>1. /\ UNCHANGED <<W!viewerVars, W!coreUploadVars, serving, up>> /\ stream[d].at = "forward"
      /\ relay[d] = "forwarded" /\ relay' = [relay EXCEPT ![d] = "idle"] /\ W!NextChunk(d)
  BY DEF W!ChunkAcknowledged
<1>2. /\ stream[d].sent \in Nat /\ stream[d].sent < Chunks[d] /\ Chunks[d] \in Nat
      /\ serving[d] \notin {"none", "offered"} /\ promise[d] \notin {"none", "offered"}
      /\ About(d, {"complete"}) = {} /\ About(d, {"offer"}) = {} /\ DownInv(d)
  BY <1>1, Streaming, StreamKinds DEF WireInv
<1>3. \E s \in {"read", "off"} :
        /\ stream' = [stream EXCEPT ![d] = [at |-> s, sent |-> stream[d].sent + 1]]
        /\ s = "read" => stream[d].sent + 1 < Chunks[d] /\ UNCHANGED down
        /\ s = "off" => W!ToViewer(IF W!Active(d) THEN <<W!Msg("complete", d)>> ELSE <<>>)
        /\ s = "off" /\ W!Active(d) => ~(stream[d].sent + 1 < Chunks[d])
  BY <1>1 DEF W!NextChunk, W!Streams
<1>4. /\ stream'[d].sent = stream[d].sent + 1 /\ relay'[d] = "idle" /\ stream'[d].at # "forward"
      /\ stream'[d].at = "read" => stream[d].sent + 1 < Chunks[d]
      /\ \A e \in Downloads : e # d =>
           serving'[e] = serving[e] /\ stream'[e] = stream[e] /\ relay'[e] = relay[e]
      /\ ServeTypes'
  BY <1>1, <1>2, <1>3 DEF WireInv, WireTypes, ServeTypes
<1>5. Sent(d)' = Sent(d) /\ Sent(d) = stream[d].sent + 1  BY <1>1, <1>2, <1>4 DEF Sent
<1>6. StreamInv(d)'
  <2>1. stream'[d].sent <= Chunks[d]  BY <1>2, <1>4
  <2>2. stream'[d].at # "off" => stream'[d].sent < Chunks[d]
    <3>1. stream'[d].at \in {"off", "read"}  BY <1>4 DEF ServeTypes
    <3> QED  BY <1>4, <3>1
  <2>3. serving'[d] \notin {"none", "offered"} /\ relay'[d] = "idle"  BY <1>1, <1>2, <1>4
  <2> QED  BY <2>1, <2>2, <2>3 DEF StreamInv
<1>7. UpMoves({}) /\ serving'[d] # "none"  BY <1>1, <1>2, UpStays DEF WireInv, WireTypes
<1>8. CASE UNCHANGED down
  <2>1. DownMoves({}) /\ \A e \in Downloads : Passes(e, 0)
    BY <1>8, DownStays DEF WireInv, WireTypes
  <2>2. DownInv(d)'  BY <1>1, <1>2, <1>5, <1>6, <1>7, <2>1, StreamMoves DEF DownMoves
  <2> QED  BY <1>1, <1>4, <1>7, <2>1, <2>2, CoreSide
<1>9. CASE W!ToViewer(<<W!Msg("complete", d)>>) /\ ~(stream[d].sent + 1 < Chunks[d])
  <2> DEFINE m == W!Msg("complete", d)
             ms == <<m>>
             n == Len(down) + 1
  <2>1. m \in W!Message /\ m.type = "complete" /\ m.id = d  BY DownloadMessages
  <2>2. ms \in Seq(W!Message) /\ DOMAIN ms = {1} /\ ms[1] = m /\ W!ToViewer(ms)  BY <1>9, <2>1
  <2> HIDE DEF m, ms
  <2>3. /\ down \in Seq(W!Message) /\ down' \in Seq(W!Message)
        /\ \A i \in DOMAIN down : i \in DOMAIN down' /\ down'[i] = down[i]
        /\ \A i \in DOMAIN down' : i \in DOMAIN down \/ (i = n /\ down'[i] = m)
    BY <2>2, Appends DEF WireInv, WireTypes, ChannelTypes
  <2>4. \A i \in DOMAIN down : i \in Nat /\ i < n  BY <2>3
  <2>5. /\ \A i \in About(d, {"chunk"})' : i \in About(d, {"chunk"}) /\ down'[i] = down[i]
        /\ \A i \in About(d, {"chunk"}) : i \in About(d, {"chunk"})' /\ down'[i] = down[i]
        /\ About(d, {"offer"})' = {}
        /\ \A i \in About(d, {"complete"})' : i = n
    BY <1>2, <2>1, <2>3 DEF About
  <2>6. promise' = promise /\ received' = received  BY <1>1 DEF W!viewerVars
  <2>7. OfferInv(d)'  BY <1>1, <1>2, <2>5, <2>6 DEF OfferInv
  <2>8. ChunkInv(d)'
    <3>1. stream'[d].sent = Chunks[d]  BY <1>2, <1>4, <1>9
    <3>2. \A i \in About(d, {"chunk"}) : i < n  BY <2>4 DEF About
    <3>3. ASSUME promise'[d] = "pending"
          PROVE  /\ received'[d] <= Sent(d)'
                 /\ \A i \in About(d, {"chunk"})' : received'[d] <= down'[i].arg
                 /\ \A k \in received'[d]..Sent(d)' - 1 : \E i \in About(d, {"chunk"})' : down'[i].arg = k
      <4>1. /\ received[d] <= Sent(d)
            /\ \A i \in About(d, {"chunk"}) : received[d] <= down[i].arg
            /\ \A k \in received[d]..Sent(d) - 1 : \E i \in About(d, {"chunk"}) : down[i].arg = k
        BY <1>2, <2>6, <3>3 DEF DownInv, ChunkInv
      <4> QED  BY <1>5, <2>5, <2>6, <4>1
    <3>4. \A i \in About(d, {"chunk"})' : down'[i].arg < Sent(d)'
      BY <1>2, <1>5, <2>5 DEF DownInv, ChunkInv
    <3>5. \A i, j \in About(d, {"chunk"})' : i < j => down'[i].arg < down'[j].arg
      BY <1>2, <2>5 DEF DownInv, ChunkInv
    <3>6. \A i \in About(d, {"complete"})' :
            stream'[d].sent = Chunks[d] /\ \A j \in About(d, {"chunk"})' : j < i
      BY <2>5, <3>1, <3>2
    <3> QED  BY <3>3, <3>4, <3>5, <3>6 DEF ChunkInv
  <2>9. DownInv(d)'  BY <1>6, <2>7, <2>8 DEF DownInv
  <2>10. DownMoves({m}) /\ \A e \in Downloads : e # d => Passes(e, 0)
    <3>1. {ms[j] : j \in DOMAIN ms} = {m}  BY <2>2
    <3>2. \A e \in Downloads : e # d => \A j \in DOMAIN ms : ~Carries(e, ms[j])
      BY <2>1, <2>2 DEF Carries
    <3> QED  BY <2>2, <3>1, <3>2, DownSent DEF WireInv, WireTypes
  <2> QED  BY <1>1, <1>4, <1>7, <2>1, <2>9, <2>10, CoreSide
<1>10. CASE W!ToViewer(<<>>)
  <2>1. <<>> \in Seq(W!Message)  OBVIOUS
  <2>2. DownMoves({}) /\ \A e \in Downloads : Passes(e, 0)
    <3>1. \A j \in DOMAIN <<>> : FALSE  OBVIOUS
    <3>2. /\ DownMoves({<<>>[j] : j \in DOMAIN <<>>})
          /\ \A e \in Downloads : (\A j \in DOMAIN <<>> : ~Carries(e, <<>>[j])) => Passes(e, 0)
      BY <1>10, <2>1, DownSent DEF WireInv, WireTypes
    <3>3. {<<>>[j] : j \in DOMAIN <<>>} = {}  BY <3>1
    <3> QED  BY <3>1, <3>2, <3>3
  <2>3. DownInv(d)'  BY <1>1, <1>2, <1>5, <1>6, <1>7, <2>2, StreamMoves DEF DownMoves
  <2> QED  BY <1>1, <1>4, <1>7, <2>2, <2>3, CoreSide
<1> QED  BY <1>3, <1>8, <1>9, <1>10

LEMMA CoreDownloadsInv ==
  ASSUME W!FileWireAssumption, WireInv, W!CoreDownloads
  PROVE  WireInv'
BY OfferDownloadInv, EndsInv, DownloadAcceptedInv, RelayInv, ChunkForwardedInv,
   ChunkAcknowledgedInv, StreamFailsInv DEF W!CoreDownloads

-----------------------------------------------------------------------------
LEMMA WireInit ==
  ASSUME W!FileWireAssumption
  PROVE  W!Init => WireInv
<1> SUFFICES ASSUME W!Init  PROVE WireInv  OBVIOUS
<1> USE WireConstants
<1>1. ClientTypes
  <2>1. \A u \in Uploads : Chunks[u] \in Nat /\ sender[u] = Chunks[u]
    BY UploadNoDownload DEF W!Init, W!Off
  <2>2. sender \in [Uploads -> Nat]  BY <2>1 DEF W!Init
  <2>3. received \in [Downloads -> Nat] /\ \A d \in Downloads : received[d] <= Chunks[d]
    BY DEF W!Init
  <2>4. \A u \in Uploads : sender[u] <= Chunks[u]  BY <2>1
  <2>5. promise \in [W!Files -> {"none", "offered", "pending", "resolved", "rejected"}]  BY DEF W!Init
  <2>6. shown \in SUBSET Uploads /\ pending = None /\ accepted \in BOOLEAN /\ failed \in BOOLEAN  BY DEF W!Init
  <2> QED  BY <2>2, <2>3, <2>4, <2>5, <2>6 DEF ClientTypes
<1>2. CoreTypes  BY IdleStep DEF W!Init, CoreTypes
<1>3. ServeTypes  BY DEF W!Init, ServeTypes
<1>4. ChannelTypes  BY DEF W!Init, ChannelTypes
<1>5. PageInv  BY IdleStep DEF W!Init, PageInv
<1>6. SentInv /\ ToldInv  BY UploadNoDownload DEF W!Init, SentInv, ToldInv
<1>7. ASSUME NEW d \in Downloads  PROVE DownInv(d)
  <2>1. Unstarted(d) /\ Sent(d) = 0 /\ \A kinds : About(d, kinds) = {}
    BY DEF W!Init, Unstarted, Sent, About
  <2>2. StreamInv(d)  BY <2>1 DEF W!Init, StreamInv, Unstarted
  <2>3. OfferInv(d)  BY <2>1 DEF W!Init, OfferInv
  <2>4. ChunkInv(d)  BY <2>1 DEF W!Init, ChunkInv
  <2> QED  BY <2>2, <2>3, <2>4 DEF DownInv
<1> QED  BY <1>1, <1>2, <1>3, <1>4, <1>5, <1>6, <1>7 DEF WireInv, WireTypes

LEMMA WireStep ==
  ASSUME W!FileWireAssumption
  PROVE  WireInv /\ [W!Next]_(W!vars) => WireInv'
<1> SUFFICES ASSUME WireInv, [W!Next]_(W!vars)  PROVE WireInv'
  OBVIOUS
<1>1. CASE UNCHANGED W!vars
  <2>1. UNCHANGED <<W!viewerVars, W!coreDownloadVars, W!coreUploadVars, up, down>>  BY <1>1 DEF W!vars
  <2>2. CoreTypes' /\ PageInv'
    BY <2>1 DEF WireInv, WireTypes, CoreTypes, PageInv, W!coreUploadVars
  <2>3. page' = page  BY <2>1 DEF W!coreUploadVars
  <2> QED  BY <2>1, <2>2, <2>3, QuietCore
<1>2. CASE W!ViewerActs \/ W!Receive  BY <1>2, ViewerActsInv
<1>3. CASE W!CoreUploads  BY <1>3, CoreUploadsInv
<1>4. CASE W!CoreDownloads  BY <1>4, CoreDownloadsInv
<1> QED  BY <1>1, <1>2, <1>3, <1>4 DEF W!Next

LEMMA WireConsequence ==
  ASSUME W!FileWireAssumption
  PROVE  WireInv => W!Consistent
<1> SUFFICES ASSUME WireInv  PROVE W!Consistent  OBVIOUS
<1>1. \A u \in Uploads : sender[u] \in W!AnyChunk /\ written[u] \in W!AnyChunk
  BY ChunkNumbers, WireConstants DEF WireInv, WireTypes, ClientTypes, CoreTypes, PageInv
<1>2. \A d \in Downloads : received[d] \in W!AnyChunk /\ stream[d].sent \in W!AnyChunk
  BY ChunkNumbers, WireConstants
     DEF WireInv, WireTypes, ClientTypes, ServeTypes, DownInv, StreamInv
<1>3. W!TypeOK
  BY <1>1, <1>2 DEF WireInv, WireTypes, ClientTypes, CoreTypes, ServeTypes, ChannelTypes, W!TypeOK
<1>4. W!DeliveredToThePage  BY DEF WireInv, PageInv, ToldInv, W!DeliveredToThePage
<1> QED  BY <1>3, <1>4 DEF W!Consistent

(* The first chunk on the way is the lowest, and the chunk the Viewer lacks is  *)
(* among them; no chunk follows the end of a download.                          *)
LEMMA ChunksConsequence ==
  ASSUME W!FileWireAssumption
  PROVE  WireInv => W!ChunksFit
<1> SUFFICES ASSUME WireInv, down # <<>>, down[1].type \in {"chunk", "complete"},
                    promise[down[1].id] = "pending"
             PROVE  received[down[1].id] = IF down[1].type = "chunk" THEN down[1].arg ELSE Chunks[down[1].id]
  BY DEF W!ChunksFit
<1> DEFINE d == down[1].id
<1>0. 1 \in DOMAIN down  BY DownNumbers
<1>1. d \in Downloads  BY <1>0 DEF WireInv, ToldInv
<1>2. /\ \A i \in DOMAIN down : i \in Nat /\ i >= 1 /\ down[i].arg \in Nat
      /\ received[d] \in Nat /\ received[d] <= Chunks[d] /\ Sent(d) \in Nat /\ Chunks[d] \in Nat
      /\ DownInv(d)
  BY <1>1, DownNumbers, StreamKinds DEF WireInv
<1>3. /\ received[d] <= Sent(d)
      /\ \A i \in About(d, {"chunk"}) : received[d] <= down[i].arg
      /\ \A n \in received[d]..Sent(d) - 1 : \E i \in About(d, {"chunk"}) : down[i].arg = n
  BY <1>2 DEF DownInv, ChunkInv
<1>4. CASE down[1].type = "chunk"
  <2>1. 1 \in About(d, {"chunk"})  BY <1>0, <1>4 DEF About
  <2>2. down[1].arg < Sent(d)  BY <1>2, <2>1 DEF DownInv, ChunkInv
  <2>3. PICK i \in About(d, {"chunk"}) : down[i].arg = received[d]
    BY <1>0, <1>2, <1>3, <2>1, <2>2
  <2>4. i = 1
    <3> SUFFICES ASSUME i # 1  PROVE FALSE  OBVIOUS
    <3>1. 1 < i  BY <1>2 DEF About
    <3>2. down[1].arg < down[i].arg  BY <1>2, <2>1, <3>1 DEF DownInv, ChunkInv
    <3> QED  BY <1>0, <1>2, <1>3, <2>1, <2>3, <3>2
  <2> QED  BY <1>4, <2>3, <2>4
<1>5. CASE down[1].type = "complete"
  <2>1. 1 \in About(d, {"complete"})  BY <1>0, <1>5 DEF About
  <2>2. stream[d].sent = Chunks[d] /\ \A i \in About(d, {"chunk"}) : i < 1
    BY <1>2, <2>1 DEF DownInv, ChunkInv
  <2>3. About(d, {"chunk"}) = {}  BY <1>2, <2>2 DEF About
  <2>4. ~(received[d] < Sent(d))  BY <1>2, <1>3, <2>3
  <2>5. Sent(d) >= Chunks[d]  BY <1>1, <1>2, <2>2 DEF Sent
  <2> QED  BY <1>2, <1>3, <1>5, <2>4, <2>5
<1> QED  BY <1>4, <1>5

(* However cancellations, time-outs and new choosers cross an upload, the       *)
(* Viewer is told of a delivery only when the page has the whole of it.         *)
THEOREM UploadsReachThePage ==
  ASSUME W!FileWireAssumption
  PROVE  W!Spec => []W!Consistent
BY WireInit, WireStep, WireConsequence, PTL DEF W!Spec

(* However a chunk that waits for the channel to drain is passed by other       *)
(* messages, what the Viewer awaits next is what it receives next.              *)
THEOREM ChunksArriveInOrder ==
  ASSUME W!FileWireAssumption
  PROVE  W!Spec => []W!ChunksFit
BY WireInit, WireStep, ChunksConsequence, PTL DEF W!Spec

=============================================================================
