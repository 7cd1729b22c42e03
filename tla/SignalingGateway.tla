-------------------------- MODULE SignalingGateway --------------------------
(***************************************************************************)
(* The signaling Gateway of apps/signaling/src/index.ts: it admits         *)
(* WebSockets, binds each one as the Core or the Viewer of a pairing key   *)
(* (a Session and a Viewer generation), and relays between the two.        *)
(*                                                                         *)
(* The process is single threaded, so an action is one run of the event    *)
(* loop up to the next await.  What an await leaves behind is a record of  *)
(* the set tasks: the ticket being verified, the Core being authorized, or *)
(* the ICE servers being fetched for a pair that has both its peers.       *)
(*                                                                         *)
(* The identity of a pairing object is its key here: a socket is bound at  *)
(* most once, so a pairing that was deleted and created again never holds  *)
(* the sockets of the old one.                                             *)
(***************************************************************************)
EXTENDS Naturals, FiniteSets

CONSTANTS
  Sockets,             \* WebSockets, each used for one connection
  Keys,                \* pairing keys: Session and Viewer generation
  Tickets,             \* Viewer tickets, named by their jti
  TicketKey,           \* the key a ticket's claims name
  Expiry,              \* the second at which a ticket expires
  Addresses, AddressOf,\* remote addresses
  MaxConnections, MaxConnectionsPerIp, MaxPendingPairs, MaxConsumedTickets,
  MaxTime,             \* bound: seconds modelled
  MaxRestarts,         \* bound: times the Gateway is closed and started
  Observed,            \* bound: the kinds of message recorded in delivered
  None

ASSUME GatewayAssumption ==
  /\ TicketKey \in [Tickets -> Keys]
  /\ Expiry \in [Tickets -> Nat]
  /\ AddressOf \in [Sockets -> Addresses]
  /\ MaxConnections \in Nat \ {0} /\ MaxConnectionsPerIp \in Nat \ {0}
  /\ MaxPendingPairs \in Nat \ {0} /\ MaxConsumedTickets \in Nat \ {0}
  /\ MaxTime \in Nat /\ MaxRestarts \in Nat
  /\ Observed \subseteq {"ready", "peer-left", "relay"}
  /\ None \notin Sockets \cup Tickets \cup Keys

VARIABLES
  readyState,      \* per socket: "new", "open", "closing" or "closed"
  connections,     \* sockets with a ConnectionRecord
  byAddress,       \* #connectionsByAddress
  bindInProgress,  \* sockets whose record says a bind is running
  bindTimer,       \* sockets whose authentication timer is armed
  tasks,           \* suspended #bindViewer, #bindCore and #completePair calls
  peers,           \* #peers: the role and key of a bound socket
  pairs,           \* #pairs
  consumed,        \* #consumedTickets
  delivered,       \* per socket: the observed kinds of message sent to it
  boundWith,       \* history: the sockets each ticket has bound, and in which run
  now, restarts

vars == <<readyState, connections, byAddress, bindInProgress, bindTimer, tasks,
          peers, pairs, consumed, delivered, boundWith, now, restarts>>

-----------------------------------------------------------------------------
NoPeer == [role |-> "none", key |-> None]
NoPair == [live |-> FALSE, core |-> None, viewer |-> None, claims |-> None,
           timer |-> FALSE]
EmptyPair == [NoPair EXCEPT !.live = TRUE, !.timer = TRUE]

Peer == [role : {"core", "viewer"}, key : Keys] \cup {NoPeer}
Pair == [live : BOOLEAN, core : Sockets \cup {None}, viewer : Sockets \cup {None},
         claims : Tickets \cup {None}, timer : BOOLEAN]
VerifyTask == [step : {"verify"}, socket : Sockets, key : {None}, ticket : Tickets,
               core : {None}, viewer : {None}]
AuthorizeTask == [step : {"authorize"}, socket : Sockets, key : Keys, ticket : {None},
                  core : {None}, viewer : {None}]
IceTask == [step : {"coreIce", "viewerIce"}, socket : Sockets, key : Keys,
            ticket : Tickets, core : Sockets, viewer : Sockets]
Task == VerifyTask \cup AuthorizeTask \cup IceTask

BindTask(step, s, k, t) ==
  [step |-> step, socket |-> s, key |-> k, ticket |-> t, core |-> None, viewer |-> None]

\* A socket that a ticket has bound, and in which run of the Gateway.
Bind == [run : Nat, socket : Sockets]

TypeOK ==
  /\ readyState \in [Sockets -> {"new", "open", "closing", "closed"}]
  /\ connections \in SUBSET Sockets
  /\ byAddress \in [Addresses -> Nat]
  /\ bindInProgress \in SUBSET Sockets
  /\ bindTimer \in SUBSET Sockets
  /\ tasks \in SUBSET Task
  /\ peers \in [Sockets -> Peer]
  /\ pairs \in [Keys -> Pair]
  /\ consumed \in SUBSET Tickets
  /\ delivered \in [Sockets -> SUBSET Observed]
  /\ boundWith \in [Tickets -> SUBSET Bind]
  /\ now \in Nat /\ restarts \in Nat

Init ==
  /\ readyState = [s \in Sockets |-> "new"]
  /\ connections = {}
  /\ byAddress = [a \in Addresses |-> 0]
  /\ bindInProgress = {} /\ bindTimer = {} /\ tasks = {}
  /\ peers = [s \in Sockets |-> NoPeer]
  /\ pairs = [k \in Keys |-> NoPair]
  /\ consumed = {}
  /\ delivered = [s \in Sockets |-> {}]
  /\ boundWith = [t \in Tickets |-> {}]
  /\ now = 0 /\ restarts = 0

-----------------------------------------------------------------------------
Bound(s) == peers[s] # NoPeer
Open(s) == readyState[s] = "open"
LivePairs == {k \in Keys : pairs[k].live}

Complete(p) == p.core # None /\ p.viewer # None /\ p.claims # None

\* #send reaches a socket only while it is open.
Deliver(to, kind) ==
  delivered' = [s \in Sockets |->
                  delivered[s] \cup (IF s \in to /\ Open(s) THEN {kind} \cap Observed ELSE {})]

\* #rejectSocket: the closing handshake starts after the error message.
Reject(to) ==
  readyState' = [s \in Sockets |->
                   IF s \in to /\ Open(s) THEN "closing" ELSE readyState[s]]

\* #rejectBindFailure
RejectBind(s) ==
  /\ bindInProgress' = bindInProgress \ {s}
  /\ Reject({s})

\* Mutant: the expiry timer is not started again.
VacatedWithoutTimer(p, role) ==
  IF role = "core" THEN [p EXCEPT !.core = None]
                   ELSE [p EXCEPT !.viewer = None, !.claims = None]

\* The pairing a peer of this role leaves behind.
Vacated(p, role) ==
  IF role = "core" THEN [p EXCEPT !.core = None, !.timer = TRUE]
                   ELSE [p EXCEPT !.viewer = None, !.claims = None, !.timer = TRUE]

\* The peer left there.
Partner(s) ==
  IF ~Bound(s) THEN None
  ELSE IF peers[s].role = "core" THEN pairs[peers[s].key].viewer
                                 ELSE pairs[peers[s].key].core

\* #removePeer: the partner is told, the pairing waits for a successor.
RemovePeer(s) ==
  /\ peers' = [peers EXCEPT ![s] = NoPeer]
  /\ pairs' = [k \in Keys |->
                 IF Bound(s) /\ k = peers[s].key /\ pairs[k].live
                   THEN Vacated(pairs[k], peers[s].role) ELSE pairs[k]]
  /\ Deliver({Partner(s)}, "peer-left")

\* #removeConnection: the record goes, and with it its bindInProgress.
RemoveConnection(s) ==
  /\ connections' = connections \ {s}
  /\ bindInProgress' = bindInProgress \ {s}
  /\ byAddress' = IF s \in connections
                    THEN [byAddress EXCEPT ![AddressOf[s]] = IF @ <= 1 THEN 0 ELSE @ - 1]
                    ELSE byAddress

-----------------------------------------------------------------------------
(* Connections *)

\* #accept, up to the handlers it installs.
Admissible(s) ==
  /\ Cardinality(connections) < MaxConnections
  /\ byAddress[AddressOf[s]] < MaxConnectionsPerIp

Accept(s) ==
  /\ readyState[s] = "new" /\ Admissible(s)
  /\ readyState' = [readyState EXCEPT ![s] = "open"]
  /\ connections' = connections \cup {s}
  /\ byAddress' = [byAddress EXCEPT ![AddressOf[s]] = @ + 1]
  /\ bindTimer' = bindTimer \cup {s}
  /\ UNCHANGED <<bindInProgress, tasks, peers, pairs, consumed, delivered, boundWith, now, restarts>>

RefuseConnection(s) ==
  /\ readyState[s] = "new" /\ ~Admissible(s)
  /\ readyState' = [readyState EXCEPT ![s] = "closing"]
  /\ UNCHANGED <<connections, byAddress, bindInProgress, bindTimer, tasks, peers, pairs,
                 consumed, delivered, boundWith, now, restarts>>

\* The 'close' handler: the peer went away, the heartbeat terminated the
\* socket, or a closing handshake ended.
SocketClosed(s) ==
  /\ readyState[s] \in {"open", "closing"}
  /\ readyState' = [readyState EXCEPT ![s] = "closed"]
  /\ bindTimer' = bindTimer \ {s}
  /\ RemovePeer(s)
  /\ RemoveConnection(s)
  /\ UNCHANGED <<tasks, consumed, boundWith, now, restarts>>

\* The 'error' handler runs before 'close'.
SocketError(s) ==
  /\ s \in connections /\ readyState[s] \in {"open", "closing"}
  /\ readyState' = [readyState EXCEPT ![s] = "closing"]
  /\ bindTimer' = bindTimer \ {s}
  /\ RemovePeer(s)
  /\ RemoveConnection(s)
  /\ UNCHANGED <<tasks, consumed, boundWith, now, restarts>>

\* #consumeMessage over the rate: the count itself is abstracted.
RateLimited(s) ==
  /\ s \in connections /\ readyState[s] \in {"open", "closing"}
  /\ readyState' = [readyState EXCEPT ![s] = "closing"]
  /\ RemovePeer(s)
  /\ RemoveConnection(s)
  /\ UNCHANGED <<bindTimer, tasks, consumed, boundWith, now, restarts>>

\* The authentication timer: cleared only when a bind has completed.
BindTimeout(s) ==
  /\ s \in bindTimer
  /\ bindTimer' = bindTimer \ {s}
  /\ Reject({s})
  /\ UNCHANGED <<connections, byAddress, bindInProgress, tasks, peers, pairs, consumed,
                 delivered, boundWith, now, restarts>>

-----------------------------------------------------------------------------
(* Messages.  A socket that is closing still hands over what it received.  *)
(* A bind it starts then ends in #assertConnectionOpen or in a rejection   *)
(* and changes nothing but its own bindInProgress, which nobody reads any  *)
(* more: such a bind is BadMessage.                                        *)

Readable(s) == s \in connections /\ readyState[s] \in {"open", "closing"}

StartBind(s, task) ==
  /\ s \in connections /\ Open(s) /\ s \notin bindInProgress /\ ~Bound(s)
  /\ bindInProgress' = bindInProgress \cup {s}
  /\ tasks' = tasks \cup {task}
  /\ UNCHANGED <<readyState, connections, byAddress, bindTimer, peers, pairs, consumed,
                 delivered, boundWith, now, restarts>>

ViewerBind(s, t) == StartBind(s, BindTask("verify", s, None, t))
CoreBind(s, k) == StartBind(s, BindTask("authorize", s, k, None))

\* A message while a bind runs, a binary or malformed frame, a first message
\* that binds nothing, or a bound peer's message that is not for relay.
BadMessage(s) ==
  /\ Readable(s)
  /\ RejectBind(s)
  /\ UNCHANGED <<connections, byAddress, bindTimer, tasks, peers, pairs, consumed,
                 delivered, boundWith, now, restarts>>

\* #relay of an offer, answer, candidate, ICE restart or Core error.
Relay(s) ==
  /\ Readable(s) /\ s \notin bindInProgress /\ Bound(s)
  /\ Partner(s) # None /\ Open(Partner(s))
  /\ Deliver({Partner(s)}, "relay")
  /\ UNCHANGED <<readyState, connections, byAddress, bindInProgress, bindTimer, tasks, peers,
                 pairs, consumed, boundWith, now, restarts>>

-----------------------------------------------------------------------------
(* Continuations *)

\* What the .then of #bind does once #bindViewer or #bindCore has returned.
BindReturned(s) ==
  IF s \in connections /\ Open(s)
    THEN bindInProgress' = bindInProgress \ {s} /\ bindTimer' = bindTimer \ {s}
    ELSE UNCHANGED <<bindInProgress, bindTimer>>

\* The suspended call task ends by throwing.
TaskFails(task) ==
  /\ tasks' = tasks \ {task}
  /\ RejectBind(task.socket)
  /\ UNCHANGED <<connections, byAddress, bindTimer, peers, pairs, delivered, boundWith, now,
                 restarts>>

\* Mutant: entries are pruned a second before their tickets expire.
UnexpiredEarly(ts) == {t \in ts : Expiry[t] > now + 1}

\* What #pruneConsumedTickets keeps.
Unexpired(ts) == {t \in ts : Expiry[t] > now}

\* #getOrCreatePairing fails at capacity; a taken role is a conflict.
RoleFree(k, role) ==
  /\ pairs[k].live \/ Cardinality(LivePairs) < MaxPendingPairs
  /\ pairs[k][role] = None

\* The role is taken; #completePair either suspends on the ICE servers or
\* returns because the partner is missing.
BindPeer(task, k, role, t) ==
  LET p == IF pairs[k].live THEN pairs[k] ELSE EmptyPair
      q == IF role = "core" THEN [p EXCEPT !.core = task.socket]
                            ELSE [p EXCEPT !.viewer = task.socket, !.claims = t]
      s == task.socket
  IN /\ peers' = [peers EXCEPT ![s] = [role |-> role, key |-> k]]
     /\ pairs' = [pairs EXCEPT ![k] = [q EXCEPT !.timer = ~Complete(q)]]
     /\ IF Complete(q)
          THEN /\ tasks' = (tasks \ {task}) \cup
                     {[step |-> "coreIce", socket |-> s, key |-> k, ticket |-> q.claims,
                       core |-> q.core, viewer |-> q.viewer]}
               /\ UNCHANGED <<bindInProgress, bindTimer>>
          ELSE tasks' = tasks \ {task} /\ BindReturned(s)
     /\ UNCHANGED <<readyState, connections, byAddress, delivered, now, restarts>>

\* Mutant: a socket lost during the await is bound all the same.
AliveUnchecked(s) == s \in Sockets

\* #assertConnectionOpen
Alive(s) == s \in connections /\ Open(s)

TicketAccepted(t) ==
  /\ Expiry[t] > now
  /\ t \notin consumed
  /\ Cardinality(Unexpired(consumed)) < MaxConsumedTickets

\* #bindViewer after verifyViewerTicket has resolved.
TicketVerified(task) ==
  LET t == task.ticket
      k == TicketKey[t]
  IN /\ task \in tasks /\ task.step = "verify" /\ Alive(task.socket)
     /\ TicketAccepted(t) /\ RoleFree(k, "viewer")
     /\ consumed' = Unexpired(consumed) \cup {t}
     /\ boundWith' = [boundWith EXCEPT ![t] = @ \cup {[run |-> restarts, socket |-> task.socket]}]
     /\ BindPeer(task, k, "viewer", t)

\* The checks after the await fail; expired tickets are pruned before them.
TicketRefused(task) ==
  /\ task \in tasks /\ task.step = "verify" /\ Alive(task.socket)
  /\ ~(TicketAccepted(task.ticket) /\ RoleFree(TicketKey[task.ticket], "viewer"))
  /\ consumed' = Unexpired(consumed)
  /\ TaskFails(task)

\* #bindCore after authorizeCoreBinding has resolved.
CoreAuthorized(task) ==
  /\ task \in tasks /\ task.step = "authorize" /\ Alive(task.socket)
  /\ RoleFree(task.key, "core")
  /\ BindPeer(task, task.key, "core", None)
  /\ UNCHANGED <<consumed, boundWith>>

CoreRefused(task) ==
  /\ task \in tasks /\ task.step = "authorize" /\ Alive(task.socket)
  /\ ~RoleFree(task.key, "core")
  /\ TaskFails(task) /\ UNCHANGED consumed

\* The verifier, the authorizer or the ICE provider rejects, or the socket
\* was lost while they ran.
TaskRejected(task) ==
  /\ task \in tasks
  /\ TaskFails(task) /\ UNCHANGED consumed

\* Mutant: only the Core is looked at again.
PairCurrentForCore(task) ==
  /\ pairs[task.key].core = task.core
  /\ peers[task.core].key = task.key /\ Open(task.core)

\* #isPairCurrent
PairCurrent(task) ==
  /\ pairs[task.key].core = task.core /\ pairs[task.key].viewer = task.viewer
  /\ pairs[task.key].claims = task.ticket
  /\ peers[task.core].key = task.key /\ peers[task.viewer].key = task.key
  /\ Open(task.core) /\ Open(task.viewer)

\* #completePair: the Core's ICE servers arrived.
CoreIceFetched(task) ==
  /\ task \in tasks /\ task.step = "coreIce"
  /\ IF PairCurrent(task)
       THEN /\ tasks' = (tasks \ {task}) \cup {[task EXCEPT !.step = "viewerIce"]}
            /\ UNCHANGED <<bindInProgress, bindTimer>>
       ELSE tasks' = tasks \ {task} /\ BindReturned(task.socket)
  /\ UNCHANGED <<readyState, connections, byAddress, peers, pairs, consumed, delivered,
                 boundWith, now, restarts>>

\* The Viewer's ICE servers arrived: both peers get signal.ready and
\* signal.peer-ready.
ViewerIceFetched(task) ==
  /\ task \in tasks /\ task.step = "viewerIce"
  /\ IF PairCurrent(task) THEN Deliver({task.core, task.viewer}, "ready")
                          ELSE UNCHANGED delivered
  /\ tasks' = tasks \ {task}
  /\ BindReturned(task.socket)
  /\ UNCHANGED <<readyState, connections, byAddress, peers, pairs, consumed, boundWith, now, restarts>>

-----------------------------------------------------------------------------
\* #expirePair, run by the pairing's timer.
ExpirePair(k) ==
  LET bound == {pairs[k].core, pairs[k].viewer} \ {None}
  IN /\ pairs[k].live /\ pairs[k].timer
     /\ pairs' = [pairs EXCEPT ![k] = NoPair]
     /\ peers' = [s \in Sockets |-> IF s \in bound THEN NoPeer ELSE peers[s]]
     /\ Reject(bound)
     /\ UNCHANGED <<connections, byAddress, bindInProgress, bindTimer, tasks, consumed,
                    delivered, boundWith, now, restarts>>

\* getMetrics prunes before it reports.
GetMetrics ==
  /\ consumed' = Unexpired(consumed)
  /\ UNCHANGED <<readyState, connections, byAddress, bindInProgress, bindTimer, tasks, peers,
                 pairs, delivered, boundWith, now, restarts>>

Tick ==
  /\ now < MaxTime
  /\ now' = now + 1
  /\ UNCHANGED <<readyState, connections, byAddress, bindInProgress, bindTimer, tasks, peers,
                 pairs, consumed, delivered, boundWith, restarts>>

\* close() and a later start(): everything is in memory.
CloseAndStart ==
  /\ restarts < MaxRestarts
  /\ restarts' = restarts + 1
  /\ readyState' = [s \in Sockets |-> IF Open(s) THEN "closing" ELSE readyState[s]]
  /\ connections' = {} /\ byAddress' = [a \in Addresses |-> 0]
  /\ bindInProgress' = {}
  /\ peers' = [s \in Sockets |-> NoPeer]
  /\ pairs' = [k \in Keys |-> NoPair]
  /\ consumed' = {}
  /\ UNCHANGED <<bindTimer, tasks, delivered, boundWith, now>>

SocketStep(s) ==
  \/ Accept(s) \/ RefuseConnection(s)
  \/ SocketClosed(s) \/ SocketError(s) \/ RateLimited(s) \/ BindTimeout(s)
  \/ \E t \in Tickets : ViewerBind(s, t)
  \/ \E k \in Keys : CoreBind(s, k)
  \/ BadMessage(s) \/ Relay(s)

TaskStep(task) ==
  \/ TicketVerified(task) \/ TicketRefused(task)
  \/ CoreAuthorized(task) \/ CoreRefused(task) \/ TaskRejected(task)
  \/ CoreIceFetched(task) \/ ViewerIceFetched(task)

Next ==
  \/ \E s \in Sockets : SocketStep(s)
  \/ \E task \in tasks : TaskStep(task)
  \/ \E k \in Keys : ExpirePair(k)
  \/ GetMetrics \/ Tick \/ CloseAndStart

\* Timers fire, and a closing handshake ends (the library destroys a socket
\* that does not answer).  Nothing is assumed of the verifier, the authorizer
\* or the ICE provider: they may never answer.
Fairness ==
  /\ \A s \in Sockets : WF_vars(BindTimeout(s))
  /\ \A s \in Sockets : WF_vars(readyState[s] = "closing" /\ SocketClosed(s))
  /\ \A k \in Keys : WF_vars(ExpirePair(k))

Spec == Init /\ [][Next]_vars
FairSpec == Spec /\ Fairness

-----------------------------------------------------------------------------
(* Safety *)

\* In each run of the Gateway, from a start to its close, a Viewer Ticket binds at
\* most one socket, however verifications of it interleave, with calls that were
\* suspended when the Gateway restarted, and although consumed entries are pruned
\* as they expire (#bindViewer, #pruneConsumedTickets).
SingleUse == \A t \in Tickets : \A a, b \in boundWith[t] : a.run = b.run => a = b

\* A ticket is spent only by a bind that succeeded in this run: conflicts, full
\* tables and sockets lost during verification leave it usable, and nothing of an
\* earlier run spends it (#bindViewer, close).
SpentOnlyByBinding == \A t \in consumed : \E b \in boundWith[t] : b.run = restarts

\* What the signaling document asks, and close() does not keep: a ticket presented
\* again before it expires is refused, a restart in between or not (close clears
\* the table of consumed tickets).
ReplayPrevented == \A t \in Tickets : \A a, b \in boundWith[t] : a = b

\* #peers and #pairs are inverse maps, and only admitted sockets are peers: no
\* way of losing a socket or a pairing leaves an entry of the other map behind.
PeersMatchPairs ==
  /\ \A s \in Sockets : Bound(s) =>
       /\ pairs[peers[s].key].live
       /\ pairs[peers[s].key][peers[s].role] = s
       /\ s \in connections
  /\ \A k \in Keys, role \in {"core", "viewer"} :
       pairs[k][role] # None =>
         pairs[k].live /\ peers[pairs[k][role]] = [role |-> role, key |-> k]
  /\ \A k \in Keys : (pairs[k].claims # None) <=> (pairs[k].viewer # None)

\* The expiry timer of a tracked pairing is armed exactly while a peer is
\* missing: no half pair can stay, no full pair can be expired
\* (#getOrCreatePairing, #completePair, #removePeer).
TimerIffWaiting ==
  \A k \in Keys : pairs[k].live => (pairs[k].timer <=> ~Complete(pairs[k]))

\* The configured ceilings hold although they are tested before an entry is
\* added, and the per-address counter agrees with the table it summarises.
CeilingsHold ==
  /\ Cardinality(connections) <= MaxConnections
  /\ Cardinality(LivePairs) <= MaxPendingPairs
  /\ Cardinality(consumed) <= MaxConsumedTickets
  /\ \A a \in Addresses :
       /\ byAddress[a] = Cardinality({s \in connections : AddressOf[s] = a})
       /\ byAddress[a] <= MaxConnectionsPerIp

\* What the tables promise together, whatever is suspended in an await.
Consistent ==
  TypeOK /\ SpentOnlyByBinding /\ PeersMatchPairs /\ TimerIffWaiting /\ CeilingsHold

\* signal.ready is sent to the two current peers of one pairing, both open, or
\* to nobody: what was fetched for a peer that left meanwhile is dropped
\* (#completePair, #isPairCurrent).
GetsReady(s) == "ready" \in delivered'[s] \ delivered[s]
ReadyToBoth ==
  \A s \in Sockets : GetsReady(s) =>
    /\ Open(s) /\ Bound(s) /\ Partner(s) # None
    /\ Open(Partner(s)) /\ "ready" \in delivered'[Partner(s)]
ReadyTogether == [][ReadyToBoth]_vars

------------------------------------------------------------------------------
(* Liveness *)

\* A pair with both its peers is announced to them or broken up, even if the
\* ICE provider never answers: the timer that was stopped when the pair filled
\* does not leave it hanging.
FullPairsSettle ==
  \A k \in Keys :
    Complete(pairs[k]) ~> (\/ ~Complete(pairs[k])
                          \/ "ready" \in delivered[pairs[k].viewer])

\* A pairing that waits for a peer gets one or is expired.
HalfPairsSettle ==
  \A k \in Keys :
    (pairs[k].live /\ ~Complete(pairs[k])) ~> (Complete(pairs[k]) \/ ~pairs[k].live)

\* No pairing is held for ever by a peer or a provider that does not answer
\* (#getOrCreatePairing, #completePair, bindTimer).
PairsSettle == FullPairsSettle /\ HalfPairsSettle
=============================================================================
