----------------------- MODULE SignalingGateway_proofs -----------------------
(***************************************************************************)
(* Theorems about SignalingGateway, for every number of sockets, pairing   *)
(* keys and tickets and every value of the configured limits.              *)
(***************************************************************************)
EXTENDS SignalingGateway, FiniteSetTheorems, TLAPS

LEMMA PairFacts ==
  /\ NoPair \in Pair /\ EmptyPair \in Pair /\ NoPeer \in Peer
  /\ \A p \in Pair, role \in {"core", "viewer"} : Vacated(p, role) \in Pair
  BY DEF NoPair, EmptyPair, NoPeer, Pair, Peer, Vacated

\* The helpers keep the types of what they assign.
LEMMA DeliverType ==
  ASSUME TypeOK, NEW to, NEW kind, Deliver(to, kind)
  PROVE  delivered' \in [Sockets -> SUBSET Observed]
  BY DEF TypeOK, Deliver

LEMMA RejectType ==
  ASSUME TypeOK, NEW to, Reject(to)
  PROVE  readyState' \in [Sockets -> {"new", "open", "closing", "closed"}]
  BY DEF TypeOK, Reject

LEMMA RemoveConnectionType ==
  ASSUME TypeOK, NEW s \in Sockets, RemoveConnection(s)
  PROVE  /\ connections' \in SUBSET Sockets /\ bindInProgress' \in SUBSET Sockets
         /\ byAddress' \in [Addresses -> Nat]
  BY GatewayAssumption DEF TypeOK, RemoveConnection, GatewayAssumption

LEMMA RemovePeerType ==
  ASSUME TypeOK, NEW s \in Sockets, RemovePeer(s)
  PROVE  /\ peers' \in [Sockets -> Peer] /\ pairs' \in [Keys -> Pair]
         /\ delivered' \in [Sockets -> SUBSET Observed]
<1>1. peers' \in [Sockets -> Peer]
  BY PairFacts DEF TypeOK, RemovePeer
<1>2. Bound(s) => peers[s].role \in {"core", "viewer"}
  BY DEF TypeOK, Peer, Bound
<1>3. pairs' \in [Keys -> Pair]
  BY <1>2, PairFacts DEF TypeOK, RemovePeer
<1>4. delivered' \in [Sockets -> SUBSET Observed]
  BY DeliverType DEF RemovePeer
<1> QED BY <1>1, <1>3, <1>4

LEMMA BindPeerType ==
  ASSUME TypeOK, NEW task \in Task, NEW k \in Keys,
         NEW role \in {"core", "viewer"}, NEW t,
         role = "viewer" => t \in Tickets,
         BindPeer(task, k, role, t)
  PROVE  /\ peers' \in [Sockets -> Peer] /\ pairs' \in [Keys -> Pair]
         /\ tasks' \in SUBSET Task
         /\ bindInProgress' \in SUBSET Sockets /\ bindTimer' \in SUBSET Sockets
<1> DEFINE s == task.socket
           p == IF pairs[k].live THEN pairs[k] ELSE EmptyPair
           q == IF role = "core" THEN [p EXCEPT !.core = s]
                                 ELSE [p EXCEPT !.viewer = s, !.claims = t]
           ice == [step |-> "coreIce", socket |-> s, key |-> k, ticket |-> q.claims,
                   core |-> q.core, viewer |-> q.viewer]
<1>1. s \in Sockets
  BY DEF Task, VerifyTask, AuthorizeTask, IceTask
<1>2. p \in Pair
  BY PairFacts DEF TypeOK
<1>3. q \in Pair
  BY <1>1, <1>2 DEF Pair
<1>4. [role |-> role, key |-> k] \in Peer
  BY DEF Peer
<1>5. [q EXCEPT !.timer = ~Complete(q)] \in Pair
  <2> HIDE DEF q
  <2>1. (~Complete(q)) \in BOOLEAN
    BY DEF Complete
  <2> QED BY <1>3, <2>1 DEF Pair
<1>6. Complete(q) => ice \in Task
  <2> HIDE DEF q
  <2> QED BY <1>1, <1>3 DEF Complete, Pair, Task, IceTask
<1>7. /\ peers' = [peers EXCEPT ![s] = [role |-> role, key |-> k]]
      /\ pairs' = [pairs EXCEPT ![k] = [q EXCEPT !.timer = ~Complete(q)]]
      /\ \/ /\ Complete(q) /\ tasks' = (tasks \ {task}) \cup {ice}
            /\ UNCHANGED <<bindInProgress, bindTimer>>
         \/ /\ ~Complete(q) /\ tasks' = tasks \ {task} /\ BindReturned(s)
  BY DEF BindPeer
<1> HIDE DEF q, ice, s
<1>8. peers' \in [Sockets -> Peer] /\ pairs' \in [Keys -> Pair]
  BY <1>1, <1>4, <1>5, <1>7 DEF TypeOK
<1>9. tasks' \in SUBSET Task
  BY <1>6, <1>7 DEF TypeOK
<1>10. bindInProgress' \in SUBSET Sockets /\ bindTimer' \in SUBSET Sockets
  BY <1>7 DEF TypeOK, BindReturned
<1> QED BY <1>8, <1>9, <1>10

-----------------------------------------------------------------------------
\* Every variable keeps its type.
LEMMA InitType == Init => TypeOK
  BY PairFacts, GatewayAssumption DEF Init, TypeOK, GatewayAssumption

LEMMA SocketStepType ==
  ASSUME TypeOK, NEW s \in Sockets, SocketStep(s)
  PROVE  TypeOK'
<1>1. CASE Accept(s)
  <2>1. AddressOf[s] \in Addresses
    BY GatewayAssumption DEF GatewayAssumption
  <2>2. byAddress' \in [Addresses -> Nat]
    BY <1>1, <2>1 DEF TypeOK, Accept
  <2>3. readyState' \in [Sockets -> {"new", "open", "closing", "closed"}]
    BY <1>1 DEF TypeOK, Accept
  <2> QED BY <1>1, <2>2, <2>3 DEF TypeOK, Accept
<1>2. CASE RefuseConnection(s)
  BY <1>2 DEF TypeOK, RefuseConnection
<1>3. CASE SocketClosed(s) \/ SocketError(s) \/ RateLimited(s)
  <2>1. RemovePeer(s) /\ RemoveConnection(s)
    BY <1>3 DEF SocketClosed, SocketError, RateLimited
  <2>2. /\ readyState' \in [Sockets -> {"new", "open", "closing", "closed"}]
        /\ bindTimer' \in SUBSET Sockets
        /\ UNCHANGED <<tasks, consumed, boundWith, now, restarts>>
    BY <1>3 DEF TypeOK, SocketClosed, SocketError, RateLimited
  <2> QED BY <2>1, <2>2, RemovePeerType, RemoveConnectionType DEF TypeOK
<1>4. CASE BindTimeout(s)
  BY <1>4, RejectType DEF TypeOK, BindTimeout
<1>5. CASE \E t \in Tickets : ViewerBind(s, t)
  BY <1>5 DEF TypeOK, ViewerBind, StartBind, BindTask, Task, VerifyTask
<1>6. CASE \E k \in Keys : CoreBind(s, k)
  BY <1>6 DEF TypeOK, CoreBind, StartBind, BindTask, Task, AuthorizeTask
<1>7. CASE BadMessage(s)
  BY <1>7, RejectType DEF TypeOK, BadMessage, RejectBind
<1>8. CASE Relay(s)
  BY <1>8, DeliverType DEF TypeOK, Relay
<1> QED BY <1>1, <1>2, <1>3, <1>4, <1>5, <1>6, <1>7, <1>8 DEF SocketStep

LEMMA TaskFailsType ==
  ASSUME TypeOK, NEW task, TaskFails(task), consumed' \in SUBSET Tickets
  PROVE  TypeOK'
  BY RejectType DEF TypeOK, TaskFails, RejectBind

LEMMA TaskStepType ==
  ASSUME TypeOK, NEW task \in tasks, TaskStep(task)
  PROVE  TypeOK'
<1>1. task \in Task
  BY DEF TypeOK
<1>2. CASE TicketVerified(task)
  <2>1. task.ticket \in Tickets /\ task.socket \in Sockets
    BY <1>1, <1>2 DEF TicketVerified, Task, VerifyTask, AuthorizeTask, IceTask
  <2>2. TicketKey[task.ticket] \in Keys
    BY <2>1, GatewayAssumption DEF GatewayAssumption
  <2>3. BindPeer(task, TicketKey[task.ticket], "viewer", task.ticket)
    BY <1>2 DEF TicketVerified
  <2>4. consumed' \in SUBSET Tickets /\ boundWith' \in [Tickets -> SUBSET Bind]
    <3>1. [run |-> restarts, socket |-> task.socket] \in Bind
      BY <2>1 DEF TypeOK, Bind
    <3> QED BY <1>2, <2>1, <3>1 DEF TicketVerified, TypeOK, Unexpired
  <2>5. UNCHANGED <<readyState, connections, byAddress, delivered, now, restarts>>
    BY <2>3 DEF BindPeer
  <2> QED BY <1>1, <2>1, <2>2, <2>3, <2>4, <2>5, BindPeerType DEF TypeOK
<1>3. CASE TicketRefused(task)
  BY <1>3, TaskFailsType DEF TypeOK, TicketRefused, Unexpired
<1>4. CASE CoreAuthorized(task)
  <2>1. task.key \in Keys
    BY <1>1, <1>4 DEF CoreAuthorized, Task, VerifyTask, AuthorizeTask, IceTask
  <2>2. BindPeer(task, task.key, "core", None) /\ UNCHANGED <<consumed, boundWith>>
    BY <1>4 DEF CoreAuthorized
  <2>3. UNCHANGED <<readyState, connections, byAddress, delivered, now, restarts>>
    BY <2>2 DEF BindPeer
  <2> QED BY <1>1, <2>1, <2>2, <2>3, BindPeerType DEF TypeOK
<1>5. CASE CoreRefused(task) \/ TaskRejected(task)
  BY <1>5, TaskFailsType DEF TypeOK, CoreRefused, TaskRejected
<1>6. CASE CoreIceFetched(task)
  <2>1. [task EXCEPT !.step = "viewerIce"] \in Task
    BY <1>1, <1>6 DEF CoreIceFetched, Task, VerifyTask, AuthorizeTask, IceTask
  <2> QED BY <1>6, <2>1 DEF TypeOK, CoreIceFetched, BindReturned
<1>7. CASE ViewerIceFetched(task)
  <2>1. delivered' \in [Sockets -> SUBSET Observed]
    BY <1>7, DeliverType DEF ViewerIceFetched, TypeOK
  <2> QED BY <1>7, <2>1 DEF TypeOK, ViewerIceFetched, BindReturned
<1> QED BY <1>2, <1>3, <1>4, <1>5, <1>6, <1>7 DEF TaskStep

LEMMA NextType == TypeOK /\ [Next]_vars => TypeOK'
<1> SUFFICES ASSUME TypeOK, [Next]_vars PROVE TypeOK'
  OBVIOUS
<1>1. ASSUME NEW s \in Sockets, SocketStep(s) PROVE TypeOK'
  BY <1>1, SocketStepType
<1>2. ASSUME NEW task \in tasks, TaskStep(task) PROVE TypeOK'
  BY <1>2, TaskStepType
<1>3. ASSUME NEW k \in Keys, ExpirePair(k) PROVE TypeOK'
  BY <1>3, PairFacts, RejectType DEF TypeOK, ExpirePair
<1>4. CASE GetMetrics
  BY <1>4 DEF TypeOK, GetMetrics, Unexpired
<1>5. CASE Tick
  BY <1>5 DEF TypeOK, Tick
<1>6. CASE CloseAndStart
  BY <1>6, PairFacts DEF TypeOK, CloseAndStart
<1>7. CASE UNCHANGED vars
  BY <1>7 DEF TypeOK, vars
<1> QED BY <1>1, <1>2, <1>3, <1>4, <1>5, <1>6, <1>7 DEF Next

\* Type correctness: whatever order sockets, verifications, ICE answers and
\* timers come in, every table of the Gateway keeps its shape; in particular
\* only a pairing with both peers and a ticket ever waits for ICE servers.
THEOREM TypeCorrect == Spec => []TypeOK
  BY InitType, NextType, PTL DEF Spec

-----------------------------------------------------------------------------
(* The tables and their timers.  Neither invariant is inductive by itself: *)
(* BindPeer overwrites the peer entry of a socket, so it must be known     *)
(* that a socket whose bind is still running is no peer yet and that no    *)
(* second bind of it is running.                                           *)

BindsExclusive ==
  \A task \in tasks :
    /\ readyState[task.socket] # "new"
    /\ Alive(task.socket) =>
         /\ task.socket \in bindInProgress
         /\ \A other \in tasks : other.socket = task.socket => other = task
         /\ task.step \in {"verify", "authorize"} => ~Bound(task.socket)

GatewayInv == TypeOK /\ PeersMatchPairs /\ TimerIffWaiting /\ BindsExclusive

LEMMA VacatedKeepsPartner ==
  ASSUME NEW p \in Pair, NEW role \in {"core", "viewer"},
         NEW other \in {"core", "viewer"}, other # role
  PROVE  Vacated(p, role).live = p.live /\ Vacated(p, role)[other] = p[other]
<1>1. CASE role = "core"
  BY <1>1 DEF Vacated, Pair
<1>2. CASE role = "viewer"
  BY <1>2 DEF Vacated, Pair
<1> QED BY <1>1, <1>2

LEMMA RemovePeerKeeps ==
  ASSUME TypeOK, PeersMatchPairs, TimerIffWaiting,
         NEW s \in Sockets, RemovePeer(s), RemoveConnection(s)
  PROVE  PeersMatchPairs' /\ TimerIffWaiting'
<1>1. CASE ~Bound(s)
  <2>1. peers' = peers /\ pairs' = pairs
    BY <1>1 DEF TypeOK, RemovePeer, Bound
  <2>2. \A x \in Sockets : Bound(x) => x \in connections'
    BY <1>1 DEF PeersMatchPairs, RemoveConnection
  <2> QED BY <2>1, <2>2 DEF PeersMatchPairs, TimerIffWaiting, Bound
<1>2. CASE Bound(s)
  <2> DEFINE k0 == peers[s].key  r0 == peers[s].role
  <2>1. k0 \in Keys /\ r0 \in {"core", "viewer"} /\ peers[s] = [role |-> r0, key |-> k0]
    BY <1>2 DEF TypeOK, Peer, Bound
  <2>2. pairs[k0].live /\ pairs[k0][r0] = s
    BY <1>2 DEF PeersMatchPairs
  <2>3. /\ peers' = [peers EXCEPT ![s] = NoPeer]
        /\ \A k \in Keys : pairs'[k] = IF k = k0 THEN Vacated(pairs[k], r0) ELSE pairs[k]
    BY <1>2, <2>1, <2>2 DEF RemovePeer
  <2>4. ASSUME NEW x \in Sockets, Bound(x)'
        PROVE  /\ pairs'[peers'[x].key].live
               /\ pairs'[peers'[x].key][peers'[x].role] = x
               /\ x \in connections'
    <3>1. x # s /\ peers'[x] = peers[x] /\ Bound(x)
      BY <2>3, <2>4 DEF Bound, TypeOK
    <3>2. peers[x].key \in Keys /\ peers[x].role \in {"core", "viewer"}
      BY <3>1 DEF TypeOK, Peer, Bound
    <3>3. /\ pairs[peers[x].key].live /\ pairs[peers[x].key][peers[x].role] = x
          /\ x \in connections
      BY <3>1 DEF PeersMatchPairs
    <3>4. CASE peers[x].key = k0
      <4>1. peers[x].role # r0
        BY <2>2, <3>1, <3>3, <3>4
      <4>2. pairs'[k0] = Vacated(pairs[k0], r0) /\ pairs[k0] \in Pair
        BY <2>1, <2>3 DEF TypeOK
      <4>3. pairs'[k0].live /\ pairs'[k0][peers[x].role] = pairs[k0][peers[x].role]
        BY <2>1, <2>2, <3>2, <4>1, <4>2, VacatedKeepsPartner
      <4> QED BY <3>1, <3>3, <3>4, <4>3 DEF RemoveConnection
    <3>5. CASE peers[x].key # k0
      BY <2>3, <3>1, <3>2, <3>3, <3>5 DEF RemoveConnection
    <3> QED BY <3>4, <3>5
  <2>5. ASSUME NEW k \in Keys
        PROVE  /\ \A role \in {"core", "viewer"} : pairs'[k][role] # None =>
                    pairs'[k].live /\ peers'[pairs'[k][role]] = [role |-> role, key |-> k]
               /\ (pairs'[k].claims # None) <=> (pairs'[k].viewer # None)
               /\ pairs'[k].live => (pairs'[k].timer <=> ~Complete(pairs'[k]))
    <3>1. /\ \A role \in {"core", "viewer"} : pairs[k][role] # None =>
                pairs[k].live /\ peers[pairs[k][role]] = [role |-> role, key |-> k]
          /\ (pairs[k].claims # None) <=> (pairs[k].viewer # None)
          /\ pairs[k].live => (pairs[k].timer <=> ~Complete(pairs[k]))
      BY DEF PeersMatchPairs, TimerIffWaiting
    <3>2. pairs[k] \in Pair /\ \A role \in {"core", "viewer"} : pairs[k][role] \in Sockets \cup {None}
      BY DEF TypeOK, Pair
    <3>3. CASE k # k0
      <4>1. pairs'[k] = pairs[k]
        BY <2>3, <3>3
      <4>2. ASSUME NEW role \in {"core", "viewer"}, pairs[k][role] # None
            PROVE  peers'[pairs[k][role]] = peers[pairs[k][role]]
        <5>1. pairs[k][role] # s
          BY <2>1, <3>1, <3>3, <4>2
        <5> QED BY <2>3, <3>2, <4>2, <5>1 DEF TypeOK
      <4> QED BY <3>1, <4>1, <4>2
    <3>4. CASE k = k0
      <4>1. pairs'[k] = Vacated(pairs[k], r0)
        BY <2>3, <3>4
      <4>2. /\ pairs'[k].timer /\ ~Complete(pairs'[k])
            /\ pairs'[k].live = pairs[k].live
            /\ (pairs'[k].claims # None) <=> (pairs'[k].viewer # None)
            /\ pairs'[k][r0] = None
            /\ \A role \in {"core", "viewer"} \ {r0} : pairs'[k][role] = pairs[k][role]
        BY <2>1, <3>1, <3>2, <4>1 DEF Vacated, Pair, Complete
      <4>3. ASSUME NEW role \in {"core", "viewer"}, role # r0, pairs[k][role] # None
            PROVE  peers'[pairs[k][role]] = peers[pairs[k][role]]
        <5>1. pairs[k][role] # s
          BY <2>1, <3>1, <4>3
        <5> QED BY <2>3, <3>2, <4>3, <5>1 DEF TypeOK
      <4> QED BY <3>1, <4>2, <4>3
    <3> QED BY <3>3, <3>4
  <2> HIDE DEF k0, r0
  <2>6. PeersMatchPairs'
    BY <2>4, <2>5 DEF PeersMatchPairs
  <2>7. TimerIffWaiting'
    BY <2>5 DEF TimerIffWaiting
  <2> QED BY <2>6, <2>7
<1> QED BY <1>1, <1>2

LEMMA BindPeerKeeps ==
  ASSUME TypeOK, PeersMatchPairs, TimerIffWaiting,
         NEW task \in Task, NEW k \in Keys, NEW role \in {"core", "viewer"}, NEW t,
         (t \in Tickets) <=> (role = "viewer"),
         Alive(task.socket), ~Bound(task.socket), RoleFree(k, role),
         BindPeer(task, k, role, t)
  PROVE  PeersMatchPairs' /\ TimerIffWaiting'
<1> DEFINE s == task.socket
           p == IF pairs[k].live THEN pairs[k] ELSE EmptyPair
           q == IF role = "core" THEN [p EXCEPT !.core = s]
                                 ELSE [p EXCEPT !.viewer = s, !.claims = t]
           r == [q EXCEPT !.timer = ~Complete(q)]
<1>1. s \in Sockets /\ s # None /\ s \in connections
  BY GatewayAssumption DEF GatewayAssumption, Task, VerifyTask, AuthorizeTask, IceTask, Alive
<1>2. /\ p \in Pair /\ p.live /\ p[role] = None
      /\ (p.claims # None) <=> (p.viewer # None)
      /\ \A other \in {"core", "viewer"} : p[other] # None =>
           pairs[k].live /\ p[other] = pairs[k][other]
  <2>1. CASE pairs[k].live
    BY <2>1 DEF TypeOK, RoleFree, PeersMatchPairs
  <2>2. CASE ~pairs[k].live
    <3>1. p = [NoPair EXCEPT !.live = TRUE, !.timer = TRUE] /\ p \in Pair
      BY <2>2, PairFacts DEF EmptyPair
    <3>2. /\ p.live /\ p.core = None /\ p.viewer = None /\ p.claims = None
          /\ p["core"] = None /\ p["viewer"] = None
      BY <3>1 DEF NoPair
    <3> HIDE DEF p
    <3> QED BY <3>1, <3>2
  <2> QED BY <2>1, <2>2
<1> HIDE DEF p
<1>3. /\ q \in Pair /\ q.live /\ q[role] = s
      /\ (q.claims # None) <=> (q.viewer # None)
      /\ \A other \in {"core", "viewer"} : other # role => q[other] = p[other]
  <2>1. CASE role = "core"
    BY <1>1, <1>2, <2>1 DEF Pair
  <2>2. CASE role = "viewer"
    <3>1. t \in Tickets /\ t # None
      BY <2>2, GatewayAssumption DEF GatewayAssumption
    <3> QED BY <1>1, <1>2, <2>2, <3>1 DEF Pair
  <2> QED BY <2>1, <2>2
<1> HIDE DEF q
<1>4. /\ r.live /\ r.core = q.core /\ r.viewer = q.viewer /\ r.claims = q.claims
      /\ r.timer = ~Complete(q)
      /\ \A other \in {"core", "viewer"} : r[other] = q[other]
  BY <1>3 DEF Pair
<1>5. Complete(r) <=> Complete(q)
  BY <1>4 DEF Complete
<1> HIDE DEF r, s
<1>6. peers' = [peers EXCEPT ![s] = [role |-> role, key |-> k]]
  BY DEF BindPeer, s
<1>7. pairs' = [pairs EXCEPT ![k] = r]
  BY DEF BindPeer, r, q, p, s
<1>8. connections' = connections
  BY DEF BindPeer
<1>9. /\ peers'[s] = [role |-> role, key |-> k]
      /\ \A x \in Sockets : x # s => peers'[x] = peers[x]
      /\ pairs'[k] = r
      /\ \A k2 \in Keys : k2 # k => pairs'[k2] = pairs[k2]
  BY <1>1, <1>6, <1>7 DEF TypeOK
<1>10. ASSUME NEW x \in Sockets, Bound(x)'
       PROVE  /\ pairs'[peers'[x].key].live
              /\ pairs'[peers'[x].key][peers'[x].role] = x
              /\ x \in connections'
  <2>1. CASE x = s
    BY <1>1, <1>3, <1>4, <1>8, <1>9, <2>1
  <2>2. CASE x # s
    <3>1. /\ peers'[x] = peers[x] /\ Bound(x)
          /\ peers[x].key \in Keys /\ peers[x].role \in {"core", "viewer"}
      BY <1>9, <1>10, <2>2 DEF Bound, TypeOK, Peer
    <3>2. /\ pairs[peers[x].key].live /\ pairs[peers[x].key][peers[x].role] = x
          /\ x \in connections /\ x # None
      BY <3>1, GatewayAssumption DEF PeersMatchPairs, GatewayAssumption
    <3>3. CASE peers[x].key # k
      BY <1>8, <1>9, <3>1, <3>2, <3>3
    <3>4. CASE peers[x].key = k
      <4>1. p = pairs[k]
        BY <3>2, <3>4 DEF p
      <4>2. peers[x].role # role
        BY <1>2, <3>2, <3>4, <4>1
      <4> QED BY <1>3, <1>4, <1>8, <1>9, <3>1, <3>2, <3>4, <4>1, <4>2
    <3> QED BY <3>3, <3>4
  <2> QED BY <2>1, <2>2
<1>11. ASSUME NEW k2 \in Keys, NEW other \in {"core", "viewer"}, pairs'[k2][other] # None
       PROVE  pairs'[k2].live /\ peers'[pairs'[k2][other]] = [role |-> other, key |-> k2]
  <2>1. CASE k2 = k /\ other = role
    BY <1>3, <1>4, <1>9, <2>1
  <2>2. CASE ~(k2 = k /\ other = role)
    <3>1. /\ pairs'[k2].live /\ pairs'[k2][other] = pairs[k2][other]
          /\ pairs[k2].live
      <4>1. CASE k2 = k
        BY <1>2, <1>3, <1>4, <1>9, <1>11, <2>2, <4>1
      <4>2. CASE k2 # k
        BY <1>9, <1>11, <4>2 DEF PeersMatchPairs
      <4> QED BY <4>1, <4>2
    <3>2. /\ pairs[k2][other] \in Sockets
          /\ peers[pairs[k2][other]] = [role |-> other, key |-> k2]
      BY <1>11, <3>1 DEF TypeOK, Pair, PeersMatchPairs
    <3>3. pairs[k2][other] # s
      BY <3>2, GatewayAssumption DEF s, Bound, NoPeer, GatewayAssumption
    <3> QED BY <1>9, <3>1, <3>2, <3>3
  <2> QED BY <2>1, <2>2
<1>12. ASSUME NEW k2 \in Keys
       PROVE  /\ (pairs'[k2].claims # None) <=> (pairs'[k2].viewer # None)
              /\ pairs'[k2].live => (pairs'[k2].timer <=> ~Complete(pairs'[k2]))
  <2>1. CASE k2 = k
    BY <1>3, <1>4, <1>5, <1>9, <2>1
  <2>2. CASE k2 # k
    BY <1>9, <2>2 DEF PeersMatchPairs, TimerIffWaiting
  <2> QED BY <2>1, <2>2
<1>13. PeersMatchPairs'
  BY <1>10, <1>11, <1>12 DEF PeersMatchPairs
<1>14. TimerIffWaiting'
  BY <1>12 DEF TimerIffWaiting
<1> QED BY <1>13, <1>14

LEMMA ExpirePairKeeps ==
  ASSUME TypeOK, PeersMatchPairs, TimerIffWaiting, NEW k \in Keys, ExpirePair(k)
  PROVE  PeersMatchPairs' /\ TimerIffWaiting'
<1> DEFINE bound == {pairs[k].core, pairs[k].viewer} \ {None}
<1>1. /\ pairs' = [pairs EXCEPT ![k] = NoPair]
      /\ peers' = [x \in Sockets |-> IF x \in bound THEN NoPeer ELSE peers[x]]
      /\ connections' = connections
  BY DEF ExpirePair
<1>2. /\ pairs'[k] = NoPair /\ \A k2 \in Keys : k2 # k => pairs'[k2] = pairs[k2]
      /\ \A x \in Sockets : x \notin bound => peers'[x] = peers[x]
      /\ \A x \in Sockets : x \in bound => peers'[x] = NoPeer
  BY <1>1 DEF TypeOK
<1>3. bound = {pairs[k]["core"], pairs[k]["viewer"]} \ {None}
  OBVIOUS
<1>4. \A x \in bound : x \in Sockets /\ Bound(x) /\ peers[x].key = k
  <2>1. ASSUME NEW role \in {"core", "viewer"}, pairs[k][role] # None
        PROVE  LET x == pairs[k][role] IN x \in Sockets /\ Bound(x) /\ peers[x].key = k
    <3>1. pairs[k] \in Pair /\ peers[pairs[k][role]] = [role |-> role, key |-> k]
      BY <2>1 DEF TypeOK, PeersMatchPairs
    <3>2. pairs[k][role] \in Sockets
      BY <2>1, <3>1 DEF Pair
    <3>3. [role |-> role, key |-> k] # NoPeer
      BY GatewayAssumption DEF GatewayAssumption, NoPeer
    <3> QED BY <3>1, <3>2, <3>3 DEF Bound
  <2> QED BY <1>3, <2>1
<1>5. ASSUME NEW x \in Sockets, Bound(x)'
      PROVE  /\ pairs'[peers'[x].key].live
             /\ pairs'[peers'[x].key][peers'[x].role] = x
             /\ x \in connections'
  <2>1. x \notin bound /\ peers'[x] = peers[x] /\ Bound(x)
    BY <1>2, <1>5 DEF Bound
  <2>2. /\ peers[x].key \in Keys /\ peers[x].role \in {"core", "viewer"}
        /\ x # None
    BY <2>1, GatewayAssumption DEF TypeOK, Peer, Bound, GatewayAssumption
  <2>3. /\ pairs[peers[x].key].live /\ pairs[peers[x].key][peers[x].role] = x
        /\ x \in connections
    BY <2>1 DEF PeersMatchPairs
  <2>4. peers[x].key # k
    BY <1>3, <2>1, <2>2, <2>3
  <2> QED BY <1>1, <1>2, <2>1, <2>2, <2>3, <2>4
<1>6. ASSUME NEW k2 \in Keys, NEW role \in {"core", "viewer"}, pairs'[k2][role] # None
      PROVE  pairs'[k2].live /\ peers'[pairs'[k2][role]] = [role |-> role, key |-> k2]
  <2>1. k2 # k /\ pairs'[k2] = pairs[k2]
    BY <1>2, <1>6 DEF NoPair
  <2>2. /\ pairs[k2].live /\ peers[pairs[k2][role]] = [role |-> role, key |-> k2]
        /\ pairs[k2][role] \in Sockets
    <3>1. pairs[k2] \in Pair
      BY DEF TypeOK
    <3> QED BY <1>6, <2>1, <3>1 DEF PeersMatchPairs, Pair
  <2>3. pairs[k2][role] \notin bound
    BY <1>4, <2>1, <2>2
  <2> QED BY <1>2, <2>1, <2>2, <2>3
<1>7. ASSUME NEW k2 \in Keys
      PROVE  /\ (pairs'[k2].claims # None) <=> (pairs'[k2].viewer # None)
             /\ pairs'[k2].live => (pairs'[k2].timer <=> ~Complete(pairs'[k2]))
  BY <1>2 DEF PeersMatchPairs, TimerIffWaiting, NoPair
<1> HIDE DEF bound
<1>8. PeersMatchPairs'
  BY <1>5, <1>6, <1>7 DEF PeersMatchPairs
<1> QED BY <1>7, <1>8 DEF TimerIffWaiting

LEMMA CloseAndStartKeeps ==
  ASSUME CloseAndStart
  PROVE  PeersMatchPairs' /\ TimerIffWaiting'
<1>1. /\ \A s \in Sockets : ~Bound(s)'
      /\ \A k \in Keys : pairs'[k] = NoPair
  BY DEF CloseAndStart, Bound
<1>2. ~NoPair.live /\ NoPair["core"] = None /\ NoPair["viewer"] = None
  BY DEF NoPair
<1>3. NoPair.claims = None /\ NoPair.viewer = None
  BY DEF NoPair
<1> QED BY <1>1, <1>2, <1>3 DEF PeersMatchPairs, TimerIffWaiting

LEMMA TablesUntouched ==
  ASSUME PeersMatchPairs, TimerIffWaiting, peers' = peers, pairs' = pairs,
         connections \subseteq connections'
  PROVE  PeersMatchPairs' /\ TimerIffWaiting'
  BY DEF PeersMatchPairs, TimerIffWaiting, Bound

\* A step that starts no bind keeps binds exclusive if what it leaves alive was
\* alive, is marked as binding and is no new peer.
LEMMA NoNewBind ==
  ASSUME BindsExclusive, tasks' \subseteq tasks,
         \A task \in tasks' :
           /\ readyState[task.socket] # "new" => readyState'[task.socket] # "new"
           /\ Alive(task.socket)' =>
                /\ Alive(task.socket)
                /\ task.socket \in bindInProgress => task.socket \in bindInProgress'
                /\ Bound(task.socket)' => Bound(task.socket)
  PROVE  BindsExclusive'
  BY DEF BindsExclusive

LEMMA TaskSocket == \A task \in Task : task.socket \in Sockets
  BY DEF Task, VerifyTask, AuthorizeTask, IceTask

LEMMA SocketStepExclusive ==
  ASSUME TypeOK, BindsExclusive, NEW s \in Sockets, SocketStep(s)
  PROVE  BindsExclusive'
<1>1. \A task \in tasks : task.socket \in Sockets
  BY TaskSocket DEF TypeOK
<1>2. CASE Accept(s)
  <2>1. \A task \in tasks : task.socket # s
    BY <1>2 DEF BindsExclusive, Accept
  <2> QED BY <1>1, <1>2, <2>1, NoNewBind DEF Accept, TypeOK, Alive, Open, Bound
<1>3. CASE RefuseConnection(s)
  BY <1>1, <1>3, NoNewBind DEF RefuseConnection, TypeOK, Alive, Open, Bound
<1>4. CASE SocketClosed(s) \/ SocketError(s) \/ RateLimited(s)
  <2>1. /\ connections' = connections \ {s} /\ bindInProgress' = bindInProgress \ {s}
        /\ peers' = [peers EXCEPT ![s] = NoPeer]
    BY <1>4 DEF SocketClosed, SocketError, RateLimited, RemovePeer, RemoveConnection
  <2>2. /\ tasks' = tasks
        /\ \A x \in Sockets : x # s => readyState'[x] = readyState[x]
        /\ readyState'[s] # "new"
    BY <1>4 DEF SocketClosed, SocketError, RateLimited, TypeOK
  <2> QED BY <1>1, <2>1, <2>2, NoNewBind DEF TypeOK, Alive, Open, Bound
<1>5. CASE BindTimeout(s)
  BY <1>1, <1>5, NoNewBind DEF BindTimeout, Reject, TypeOK, Alive, Open, Bound
<1>6. ASSUME NEW task, StartBind(s, task), task.socket = s,
             task.step \in {"verify", "authorize"}
      PROVE  BindsExclusive'
  <2>1. Alive(s) /\ ~Bound(s) /\ s \notin bindInProgress /\ readyState[s] # "new"
    BY <1>6 DEF StartBind, Alive, Open
  <2>2. \A other \in tasks : other.socket # s
    BY <2>1 DEF BindsExclusive
  <2>3. /\ tasks' = tasks \cup {task} /\ bindInProgress' = bindInProgress \cup {s}
        /\ UNCHANGED <<readyState, connections, peers>>
    BY <1>6 DEF StartBind
  <2> QED BY <1>6, <2>1, <2>2, <2>3 DEF BindsExclusive, Alive, Open, Bound
<1>7. CASE \E t \in Tickets : ViewerBind(s, t)
  BY <1>6, <1>7 DEF ViewerBind, BindTask
<1>8. CASE \E k \in Keys : CoreBind(s, k)
  BY <1>6, <1>8 DEF CoreBind, BindTask
<1>9. CASE BadMessage(s)
  BY <1>1, <1>9, NoNewBind DEF BadMessage, RejectBind, Reject, TypeOK, Alive, Open, Bound
<1>10. CASE Relay(s)
  BY <1>10, NoNewBind DEF Relay, Alive, Open, Bound
<1> QED BY <1>2, <1>3, <1>4, <1>5, <1>7, <1>8, <1>9, <1>10 DEF SocketStep

LEMMA TaskFailsExclusive ==
  ASSUME TypeOK, BindsExclusive, NEW task \in tasks, TaskFails(task)
  PROVE  BindsExclusive'
<1>1. \A other \in tasks : other.socket \in Sockets
  BY TaskSocket DEF TypeOK
<1> QED BY <1>1, NoNewBind DEF TaskFails, RejectBind, Reject, TypeOK, Alive, Open, Bound

\* A task that goes on as another one of the same socket, or ends.
LEMMA SuccessorExclusive ==
  ASSUME TypeOK, BindsExclusive, NEW task \in tasks, NEW next,
         next.socket = task.socket, next.step \notin {"verify", "authorize"},
         UNCHANGED <<readyState, connections>>,
         \A x \in Sockets : x # task.socket => peers'[x] = peers[x],
         \/ tasks' = (tasks \ {task}) \cup {next} /\ UNCHANGED bindInProgress
         \/ tasks' = tasks \ {task} /\ BindReturned(task.socket)
  PROVE  BindsExclusive'
<1>1. \A other \in tasks : other.socket \in Sockets
  BY TaskSocket DEF TypeOK
<1>2. \A x : Alive(x)' = Alive(x)
  BY DEF Alive, Open
<1>3. Alive(task.socket) => \A other \in tasks : other # task => other.socket # task.socket
  BY DEF BindsExclusive
<1>4. \A x \in bindInProgress : x # task.socket \/ ~Alive(x) => x \in bindInProgress'
  BY DEF BindReturned, Alive
<1>5. CASE tasks' = tasks \ {task} /\ BindReturned(task.socket)
  <2> SUFFICES ASSUME NEW other \in tasks'
               PROVE  /\ readyState'[other.socket] # "new"
                      /\ Alive(other.socket)' =>
                           /\ other.socket \in bindInProgress'
                           /\ \A third \in tasks' : third.socket = other.socket => third = other
                           /\ other.step \in {"verify", "authorize"} => ~Bound(other.socket)'
    BY DEF BindsExclusive
  <2>1. other \in tasks /\ other # task
    BY <1>5
  <2>2. readyState'[other.socket] # "new"
    BY <2>1 DEF BindsExclusive
  <2>3. ASSUME Alive(other.socket)
        PROVE  /\ other.socket # task.socket /\ other.socket \in bindInProgress
               /\ \A third \in tasks : third.socket = other.socket => third = other
               /\ other.step \in {"verify", "authorize"} => ~Bound(other.socket)
    BY <2>1, <2>3 DEF BindsExclusive
  <2>4. Alive(other.socket) => (Bound(other.socket)' <=> Bound(other.socket))
    BY <1>1, <2>1, <2>3 DEF Bound
  <2> QED BY <1>2, <1>4, <1>5, <2>1, <2>2, <2>3, <2>4
<1>6. CASE tasks' = (tasks \ {task}) \cup {next} /\ UNCHANGED bindInProgress
  <2> SUFFICES ASSUME NEW other \in tasks'
               PROVE  /\ readyState'[other.socket] # "new"
                      /\ Alive(other.socket)' =>
                           /\ other.socket \in bindInProgress'
                           /\ \A third \in tasks' : third.socket = other.socket => third = other
                           /\ other.step \in {"verify", "authorize"} => ~Bound(other.socket)'
    BY DEF BindsExclusive
  <2>1. CASE other = next
    <3>1. readyState[task.socket] # "new" /\ (Alive(task.socket) => task.socket \in bindInProgress)
      BY DEF BindsExclusive
    <3> QED BY <1>2, <1>3, <1>6, <2>1, <3>1
  <2>2. CASE other \in tasks \ {task}
    <3>1. /\ readyState[other.socket] # "new"
          /\ Alive(other.socket) =>
               /\ other.socket \in bindInProgress
               /\ \A third \in tasks : third.socket = other.socket => third = other
               /\ other.step \in {"verify", "authorize"} => ~Bound(other.socket)
      BY <2>2 DEF BindsExclusive
    <3>2. Alive(other.socket) => other.socket # task.socket
      BY <2>2, <3>1
    <3>3. Alive(other.socket) => (Bound(other.socket)' <=> Bound(other.socket))
      BY <1>1, <2>2, <3>2 DEF Bound
    <3> QED BY <1>2, <1>6, <3>1, <3>2, <3>3
  <2> QED BY <1>6, <2>1, <2>2
<1> QED BY <1>5, <1>6

LEMMA BindPeerExclusive ==
  ASSUME TypeOK, BindsExclusive, NEW task \in tasks, NEW k, NEW role, NEW t,
         BindPeer(task, k, role, t)
  PROVE  BindsExclusive'
<1> DEFINE p == IF pairs[k].live THEN pairs[k] ELSE EmptyPair
           q == IF role = "core" THEN [p EXCEPT !.core = task.socket]
                                 ELSE [p EXCEPT !.viewer = task.socket, !.claims = t]
           ice == [step |-> "coreIce", socket |-> task.socket, key |-> k, ticket |-> q.claims,
                   core |-> q.core, viewer |-> q.viewer]
<1>1. /\ peers' = [peers EXCEPT ![task.socket] = [role |-> role, key |-> k]]
      /\ UNCHANGED <<readyState, connections>>
      /\ \/ tasks' = (tasks \ {task}) \cup {ice} /\ UNCHANGED bindInProgress
         \/ tasks' = tasks \ {task} /\ BindReturned(task.socket)
  BY DEF BindPeer
<1>2. ice.socket = task.socket /\ ice.step \notin {"verify", "authorize"}
  OBVIOUS
<1> HIDE DEF ice, q, p
<1>3. \A x \in Sockets : x # task.socket => peers'[x] = peers[x]
  BY <1>1 DEF TypeOK
<1> QED BY <1>1, <1>2, <1>3, SuccessorExclusive

LEMMA TaskStepKeeps ==
  ASSUME GatewayInv, NEW task \in tasks, TaskStep(task)
  PROVE  PeersMatchPairs' /\ TimerIffWaiting' /\ BindsExclusive'
<1>1. task \in Task /\ TypeOK /\ PeersMatchPairs /\ TimerIffWaiting /\ BindsExclusive
  BY DEF GatewayInv, TypeOK
<1>2. CASE TicketVerified(task)
  <2>1. /\ task.ticket \in Tickets /\ Alive(task.socket) /\ task.step = "verify"
        /\ RoleFree(TicketKey[task.ticket], "viewer")
        /\ BindPeer(task, TicketKey[task.ticket], "viewer", task.ticket)
    BY <1>1, <1>2 DEF TicketVerified, Task, VerifyTask, AuthorizeTask, IceTask
  <2>2. TicketKey[task.ticket] \in Keys
    BY <2>1, GatewayAssumption DEF GatewayAssumption
  <2>3. ~Bound(task.socket)
    BY <1>1, <2>1 DEF BindsExclusive
  <2> QED BY <1>1, <2>1, <2>2, <2>3, BindPeerKeeps, BindPeerExclusive
<1>3. CASE CoreAuthorized(task)
  <2>1. /\ task.key \in Keys /\ Alive(task.socket) /\ task.step = "authorize"
        /\ RoleFree(task.key, "core") /\ BindPeer(task, task.key, "core", None)
    BY <1>1, <1>3 DEF CoreAuthorized, Task, VerifyTask, AuthorizeTask, IceTask
  <2>2. ~Bound(task.socket)
    BY <1>1, <2>1 DEF BindsExclusive
  <2>3. None \notin Tickets
    BY GatewayAssumption DEF GatewayAssumption
  <2> QED BY <1>1, <2>1, <2>2, <2>3, BindPeerKeeps, BindPeerExclusive
<1>4. CASE TicketRefused(task) \/ CoreRefused(task) \/ TaskRejected(task)
  <2>1. TaskFails(task)
    BY <1>4 DEF TicketRefused, CoreRefused, TaskRejected
  <2>2. UNCHANGED <<connections, peers, pairs>>
    BY <2>1 DEF TaskFails
  <2> QED BY <1>1, <2>1, <2>2, TablesUntouched, TaskFailsExclusive
<1>5. CASE CoreIceFetched(task)
  <2> DEFINE next == [task EXCEPT !.step = "viewerIce"]
  <2>1. /\ UNCHANGED <<readyState, connections, peers, pairs>>
        /\ \/ tasks' = (tasks \ {task}) \cup {next} /\ UNCHANGED bindInProgress
           \/ tasks' = tasks \ {task} /\ BindReturned(task.socket)
    BY <1>5 DEF CoreIceFetched
  <2>2. next.socket = task.socket /\ next.step \notin {"verify", "authorize"}
    BY <1>1 DEF Task, VerifyTask, AuthorizeTask, IceTask
  <2> HIDE DEF next
  <2> QED BY <1>1, <2>1, <2>2, TablesUntouched, SuccessorExclusive
<1>6. CASE ViewerIceFetched(task)
  <2>1. /\ UNCHANGED <<readyState, connections, peers, pairs>>
        /\ tasks' = tasks \ {task} /\ BindReturned(task.socket)
    BY <1>6 DEF ViewerIceFetched
  <2>2. task.step \notin {"verify", "authorize"}
    BY <1>6 DEF ViewerIceFetched
  <2> QED BY <1>1, <2>1, <2>2, TablesUntouched, SuccessorExclusive
<1> QED BY <1>2, <1>3, <1>4, <1>5, <1>6 DEF TaskStep

LEMMA SocketStepKeeps ==
  ASSUME GatewayInv, NEW s \in Sockets, SocketStep(s)
  PROVE  PeersMatchPairs' /\ TimerIffWaiting' /\ BindsExclusive'
<1>1. TypeOK /\ PeersMatchPairs /\ TimerIffWaiting /\ BindsExclusive
  BY DEF GatewayInv
<1>2. CASE SocketClosed(s) \/ SocketError(s) \/ RateLimited(s)
  <2>1. RemovePeer(s) /\ RemoveConnection(s)
    BY <1>2 DEF SocketClosed, SocketError, RateLimited
  <2> QED BY <1>1, <2>1, RemovePeerKeeps, SocketStepExclusive
<1>3. CASE \/ Accept(s) \/ RefuseConnection(s) \/ BindTimeout(s) \/ BadMessage(s) \/ Relay(s)
           \/ \E t \in Tickets : ViewerBind(s, t)
           \/ \E k \in Keys : CoreBind(s, k)
  <2>1. peers' = peers /\ pairs' = pairs /\ connections \subseteq connections'
    BY <1>3 DEF Accept, RefuseConnection, BindTimeout, BadMessage, Relay, ViewerBind, CoreBind,
                StartBind
  <2> QED BY <1>1, <2>1, TablesUntouched, SocketStepExclusive
<1> QED BY <1>2, <1>3 DEF SocketStep

LEMMA InitInv == Init => GatewayInv
<1> SUFFICES ASSUME Init PROVE GatewayInv
  OBVIOUS
<1>1. ~NoPair.live /\ NoPair["core"] = None /\ NoPair["viewer"] = None
      /\ NoPair.claims = None /\ NoPair.viewer = None
  BY DEF NoPair
<1>2. PeersMatchPairs /\ TimerIffWaiting
  BY <1>1 DEF Init, PeersMatchPairs, TimerIffWaiting, Bound
<1>3. BindsExclusive
  BY DEF Init, BindsExclusive
<1> QED BY <1>2, <1>3, InitType DEF GatewayInv

LEMMA NextInv == GatewayInv /\ [Next]_vars => GatewayInv'
<1> SUFFICES ASSUME GatewayInv, [Next]_vars
             PROVE  PeersMatchPairs' /\ TimerIffWaiting' /\ BindsExclusive'
  BY NextType DEF GatewayInv
<1>1. /\ TypeOK /\ PeersMatchPairs /\ TimerIffWaiting /\ BindsExclusive
      /\ \A task \in tasks : task.socket \in Sockets
  BY TaskSocket DEF GatewayInv, TypeOK
<1>2. ASSUME NEW s \in Sockets, SocketStep(s)
      PROVE  PeersMatchPairs' /\ TimerIffWaiting' /\ BindsExclusive'
  BY <1>2, SocketStepKeeps
<1>3. ASSUME NEW task \in tasks, TaskStep(task)
      PROVE  PeersMatchPairs' /\ TimerIffWaiting' /\ BindsExclusive'
  BY <1>3, TaskStepKeeps
<1>4. ASSUME NEW k \in Keys, ExpirePair(k)
      PROVE  PeersMatchPairs' /\ TimerIffWaiting' /\ BindsExclusive'
  <2>1. BindsExclusive'
    BY <1>1, <1>4, NoNewBind DEF ExpirePair, Reject, TypeOK, Alive, Open, Bound
  <2> QED BY <1>1, <1>4, <2>1, ExpirePairKeeps
<1>5. CASE GetMetrics \/ Tick \/ UNCHANGED vars
  <2>1. UNCHANGED <<readyState, connections, bindInProgress, tasks, peers, pairs>>
    BY <1>5 DEF GetMetrics, Tick, vars
  <2>2. BindsExclusive'
    BY <1>1, <2>1, NoNewBind DEF Alive, Open, Bound
  <2> QED BY <1>1, <2>1, <2>2, TablesUntouched
<1>6. CASE CloseAndStart
  <2>1. BindsExclusive'
    BY <1>1, <1>6, NoNewBind DEF CloseAndStart, TypeOK, Alive, Open
  <2> QED BY <1>6, <2>1, CloseAndStartKeeps
<1> QED BY <1>2, <1>3, <1>4, <1>5, <1>6 DEF Next

LEMMA Invariance == Spec => []GatewayInv
  BY InitInv, NextInv, PTL DEF Spec

\* The socket table and the pairing table are inverse to each other in every
\* reachable state, with any number of sockets, pairing keys and restarts:
\* whatever is torn down while a verification or an ICE request is pending, no
\* socket stays a peer of a pairing that does not know it, and conversely.
THEOREM PeersAlwaysMatchPairs == Spec => []PeersMatchPairs
  BY Invariance, PTL DEF GatewayInv

\* A pairing's timer is armed exactly while a peer is missing.
THEOREM TimerAlwaysIffWaiting == Spec => []TimerIffWaiting
  BY Invariance, PTL DEF GatewayInv

-----------------------------------------------------------------------------
(* signal.ready *)

LEMMA OnlyReadyDelivers ==
  ASSUME TypeOK, NEW to, NEW kind, kind # "ready", Deliver(to, kind),
         NEW s \in Sockets
  PROVE  ~GetsReady(s)
  BY DEF TypeOK, Deliver, GetsReady

LEMMA ReadyStep == GatewayInv /\ [Next]_vars => [ReadyToBoth]_vars
<1> SUFFICES ASSUME GatewayInv, Next PROVE ReadyToBoth
  BY DEF vars
<1>1. TypeOK /\ PeersMatchPairs
  BY DEF GatewayInv
<1>2. CASE \E task \in tasks : ViewerIceFetched(task)
  <2>1. PICK task \in tasks : ViewerIceFetched(task)
    BY <1>2
  <2>2. task \in Task /\ task.step = "viewerIce"
    BY <1>1, <2>1 DEF TypeOK, ViewerIceFetched
  <2>3. task.core \in Sockets /\ task.viewer \in Sockets /\ task.key \in Keys
    BY <2>2 DEF Task, VerifyTask, AuthorizeTask, IceTask
  <2>4. CASE PairCurrent(task)
    <3>1. /\ pairs[task.key].core = task.core /\ pairs[task.key].viewer = task.viewer
          /\ Open(task.core) /\ Open(task.viewer)
          /\ Deliver({task.core, task.viewer}, "ready")
      BY <2>1, <2>4 DEF PairCurrent, ViewerIceFetched
    <3>2. task.core # None /\ task.viewer # None
      BY <2>3, GatewayAssumption DEF GatewayAssumption
    <3>3. /\ peers[task.core] = [role |-> "core", key |-> task.key]
          /\ peers[task.viewer] = [role |-> "viewer", key |-> task.key]
      <4>1. pairs[task.key]["core"] # None /\ pairs[task.key]["viewer"] # None
        BY <3>1, <3>2
      <4> QED BY <1>1, <2>3, <3>1, <4>1 DEF PeersMatchPairs
    <3>4. /\ Bound(task.core) /\ Partner(task.core) = task.viewer
          /\ Bound(task.viewer) /\ Partner(task.viewer) = task.core
      BY <2>3, <3>1, <3>3, GatewayAssumption DEF Bound, NoPeer, Partner, GatewayAssumption
    <3>5. ASSUME NEW s \in Sockets, GetsReady(s)
          PROVE  /\ s \in {task.core, task.viewer} /\ "ready" \in Observed
                 /\ "ready" \in delivered'[task.core] /\ "ready" \in delivered'[task.viewer]
      BY <1>1, <2>3, <3>1, <3>5 DEF Deliver, GetsReady, TypeOK
    <3> QED BY <3>1, <3>2, <3>4, <3>5 DEF ReadyToBoth
  <2>5. CASE ~PairCurrent(task)
    BY <2>1, <2>5 DEF ViewerIceFetched, ReadyToBoth, GetsReady
  <2> QED BY <2>4, <2>5
<1>3. CASE \E s \in Sockets : SocketStep(s)
  <2>1. PICK s \in Sockets : SocketStep(s)
    BY <1>3
  <2>2. \/ delivered' = delivered \/ RemovePeer(s) \/ Deliver({Partner(s)}, "relay")
    BY <2>1 DEF SocketStep, Accept, RefuseConnection, SocketClosed, SocketError, RateLimited,
                BindTimeout, ViewerBind, CoreBind, StartBind, BadMessage, Relay
  <2>3. \A x \in Sockets : ~GetsReady(x)
    BY <1>1, <2>2, OnlyReadyDelivers DEF RemovePeer, GetsReady
  <2> QED BY <2>3 DEF ReadyToBoth
<1>4. CASE \/ \E task \in tasks : TaskStep(task) /\ ~ViewerIceFetched(task)
           \/ \E k \in Keys : ExpirePair(k)
           \/ GetMetrics \/ Tick \/ CloseAndStart
  <2>1. delivered' = delivered
    BY <1>4 DEF TaskStep, TicketVerified, TicketRefused, CoreAuthorized, CoreRefused, TaskRejected,
                CoreIceFetched, BindPeer, TaskFails, ExpirePair, GetMetrics, Tick, CloseAndStart
  <2> QED BY <2>1 DEF ReadyToBoth, GetsReady
<1> QED BY <1>2, <1>3, <1>4 DEF Next, TaskStep

\* Nobody is told that a pair is ready unless, at that very moment, both its
\* peers are connected, bound to it and told together.
THEOREM ReadyAlwaysTogether == Spec => ReadyTogether
  BY Invariance, ReadyStep, PTL DEF Spec, ReadyTogether

-----------------------------------------------------------------------------
(* Single use of tickets.  A consumed entry may be pruned, but only when   *)
(* the ticket has expired, so the memory of a bind and the clock together  *)
(* refuse a second one until the Gateway is closed: a ticket that has      *)
(* bound in this run is spent in this run.                                 *)

Spent(t) == t \in consumed \/ Expiry[t] <= now

TicketInv ==
  \A t \in Tickets :
    /\ \A a, b \in boundWith[t] : a.run = b.run => a = b
    /\ \A b \in boundWith[t] : b.run \in Nat /\ b.run <= restarts
    /\ ~Spent(t) => \A b \in boundWith[t] : b.run # restarts

LEMMA TicketStep ==
  ASSUME TypeOK, TicketInv, [Next]_vars
  PROVE  TicketInv'
<1>0. now \in Nat /\ restarts \in Nat /\ \A t \in Tickets : Expiry[t] \in Nat
  BY GatewayAssumption DEF TypeOK, GatewayAssumption
<1>1. ASSUME now' \in Nat, now <= now', Unexpired(consumed) \subseteq consumed',
             UNCHANGED <<boundWith, restarts>>
      PROVE  TicketInv'
  <2>1. \A t \in Tickets : ~Spent(t)' => ~Spent(t)
    BY <1>0, <1>1 DEF Spent, Unexpired
  <2> QED BY <1>1, <2>1 DEF TicketInv
<1>2. CASE \E task \in tasks : TicketVerified(task)
  <2>1. PICK task \in tasks : TicketVerified(task)
    BY <1>2
  <2> DEFINE t == task.ticket
  <2>2. t \in Tickets
    BY <2>1 DEF TypeOK, TicketVerified, Task, VerifyTask, AuthorizeTask, IceTask
  <2>3. /\ consumed' = Unexpired(consumed) \cup {t} /\ UNCHANGED <<now, restarts>>
        /\ boundWith' = [boundWith EXCEPT ![t] =
                          @ \cup {[run |-> restarts, socket |-> task.socket]}]
        /\ Expiry[t] > now /\ t \notin consumed
    BY <2>1 DEF TicketVerified, TicketAccepted, BindPeer
  <2> DEFINE bind == [run |-> restarts, socket |-> task.socket]
  <2> HIDE DEF t
  <2>4. \A b \in boundWith[t] : b.run # restarts
    BY <2>2, <2>3, <1>0 DEF TicketInv, Spent
  <2>5. bind.run = restarts
    OBVIOUS
  <2>6. /\ boundWith'[t] = boundWith[t] \cup {bind}
        /\ \A u \in Tickets \ {t} : boundWith'[u] = boundWith[u]
    BY <2>2, <2>3 DEF TypeOK
  <2> HIDE DEF bind
  <2>7. Spent(t)' /\ \A u \in Tickets : ~Spent(u)' => ~Spent(u)
    BY <2>3, <1>0 DEF Spent, Unexpired
  <2>8. ASSUME NEW u \in Tickets \ {t}
        PROVE  /\ \A a, b \in boundWith'[u] : a.run = b.run => a = b
               /\ \A b \in boundWith'[u] : b.run \in Nat /\ b.run <= restarts'
               /\ ~Spent(u)' => \A b \in boundWith'[u] : b.run # restarts'
    BY <2>3, <2>6, <2>7, <2>8 DEF TicketInv
  <2>9. /\ \A a, b \in boundWith'[t] : a.run = b.run => a = b
        /\ \A b \in boundWith'[t] : b.run \in Nat /\ b.run <= restarts'
    BY <1>0, <2>2, <2>3, <2>4, <2>5, <2>6 DEF TicketInv
  <2> QED BY <2>2, <2>7, <2>8, <2>9 DEF TicketInv
<1>3. CASE UNCHANGED vars
  BY <1>1, <1>3 DEF vars, TypeOK, Unexpired
<1>4. CASE \E s \in Sockets : SocketStep(s)
  <2>1. UNCHANGED <<consumed, boundWith, now, restarts>>
    BY <1>4 DEF SocketStep, Accept, RefuseConnection, SocketClosed, SocketError, RateLimited,
                BindTimeout, ViewerBind, CoreBind, StartBind, BadMessage, Relay
  <2> QED BY <1>1, <2>1 DEF TypeOK, Unexpired
<1>5. CASE \E task \in tasks : TaskStep(task) /\ ~TicketVerified(task)
  <2>1. UNCHANGED <<boundWith, now, restarts>> /\ Unexpired(consumed) \subseteq consumed'
    BY <1>5 DEF TaskStep, TicketRefused, CoreAuthorized, CoreRefused, TaskRejected,
                CoreIceFetched, ViewerIceFetched, BindPeer, TaskFails, Unexpired
  <2> QED BY <1>1, <2>1 DEF TypeOK
<1>6. CASE (\E k \in Keys : ExpirePair(k)) \/ GetMetrics \/ Tick
  <2>1. /\ UNCHANGED <<boundWith, restarts>> /\ now' \in {now, now + 1}
        /\ Unexpired(consumed) \subseteq consumed'
    BY <1>6 DEF ExpirePair, GetMetrics, Tick, Unexpired
  <2> QED BY <1>1, <2>1 DEF TypeOK
<1>7. CASE CloseAndStart
  <2>1. restarts' = restarts + 1 /\ UNCHANGED boundWith
    BY <1>7 DEF CloseAndStart
  <2>2. \A n \in Nat : n <= restarts => n <= restarts + 1 /\ n # restarts + 1
    BY <1>0
  <2> QED BY <2>1, <2>2 DEF TicketInv
<1> QED BY <1>2, <1>3, <1>4, <1>5, <1>6, <1>7 DEF Next, TaskStep

\* In each run of the Gateway a Viewer Ticket binds at most one socket, for any
\* number of sockets, tickets, restarts, expiry times and table sizes, whatever
\* verification was suspended when the run began.
THEOREM TicketsBindOnce == Spec => []SingleUse
<1>1. Init => TicketInv
  BY DEF Init, TicketInv
<1>2. TypeOK /\ TicketInv /\ [Next]_vars => TicketInv'
  BY TicketStep
<1>3. TicketInv => SingleUse
  BY DEF TicketInv, SingleUse
<1> QED BY <1>1, <1>2, <1>3, TypeCorrect, PTL DEF Spec

-----------------------------------------------------------------------------
(* The ceilings.  They are tested before an entry is added, so what has to *)
(* be shown is that nothing adds to a table between the test and the entry *)
(* and that the counter of an address never parts from the table: a socket *)
(* is counted once, when it is new, and is discounted only while it is     *)
(* still in the table.                                                     *)

From(a) == {s \in connections : AddressOf[s] = a}

ConnectionsCounted ==
  /\ IsFiniteSet(connections) /\ Cardinality(connections) <= MaxConnections
  /\ \A s \in connections : readyState[s] # "new"
  /\ \A a \in Addresses : /\ byAddress[a] = Cardinality(From(a))
                          /\ byAddress[a] <= MaxConnectionsPerIp

PairsCounted == IsFiniteSet(LivePairs) /\ Cardinality(LivePairs) <= MaxPendingPairs

TicketsCounted ==
  /\ IsFiniteSet(consumed) /\ Cardinality(consumed) <= MaxConsumedTickets
  /\ SpentOnlyByBinding

\* A finite set that shrinks stays finite and below its ceiling.
LEMMA SmallerStillFits ==
  ASSUME NEW S, IsFiniteSet(S), NEW T \in SUBSET S, NEW n \in Nat, Cardinality(S) <= n
  PROVE  IsFiniteSet(T) /\ Cardinality(T) <= n
<1>1. /\ IsFiniteSet(T) /\ Cardinality(T) <= Cardinality(S)
      /\ Cardinality(T) \in Nat /\ Cardinality(S) \in Nat
  BY FS_Subset, FS_CardinalityType
<1> QED BY <1>1

\* One more entry fits a table whose ceiling was not reached.
LEMMA OneMoreFits ==
  ASSUME NEW S, IsFiniteSet(S), NEW x, NEW n \in Nat, Cardinality(S) < n
  PROVE  IsFiniteSet(S \cup {x}) /\ Cardinality(S \cup {x}) <= n
<1>1. /\ IsFiniteSet(S \cup {x}) /\ Cardinality(S) \in Nat
      /\ Cardinality(S \cup {x}) \in {Cardinality(S), Cardinality(S) + 1}
  BY FS_AddElement, FS_CardinalityType
<1> QED BY <1>1

LEMMA Limits ==
  /\ MaxConnections \in Nat /\ MaxConnectionsPerIp \in Nat
  /\ MaxPendingPairs \in Nat /\ MaxConsumedTickets \in Nat
  BY GatewayAssumption DEF GatewayAssumption

\* No socket becomes new again.
LEMMA NeverNewAgain ==
  ASSUME TypeOK, [Next]_vars, NEW s \in Sockets, readyState[s] # "new"
  PROVE  readyState'[s] # "new"
<1>1. CASE \E x \in Sockets : SocketStep(x)
  BY <1>1 DEF TypeOK, SocketStep, Accept, RefuseConnection, SocketClosed, SocketError, RateLimited,
              BindTimeout, ViewerBind, CoreBind, StartBind, BadMessage, RejectBind, Reject, Relay
<1>2. CASE \E task \in tasks : TaskStep(task)
  <2>1. UNCHANGED readyState \/ \E to : Reject(to)
    BY <1>2 DEF TaskStep, TicketVerified, TicketRefused, CoreAuthorized, CoreRefused, TaskRejected,
                CoreIceFetched, ViewerIceFetched, BindPeer, TaskFails, RejectBind
  <2> QED BY <2>1 DEF TypeOK, Reject
<1>3. CASE (\E k \in Keys : ExpirePair(k)) \/ GetMetrics \/ Tick \/ CloseAndStart \/ UNCHANGED vars
  BY <1>3 DEF TypeOK, ExpirePair, Reject, GetMetrics, Tick, CloseAndStart, vars
<1> QED BY <1>1, <1>2, <1>3 DEF Next

\* #removeConnection discounts a socket exactly when it takes it out.
LEMMA RemoveConnectionCounted ==
  ASSUME TypeOK, ConnectionsCounted, NEW s \in Sockets, RemoveConnection(s),
         \A x \in connections : readyState'[x] # "new"
  PROVE  ConnectionsCounted'
<1> DEFINE FromNext(a) == {x \in connections' : AddressOf[x] = a}
<1>1. connections' = connections \ {s} /\ connections' \in SUBSET connections
  BY DEF RemoveConnection
<1>2. IsFiniteSet(connections') /\ Cardinality(connections') <= MaxConnections
  BY <1>1, SmallerStillFits, Limits DEF ConnectionsCounted
<1>3. ASSUME NEW a \in Addresses
      PROVE  byAddress'[a] = Cardinality(FromNext(a)) /\ byAddress'[a] <= MaxConnectionsPerIp
  <2>1. /\ byAddress[a] = Cardinality(From(a)) /\ byAddress[a] <= MaxConnectionsPerIp
        /\ byAddress[a] \in Nat /\ IsFiniteSet(From(a))
    BY FS_Subset DEF ConnectionsCounted, TypeOK, From
  <2>2. CASE s \in connections /\ AddressOf[s] = a
    <3>1. s \in From(a) /\ FromNext(a) = From(a) \ {s}
      BY <1>1, <2>2 DEF From
    <3> HIDE DEF FromNext
    <3>2. Cardinality(FromNext(a)) = Cardinality(From(a)) - 1 /\ Cardinality(FromNext(a)) \in Nat
      BY <2>1, <3>1, FS_RemoveElement, FS_CardinalityType
    <3>3. byAddress'[a] = IF byAddress[a] <= 1 THEN 0 ELSE byAddress[a] - 1
      BY <2>2 DEF RemoveConnection, TypeOK
    <3> QED BY <2>1, <3>2, <3>3, Limits
  <2>3. CASE ~(s \in connections /\ AddressOf[s] = a)
    <3>1. byAddress'[a] = byAddress[a] /\ FromNext(a) = From(a)
      BY <1>1, <2>3 DEF RemoveConnection, TypeOK, From
    <3> QED BY <2>1, <3>1
  <2> QED BY <2>2, <2>3
<1> QED BY <1>1, <1>2, <1>3 DEF ConnectionsCounted, From

LEMMA ConnectionsStep ==
  ASSUME TypeOK, ConnectionsCounted, [Next]_vars
  PROVE  ConnectionsCounted'
<1>1. \A x \in connections : readyState'[x] # "new"
  BY NeverNewAgain DEF ConnectionsCounted, TypeOK
<1>2. CASE UNCHANGED <<connections, byAddress>>
  BY <1>1, <1>2 DEF ConnectionsCounted, From
<1>3. CASE \E s \in Sockets : RemoveConnection(s)
  BY <1>1, <1>3, RemoveConnectionCounted
<1>4. CASE \E s \in Sockets : Accept(s)
  <2>1. PICK s \in Sockets : Accept(s)
    BY <1>4
  <2> DEFINE FromNext(a) == {x \in connections' : AddressOf[x] = a}
  <2>2. /\ readyState[s] = "new" /\ connections' = connections \cup {s} /\ readyState'[s] = "open"
        /\ Cardinality(connections) < MaxConnections
        /\ byAddress[AddressOf[s]] < MaxConnectionsPerIp
    BY <2>1 DEF Accept, Admissible, TypeOK
  <2>3. s \notin connections
    BY <2>2 DEF ConnectionsCounted
  <2>4. IsFiniteSet(connections') /\ Cardinality(connections') <= MaxConnections
    BY <2>2, OneMoreFits, Limits DEF ConnectionsCounted
  <2>5. ASSUME NEW a \in Addresses
        PROVE  byAddress'[a] = Cardinality(FromNext(a)) /\ byAddress'[a] <= MaxConnectionsPerIp
    <3>1. /\ byAddress[a] = Cardinality(From(a)) /\ byAddress[a] <= MaxConnectionsPerIp
          /\ byAddress[a] \in Nat /\ IsFiniteSet(From(a))
      BY FS_Subset DEF ConnectionsCounted, TypeOK, From
    <3>2. CASE AddressOf[s] = a
      <4>1. s \notin From(a) /\ FromNext(a) = From(a) \cup {s}
        BY <2>2, <2>3, <3>2 DEF From
      <4> HIDE DEF FromNext
      <4>2. Cardinality(FromNext(a)) = Cardinality(From(a)) + 1
        BY <3>1, <4>1, FS_AddElement
      <4>3. byAddress'[a] = byAddress[a] + 1
        BY <2>1, <3>2 DEF Accept, TypeOK
      <4> QED BY <2>2, <3>1, <3>2, <4>2, <4>3, Limits
    <3>3. CASE AddressOf[s] # a
      <4>1. byAddress'[a] = byAddress[a] /\ FromNext(a) = From(a)
        BY <2>1, <2>2, <3>3 DEF Accept, TypeOK, From
      <4> QED BY <3>1, <4>1
    <3> QED BY <3>2, <3>3
  <2> QED BY <1>1, <2>2, <2>4, <2>5 DEF ConnectionsCounted, From
<1>5. CASE CloseAndStart
  <2>1. connections' = {} /\ byAddress' = [a \in Addresses |-> 0]
    BY <1>5 DEF CloseAndStart
  <2>2. \A a \in Addresses : {x \in connections' : AddressOf[x] = a} = {}
    BY <2>1
  <2> QED BY <2>1, <2>2, FS_EmptySet, Limits DEF ConnectionsCounted, From
<1>6. \/ UNCHANGED <<connections, byAddress>> \/ \E s \in Sockets : RemoveConnection(s)
      \/ (\E s \in Sockets : Accept(s)) \/ CloseAndStart
  <2>1. CASE \E x \in Sockets : SocketStep(x)
    BY <2>1 DEF SocketStep, RefuseConnection, SocketClosed, SocketError, RateLimited,
                BindTimeout, ViewerBind, CoreBind, StartBind, BadMessage, Relay
  <2>2. CASE \E task \in tasks : TaskStep(task)
    BY <2>2 DEF TaskStep, TicketVerified, TicketRefused, CoreAuthorized, CoreRefused, TaskRejected,
                CoreIceFetched, ViewerIceFetched, BindPeer, TaskFails
  <2>3. CASE (\E k \in Keys : ExpirePair(k)) \/ GetMetrics \/ Tick \/ CloseAndStart \/ UNCHANGED vars
    BY <2>3 DEF ExpirePair, GetMetrics, Tick, vars
  <2> QED BY <2>1, <2>2, <2>3 DEF Next
<1> QED BY <1>2, <1>3, <1>4, <1>5, <1>6

\* A pairing is added by a bind only, and a bind looks at the ceiling first.
LEMMA PairsStep ==
  ASSUME TypeOK, PairsCounted, [Next]_vars
  PROVE  PairsCounted'
<1>1. CASE LivePairs' \in SUBSET LivePairs
  BY <1>1, SmallerStillFits, Limits DEF PairsCounted
<1>2. ASSUME NEW task, NEW k, NEW role, NEW t, RoleFree(k, role), BindPeer(task, k, role, t)
      PROVE  PairsCounted'
  <2>1. LivePairs' \in SUBSET (LivePairs \cup {k})
    BY <1>2 DEF BindPeer, LivePairs, TypeOK
  <2>2. CASE Cardinality(LivePairs) < MaxPendingPairs
    <3>1. IsFiniteSet(LivePairs \cup {k}) /\ Cardinality(LivePairs \cup {k}) <= MaxPendingPairs
      BY <2>2, OneMoreFits, Limits DEF PairsCounted
    <3> QED BY <2>1, <3>1, SmallerStillFits, Limits DEF PairsCounted
  <2>3. CASE pairs[k].live
    <3>1. LivePairs' \in SUBSET LivePairs
      BY <1>2, <2>3 DEF BindPeer, LivePairs, TypeOK
    <3> QED BY <1>1, <3>1
  <2> QED BY <1>2, <2>2, <2>3 DEF RoleFree
<1>3. CASE \E x \in Sockets : SocketStep(x)
  <2>1. UNCHANGED pairs \/ \E s \in Sockets : RemovePeer(s)
    BY <1>3 DEF SocketStep, Accept, RefuseConnection, SocketClosed, SocketError, RateLimited,
                BindTimeout, ViewerBind, CoreBind, StartBind, BadMessage, Relay
  <2>2. LivePairs' \in SUBSET LivePairs
    BY <2>1 DEF RemovePeer, LivePairs, TypeOK
  <2> QED BY <1>1, <2>2
<1>4. CASE \E task \in tasks : TaskStep(task)
  <2>1. \/ UNCHANGED pairs
        \/ \E task \in tasks, k \in Keys \cup {None}, role \in {"core", "viewer"}, t \in Tickets \cup {None} :
             RoleFree(k, role) /\ BindPeer(task, k, role, t)
    <3>1. PICK task \in tasks : TaskStep(task)
      BY <1>4
    <3>2. task \in Task
      BY <3>1 DEF TypeOK
    <3>3. CASE TicketVerified(task)
      <4>1. task.ticket \in Tickets
        BY <3>2, <3>3 DEF TicketVerified, Task, VerifyTask, AuthorizeTask, IceTask
      <4>2. TicketKey[task.ticket] \in Keys
        BY <4>1, GatewayAssumption DEF GatewayAssumption
      <4> QED BY <3>3, <4>1, <4>2 DEF TicketVerified
    <3>4. CASE CoreAuthorized(task)
      <4>1. task.key \in Keys
        BY <3>2, <3>4 DEF CoreAuthorized, Task, VerifyTask, AuthorizeTask, IceTask
      <4> QED BY <3>4, <4>1 DEF CoreAuthorized
    <3>5. CASE ~TicketVerified(task) /\ ~CoreAuthorized(task)
      BY <3>1, <3>5 DEF TaskStep, TicketRefused, CoreRefused, TaskRejected,
                        CoreIceFetched, ViewerIceFetched, TaskFails
    <3> QED BY <3>3, <3>4, <3>5
  <2>2. CASE UNCHANGED pairs
    <3>1. LivePairs' \in SUBSET LivePairs
      BY <2>2 DEF LivePairs
    <3> QED BY <1>1, <3>1
  <2> QED BY <1>2, <2>1, <2>2
<1>5. CASE (\E k \in Keys : ExpirePair(k)) \/ GetMetrics \/ Tick \/ CloseAndStart \/ UNCHANGED vars
  <2>1. \A k \in Keys : pairs'[k] = NoPair \/ pairs'[k] = pairs[k]
    BY <1>5 DEF ExpirePair, GetMetrics, Tick, CloseAndStart, vars, TypeOK
  <2>2. LivePairs' \in SUBSET LivePairs
    BY <2>1 DEF LivePairs, NoPair
  <2> QED BY <1>1, <2>2
<1> QED BY <1>3, <1>4, <1>5 DEF Next

\* A ticket is added by a bind that succeeded, after a look at the ceiling.
LEMMA TicketsStep ==
  ASSUME TypeOK, TicketsCounted, [Next]_vars
  PROVE  TicketsCounted'
<1>1. CASE consumed' \in SUBSET consumed /\ UNCHANGED <<boundWith, restarts>>
  <2>1. IsFiniteSet(consumed') /\ Cardinality(consumed') <= MaxConsumedTickets
    BY <1>1, SmallerStillFits, Limits DEF TicketsCounted
  <2> QED BY <1>1, <2>1 DEF TicketsCounted, SpentOnlyByBinding
<1>2. CASE \E task \in tasks : TicketVerified(task)
  <2>1. PICK task \in tasks : TicketVerified(task)
    BY <1>2
  <2> DEFINE t == task.ticket
  <2>2. t \in Tickets
    BY <2>1 DEF TypeOK, TicketVerified, Task, VerifyTask, AuthorizeTask, IceTask
  <2> DEFINE bind == [run |-> restarts, socket |-> task.socket]
  <2>3. /\ consumed' = Unexpired(consumed) \cup {t}
        /\ boundWith' = [boundWith EXCEPT ![t] = @ \cup {bind}]
        /\ bind.run = restarts /\ UNCHANGED restarts
        /\ Cardinality(Unexpired(consumed)) < MaxConsumedTickets
    BY <2>1 DEF TicketVerified, TicketAccepted, BindPeer
  <2> HIDE DEF t, bind
  <2>4. IsFiniteSet(Unexpired(consumed))
    BY FS_Subset DEF TicketsCounted, Unexpired
  <2>5. IsFiniteSet(consumed') /\ Cardinality(consumed') <= MaxConsumedTickets
    BY <2>3, <2>4, OneMoreFits, Limits
  <2>6. ASSUME NEW u \in consumed' PROVE \E b \in boundWith'[u] : b.run = restarts'
    <3>1. CASE u = t
      BY <2>2, <2>3, <3>1 DEF TypeOK
    <3>2. CASE u # t
      <4>1. u \in consumed /\ u \in Tickets
        BY <2>3, <2>6, <3>2 DEF Unexpired, TypeOK
      <4> QED BY <2>3, <3>2, <4>1 DEF TypeOK, TicketsCounted, SpentOnlyByBinding
    <3> QED BY <3>1, <3>2
  <2> QED BY <2>5, <2>6 DEF TicketsCounted, SpentOnlyByBinding
<1>3. CASE \E x \in Sockets : SocketStep(x)
  <2>1. UNCHANGED <<consumed, boundWith, restarts>>
    BY <1>3 DEF SocketStep, Accept, RefuseConnection, SocketClosed, SocketError, RateLimited,
                BindTimeout, ViewerBind, CoreBind, StartBind, BadMessage, Relay
  <2> QED BY <1>1, <2>1
<1>4. CASE \E task \in tasks : TaskStep(task) /\ ~TicketVerified(task)
  <2>1. consumed' \in SUBSET consumed /\ UNCHANGED <<boundWith, restarts>>
    BY <1>4 DEF TaskStep, TicketRefused, CoreAuthorized, CoreRefused, TaskRejected,
                CoreIceFetched, ViewerIceFetched, BindPeer, TaskFails, Unexpired
  <2> QED BY <1>1, <2>1
<1>5. CASE (\E k \in Keys : ExpirePair(k)) \/ GetMetrics \/ Tick \/ UNCHANGED vars
  <2>1. consumed' \in SUBSET consumed /\ UNCHANGED <<boundWith, restarts>>
    BY <1>5 DEF ExpirePair, GetMetrics, Tick, vars, Unexpired
  <2> QED BY <1>1, <2>1
<1>6. CASE CloseAndStart
  BY <1>6, FS_EmptySet, Limits DEF CloseAndStart, TicketsCounted, SpentOnlyByBinding
<1> QED BY <1>2, <1>3, <1>4, <1>5, <1>6 DEF Next, TaskStep

LEMMA InitCounted == Init => ConnectionsCounted /\ PairsCounted /\ TicketsCounted
<1> SUFFICES ASSUME Init PROVE ConnectionsCounted /\ PairsCounted /\ TicketsCounted
  OBVIOUS
<1>1. LivePairs = {} /\ \A a \in Addresses : From(a) = {}
  BY DEF Init, LivePairs, NoPair, From
<1> QED BY <1>1, FS_EmptySet, Limits
        DEF Init, ConnectionsCounted, PairsCounted, TicketsCounted, SpentOnlyByBinding

LEMMA AlwaysCounted == Spec => [](ConnectionsCounted /\ PairsCounted /\ TicketsCounted)
<1>1. /\ TypeOK /\ ConnectionsCounted /\ PairsCounted /\ TicketsCounted /\ [Next]_vars
      => (ConnectionsCounted /\ PairsCounted /\ TicketsCounted)'
  BY ConnectionsStep, PairsStep, TicketsStep
<1> QED BY InitCounted, <1>1, TypeCorrect, PTL DEF Spec

\* The configured ceilings on connections, connections of an address, pairings
\* and consumed tickets are never exceeded, and the counter of an address is
\* what the table of connections says, however sockets close, fail or are
\* throttled while a bind of theirs is pending.
THEOREM CeilingsAlwaysHold == Spec => []CeilingsHold
<1>1. ConnectionsCounted /\ PairsCounted /\ TicketsCounted => CeilingsHold
  BY DEF ConnectionsCounted, PairsCounted, TicketsCounted, CeilingsHold, From
<1> QED BY <1>1, AlwaysCounted, PTL

\* A ticket is spent only by a bind that succeeded in this run of the Gateway.
THEOREM TicketsSpentByBinding == Spec => []SpentOnlyByBinding
<1>1. TicketsCounted => SpentOnlyByBinding
  BY DEF TicketsCounted
<1> QED BY <1>1, AlwaysCounted, PTL

\* All the Gateway's tables promise together holds in every reachable state.
THEOREM GatewayConsistent == Spec => []Consistent
<1>1. /\ TypeOK /\ SpentOnlyByBinding /\ PeersMatchPairs /\ TimerIffWaiting /\ CeilingsHold
      => Consistent
  BY DEF Consistent
<1> QED BY <1>1, TypeCorrect, TicketsSpentByBinding, PeersAlwaysMatchPairs,
           TimerAlwaysIffWaiting, CeilingsAlwaysHold, PTL
=============================================================================
