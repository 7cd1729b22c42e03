-------------------------- MODULE CoreSession_proofs --------------------------
(***************************************************************************)
(* Theorems about CoreSession, for every number of generations and clients *)
(* and every behaviour of the Embedder, the Viewer and the media runtime   *)
(* that the constants allow.                                               *)
(***************************************************************************)
EXTENDS CoreSession, FiniteSetTheorems, SequenceTheorems, TLAPS

-----------------------------------------------------------------------------
(* Type correctness, one lemma per group of actions *)

\* The state after a takeover, a negotiation failure or a termination is a state.
LEMMA StatesClosed ==
  ASSUME state \in Lifecycle!States
  PROVE  /\ \A s \in Lifecycle!States : MoveIfLegal(s) => state' \in Lifecycle!States
         /\ FinishNegotiationFailure => state' \in Lifecycle!States
         /\ \A from \in Lifecycle!States : TakeoverState(from) \in Lifecycle!States
         /\ {"READY", "CONNECTED", "SUSPENDED", "RECONNECTING", "CLOSING", "CLOSED", "FAILED"}
              \subseteq Lifecycle!States
BY DEF MoveIfLegal, FinishNegotiationFailure, TakeoverState, Lifecycle!States

\* Closing a client leaves clients well typed.
LEMMA ClientsClosed ==
  ASSUME clients \in [Slots -> Client]
  PROVE  /\ \A c : CloseClient(c) => clients' \in [Slots -> Client]
         /\ NoClient \in Client
<1>1. ASSUME NEW d \in Slots, clients[d].phase = "preparing"
      PROVE  [clients[d] EXCEPT !.phase = "abandoned"] \in Client
  BY <1>1 DEF Client, NoClient, Phases
<1> QED BY <1>1 DEF CloseClient, Client

\* So does the end of a capture that was being prepared.
LEMMA CaptureSettledTyped ==
  ASSUME clients \in [Slots -> Client], NEW c \in Slots,
         clients[c].phase \in {"preparing", "abandoned"}, CaptureSettled(c)
  PROVE  clients' \in [Slots -> Client]
<1>1. [clients[c] EXCEPT !.phase = "up"] \in Client
  BY DEF Client, NoClient, Phases
<1> QED BY <1>1, ClientsClosed DEF CaptureSettled

\* Starting a negotiation preserves the types it touches.
LEMMA StartNegotiationTyped ==
  ASSUME TypeOK, NEW g \in Generations, StartNegotiation(g)
  PROVE  /\ state' \in Lifecycle!States
         /\ clients' \in [Slots -> Client]
         /\ signaling' \in Slots \cup {None}
BY StatesClosed, CoreSessionAssumption DEF TypeOK, StartNegotiation, Client, Phases

\* Committing a generation preserves the types it touches.
LEMMA CommitTyped ==
  ASSUME TypeOK, NEW call \in calls, NEW prev \in Slots \cup {None},
         NEW from \in Lifecycle!States, Commit(call, prev, from)
  PROVE  /\ state' \in Lifecycle!States
         /\ generation' \in 0..MaxGeneration
         /\ expired' \in BOOLEAN
         /\ signaling' \in Slots \cup {None}
         /\ clients' \in [Slots -> Client]
         /\ calls' \in SUBSET Call
         /\ greeted' \in {"no", "yes", "inherited"}
<1>1. call \in Call
  BY DEF TypeOK
<1>2. Suspended(call.gen, "close", prev, "READY") \in Call
  BY <1>1, StatesClosed DEF Call, Suspended, TypeOK
<1>3. clients' \in [Slots -> Client]
  BY ClientsClosed DEF Commit, TypeOK
<1>4. call.gen \in 0..MaxGeneration
  BY <1>1 DEF Call, Generations
<1> QED
  BY <1>1, <1>2, <1>3, <1>4, StatesClosed DEF Commit, TypeOK

\* A message of a Viewer is an item of the control chain.
LEMMA MessagesAreItems ==
  /\ UNION {ViewerMessages(g) : g \in Generations} \subseteq ChainItem
  /\ \A g \in Generations : ViewerMessages(g) \subseteq UNION {ViewerMessages(h) : h \in Generations}
BY DEF ViewerMessages, ChainItem

\* The steps of createViewerTicket.
LEMMA TakeoverTyped ==
  ASSUME TypeOK
  PROVE  /\ \A g \in Generations : RequestTicket(g) => TypeOK'
         /\ \A call \in calls : CallStep(call) => TypeOK'
         /\ TicketExpires => TypeOK'
<1>1. ASSUME NEW g \in Generations, RequestTicket(g)
      PROVE  TypeOK'
  <2>1. Suspended(g, "issue", None, "READY") \in Call
    BY StatesClosed DEF Call, Suspended, TypeOK
  <2> QED BY <1>1, <2>1 DEF RequestTicket, TypeOK, mediaVars
<1>2. ASSUME NEW call \in calls, CallStep(call)
      PROVE  TypeOK'
  <2>0. call \in Call
    BY DEF TypeOK
  <2>1. CASE CallRejected(call)
    BY <2>1 DEF CallRejected, TypeOK, mediaVars
  <2>2. CASE TicketIssued(call)
    <3>1. CASE generation = 0
      <4>1. Commit(call, signaling, state)
        BY <2>2, <3>1 DEF TicketIssued
      <4>2. UNCHANGED <<chain, mediaVars, termination>> /\ retry' = 0
        BY <2>2, <3>1 DEF TicketIssued
      <4> QED BY <4>1, <4>2, CommitTyped, CoreSessionAssumption DEF TypeOK, mediaVars
    <3>2. CASE generation # 0
      <4>1. Suspended(call.gen, "drain", signaling, state) \in Call
        BY <2>0 DEF Call, Suspended, TypeOK
      <4>2. [kind |-> "drain", gen |-> call.gen] \in ChainItem
        BY <2>0 DEF Call, ChainItem
      <4>3. chain' \in Seq(ChainItem)
        BY <2>2, <3>2, <4>2 DEF TicketIssued, TypeOK
      <4> QED BY <2>2, <3>2, <4>1, <4>3, CoreSessionAssumption DEF TicketIssued, TypeOK, mediaVars
    <3> QED BY <3>1, <3>2
  <2>3. CASE MediaStopped(call)
    <3>1. call.prev \in Slots \cup {None} /\ call.from \in Lifecycle!States
      BY <2>0 DEF Call
    <3>2. Commit(call, call.prev, call.from) /\ StopAcknowledged
          /\ UNCHANGED <<retry, chain, termination>>
      BY <2>3 DEF MediaStopped
    <3> QED BY <3>1, <3>2, CommitTyped DEF TypeOK, StopAcknowledged
  <2>4. CASE FinishTakeover(call)
    <3>1. call.gen \in Generations
      BY <2>0 DEF Call
    <3>2. /\ state' \in Lifecycle!States
          /\ clients' \in [Slots -> Client]
          /\ signaling' \in Slots \cup {None}
      BY <2>4, <3>1, StartNegotiationTyped DEF FinishTakeover, TypeOK
    <3> QED BY <2>4, <3>2 DEF FinishTakeover, TypeOK, mediaVars
  <2> QED BY <1>2, <2>1, <2>2, <2>3, <2>4 DEF CallStep, IssueFails, StopFails
<1>3. ASSUME TicketExpires PROVE TypeOK'
  BY <1>3 DEF TicketExpires, TypeOK, mediaVars
<1> QED BY <1>1, <1>2, <1>3

\* The events of the signaling clients.
LEMMA SignalingTyped ==
  ASSUME TypeOK
  PROVE  /\ RetryFires => TypeOK'
         /\ \A c \in Slots : ClientStep(c) => TypeOK'
<1>1. ASSUME RetryFires PROVE TypeOK'
  <2>1. retry \in Generations
    BY <1>1 DEF RetryFires, TypeOK, Generations
  <2> QED BY <1>1, <2>1, StartNegotiationTyped, CoreSessionAssumption
          DEF RetryFires, TypeOK, ticketVars, mediaVars
<1>2. ASSUME NEW c \in Slots, ClientStep(c) PROVE TypeOK'
  <2> USE CoreSessionAssumption
  <2>1. CASE ClientPaired(c)
    <3>1. clients' \in [Slots -> Client]
      BY <2>1 DEF ClientPaired, TypeOK, Client, NoClient, Phases
    <3> QED BY <2>1, <3>1, StatesClosed DEF ClientPaired, Fail, Terminate, TypeOK, ticketVars,
               mediaVars
  <2>2. CASE CapturePrepared(c)
    <3>1. clients[c].gen \in Generations
      BY <2>2 DEF CapturePrepared, Preparing, TypeOK, Client, NoClient, Phases
    <3>2. ViewerMessages(clients[c].gen) \subseteq UNION {ViewerMessages(g) : g \in Generations}
      BY <3>1, MessagesAreItems
    <3>3. clients' \in [Slots -> Client]
      BY <2>2, <3>1, CaptureSettledTyped DEF CapturePrepared, Preparing, TypeOK
    <3> QED BY <2>2, <3>1, <3>2, <3>3 DEF CapturePrepared, TypeOK, ticketVars, Generations
  <2>3. CASE ViewerLeaves(c)
    BY <2>3, StatesClosed, ClientsClosed DEF ViewerLeaves, Fail, Terminate, TypeOK, ticketVars
  <2>4. ASSUME NEW retryable \in BOOLEAN, ClientFails(c, retryable) PROVE TypeOK'
    <3>1. clients' \in [Slots -> Client]
      BY <2>4, ClientsClosed DEF ClientFails, TypeOK
    <3> QED BY <2>4, <3>1, StatesClosed
            DEF ClientFails, GiveUpOrRetry, Fail, Terminate, TypeOK, ticketVars
  <2>5. ASSUME NEW retryable \in BOOLEAN, CaptureFails(c, retryable) PROVE TypeOK'
    <3>1. clients' \in [Slots -> Client]
      BY <2>5, ClientsClosed, CaptureSettledTyped
      DEF CaptureFails, Preparing, TypeOK
    <3> QED BY <2>5, <3>1, StatesClosed DEF CaptureFails, GiveUpOrRetry, TypeOK, ticketVars
  <2> QED BY <1>2, <2>1, <2>2, <2>3, <2>4, <2>5 DEF ClientStep
<1> QED BY <1>1, <1>2

\* The control chain, the replies of the media runtime and its faults.
LEMMA ControlTyped ==
  ASSUME TypeOK
  PROVE  /\ \A m \in inbox : MessageArrives(m) => TypeOK'
         /\ HandleControl => TypeOK'
         /\ \A suspended \in BOOLEAN : SuspensionChanged(suspended) => TypeOK'
         /\ MediaDisconnects \/ MediaReturns => TypeOK'
<1>1. ASSUME NEW m \in inbox, MessageArrives(m) PROVE TypeOK'
  <2>1. m \in ChainItem
    BY MessagesAreItems DEF TypeOK
  <2>2. chain' \in Seq(ChainItem)
    BY <1>1, <2>1 DEF MessageArrives, TypeOK
  <2> QED BY <1>1, <2>2 DEF MessageArrives, TypeOK, ticketVars
<1>2. ASSUME HandleControl PROVE TypeOK'
  <2>1. chain' \in Seq(ChainItem) /\ Head(chain) \in ChainItem
    BY <1>2 DEF HandleControl, TypeOK
  <2> DEFINE m == Head(chain)
  <2>2. m.gen \in Generations
    BY <2>1 DEF ChainItem
  <2>3. CASE Drained(m.gen)
    <3>1. calls' \in SUBSET Call
      BY <2>2, <2>3 DEF Drained, TypeOK, Call, Suspended
    <3> QED BY <2>1, <2>3, <3>1, CoreSessionAssumption DEF Drained, TypeOK
  <2>4. CASE /\ Obey(m) \/ Refuse
             /\ UNCHANGED <<ticketVars, signaling, clients, media, inbox, mediaUp>>
    <3>1. Obey(m) => replies' \in SUBSET BOOLEAN /\ greeted' \in {"no", "yes", "inherited"}
      <4> HIDE DEF m
      <4> DEFINE reply == m.kind = "suspend"
      <4>1. reply \in BOOLEAN
        BY Zenon
      <4>2. Obey(m) => replies' \in {replies, replies \cup {reply}}
        BY DEF Obey
      <4>3. Obey(m) => greeted' \in {greeted, "yes"}
        BY DEF Obey
      <4> HIDE DEF reply
      <4> QED BY <4>1, <4>2, <4>3 DEF TypeOK
    <3>2. Obey(m) => state' \in Lifecycle!States /\ UNCHANGED <<retry, termination>>
      BY StatesClosed DEF Obey, MoveTo, TypeOK
    <3>3. Refuse => /\ state' \in Lifecycle!States
                    /\ retry' \in 0..MaxGeneration
                    /\ termination' \in {"none", "stopMedia", "closeSignaling", "closeTab",
                                        "retryable", "done"}
                    /\ UNCHANGED <<greeted, replies>>
      BY StatesClosed, CoreSessionAssumption DEF Refuse, Fail, Terminate, TypeOK
    <3> HIDE DEF m
    <3> QED BY <2>1, <2>4, <3>1, <3>2, <3>3 DEF TypeOK, ticketVars
  <2> QED BY <1>2, <2>3, <2>4 DEF HandleControl
<1>3. ASSUME NEW suspended \in BOOLEAN, SuspensionChanged(suspended) PROVE TypeOK'
  BY <1>3, StatesClosed DEF SuspensionChanged, MoveIfLegal, TypeOK, ticketVars, Lifecycle!States
<1>4. ASSUME MediaDisconnects \/ MediaReturns PROVE TypeOK'
  <2>1. CASE MediaDisconnects
    <3>1. mediaUp' \in BOOLEAN
      BY <2>1, Zenon DEF MediaDisconnects
    <3>2. calls' \in SUBSET Call
      BY <2>1 DEF MediaDisconnects, TypeOK
    <3> QED BY <2>1, <3>1, <3>2, CoreSessionAssumption DEF MediaDisconnects, TypeOK
  <2>2. CASE MediaReturns
    BY <2>2 DEF MediaReturns, TypeOK, ticketVars
  <2> QED BY <1>4, <2>1, <2>2
<1> QED BY <1>1, <1>2, <1>3, <1>4

\* Failure, close and cleanup.
LEMMA CleanupTyped ==
  ASSUME TypeOK
  PROVE  /\ SessionFails \/ Close => TypeOK'
         /\ CleanupStopsMedia \/ CleanupSignalingClosed => TypeOK'
         /\ \A succeeds \in BOOLEAN : CleanupEnds(succeeds) => TypeOK'
<1>1. SessionFails \/ Close => TypeOK'
  BY StatesClosed, CoreSessionAssumption
  DEF SessionFails, Close, Fail, Terminate, TypeOK, ticketVars, mediaVars
<1>2. CleanupStopsMedia \/ CleanupSignalingClosed => TypeOK'
  BY ClientsClosed, CoreSessionAssumption
  DEF CleanupStopsMedia, CleanupSignalingClosed, TypeOK, ticketVars, mediaVars
<1>3. \A succeeds \in BOOLEAN : CleanupEnds(succeeds) => TypeOK'
  BY StatesClosed DEF CleanupEnds, TypeOK, ticketVars, mediaVars
<1> QED BY <1>1, <1>2, <1>3

\* Every variable keeps its type in every step.
LEMMA TypePreserved ==
  ASSUME TypeOK, [Next]_vars
  PROVE  TypeOK'
<1>1. CASE UNCHANGED vars
  BY <1>1 DEF TypeOK, vars
<1>2. CASE Next
  BY <1>2, TakeoverTyped, SignalingTyped, ControlTyped, CleanupTyped DEF Next
<1> QED BY <1>1, <1>2

\* An attached Session is well typed.
LEMMA InitTyped == Init => TypeOK
<1> SUFFICES ASSUME Init PROVE TypeOK
  OBVIOUS
<1>1. clients \in [Slots -> Client]
  BY DEF Init, Client
<1>2. chain \in Seq(ChainItem)
  BY DEF Init
<1>3. expired \in BOOLEAN /\ mediaUp \in BOOLEAN
  BY Zenon DEF Init
<1> QED BY <1>1, <1>2, <1>3, CoreSessionAssumption DEF Init, TypeOK, Lifecycle!States

\* A Session is well typed from its attachment on.
THEOREM TypeCorrect == Spec => []TypeOK
<1>1. TypeOK /\ [Next]_vars => TypeOK'
  BY TypePreserved
<1> QED BY InitTyped, <1>1, PTL DEF Spec

-----------------------------------------------------------------------------
(* Generations *)

\* An Embedder that awaits each ticket has one call, and until that call
\* commits its generation is still ahead of the Session's.
OneFreshCall ==
  /\ \A c, d \in calls : c = d
  /\ \A call \in calls : call.step # "close" => call.gen > generation

\* Which steps touch the calls and the generation.
LEMMA CallsChangeOnlyBy ==
  ASSUME Next
  PROVE  \/ \E g \in Generations : RequestTicket(g)
         \/ \E call \in calls : TicketIssued(call) \/ MediaStopped(call)
         \/ Drained(Head(chain).gen)
         \/ (generation' = generation /\ calls' \subseteq calls)
<1>1. ASSUME NEW call \in calls, CallStep(call)
      PROVE  TicketIssued(call) \/ MediaStopped(call)
             \/ (generation' = generation /\ calls' \subseteq calls)
  BY <1>1 DEF CallStep, IssueFails, StopFails, CallRejected, FinishTakeover
<1>2. ASSUME NEW c \in Slots, ClientStep(c)
      PROVE  generation' = generation /\ calls' = calls
  BY <1>2 DEF ClientStep, ClientPaired, CapturePrepared, ViewerLeaves, ClientFails, CaptureFails,
     ticketVars
<1>3. HandleControl => Drained(Head(chain).gen) \/ (generation' = generation /\ calls' = calls)
  BY DEF HandleControl, ticketVars
<1>4. \A m \in inbox : MessageArrives(m) => generation' = generation /\ calls' = calls
  BY DEF MessageArrives, ticketVars
<1>5. \A b \in BOOLEAN : SuspensionChanged(b) \/ CleanupEnds(b) =>
        generation' = generation /\ calls' = calls
  BY DEF SuspensionChanged, CleanupEnds, ticketVars
<1>6. TicketExpires \/ RetryFires \/ MediaDisconnects \/ MediaReturns \/ SessionFails \/ Close
      \/ CleanupStopsMedia \/ CleanupSignalingClosed =>
        generation' = generation /\ calls' \subseteq calls
  BY DEF TicketExpires, RetryFires, MediaDisconnects, MediaReturns, SessionFails, Close,
     CleanupStopsMedia, CleanupSignalingClosed, ticketVars
<1> QED BY <1>1, <1>2, <1>3, <1>4, <1>5, <1>6 DEF Next

\* A commit puts the generation of its call, and leaves that call closing at most.
LEMMA CommitPuts ==
  ASSUME TypeOK, OneFreshCall, NEW call \in calls, call.step # "close",
         NEW prev, NEW from, Commit(call, prev, from)
  PROVE  OneFreshCall' /\ generation' >= generation
<1>1. calls \ {call} = {}
  BY DEF OneFreshCall
<1>2. calls' = {} \/ calls' = {Suspended(call.gen, "close", prev, "READY")}
  BY <1>1 DEF Commit
<1>3. generation' = call.gen /\ call.gen > generation
  BY DEF Commit, OneFreshCall
<1>4. generation \in Nat /\ call.gen \in Nat
  BY CoreSessionAssumption DEF TypeOK, Call, Generations
<1> QED BY <1>2, <1>3, <1>4 DEF OneFreshCall, Suspended

\* OneFreshCall is inductive, and no step lowers the generation.
LEMMA GenerationStep ==
  ASSUME Concurrent = FALSE, TypeOK, OneFreshCall, [Next]_vars
  PROVE  OneFreshCall' /\ generation' >= generation
<1>0. generation \in Nat
  BY CoreSessionAssumption DEF TypeOK
<1>1. ASSUME NEW g \in Generations, RequestTicket(g)
      PROVE  OneFreshCall' /\ generation' = generation
  <2>1. calls' = {Suspended(g, "issue", None, "READY")} /\ g > generation
    BY <1>1 DEF RequestTicket
  <2> QED BY <1>1, <2>1 DEF RequestTicket, OneFreshCall, Suspended
<1>2. ASSUME NEW call \in calls, TicketIssued(call)
      PROVE  OneFreshCall' /\ generation' >= generation
  <2>1. CASE generation = 0
    <3>1. Commit(call, signaling, state) /\ call.step # "close"
      BY <1>2, <2>1 DEF TicketIssued
    <3> QED BY <3>1, <1>0, CommitPuts
  <2>2. CASE generation # 0
    <3>1. calls \ {call} = {} /\ call.gen > generation
      BY <1>2 DEF OneFreshCall, TicketIssued
    <3>2. calls' = {Suspended(call.gen, "drain", signaling, state)} /\ generation' = generation
      BY <1>2, <2>2, <3>1 DEF TicketIssued
    <3> QED BY <1>0, <3>1, <3>2 DEF OneFreshCall, Suspended
  <2> QED BY <2>1, <2>2
<1>3. ASSUME NEW call \in calls, MediaStopped(call)
      PROVE  OneFreshCall' /\ generation' >= generation
  BY <1>0, <1>3, CommitPuts DEF MediaStopped
<1>4. ASSUME NEW g, Drained(g)
      PROVE  OneFreshCall' /\ generation' = generation
  <2>1. PICK call \in calls :
          /\ call.gen = g /\ call.step = "drain"
          /\ calls' = (calls \ {call}) \cup
                        (IF mediaUp THEN {Suspended(g, "stop", call.prev, call.from)} ELSE {})
    BY <1>4 DEF Drained
  <2>2. calls \ {call} = {} /\ g > generation
    BY <2>1 DEF OneFreshCall
  <2>3. calls' \subseteq {Suspended(g, "stop", call.prev, call.from)}
    BY <2>1, <2>2
  <2> QED BY <1>4, <2>2, <2>3 DEF Drained, OneFreshCall, Suspended
<1>5. ASSUME generation' = generation, calls' \subseteq calls
      PROVE  OneFreshCall' /\ generation' >= generation
  BY <1>0, <1>5 DEF OneFreshCall
<1>6. CASE UNCHANGED vars
  BY <1>5, <1>6 DEF vars
<1>7. CASE Next
  BY <1>0, <1>1, <1>2, <1>3, <1>4, <1>5, <1>7, CallsChangeOnlyBy
<1> QED BY <1>6, <1>7

\* For an Embedder that awaits each ticket, a Viewer generation is never taken
\* back, although createViewerTicket compares before its awaits and assigns
\* after them.
THEOREM GenerationNeverTakenBack ==
  ASSUME Concurrent = FALSE
  PROVE  Spec => GenerationGrows
<1>1. Init => TypeOK /\ OneFreshCall
  BY InitTyped DEF Init, OneFreshCall
<1>2. TypeOK /\ OneFreshCall /\ [Next]_vars => TypeOK' /\ OneFreshCall'
  BY TypePreserved, GenerationStep
<1>3. TypeOK /\ OneFreshCall /\ [Next]_vars => [generation' >= generation]_vars
  BY GenerationStep
<1> QED BY <1>1, <1>2, <1>3, PTL DEF Spec, GenerationGrows
-----------------------------------------------------------------------------
(* The client of the Session *)

\* Closing a client leaves the other clients as they are.
LEMMA CloseClientSparesOthers ==
  ASSUME clients \in [Slots -> Client], NEW c, CloseClient(c), NEW d \in Slots, d # c
  PROVE  clients'[d] = clients[d]
BY DEF CloseClient

\* Starting a negotiation makes an open client of the current generation, or
\* leaves the Session's client alone.
LEMMA StartKeepsSignaling ==
  ASSUME TypeOK, SignalingCurrent, NEW g \in Generations, StartNegotiation(g),
         UNCHANGED <<generation, termination>>
  PROVE  SignalingCurrent'
<1>1. CASE Closed \/ generation # g \/ expired
  BY <1>1 DEF StartNegotiation, SignalingCurrent, Closed, Open
<1>2. CASE ~(Closed \/ generation # g \/ expired)
  <2>1. PICK c \in Slots : /\ clients' = [clients EXCEPT ![c] = [gen |-> g, phase |-> "connecting"]]
                           /\ signaling' = c
    BY <1>2 DEF StartNegotiation
  <2>2. clients'[c] = [gen |-> g, phase |-> "connecting"]
    BY <2>1 DEF TypeOK
  <2> QED BY <1>2, <2>1, <2>2 DEF SignalingCurrent, Open
<1> QED BY <1>1, <1>2

\* A capture that ends leaves every open client open, of its generation.
LEMMA CaptureSettledKeepsOpen ==
  ASSUME TypeOK, NEW c \in Slots, CaptureSettled(c), NEW d \in Slots
  PROVE  /\ Open(d) => Open(d)'
         /\ d # c => clients'[d] = clients[d]
         /\ Open(d) => clients'[d].gen = clients[d].gen
<1>1. clients[d] \in Client /\ clients \in [Slots -> Client]
  BY DEF TypeOK
<1>2. CASE d # c
  BY <1>1, <1>2 DEF CaptureSettled, Open
<1>3. CASE d = c /\ clients[c].phase = "abandoned"
  BY <1>1, <1>3 DEF CaptureSettled, Open, NoClient
<1>4. CASE d = c /\ clients[c].phase # "abandoned"
  <2>1. clients'[d] = [clients[d] EXCEPT !.phase = "up"]
    BY <1>1, <1>4 DEF CaptureSettled
  <2>2. clients'[d].phase = "up" /\ clients'[d].gen = clients[d].gen
    BY <1>1, <2>1 DEF Client, NoClient
  <2> QED BY <1>4, <2>2 DEF Open
<1> QED BY <1>2, <1>3, <1>4

\* SignalingCurrent is inductive, given the types.
LEMMA SignalingCurrentKept ==
  ASSUME TypeOK, SignalingCurrent, [Next]_vars
  PROVE  SignalingCurrent'
<1> USE DEF SignalingCurrent, Closed, Open
<1>1. ASSUME UNCHANGED <<generation, signaling, clients>>, Closed => Closed'
      PROVE  SignalingCurrent'
  BY <1>1
<1>2. ASSUME NEW call \in calls, CallStep(call)
      PROVE  SignalingCurrent'
  <2>1. ASSUME NEW prev, NEW from, Commit(call, prev, from) PROVE SignalingCurrent'
    BY <2>1 DEF Commit
  <2>2. CASE CallRejected(call)
    BY <2>2 DEF CallRejected
  <2>3. CASE TicketIssued(call)
    BY <2>1, <2>3 DEF TicketIssued
  <2>4. CASE MediaStopped(call)
    BY <2>1, <2>4 DEF MediaStopped
  <2>5. CASE FinishTakeover(call)
    <3>1. call.gen \in Generations
      BY DEF TypeOK, Call
    <3> QED BY <2>5, <3>1, StartKeepsSignaling DEF FinishTakeover
  <2> QED BY <1>2, <2>2, <2>3, <2>4, <2>5 DEF CallStep, IssueFails, StopFails
<1>3. ASSUME RetryFires PROVE SignalingCurrent'
  <2>1. retry \in Generations
    BY <1>3 DEF RetryFires, TypeOK, Generations
  <2> QED BY <1>3, <2>1, StartKeepsSignaling DEF RetryFires, ticketVars
<1>4. ASSUME NEW c \in Slots, ClientStep(c) PROVE SignalingCurrent'
  <2>0. signaling \in Slots \cup {None} /\ clients \in [Slots -> Client]
    BY DEF TypeOK
  <2>1. CASE ClientPaired(c)
    <3>1. ASSUME NEW s \in Slots
          PROVE  /\ Open(s) => clients'[s].phase \in {"connecting", "preparing", "up"}
                 /\ clients'[s].gen = clients[s].gen
      BY <2>0, <2>1 DEF ClientPaired, Client, NoClient
    <3> QED BY <2>0, <2>1, <3>1 DEF ClientPaired, Fail, Terminate, ticketVars
  <2>2. CASE CapturePrepared(c)
    BY <2>0, <2>2, CaptureSettledKeepsOpen DEF CapturePrepared, ticketVars
  <2>3. CASE ViewerLeaves(c)
    BY <2>3 DEF ViewerLeaves
  <2>4. ASSUME NEW retryable \in BOOLEAN, ClientFails(c, retryable) PROVE SignalingCurrent'
    <3>1. CASE Current(c)
      BY <2>4, <3>1 DEF ClientFails
    <3>2. CASE ~Current(c)
      BY <2>0, <2>4, <3>2, CloseClientSparesOthers DEF ClientFails, Current, ticketVars
    <3> QED BY <3>1, <3>2
  <2>5. ASSUME NEW retryable \in BOOLEAN, CaptureFails(c, retryable) PROVE SignalingCurrent'
    <3>1. CASE Current(c)
      BY <2>5, <3>1 DEF CaptureFails
    <3>2. CASE ~Current(c)
      BY <2>0, <2>5, <3>2, CaptureSettledKeepsOpen DEF CaptureFails, ClosedBehind, Current, ticketVars
    <3> QED BY <3>1, <3>2
  <2> QED BY <1>4, <2>1, <2>2, <2>3, <2>4, <2>5 DEF ClientStep
<1>5. CASE HandleControl
  BY <1>5 DEF HandleControl, Drained, Obey, Refuse, Fail, Terminate, ticketVars
<1>6. CASE CleanupStopsMedia \/ CleanupSignalingClosed
  BY <1>6 DEF CleanupStopsMedia, CleanupSignalingClosed
<1>7. CASE SessionFails \/ Close
  BY <1>7 DEF SessionFails, Close, Fail, Terminate, ticketVars
<1>8. CASE \/ \E g \in Generations : RequestTicket(g)
           \/ TicketExpires \/ MediaDisconnects \/ MediaReturns
           \/ \E m \in inbox : MessageArrives(m)
           \/ \E suspended \in BOOLEAN : SuspensionChanged(suspended)
           \/ \E succeeds \in BOOLEAN : CleanupEnds(succeeds)
  BY <1>8 DEF RequestTicket, TicketExpires, MediaDisconnects, MediaReturns, MessageArrives,
     SuspensionChanged, CleanupEnds, ticketVars
<1>9. CASE UNCHANGED vars
  BY <1>9 DEF vars
<1> QED BY <1>2, <1>3, <1>4, <1>5, <1>6, <1>7, <1>8, <1>9 DEF Next

\* However tickets, retries, departures and failures interleave, overlapping
\* createViewerTicket calls included, the client the Session listens to is one
\* that has not failed and negotiates for the current generation.
THEOREM SignalingAlwaysCurrent == Spec => []SignalingCurrent
<1>1. Init => TypeOK /\ SignalingCurrent
  BY InitTyped DEF Init, SignalingCurrent, Closed
<1>2. TypeOK /\ SignalingCurrent /\ [Next]_vars => TypeOK' /\ SignalingCurrent'
  BY TypePreserved, SignalingCurrentKept
<1> QED BY <1>1, <1>2, PTL DEF Spec
-----------------------------------------------------------------------------
(* After #closed is set *)

\* No retry outlives the termination, which cancels it when it sets #closed.
RetryOffWhenClosed == Closed => retry = 0

\* What a step of a closed Session may do.
NothingStarted ==
  /\ \A c \in Slots : Open(c)' => Open(c)
  /\ media' \in {0, media}
  /\ retry' = 0

\* RetryOffWhenClosed is inductive, and what was suspended when the Session
\* closed starts nothing.
LEMMA ClosedStep ==
  ASSUME TypeOK, RetryOffWhenClosed, [Next]_vars
  PROVE  RetryOffWhenClosed' /\ (Closed => NothingStarted)
<1> DEFINE Goal == RetryOffWhenClosed' /\ (Closed => NothingStarted)
<1> USE DEF RetryOffWhenClosed, NothingStarted, Closed
<1>0. clients \in [Slots -> Client] /\ NoClient.phase = "none"
  BY DEF TypeOK, NoClient
<1>1. ASSUME NEW c, CloseClient(c), NEW d \in Slots
      PROVE  Open(d)' => Open(d)
  <2>1. CASE d # c
    BY <1>0, <1>1, <2>1 DEF CloseClient, Open
  <2>2. CASE d = c /\ clients[d].phase = "preparing"
    BY <2>2 DEF Open
  <2>3. CASE d = c /\ clients[d].phase # "preparing"
    BY <1>0, <1>1, <2>3 DEF CloseClient, Open, NoClient
  <2> QED BY <2>1, <2>2, <2>3
<1>2. ASSUME NEW c \in Slots, CaptureSettled(c), clients[c].phase \in {"preparing", "abandoned"},
             NEW d \in Slots
      PROVE  Open(d)' => Open(d)
  <2>1. CASE d # c
    BY <1>0, <1>2, <2>1 DEF CaptureSettled, Open
  <2>2. CASE d = c /\ clients[c].phase = "preparing"
    BY <2>2 DEF Open
  <2>3. CASE d = c /\ clients[c].phase = "abandoned"
    BY <1>0, <1>2, <2>3 DEF CaptureSettled, Open
  <2> QED BY <1>2, <2>1, <2>2, <2>3
<1>3. ASSUME UNCHANGED <<clients, media, retry, termination>>
      PROVE  Goal
  BY <1>3 DEF Open
<1>4. ASSUME NEW call \in calls, CallStep(call) PROVE Goal
  <2>1. ASSUME NEW prev, NEW from, Commit(call, prev, from), NEW d \in Slots
        PROVE  Open(d)' => Open(d)
    BY <1>1, <2>1 DEF Commit, Open
  <2>2. CASE CallRejected(call)
    BY <1>3, <2>2 DEF CallRejected, mediaVars
  <2>3. CASE TicketIssued(call)
    <3>1. ASSUME NEW d \in Slots PROVE Open(d)' => Open(d)
      BY <2>1, <2>3 DEF TicketIssued, Open
    <3> QED BY <2>3, <3>1 DEF TicketIssued, mediaVars
  <2>4. CASE MediaStopped(call)
    <3>1. ASSUME NEW d \in Slots PROVE Open(d)' => Open(d)
      BY <2>1, <2>4 DEF MediaStopped
    <3> QED BY <2>4, <3>1 DEF MediaStopped, StopAcknowledged
  <2>5. CASE FinishTakeover(call)
    BY <2>5 DEF FinishTakeover, mediaVars, Open
  <2> QED BY <1>4, <2>2, <2>3, <2>4, <2>5 DEF CallStep, IssueFails, StopFails
<1>5. CASE RetryFires
  BY <1>5 DEF RetryFires
<1>6. ASSUME NEW c \in Slots, ClientStep(c) PROVE Goal
  <2>1. CASE ClientPaired(c)
    <3>1. ASSUME NEW d \in Slots PROVE Open(d)' => Open(d)
      BY <1>0, <2>1 DEF ClientPaired, Open
    <3> QED BY <2>1, <3>1 DEF ClientPaired, Current, Fail, Terminate, mediaVars
  <2>2. CASE CapturePrepared(c)
    <3>1. ASSUME NEW d \in Slots PROVE Open(d)' => Open(d)
      BY <1>2, <2>2 DEF CapturePrepared, Preparing
    <3> QED BY <2>2, <3>1 DEF CapturePrepared, Current
  <2>3. CASE ViewerLeaves(c)
    BY <2>3 DEF ViewerLeaves, Current, Fail, Terminate
  <2>4. ASSUME NEW retryable \in BOOLEAN, ClientFails(c, retryable) PROVE Goal
    <3>1. ASSUME NEW d \in Slots PROVE Open(d)' => Open(d)
      BY <1>1, <2>4 DEF ClientFails
    <3> QED BY <2>4, <3>1 DEF ClientFails, Current, GiveUpOrRetry, Fail, Terminate
  <2>5. ASSUME NEW retryable \in BOOLEAN, CaptureFails(c, retryable) PROVE Goal
    <3>1. CASE Closed
      <4>1. CaptureSettled(c) /\ clients[c].phase \in {"preparing", "abandoned"}
            /\ UNCHANGED <<retry, media, termination>>
        BY <2>5, <3>1 DEF CaptureFails, ClosedBehind, Current, Preparing
      <4>2. ASSUME NEW d \in Slots PROVE Open(d)' => Open(d)
        BY <1>2, <4>1
      <4> QED BY <4>1, <4>2
    <3>2. CASE ~Closed
      BY <2>5, <3>2 DEF CaptureFails, GiveUpOrRetry
    <3> QED BY <3>1, <3>2
  <2> QED BY <1>6, <2>1, <2>2, <2>3, <2>4, <2>5 DEF ClientStep
<1>7. CASE HandleControl
  BY <1>7 DEF HandleControl, Drained, Obey, Refuse, Fail, Terminate, Open
<1>8. CASE CleanupStopsMedia \/ CleanupSignalingClosed
  <2>1. CASE CleanupStopsMedia
    <3>1. ASSUME NEW d \in Slots PROVE Open(d)' => Open(d)
      BY <1>1, <2>1 DEF CleanupStopsMedia
    <3> QED BY <2>1, <3>1 DEF CleanupStopsMedia
  <2>2. CASE CleanupSignalingClosed
    BY <2>2 DEF CleanupSignalingClosed, mediaVars, Open
  <2> QED BY <1>8, <2>1, <2>2
<1>9. CASE SessionFails \/ Close
  BY <1>9 DEF SessionFails, Close, Fail, Terminate, mediaVars, Open
<1>10. CASE \E succeeds \in BOOLEAN : CleanupEnds(succeeds)
  BY <1>10 DEF CleanupEnds, mediaVars, Open
<1>11. CASE \/ \E g \in Generations : RequestTicket(g)
            \/ TicketExpires \/ MediaReturns
            \/ \E m \in inbox : MessageArrives(m)
            \/ \E suspended \in BOOLEAN : SuspensionChanged(suspended)
  BY <1>3, <1>11 DEF RequestTicket, TicketExpires, MediaReturns, MessageArrives,
     SuspensionChanged, mediaVars
<1>12. CASE MediaDisconnects
  BY <1>12 DEF MediaDisconnects, Open
<1>13. CASE UNCHANGED vars
  BY <1>3, <1>13 DEF vars
<1> QED BY <1>4, <1>5, <1>6, <1>7, <1>8, <1>9, <1>10, <1>11, <1>12, <1>13 DEF Next

\* Whatever was suspended when close or a failure set #closed (a ticket under
\* way, a capture being prepared, a pairing, an armed retry) opens no client,
\* starts no publisher and arms no retry when it resumes.
THEOREM ClosedSessionStartsNothing == Spec => ClosedStartsNothing
<1>1. Init => TypeOK /\ RetryOffWhenClosed
  BY InitTyped DEF Init, RetryOffWhenClosed
<1>2. TypeOK /\ RetryOffWhenClosed /\ [Next]_vars => TypeOK' /\ RetryOffWhenClosed'
  BY TypePreserved, ClosedStep
<1>3. TypeOK /\ RetryOffWhenClosed /\ [Next]_vars =>
        [Closed => /\ \A c \in Slots : Open(c)' => Open(c)
                   /\ media' \in {0, media}
                   /\ retry' = 0]_vars
  BY ClosedStep DEF NothingStarted
<1> QED BY <1>1, <1>2, <1>3, PTL DEF Spec, ClosedStartsNothing
-----------------------------------------------------------------------------
(* The lifecycle *)

\* The transitions the proofs below rely on.
LEMMA TransitionFacts ==
  /\ \A s \in {"NEGOTIATING", "RECONNECTING"} :
       Lifecycle!CanTransition(s, "READY") /\ Lifecycle!CanTransition(s, "CONNECTED")
  /\ Lifecycle!CanTransition("READY", "NEGOTIATING")
  /\ \A s \in {"CONNECTED", "SUSPENDED"} : Lifecycle!CanTransition(s, "RECONNECTING")
BY DEF Lifecycle!CanTransition, Lifecycle!LegalTransitions, Lifecycle!States

\* Only a Session that has a generation has a Viewer to retire.
RetiringIssued == \A call \in calls : Retiring(call) => generation # 0

\* The state moves by a legal transition or stays.
LegalMove == state' = state \/ Lifecycle!CanTransition(state, state')

\* A step that keeps the generation and what a takeover remembers, or forgets it.
LegalStep ==
  /\ generation' = generation
  /\ \/ LegalMove /\ Remembered' = Remembered
     \/ state' = state /\ Remembered' = "none"

\* What is remembered depends on the calls alone, and of one call it is what the
\* call has read.
LEMMA RememberedOfCalls ==
  /\ calls' = calls => Remembered' = Remembered
  /\ calls' = {} => Remembered' = "none"
  /\ \A call : calls = {call} => Remembered = IF Retiring(call) THEN call.from ELSE "none"
  /\ \A call : calls' = {call} => Remembered' = IF Retiring(call) THEN call.from ELSE "none"
<1>1. calls' = calls => Remembered' = Remembered
  BY DEF Remembered, Retiring
<1>2. calls' = {} => Remembered' = "none"
  BY DEF Remembered
<1>3. ASSUME NEW call, calls = {call}
      PROVE  Remembered = IF Retiring(call) THEN call.from ELSE "none"
  BY <1>3 DEF Remembered, Retiring
<1>4. ASSUME NEW call, calls' = {call}
      PROVE  Remembered' = IF Retiring(call) THEN call.from ELSE "none"
  BY <1>4 DEF Remembered, Retiring
<1> QED BY <1>1, <1>2, <1>3, <1>4

\* A commit issues the generation: from the state the takeover remembers if the
\* Session is still in it, else as an overtaken one.
LEMMA CommitIssues ==
  ASSUME TypeOK, OneFreshCall,
         NEW call \in calls, call.step # "close",
         NEW prev, NEW from \in Lifecycle!States, Commit(call, prev, from),
         IF generation = 0 THEN Remembered = "none" /\ from = state ELSE Remembered = from
  PROVE  (Lifecycle!Issue \/ Lifecycle!IssueOvertaken) /\ RetiringIssued'
<1>1. generation' \in generation + 1 .. MaxGeneration
  <2>1. generation' = call.gen /\ call.gen > generation /\ call.gen \in Generations
    BY DEF Commit, OneFreshCall, TypeOK, Call
  <2> QED BY <2>1, CoreSessionAssumption DEF Generations, TypeOK
<1>2. calls' = {} \/ calls' = {Suspended(call.gen, "close", prev, "READY")}
  <2>1. calls \ {call} = {}
    BY DEF OneFreshCall
  <2> QED BY <2>1 DEF Commit
<1>3. Remembered' = "none" /\ RetiringIssued'
  BY <1>2, RememberedOfCalls DEF RetiringIssued, Retiring, Suspended
<1>4. TakeoverState(from) = Lifecycle!NegotiatesIn(from)
  BY DEF TakeoverState, Lifecycle!NegotiatesIn
<1>5. CASE from = state
  <2>1. TakeoverState(from) = from \/ Lifecycle!CanTransition(state, TakeoverState(from))
    BY <1>5, TransitionFacts DEF TakeoverState
  <2>2. state' = Lifecycle!NegotiatesIn(state)
    BY <1>4, <1>5, <2>1 DEF Commit
  <2> QED BY <1>1, <1>3, <1>5, <2>2 DEF Lifecycle!Issue
<1>6. CASE from # state
  <2>1. Remembered \in Lifecycle!States \ {state}
    BY <1>6
  <2>2. \/ state' = state
        \/ state' = Lifecycle!NegotiatesIn(Remembered) /\ Lifecycle!CanTransition(state, state')
    BY <1>4, <1>6 DEF Commit
  <2> QED BY <1>1, <1>3, <2>1, <2>2 DEF Lifecycle!IssueOvertaken
<1> QED BY <1>5, <1>6

\* The steps of createViewerTicket that neither retire a Viewer nor commit.
LEMMA TakeoverStepLegal ==
  ASSUME Concurrent = FALSE, TypeOK, OneFreshCall, RetiringIssued
  PROVE  /\ \A g \in Generations : RequestTicket(g) => LegalStep /\ RetiringIssued'
         /\ \A call \in calls : CallStep(call) =>
              /\ \/ LegalStep \/ Lifecycle!Retire \/ Lifecycle!Issue \/ Lifecycle!IssueOvertaken
              /\ RetiringIssued'
<1>1. ASSUME NEW g \in Generations, RequestTicket(g)
      PROVE  LegalStep /\ RetiringIssued'
  <2>1. calls' = {Suspended(g, "issue", None, "READY")}
    BY <1>1 DEF RequestTicket
  <2>2. Remembered' = "none" /\ RetiringIssued'
    BY <2>1, RememberedOfCalls DEF RetiringIssued, Retiring, Suspended
  <2> QED BY <1>1, <2>2 DEF RequestTicket, LegalStep
<1>2. ASSUME NEW call \in calls, CallStep(call)
      PROVE  /\ \/ LegalStep \/ Lifecycle!Retire \/ Lifecycle!Issue \/ Lifecycle!IssueOvertaken
             /\ RetiringIssued'
  <2>0. call \in Call /\ calls = {call}
    BY DEF TypeOK, OneFreshCall
  <2>1. ASSUME calls' = {} PROVE Remembered' = "none" /\ RetiringIssued'
    BY <2>1, RememberedOfCalls DEF RetiringIssued
  <2>2. CASE CallRejected(call)
    BY <2>0, <2>1, <2>2 DEF CallRejected, LegalStep
  <2>3. CASE TicketIssued(call)
    <3>0. call.step = "issue" /\ Remembered = "none"
      BY <2>0, <2>3, RememberedOfCalls DEF TicketIssued, Retiring
    <3>1. CASE generation = 0
      <4>1. Commit(call, signaling, state) /\ state \in Lifecycle!States
        BY <2>3, <3>1 DEF TicketIssued, TypeOK
      <4> QED BY <3>0, <3>1, <4>1, CommitIssues
    <3>2. CASE generation # 0
      <4> DEFINE after == Suspended(call.gen, "drain", signaling, state)
      <4>1. calls' = {after} /\ UNCHANGED <<state, generation>>
        BY <2>0, <2>3, <3>2 DEF TicketIssued
      <4>2. Retiring(after) /\ after.from = state
        BY DEF Retiring, Suspended
      <4> HIDE DEF after
      <4>3. Remembered' = state
        BY <4>1, <4>2, RememberedOfCalls
      <4> QED BY <3>0, <3>2, <4>1, <4>3 DEF Lifecycle!Retire, RetiringIssued
    <3> QED BY <3>1, <3>2
  <2>4. CASE MediaStopped(call)
    <3>1. Commit(call, call.prev, call.from) /\ call.step = "stop"
      BY <2>4 DEF MediaStopped
    <3>2. Remembered = call.from /\ generation # 0 /\ call.from \in Lifecycle!States
      BY <2>0, <3>1, RememberedOfCalls DEF Retiring, RetiringIssued, Call
    <3> QED BY <3>1, <3>2, CommitIssues
  <2>5. CASE FinishTakeover(call)
    <3>1. calls' = {} /\ generation' = generation
      BY <2>0, <2>5 DEF FinishTakeover
    <3>2. Remembered = "none"
      BY <2>0, <2>5, RememberedOfCalls DEF FinishTakeover, Retiring
    <3>3. LegalMove
      BY <2>5, TransitionFacts
      DEF FinishTakeover, StartNegotiation, FinishNegotiationFailure, Negotiating, LegalMove
    <3> QED BY <2>1, <3>1, <3>2, <3>3 DEF LegalStep
  <2> QED BY <1>2, <2>2, <2>3, <2>4, <2>5 DEF CallStep, IssueFails, StopFails
<1> QED BY <1>1, <1>2

\* A step that leaves the calls alone keeps what is remembered.
LEMMA MoveIsLegal ==
  ASSUME RetiringIssued, UNCHANGED <<generation, calls>>, LegalMove
  PROVE  LegalStep /\ RetiringIssued'
BY RememberedOfCalls DEF LegalStep, RetiringIssued

\* The events of signaling.
LEMMA SignalingStepLegal ==
  ASSUME RetiringIssued
  PROVE  /\ RetryFires \/ TicketExpires => LegalStep /\ RetiringIssued'
         /\ \A c \in Slots : ClientStep(c) => LegalStep /\ RetiringIssued'
<1>1. ASSUME Fail \/ FinishNegotiationFailure \/ state' = state PROVE LegalMove
  BY <1>1, TransitionFacts
  DEF Fail, Terminate, MoveIfLegal, FinishNegotiationFailure, Negotiating, LegalMove
<1>2. ASSUME RetryFires \/ TicketExpires
      PROVE  UNCHANGED <<generation, calls>> /\ LegalMove
  BY <1>1, <1>2 DEF RetryFires, TicketExpires, StartNegotiation, ticketVars
<1>3. ASSUME NEW c \in Slots, ClientStep(c)
      PROVE  UNCHANGED <<generation, calls>> /\ LegalMove
  <2>1. UNCHANGED <<generation, calls>>
    BY <1>3 DEF ClientStep, ClientPaired, CapturePrepared, ViewerLeaves, ClientFails, CaptureFails,
                ticketVars
  <2>2. CASE ViewerLeaves(c) /\ mediaUp
    BY <2>1, <2>2, TransitionFacts DEF ViewerLeaves, LegalMove
  <2>3. CASE ~(ViewerLeaves(c) /\ mediaUp)
    BY <1>1, <1>3, <2>1, <2>3
    DEF ClientStep, ClientPaired, CapturePrepared, ViewerLeaves, ClientFails, CaptureFails,
        GiveUpOrRetry
  <2> QED BY <2>1, <2>2, <2>3
<1> QED BY <1>2, <1>3, MoveIsLegal

\* The control chain, the media runtime, failure and cleanup.
LEMMA OtherStepLegal ==
  ASSUME TypeOK, OneFreshCall, RetiringIssued
  PROVE  /\ \A m \in inbox : MessageArrives(m) => LegalStep /\ RetiringIssued'
         /\ HandleControl => LegalStep /\ RetiringIssued'
         /\ \A b \in BOOLEAN : SuspensionChanged(b) \/ CleanupEnds(b) =>
              LegalStep /\ RetiringIssued'
         /\ MediaDisconnects \/ MediaReturns => LegalStep /\ RetiringIssued'
         /\ SessionFails \/ Close \/ CleanupStopsMedia \/ CleanupSignalingClosed =>
              LegalStep /\ RetiringIssued'
<1>1. \A m \in inbox : MessageArrives(m) => LegalStep /\ RetiringIssued'
  BY MoveIsLegal DEF MessageArrives, ticketVars, LegalMove
<1>2. ASSUME HandleControl PROVE LegalStep /\ RetiringIssued'
  <2>1. ASSUME NEW g, Drained(g) PROVE LegalStep /\ RetiringIssued'
    <3>1. PICK call \in calls :
            /\ call.gen = g /\ call.step = "drain"
            /\ calls' = (calls \ {call}) \cup
                          (IF mediaUp THEN {Suspended(g, "stop", call.prev, call.from)} ELSE {})
      BY <2>1 DEF Drained
    <3>2. calls = {call} /\ generation # 0
      BY <3>1 DEF OneFreshCall, RetiringIssued, Retiring
    <3>3. Remembered = call.from
      BY <3>1, <3>2, RememberedOfCalls DEF Retiring
    <3>4. UNCHANGED <<state, generation>>
      BY <2>1 DEF Drained
    <3>5. CASE mediaUp
      <4> DEFINE after == Suspended(g, "stop", call.prev, call.from)
      <4>1. calls' = {after}
        BY <3>1, <3>2, <3>5
      <4>2. Retiring(after) /\ after.from = call.from
        BY DEF Suspended, Retiring
      <4> HIDE DEF after
      <4>3. Remembered' = call.from
        BY <4>1, <4>2, RememberedOfCalls
      <4> QED BY <3>2, <3>3, <3>4, <4>3 DEF LegalStep, LegalMove, RetiringIssued
    <3>6. CASE ~mediaUp
      <4>1. calls' = {}
        BY <3>1, <3>2, <3>6
      <4> QED BY <3>4, <4>1, RememberedOfCalls DEF LegalStep, RetiringIssued
    <3> QED BY <3>5, <3>6
  <2>2. ASSUME (Obey(Head(chain)) /\ Expected(Head(chain))) \/ Refuse PROVE LegalMove
    BY <2>2, TransitionFacts
    DEF Obey, Expected, MoveTo, Negotiating, Refuse, Fail, Terminate, MoveIfLegal, LegalMove
  <2> QED BY <1>2, <2>1, <2>2, MoveIsLegal DEF HandleControl, ticketVars
<1>3. \A b \in BOOLEAN : SuspensionChanged(b) \/ CleanupEnds(b) => LegalStep /\ RetiringIssued'
  BY MoveIsLegal DEF SuspensionChanged, CleanupEnds, MoveIfLegal, LegalMove, ticketVars
<1>4. CASE MediaDisconnects
  <2>1. calls' = {call \in calls : call.step # "stop"} /\ UNCHANGED <<state, generation>>
    BY <1>4 DEF MediaDisconnects
  <2>2. calls' = {} \/ calls' = calls
    BY <2>1 DEF OneFreshCall
  <2> QED BY <2>1, <2>2, RememberedOfCalls DEF LegalStep, LegalMove, RetiringIssued
<1>5. MediaReturns => LegalStep /\ RetiringIssued'
  BY MoveIsLegal DEF MediaReturns, LegalMove, ticketVars
<1>6. SessionFails \/ Close \/ CleanupStopsMedia \/ CleanupSignalingClosed =>
        LegalStep /\ RetiringIssued'
  BY MoveIsLegal DEF SessionFails, Close, CleanupStopsMedia, CleanupSignalingClosed, Fail, Terminate,
     MoveIfLegal, LegalMove, ticketVars
<1> QED BY <1>1, <1>2, <1>3, <1>4, <1>5, <1>6

\* A Session implements its lifecycle for every Embedder that awaits each ticket,
\* whatever the retiring Viewer and the media runtime do meanwhile: every step is
\* a legal transition, the beginning or the end of a takeover, or the issue of a
\* newer generation, which takes the Session to negotiation in the same step unless
\* the Session has left the state the takeover remembers.
THEOREM LifecycleImplemented ==
  ASSUME Concurrent = FALSE
  PROVE  Spec => ImplementsLifecycle
<1> DEFINE Inv == TypeOK /\ OneFreshCall /\ RetiringIssued
<1> DEFINE Promised == [Lifecycle!Next]_<<state, generation, Remembered>>
<1>1. Init => Inv /\ Lifecycle!Init
  BY InitTyped DEF Init, OneFreshCall, RetiringIssued, Remembered, Lifecycle!Init
<1>2. Inv /\ Next =>
        /\ LegalStep \/ Lifecycle!Retire \/ Lifecycle!Issue \/ Lifecycle!IssueOvertaken
        /\ RetiringIssued'
  BY TakeoverStepLegal, SignalingStepLegal, OtherStepLegal DEF Next
<1>3. LegalStep => Promised
  BY DEF LegalStep, LegalMove, Lifecycle!Next, Lifecycle!Move, Lifecycle!GiveUp
<1>4. Inv /\ UNCHANGED vars => RetiringIssued' /\ Promised
  BY RememberedOfCalls DEF vars, RetiringIssued
<1>5. Inv /\ [Next]_vars => Inv' /\ Promised
  BY <1>2, <1>3, <1>4, TypePreserved, GenerationStep DEF Lifecycle!Next
<1> HIDE DEF Inv
<1> QED BY <1>1, <1>5, PTL DEF Spec, ImplementsLifecycle, Lifecycle!Spec

-----------------------------------------------------------------------------
(* Who is served, and for whom the Extension publishes *)

\* A reply of the media runtime makes the Session CONNECTED or SUSPENDED without
\* naming a generation: none may be under way for a generation not greeted.
GreetingKnown ==
  /\ ServedIsGreeted
  /\ replies # {} => greeted # "no"
  /\ generation = 0 => ~Served /\ replies = {}

LEMMA GreetingStep ==
  ASSUME TypeOK, GreetingKnown, [Next]_vars
  PROVE  GreetingKnown'
<1> USE DEF GreetingKnown, ServedIsGreeted, Served
<1>1. ASSUME UNCHANGED <<generation, greeted>>, replies' \subseteq replies,
             state' \in {"CONNECTED", "SUSPENDED"} => state' = state
      PROVE  GreetingKnown'
  BY <1>1
<1>2. ASSUME NEW call \in calls, CallStep(call) PROVE GreetingKnown'
  <2>0. call.gen # 0
    BY DEF TypeOK, Call, Generations
  <2>1. CASE CallRejected(call)
    BY <1>1, <2>1 DEF CallRejected, mediaVars
  <2>2. CASE TicketIssued(call) /\ generation = 0
    <3>1. Commit(call, signaling, state) /\ replies' = {}
      BY <2>2 DEF TicketIssued, mediaVars
    <3> QED BY <2>0, <3>1 DEF Commit
  <2>3. CASE TicketIssued(call) /\ generation # 0
    BY <1>1, <2>3 DEF TicketIssued, mediaVars
  <2>4. CASE MediaStopped(call)
    BY <2>0, <2>4 DEF MediaStopped, Commit, StopAcknowledged
  <2>5. CASE FinishTakeover(call)
    BY <1>1, <2>5 DEF FinishTakeover, StartNegotiation, FinishNegotiationFailure, mediaVars
  <2> QED BY <1>2, <2>1, <2>2, <2>3, <2>4, <2>5 DEF CallStep, IssueFails, StopFails
<1>3. ASSUME NEW c \in Slots, ClientStep(c) PROVE GreetingKnown'
  <2>1. UNCHANGED <<generation, greeted, replies>>
    BY <1>3 DEF ClientStep, ClientPaired, CapturePrepared, ViewerLeaves, ClientFails, CaptureFails,
                ticketVars, mediaVars
  <2>2. state' \in {state, "READY", "RECONNECTING", "FAILED"}
    BY <1>3 DEF ClientStep, ClientPaired, CapturePrepared, ViewerLeaves, ClientFails, CaptureFails,
                GiveUpOrRetry, FinishNegotiationFailure, Fail, Terminate, MoveIfLegal
  <2> QED BY <1>1, <2>1, <2>2
<1>4. CASE HandleControl
  <2>1. CASE Head(chain).kind = "drain"
    BY <1>1, <1>4, <2>1 DEF HandleControl, Drained
  <2>2. CASE Head(chain).kind # "drain"
    <3> DEFINE m == Head(chain)
    <3>1. generation' = generation /\ chain \in Seq(ChainItem) /\ chain # <<>>
      BY <1>4, <2>2 DEF HandleControl, ticketVars, TypeOK
    <3>2. m \in ChainItem
      BY <3>1
    <3>3. m.gen # 0
      BY <3>2 DEF ChainItem, Generations
    <3> HIDE DEF m
    <3>4. CASE Admitted(m) /\ Expected(m) /\ Obey(m) /\ m.kind = "hello"
      BY <3>1, <3>3, <3>4 DEF Admitted, Obey
    <3>5. CASE Admitted(m) /\ Expected(m) /\ Obey(m) /\ m.kind # "hello"
      BY <3>1, <3>3, <3>5 DEF Admitted, Expected, Obey
    <3>6. CASE Refuse
      BY <1>1, <3>1, <3>6 DEF Refuse, Fail, Terminate, MoveIfLegal
    <3> QED BY <1>4, <2>2, <3>4, <3>5, <3>6 DEF HandleControl, m
  <2> QED BY <2>1, <2>2
<1>5. ASSUME NEW suspended \in BOOLEAN, SuspensionChanged(suspended) PROVE GreetingKnown'
  <2>1. replies # {} /\ replies' \subseteq replies /\ UNCHANGED <<generation, greeted>>
    BY <1>5 DEF SuspensionChanged, ticketVars
  <2> QED BY <2>1
<1>6. CASE \/ \E g \in Generations : RequestTicket(g)
           \/ TicketExpires \/ RetryFires \/ MediaDisconnects \/ MediaReturns
           \/ \E m \in inbox : MessageArrives(m)
  BY <1>1, <1>6 DEF RequestTicket, TicketExpires, RetryFires, StartNegotiation,
     FinishNegotiationFailure, MediaDisconnects, MediaReturns, MessageArrives, ticketVars, mediaVars
<1>7. CASE \/ SessionFails \/ Close \/ CleanupStopsMedia \/ CleanupSignalingClosed
           \/ \E succeeds \in BOOLEAN : CleanupEnds(succeeds)
  BY <1>1, <1>7 DEF SessionFails, Close, Fail, Terminate, MoveIfLegal, CleanupStopsMedia,
     CleanupSignalingClosed, CleanupEnds, ticketVars, mediaVars
<1>8. CASE UNCHANGED vars
  BY <1>1, <1>8 DEF vars
<1> QED BY <1>2, <1>3, <1>4, <1>5, <1>6, <1>7, <1>8 DEF Next

\* However takeovers, even overlapping ones, late messages and late replies
\* interleave, a Session that is CONNECTED or SUSPENDED was served when its
\* generation was issued or has accepted a hello of that generation since: what
\* was meant for the Viewer before does not get a negotiating Session there.
THEOREM ServedAlwaysGreeted == Spec => []ServedIsGreeted
<1>1. Init => GreetingKnown
  BY DEF Init, GreetingKnown, ServedIsGreeted, Served
<1>2. TypeOK /\ GreetingKnown /\ [Next]_vars => GreetingKnown'
  BY GreetingStep
<1>3. GreetingKnown => ServedIsGreeted
  BY DEF GreetingKnown
<1> QED BY <1>1, <1>2, <1>3, TypeCorrect, PTL DEF Spec

\* A publisher is started only for the generation that is current at that moment.
LEMMA PublisherStep ==
  ASSUME SignalingCurrent, Next
  PROVE  media' \in {0, media, generation}
<1>1. ASSUME NEW call \in calls, CallStep(call) PROVE media' = media
  BY <1>1 DEF CallStep, IssueFails, StopFails, CallRejected, TicketIssued, MediaStopped,
              StopAcknowledged, FinishTakeover, mediaVars
<1>2. ASSUME NEW c \in Slots, ClientStep(c) PROVE media' \in {0, media, generation}
  <2>1. CASE CapturePrepared(c) /\ Current(c)
    <3>1. media' = clients[c].gen /\ signaling # None /\ ~Closed /\ signaling = c
      BY <2>1, CoreSessionAssumption DEF CapturePrepared, Current
    <3> QED BY <3>1 DEF SignalingCurrent
  <2>2. CASE ~(CapturePrepared(c) /\ Current(c))
    BY <1>2, <2>2 DEF ClientStep, ClientPaired, CapturePrepared, ViewerLeaves, ClientFails,
                      CaptureFails, GiveUpOrRetry, mediaVars
  <2> QED BY <2>1, <2>2
<1>3. HandleControl => media' \in {0, media}
  BY DEF HandleControl, Drained
<1>4. ASSUME \/ \E g \in Generations : RequestTicket(g)
             \/ \E m \in inbox : MessageArrives(m)
             \/ \E b \in BOOLEAN : SuspensionChanged(b) \/ CleanupEnds(b)
      PROVE  media' = media
  BY <1>4 DEF RequestTicket, MessageArrives, SuspensionChanged, CleanupEnds, mediaVars
<1>5. ASSUME \/ TicketExpires \/ RetryFires \/ MediaDisconnects \/ MediaReturns
             \/ SessionFails \/ Close \/ CleanupStopsMedia \/ CleanupSignalingClosed
      PROVE  media' \in {0, media}
  BY <1>5 DEF TicketExpires, RetryFires, MediaDisconnects, MediaReturns, SessionFails, Close,
              CleanupStopsMedia, CleanupSignalingClosed, mediaVars
<1> QED BY <1>1, <1>2, <1>3, <1>4, <1>5 DEF Next

\* However many clients and takeovers, overlapping ones included, come and go
\* while a capture is prepared, startMedia is sent for the generation that is
\* current at that moment or not at all.
THEOREM PublisherAlwaysCurrent == Spec => PublishesCurrent
<1>1. SignalingCurrent /\ [Next]_vars => [media' \in {0, media, generation}]_vars
  BY PublisherStep
<1> QED BY <1>1, SignalingAlwaysCurrent, PTL DEF Spec, PublishesCurrent

\* What a Session listens to belongs to its current generation, and what serves it
\* was greeted or inherited by it.
THEOREM SessionConsistent == Spec => []Consistent
<1>1. TypeOK /\ SignalingCurrent /\ ServedIsGreeted => Consistent
  BY DEF Consistent
<1> QED BY <1>1, TypeCorrect, SignalingAlwaysCurrent, ServedAlwaysGreeted, PTL

-----------------------------------------------------------------------------
(***************************************************************************)
(* The uploads and downloads of a Session: theorems about FileTransfers.   *)
(* For any files, sizes and limits, the bytes of the temporary budget are  *)
(* those of files that may exist, and within bounds; and the sink is told  *)
(* one thing of each download it keeps.                                    *)
(***************************************************************************)
CONSTANTS Offers, Drops, Bytes, Guids, Size, MaxTemporary, MaxFiles, Regrants,
          MaxFileChain, MaxFileGeneration, NoFile

VARIABLES sink, viewer, fileGeneration, takeover, grants, fileChain, step, chooser, transfer, upload,
          written, uploadBytes, chrome, downloadBytes, sources, commits, held, aborts, offered,
          cancelling, ending, outcome

FT == INSTANCE FileTransfers
        WITH MaxChain <- MaxFileChain, MaxGeneration <- MaxFileGeneration, None <- NoFile,
             generation <- fileGeneration, chain <- fileChain

\* FileTransfers counts as this module does.
LEMMA SameFinite == \A S : FT!IsFiniteSet(S) <=> IsFiniteSet(S)
  BY DEF FT!IsFiniteSet, IsFiniteSet

LEMMA SameCount == \A S : FT!Cardinality(S) = Cardinality(S)
  BY DEF FT!Cardinality, Cardinality

-----------------------------------------------------------------------------
(* Sums over finite sets.                                                  *)

Units(f, x) == {x} \X (1..f[x])
Tokens(f, S) == UNION {Units(f, x) : x \in S}

LEMMA UnitsOfOne ==
  ASSUME NEW f, NEW x, f[x] \in Nat
  PROVE  IsFiniteSet(Units(f, x)) /\ Cardinality(Units(f, x)) = f[x]
<1>1. IsFiniteSet({x}) /\ Cardinality({x}) = 1
  BY FS_Singleton
<1>2. IsFiniteSet(1..f[x]) /\ Cardinality(1..f[x]) = f[x]
  BY FS_Interval
<1>3. /\ IsFiniteSet({x} \X (1..f[x]))
      /\ Cardinality({x} \X (1..f[x])) = Cardinality({x}) * Cardinality(1..f[x])
  BY <1>1, <1>2, FS_Product
<1> QED BY <1>1, <1>2, <1>3 DEF Units

LEMMA TokensFinite ==
  ASSUME NEW f, NEW S, IsFiniteSet(S), \A x \in S : f[x] \in Nat
  PROVE  IsFiniteSet(Tokens(f, S))
<1> DEFINE T == {Units(f, x) : x \in S}
           u == [x \in S |-> Units(f, x)]
<1>1. u \in Surjection(S, T)
  BY DEF Surjection
<1>2. IsFiniteSet(T)
  BY <1>1, FS_Surjection
<1>3. \A U \in T : IsFiniteSet(U)
  BY UnitsOfOne
<1> QED BY <1>2, <1>3, FS_UNION DEF Tokens

LEMMA SumIsCount ==
  ASSUME NEW f, NEW S, IsFiniteSet(S), \A x \in S : f[x] \in Nat
  PROVE  FT!SumOf(f, S) = Cardinality(Tokens(f, S)) /\ FT!SumOf(f, S) \in Nat
<1>1. FT!SumOf(f, S) = Cardinality(Tokens(f, S))
  BY SameCount DEF FT!SumOf, Tokens, Units
<1> QED BY <1>1, TokensFinite, FS_CardinalityType

LEMMA SumEmpty == \A f : FT!SumOf(f, {}) = 0
<1> TAKE f
<1>1. Tokens(f, {}) = {}
  BY DEF Tokens
<1> QED BY <1>1, FS_EmptySet, SumIsCount

LEMMA SumSame ==
  ASSUME NEW f, NEW h, NEW S, \A x \in S : f[x] = h[x]
  PROVE  FT!SumOf(f, S) = FT!SumOf(h, S)
<1>1. {{x} \X (1..f[x]) : x \in S} = {{x} \X (1..h[x]) : x \in S}
  OBVIOUS
<1> QED BY <1>1 DEF FT!SumOf

LEMMA SumMono ==
  ASSUME NEW f, NEW S, NEW T, IsFiniteSet(S), T \subseteq S, \A x \in S : f[x] \in Nat
  PROVE  FT!SumOf(f, T) <= FT!SumOf(f, S)
<1>1. Tokens(f, T) \subseteq Tokens(f, S)
  BY DEF Tokens
<1>2. IsFiniteSet(T)
  BY FS_Subset
<1>3. Cardinality(Tokens(f, T)) <= Cardinality(Tokens(f, S))
  BY <1>1, TokensFinite, FS_Subset
<1> QED BY <1>2, <1>3, SumIsCount

LEMMA SumAdd ==
  ASSUME NEW f, NEW S, NEW y, IsFiniteSet(S), y \notin S, f[y] \in Nat, \A x \in S : f[x] \in Nat
  PROVE  FT!SumOf(f, S \cup {y}) = FT!SumOf(f, S) + f[y]
<1>1. Tokens(f, S \cup {y}) = Tokens(f, S) \cup Units(f, y)
  BY DEF Tokens
<1>2. Tokens(f, S) \cap Units(f, y) = {}
  <2> SUFFICES ASSUME NEW t \in Tokens(f, S), t \in Units(f, y)  PROVE FALSE
    OBVIOUS
  <2>1. PICK x \in S : t \in Units(f, x)
    BY DEF Tokens
  <2> QED BY <2>1 DEF Units
<1>3. IsFiniteSet(Tokens(f, S)) /\ IsFiniteSet(Units(f, y)) /\ Cardinality(Units(f, y)) = f[y]
  BY TokensFinite, UnitsOfOne
<1>4. Cardinality(Tokens(f, S) \cup Units(f, y))
        = Cardinality(Tokens(f, S)) + Cardinality(Units(f, y)) - Cardinality(Tokens(f, S) \cap Units(f, y))
  BY <1>3, FS_Union
<1>5. Cardinality(Tokens(f, S) \cup Units(f, y)) = Cardinality(Tokens(f, S)) + f[y]
  <2>1. Cardinality({}) = 0
    BY FS_EmptySet
  <2>2. Cardinality(Tokens(f, S)) \in Nat
    BY SumIsCount
  <2>3. Cardinality(Tokens(f, S) \cap Units(f, y)) = 0
    BY <1>2, <2>1, Zenon
  <2>4. Cardinality(Units(f, y)) = f[y]
    BY <1>3
  <2> QED BY <1>4, <2>2, <2>3, <2>4
<1>6. IsFiniteSet(S \cup {y}) /\ \A x \in S \cup {y} : f[x] \in Nat
  BY FS_AddElement
<1> QED BY <1>1, <1>5, <1>6, SumIsCount

\* What one member contributes, taken away
LEMMA SumRemove ==
  ASSUME NEW f, NEW S, NEW y \in S, IsFiniteSet(S), \A x \in S : f[x] \in Nat
  PROVE  FT!SumOf(f, S) = FT!SumOf(f, S \ {y}) + f[y]
<1>1. IsFiniteSet(S \ {y}) /\ S = (S \ {y}) \cup {y}
  BY FS_Subset
<1> QED BY <1>1, SumAdd

-----------------------------------------------------------------------------
(* The inductive invariant.                                                *)

SessionTypes ==
  /\ sink \in BOOLEAN /\ viewer \in BOOLEAN
  /\ fileGeneration \in 1..MaxFileGeneration /\ takeover \in {"no", "queued", "drained"}
  /\ grants \in SUBSET {"upload", "download"}

UploadTypes ==
  /\ chooser \in BOOLEAN /\ transfer \in Offers \cup {NoFile}
  /\ upload \in [Offers -> {"none", "reserving", "undoing", "active", "aborting", "gone", "delivered"}]
  /\ written \in SUBSET Offers /\ uploadBytes \in Nat

DownloadTypes ==
  /\ chrome \in [Guids -> {"none", "running", "done", "removing", "removed"}]
  /\ downloadBytes \in [Guids -> Nat \cup {NoFile}]
  /\ sources \in SUBSET Guids /\ held \in SUBSET Guids /\ aborts \in SUBSET Guids
  /\ outcome \in [Guids -> SUBSET {"committing", "committed", "aborted"}]

OfferTypes ==
  /\ commits \in [Guids -> {"no", "stat", "commit", "remove"}]
  /\ offered \in [Guids -> [at : {"none", "offered", "streaming"}, generation : 0..MaxFileGeneration]]

CancelTypes ==
  /\ cancelling \in [FT!Callers -> [at : {"idle", "upload", "commits", "offers", "sources", "aborts"},
                                for : SUBSET (Offers \cup Guids)]]
  /\ ending \in {"no", "commits", "flow", "tab", "storage", "disposed"}

\* What waits in the chain names what it is about.
Entries ==
  [op : FT!ViewerOps, arg : Offers] \cup [op : FT!DownloadOps \cup {"completed"}, arg : Guids]
    \cup [op : {"chooser", "departed", "takeover", "revoked"}, arg : {NoFile}]

\* The head of the chain at each step, and who awaits a cancellation there
ChainInv ==
  /\ fileChain \in Seq(Entries) /\ step \in FT!Steps
  /\ step # "start" => fileChain # <<>>
  /\ step \in {"reserve", "undo"} => fileChain[1].op = "offer"
  /\ step = "stat" => fileChain[1].op = "completed"

CancelHeld == cancelling["chain"] # FT!Idle => step = "cancel"

\* A takeover has its one entry in the chain, and a generation left.
Takeovers == {i \in DOMAIN fileChain : fileChain[i].op = "takeover"}
TakeoverInv ==
  /\ takeover # "no" => fileGeneration < MaxFileGeneration
  /\ Takeovers # {} => takeover = "queued"
  /\ \A i, j \in Takeovers : i = j

\* An upload is offered once; it holds nothing before its offer is at the head,
\* and the transfer is the one upload that is active.
OfferedAt(i) == fileChain[i].op = "offer" /\ (i > 1 \/ step = "start")
OffersInv ==
  /\ \A i \in DOMAIN fileChain : OfferedAt(i) => upload[fileChain[i].arg] = "none"
  /\ \A i, j \in DOMAIN fileChain :
       fileChain[i].op = "offer" /\ fileChain[j].op = "offer" /\ fileChain[i].arg = fileChain[j].arg => i = j
  /\ step = "reserve" => upload[fileChain[1].arg] = "reserving"
  /\ step = "undo" => upload[fileChain[1].arg] = "undoing"
  /\ transfer # NoFile => upload[transfer] = "active"

UploadsCounted == uploadBytes = FT!SumOf(Bytes, FT!Charged)

\* A download holds bytes only while Chrome has it, or Core looks at its file.
Examined(g) == FT!At("completed", "stat") /\ fileChain[1].arg = g
DiskInv ==
  /\ \A g \in FT!Reserved : chrome[g] \in {"running", "done", "removing"} \/ Examined(g) \/ FT!Closed
  /\ \A g \in Guids : chrome[g] \in {"running", "done"} => g \in FT!Reserved

FileTypes == SessionTypes /\ UploadTypes /\ DownloadTypes /\ OfferTypes /\ CancelTypes
FileInv ==
  /\ FileTypes /\ ChainInv /\ CancelHeld /\ TakeoverInv /\ OffersInv
  /\ UploadsCounted /\ DiskInv /\ FT!QuotaRespected

LEMMA FileConstants ==
  ASSUME FT!FileTransfersAssumption
  PROVE  /\ IsFiniteSet(Offers) /\ IsFiniteSet(Guids) /\ Drops \subseteq Offers
         /\ \A o \in Offers : Bytes[o] \in Nat
         /\ \A g \in Guids : Size[g] \in Nat
         /\ MaxTemporary \in Nat /\ MaxFiles \in Nat /\ MaxFileGeneration \in Nat /\ MaxFileGeneration > 0 /\ MaxFiles > 0
         /\ NoFile \notin Offers /\ NoFile \notin Guids /\ NoFile \notin Nat
  BY SameFinite DEF FT!FileTransfersAssumption

LEMMA ReservedFinite ==
  ASSUME FT!FileTransfersAssumption, DownloadTypes
  PROVE  /\ FT!Reserved \subseteq Guids /\ IsFiniteSet(FT!Reserved) /\ \A g \in FT!Reserved : downloadBytes[g] \in Nat
         /\ FT!SumOf(downloadBytes, FT!Reserved) \in Nat /\ Cardinality(FT!Reserved) \in Nat
<1>1. FT!Reserved \subseteq Guids /\ \A g \in FT!Reserved : downloadBytes[g] \in Nat
  BY DEF DownloadTypes, FT!Reserved
<1>2. IsFiniteSet(FT!Reserved)
  BY <1>1, FileConstants, FS_Subset
<1> QED BY <1>1, <1>2, SumIsCount, FS_CardinalityType

LEMMA ChargedFinite ==
  ASSUME FT!FileTransfersAssumption, UploadTypes
  PROVE  /\ FT!Charged \subseteq Offers /\ IsFiniteSet(FT!Charged)
         /\ \A o \in FT!Charged : Bytes[o] \in Nat
<1>1. FT!Charged \subseteq Offers
  BY DEF FT!Charged
<1> QED BY <1>1, FileConstants, FS_Subset

\* The kinds of an entry tell what it is about.
LEMMA EntryKinds ==
  ASSUME NEW e \in Entries
  PROVE  /\ e.op \in FT!ViewerOps => e.arg \in Offers
         /\ e.op \in FT!DownloadOps \cup {"completed"} => e.arg \in Guids
         /\ e.op \in {"offer", "chunk", "complete", "cancel"} => e.arg \in Offers
         /\ e.op \in {"accept", "result", "completed"} => e.arg \in Guids
         /\ e \in FT!Entry
  BY DEF Entries, FT!ViewerOps, FT!DownloadOps, FT!Entry, FT!Ops

LEMMA HeadEntry ==
  ASSUME ChainInv, fileChain # <<>>
  PROVE  fileChain[1] \in Entries /\ 1 \in DOMAIN fileChain
  BY DEF ChainInv

-----------------------------------------------------------------------------
(* What a step makes of the chain.                                         *)

\* The head goes on, or the chain is as it was, or something joins it.
Goes ==
  /\ fileChain # <<>>
  /\ FT!Pop \/ \E s \in {"write", "commit", "deliver", "cancel", "remove"} : FT!Await(s)
Joins(ops) ==
  \E op \in ops, arg \in Offers \cup Guids \cup {NoFile} :
    /\ [op |-> op, arg |-> arg] \in Entries /\ FT!Enqueue(op, arg)
    /\ op = "offer" => /\ upload[arg] = "none"
                       /\ \A i \in DOMAIN fileChain : fileChain[i] # [op |-> op, arg |-> arg]
Moves == UNCHANGED FT!chainVars \/ Goes \/ Joins(FT!Ops)

\* A head whose file is being looked at does not go on here, and no takeover joins.
ChainStep == UNCHANGED FT!chainVars \/ (Goes /\ ~FT!At("completed", "stat")) \/ Joins(FT!Ops \ {"takeover"})

LEMMA Moving == ChainStep => Moves
<1>1. Joins(FT!Ops \ {"takeover"}) => Joins(FT!Ops)
  BY DEF Joins
<1> QED BY <1>1 DEF ChainStep, Moves

LEMMA Enqueued ==
  ASSUME ChainInv, NEW op, NEW arg, FT!Enqueue(op, arg), [op |-> op, arg |-> arg] \in Entries
  PROVE  /\ ChainInv' /\ DOMAIN fileChain' = DOMAIN fileChain \cup {Len(fileChain) + 1} /\ step' = step
         /\ Len(fileChain) + 1 \notin DOMAIN fileChain
         /\ \A i \in DOMAIN fileChain : fileChain'[i] = fileChain[i]
         /\ fileChain'[Len(fileChain) + 1] = [op |-> op, arg |-> arg]
         /\ fileChain # <<>> => fileChain' # <<>> /\ fileChain'[1] = fileChain[1]
<1> DEFINE e == [op |-> op, arg |-> arg]
<1>1. fileChain \in Seq(Entries) /\ e \in Entries /\ fileChain' = Append(fileChain, e) /\ step' = step
  BY DEF FT!Enqueue, ChainInv
<1> HIDE DEF e
<1>2. /\ fileChain' \in Seq(Entries) /\ Len(fileChain) \in Nat /\ DOMAIN fileChain = 1..Len(fileChain)
      /\ DOMAIN fileChain' = 1..Len(fileChain) + 1 /\ \A i \in DOMAIN fileChain : fileChain'[i] = fileChain[i]
      /\ fileChain'[Len(fileChain) + 1] = e /\ fileChain' # <<>>
  BY <1>1
<1>3. fileChain # <<>> => 1 \in DOMAIN fileChain
  BY <1>1
<1>4. DOMAIN fileChain' = DOMAIN fileChain \cup {Len(fileChain) + 1} /\ Len(fileChain) + 1 \notin DOMAIN fileChain
  BY <1>2
<1>5. ChainInv'
  BY <1>1, <1>2, <1>3 DEF ChainInv
<1> QED BY <1>1, <1>2, <1>3, <1>4, <1>5 DEF e

LEMMA Popped ==
  ASSUME ChainInv, fileChain # <<>>, FT!Pop
  PROVE  /\ ChainInv' /\ step' = "start"
         /\ \A i \in DOMAIN fileChain' : /\ i \in Nat /\ i > 0 /\ i + 1 \in DOMAIN fileChain
                                         /\ fileChain'[i] = fileChain[i + 1]
<1>1. fileChain' = Tail(fileChain) /\ step' = "start" /\ fileChain' \in Seq(Entries)
  BY DEF FT!Pop, ChainInv
<1>2. \A i \in DOMAIN fileChain' : i \in Nat /\ i > 0 /\ i + 1 \in DOMAIN fileChain /\ fileChain'[i] = fileChain[i + 1]
  BY <1>1 DEF ChainInv
<1> QED BY <1>1, <1>2 DEF ChainInv, FT!Steps

LEMMA Awaited ==
  ASSUME ChainInv, fileChain # <<>>, NEW s \in {"write", "commit", "deliver", "cancel", "remove"},
         FT!Await(s)
  PROVE  ChainInv' /\ step' = s /\ fileChain' = fileChain
  BY DEF ChainInv, FT!Await, FT!Steps

LEMMA ChainStepInv ==
  ASSUME ChainInv, Moves
  PROVE  ChainInv'
<1>1. CASE UNCHANGED FT!chainVars
  BY <1>1 DEF ChainInv, FT!chainVars
<1>2. CASE Goes
  BY <1>2, Popped, Awaited DEF Goes
<1>3. CASE Joins(FT!Ops)
  BY <1>3, Enqueued DEF Joins
<1> QED BY <1>1, <1>2, <1>3 DEF Moves

\* A file that is being looked at is looked at still.
LEMMA ExaminedStays ==
  ASSUME ChainInv, ChainStep, NEW g, Examined(g)
  PROVE  Examined(g)'
<1>1. CASE UNCHANGED FT!chainVars
  BY <1>1 DEF Examined, FT!At, FT!chainVars
<1>2. CASE Goes /\ ~FT!At("completed", "stat")
  BY <1>2 DEF Examined
<1>3. CASE Joins(FT!Ops \ {"takeover"})
  <2>1. fileChain' # <<>> /\ fileChain'[1] = fileChain[1] /\ step' = step
    BY <1>3, Enqueued DEF Joins, Examined, FT!At
  <2> QED BY <2>1 DEF Examined, FT!At
<1> QED BY <1>1, <1>2, <1>3 DEF ChainStep

LEMMA TakeoversKept ==
  ASSUME ChainInv, TakeoverInv, ChainStep, UNCHANGED <<takeover, fileGeneration>>
  PROVE  TakeoverInv'
<1>1. CASE \A i \in Takeovers' : i \in Takeovers
  BY <1>1 DEF TakeoverInv
<1>2. CASE /\ \A i \in Takeovers' : i \in Nat /\ i + 1 \in Takeovers
  <2>1. \A i, j \in Takeovers' : i + 1 = j + 1 /\ i \in Nat /\ j \in Nat
    BY <1>2 DEF TakeoverInv
  <2>2. \A i, j \in Takeovers' : i = j
    BY <2>1
  <2> QED BY <1>2, <2>2 DEF TakeoverInv
<1>3. CASE UNCHANGED FT!chainVars
  BY <1>1, <1>3 DEF Takeovers, FT!chainVars
<1>4. CASE Goes
  BY <1>1, <1>2, <1>4, Popped, Awaited DEF Goes, Takeovers
<1>5. CASE Joins(FT!Ops \ {"takeover"})
  <2>1. \A i \in Takeovers' : i \in Takeovers
    BY <1>5, Enqueued DEF Joins, Takeovers
  <2> QED BY <1>1, <2>1
<1> QED BY <1>3, <1>4, <1>5 DEF ChainStep

-----------------------------------------------------------------------------
(* What most steps leave as it is.                                         *)

\* No upload is begun, and the transfer is the one it was, if there still is one.
UploadsCalm ==
  /\ \A o \in Offers : upload[o] \in {"none", "reserving", "undoing"} => upload'[o] = upload[o]
  /\ transfer' # NoFile => transfer' = transfer /\ upload'[transfer] = "active"
UploadsKept == UploadsCalm /\ FT!Charged' = FT!Charged /\ uploadBytes' = uploadBytes

\* Downloads give bytes back, and what Chrome has is removed or stays.
Releases ==
  \A g \in Guids :
    /\ downloadBytes'[g] = downloadBytes[g] \/ downloadBytes'[g] = NoFile
    /\ \/ chrome'[g] = chrome[g] /\ downloadBytes'[g] = downloadBytes[g]
       \/ chrome'[g] = "removing"
       \/ chrome'[g] \notin {"running", "done"} /\ downloadBytes'[g] = NoFile

LEMMA OffersKept ==
  ASSUME ChainInv, OffersInv, UploadTypes, UploadsCalm, Moves
  PROVE  OffersInv'
<1>1. transfer' # NoFile => upload'[transfer'] = "active"
  BY DEF UploadsCalm
<1>2. \A i \in DOMAIN fileChain : fileChain[i] \in Entries /\ (fileChain[i].op = "offer" => fileChain[i].arg \in Offers)
  BY EntryKinds DEF ChainInv
<1>3. \A o \in Offers : upload[o] = "none" => upload'[o] = "none"
  BY DEF UploadsCalm
<1>4. CASE UNCHANGED FT!chainVars
  <2>1. fileChain' = fileChain /\ step' = step
    BY <1>4 DEF FT!chainVars
  <2>2. \A i \in DOMAIN fileChain' : OfferedAt(i)' => upload'[fileChain'[i].arg] = "none"
    BY <1>2, <1>3, <2>1 DEF OffersInv, OfferedAt
  <2>3. step \in {"reserve", "undo"} => fileChain[1].arg \in Offers
    BY EntryKinds, HeadEntry DEF ChainInv
  <2>4. /\ step' = "reserve" => upload'[fileChain'[1].arg] = "reserving"
        /\ step' = "undo" => upload'[fileChain'[1].arg] = "undoing"
    BY <2>1, <2>3 DEF OffersInv, UploadsCalm
  <2> QED BY <1>1, <2>1, <2>2, <2>4 DEF OffersInv
<1>5. CASE fileChain # <<>> /\ FT!Pop
  <2>1. /\ step' = "start"
        /\ \A i \in DOMAIN fileChain' : i \in Nat /\ i > 0 /\ i + 1 \in DOMAIN fileChain /\ fileChain'[i] = fileChain[i + 1]
    BY <1>5, Popped
  <2>2. \A i \in DOMAIN fileChain' : OfferedAt(i)' => upload'[fileChain'[i].arg] = "none"
    <3> SUFFICES ASSUME NEW i \in DOMAIN fileChain', OfferedAt(i)'  PROVE upload'[fileChain'[i].arg] = "none"
      OBVIOUS
    <3>1. i + 1 \in DOMAIN fileChain /\ i + 1 > 1 /\ fileChain'[i] = fileChain[i + 1]
      BY <2>1
    <3>2. OfferedAt(i + 1)
      BY <3>1 DEF OfferedAt
    <3> QED BY <1>2, <1>3, <3>1, <3>2 DEF OffersInv, OfferedAt
  <2>3. \A i, j \in DOMAIN fileChain' :
          fileChain'[i].op = "offer" /\ fileChain'[j].op = "offer" /\ fileChain'[i].arg = fileChain'[j].arg => i = j
    <3> SUFFICES ASSUME NEW i \in DOMAIN fileChain', NEW j \in DOMAIN fileChain',
                        fileChain'[i].op = "offer", fileChain'[j].op = "offer", fileChain'[i].arg = fileChain'[j].arg
                 PROVE  i = j
      OBVIOUS
    <3>1. i + 1 = j + 1
      BY <2>1 DEF OffersInv
    <3> QED BY <2>1, <3>1
  <2> QED BY <1>1, <2>1, <2>2, <2>3 DEF OffersInv
<1>6. ASSUME fileChain # <<>>, NEW s \in {"write", "commit", "deliver", "cancel", "remove"}, FT!Await(s)
      PROVE  OffersInv'
  <2>1. fileChain' = fileChain /\ step' = s
    BY <1>6 DEF FT!Await
  <2>2. \A i \in DOMAIN fileChain' : OfferedAt(i)' => upload'[fileChain'[i].arg] = "none"
    BY <1>2, <1>3, <2>1 DEF OffersInv, OfferedAt
  <2> QED BY <1>1, <2>1, <2>2 DEF OffersInv
<1>7. CASE Joins(FT!Ops)
  <2>1. PICK op \in FT!Ops, arg \in Offers \cup Guids \cup {NoFile} :
          /\ [op |-> op, arg |-> arg] \in Entries /\ FT!Enqueue(op, arg)
          /\ op = "offer" => /\ upload[arg] = "none"
                             /\ \A i \in DOMAIN fileChain : fileChain[i] # [op |-> op, arg |-> arg]
    BY <1>7 DEF Joins
  <2>2. /\ DOMAIN fileChain' = DOMAIN fileChain \cup {Len(fileChain) + 1} /\ step' = step
        /\ Len(fileChain) + 1 \notin DOMAIN fileChain
        /\ \A i \in DOMAIN fileChain : fileChain'[i] = fileChain[i]
        /\ fileChain'[Len(fileChain) + 1] = [op |-> op, arg |-> arg]
        /\ fileChain # <<>> => fileChain' # <<>> /\ fileChain'[1] = fileChain[1]
    BY <2>1, Enqueued
  <2>3. op = "offer" => arg \in Offers
    BY <2>1, EntryKinds
  <2>4. \A i \in DOMAIN fileChain' : OfferedAt(i)' => upload'[fileChain'[i].arg] = "none"
    <3> SUFFICES ASSUME NEW i \in DOMAIN fileChain', OfferedAt(i)'  PROVE upload'[fileChain'[i].arg] = "none"
      OBVIOUS
    <3>1. CASE i \in DOMAIN fileChain
      BY <1>2, <1>3, <2>2, <3>1 DEF OffersInv, OfferedAt
    <3>2. CASE i = Len(fileChain) + 1
      BY <1>3, <2>1, <2>2, <2>3, <3>2 DEF OfferedAt
    <3> QED BY <2>2, <3>1, <3>2
  <2>5. \A i \in DOMAIN fileChain : op = "offer" /\ fileChain[i].op = "offer" => fileChain[i].arg # arg
    <3> SUFFICES ASSUME NEW i \in DOMAIN fileChain, op = "offer", fileChain[i].op = "offer", fileChain[i].arg = arg  PROVE FALSE
      OBVIOUS
    <3>1. fileChain[i] = [op |-> fileChain[i].op, arg |-> fileChain[i].arg]
      BY <1>2 DEF Entries
    <3> QED BY <2>1, <3>1
  <2>6. \A i, j \in DOMAIN fileChain' :
          fileChain'[i].op = "offer" /\ fileChain'[j].op = "offer" /\ fileChain'[i].arg = fileChain'[j].arg => i = j
    <3> SUFFICES ASSUME NEW i \in DOMAIN fileChain', NEW j \in DOMAIN fileChain',
                        fileChain'[i].op = "offer", fileChain'[j].op = "offer", fileChain'[i].arg = fileChain'[j].arg
                 PROVE  i = j
      OBVIOUS
    <3>1. CASE i \in DOMAIN fileChain /\ j \in DOMAIN fileChain
      BY <2>2, <3>1 DEF OffersInv
    <3>2. CASE i \in DOMAIN fileChain /\ j = Len(fileChain) + 1
      BY <2>2, <2>5, <3>2
    <3>3. CASE i = Len(fileChain) + 1 /\ j \in DOMAIN fileChain
      BY <2>2, <2>5, <3>3
    <3> QED BY <2>2, <3>1, <3>2, <3>3
  <2>7. step \in {"reserve", "undo"} => fileChain # <<>> /\ fileChain[1].arg \in Offers
    BY EntryKinds, HeadEntry DEF ChainInv
  <2>8. /\ step' = "reserve" => upload'[fileChain'[1].arg] = "reserving"
        /\ step' = "undo" => upload'[fileChain'[1].arg] = "undoing"
    BY <2>2, <2>7 DEF OffersInv, UploadsCalm
  <2> QED BY <1>1, <2>4, <2>6, <2>8 DEF OffersInv
<1> QED BY <1>4, <1>5, <1>6, <1>7 DEF Moves, Goes

LEMMA DiskKept ==
  ASSUME ChainInv, DiskInv, DownloadTypes, ChainStep, FT!Closed => FT!Closed', Releases
  PROVE  DiskInv'
<1>1. ASSUME NEW g \in FT!Reserved'
      PROVE  chrome'[g] \in {"running", "done", "removing"} \/ Examined(g)' \/ FT!Closed'
  <2>1. g \in Guids /\ downloadBytes'[g] # NoFile
    BY <1>1 DEF FT!Reserved
  <2>2. CASE chrome'[g] = "removing"
    BY <2>2
  <2>3. CASE chrome'[g] = chrome[g] /\ downloadBytes'[g] = downloadBytes[g]
    <3>1. g \in FT!Reserved
      BY <2>1, <2>3 DEF FT!Reserved
    <3> QED BY <2>3, <3>1, ExaminedStays DEF DiskInv
  <2> QED BY <2>1, <2>2, <2>3 DEF Releases
<1>2. ASSUME NEW g \in Guids, chrome'[g] \in {"running", "done"}
      PROVE  g \in FT!Reserved'
  BY <1>2 DEF Releases, DiskInv, FT!Reserved
<1> QED BY <1>1, <1>2 DEF DiskInv

LEMMA QuotaKept ==
  ASSUME FT!FileTransfersAssumption, FT!QuotaRespected, DownloadTypes, DownloadTypes', UploadTypes,
         UploadTypes',
         uploadBytes' <= uploadBytes,
         \A g \in Guids : downloadBytes'[g] = downloadBytes[g] \/ downloadBytes'[g] = NoFile
  PROVE  FT!QuotaRespected'
<1>1. /\ IsFiniteSet(FT!Reserved) /\ \A g \in FT!Reserved : downloadBytes[g] \in Nat
      /\ FT!SumOf(downloadBytes, FT!Reserved) \in Nat /\ Cardinality(FT!Reserved) \in Nat
  BY ReservedFinite
<1>2. FT!Reserved' \subseteq FT!Reserved /\ \A g \in FT!Reserved' : downloadBytes'[g] = downloadBytes[g]
  BY DEF FT!Reserved
<1>3. FT!SumOf(downloadBytes, FT!Reserved)' = FT!SumOf(downloadBytes, FT!Reserved')
  <2>1. FT!SumOf(downloadBytes', FT!Reserved') = FT!SumOf(downloadBytes, FT!Reserved')
    BY <1>2, SumSame
  <2>2. FT!SumOf(downloadBytes, FT!Reserved)' = FT!SumOf(downloadBytes', FT!Reserved')
    BY DEF FT!SumOf
  <2> QED BY <2>1, <2>2
<1>4. /\ FT!SumOf(downloadBytes, FT!Reserved') <= FT!SumOf(downloadBytes, FT!Reserved)
      /\ FT!SumOf(downloadBytes, FT!Reserved') \in Nat
  <2>1. IsFiniteSet(FT!Reserved')
    BY <1>1, <1>2, FS_Subset
  <2>2. \A g \in FT!Reserved' : downloadBytes[g] \in Nat
    BY <1>1, <1>2
  <2> QED BY <1>1, <1>2, <2>1, <2>2, SumMono, SumIsCount
<1>5. Cardinality(FT!Reserved') <= Cardinality(FT!Reserved) /\ Cardinality(FT!Reserved') \in Nat
  <2>1. IsFiniteSet(FT!Reserved') /\ Cardinality(FT!Reserved') <= Cardinality(FT!Reserved)
    BY <1>1, <1>2, FS_Subset
  <2> QED BY <2>1, FS_CardinalityType
<1>6. uploadBytes \in Nat /\ uploadBytes' \in Nat
  BY DEF UploadTypes
<1>7. FT!TemporaryBytes' <= MaxTemporary
  BY <1>1, <1>3, <1>4, <1>6, FileConstants DEF FT!QuotaRespected, FT!TemporaryBytes
<1>8. Cardinality(FT!Reserved)' <= MaxFiles
  BY <1>1, <1>5, FileConstants, SameCount DEF FT!QuotaRespected
<1> QED BY <1>7, <1>8, SameCount DEF FT!QuotaRespected

LEMMA CountedKept ==
  ASSUME UploadsCounted, UploadsKept
  PROVE  UploadsCounted'
  BY DEF UploadsCounted, UploadsKept, FT!SumOf

\* A step that begins no upload and reserves no bytes.
LEMMA Steady ==
  ASSUME FT!FileTransfersAssumption, FileInv, FileTypes', ChainStep, CancelHeld', UNCHANGED <<takeover,
         fileGeneration>>,
         FT!Closed => FT!Closed', UploadsKept, Releases
  PROVE  FileInv'
<1>1. ChainInv' /\ TakeoverInv'
  BY Moving, ChainStepInv, TakeoversKept DEF FileInv
<1>2. OffersInv'
  BY Moving, OffersKept DEF FileInv, FileTypes, UploadsKept
<1>3. UploadsCounted'
  BY CountedKept DEF FileInv
<1>4. DiskInv'
  BY DiskKept DEF FileInv, FileTypes
<1>5. FT!QuotaRespected'
  <2>1. uploadBytes' <= uploadBytes
    BY DEF UploadsKept, FileInv, FileTypes, UploadTypes
  <2> QED BY <2>1, QuotaKept DEF FileInv, FileTypes, Releases
<1> QED BY <1>1, <1>2, <1>3, <1>4, <1>5 DEF FileInv

LEMMA UploadsStill ==
  ASSUME UploadTypes, OffersInv, UNCHANGED FT!uploadVars
  PROVE  UploadTypes' /\ UploadsKept
<1>1. UNCHANGED <<chooser, transfer, upload, written, uploadBytes>>
  BY DEF FT!uploadVars
<1> QED BY <1>1 DEF UploadTypes, OffersInv, UploadsKept, UploadsCalm, FT!Charged

LEMMA DownloadsStill ==
  ASSUME DownloadTypes, UNCHANGED FT!removalVars
  PROVE  DownloadTypes' /\ Releases
  BY DEF DownloadTypes, FT!removalVars, Releases

LEMMA OffersStill ==
  ASSUME OfferTypes, UNCHANGED <<commits, offered>>
  PROVE  OfferTypes'
  BY DEF OfferTypes

LEMMA SessionStill ==
  ASSUME SessionTypes, UNCHANGED FT!sessionVars
  PROVE  SessionTypes' /\ UNCHANGED <<takeover, fileGeneration>>
  BY DEF SessionTypes, FT!sessionVars

LEMMA AbortCalm ==
  ASSUME FT!FileTransfersAssumption, UploadTypes, OffersInv, FT!AbortUpload, chooser' \in BOOLEAN
  PROVE  UploadTypes' /\ UploadsKept
<1>1. /\ transfer' = NoFile /\ UNCHANGED <<written, uploadBytes>>
      /\ upload' = [o \in Offers |-> IF o = transfer THEN "aborting" ELSE upload[o]]
  BY DEF FT!AbortUpload
<1>2. \A o \in Offers : o = transfer => upload[o] = "active"
  BY FileConstants DEF OffersInv
<1>3. UploadTypes'
  BY <1>1 DEF UploadTypes
<1>4. FT!Charged' = FT!Charged
  BY <1>1, <1>2 DEF FT!Charged
<1>5. UploadsCalm
  BY <1>1, <1>2 DEF UploadsCalm
<1> QED BY <1>1, <1>3, <1>4, <1>5 DEF UploadsKept

LEMMA StageTyped ==
  ASSUME CancelTypes, NEW c \in FT!Callers, NEW for \in SUBSET (Offers \cup Guids),
         NEW at \in {"idle", "upload", "commits", "offers", "sources", "aborts"},
         cancelling' = [cancelling EXCEPT ![c] = [at |-> at, for |-> for]],
         ending' \in {"no", "commits", "flow", "tab", "storage", "disposed"}
  PROVE  CancelTypes'
  BY DEF CancelTypes

LEMMA RemoveReleases ==
  ASSUME DownloadTypes, NEW G, NEW tracked, FT!Tracked \subseteq tracked, FT!Remove(G, tracked)
  PROVE  DownloadTypes' /\ Releases
<1>1. /\ chrome' = [g \in Guids |-> IF g \in G \cap tracked THEN "removing" ELSE chrome[g]]
      /\ sources' = sources \ G
      /\ downloadBytes' = [g \in Guids |-> IF g \in G \ tracked THEN NoFile ELSE downloadBytes[g]]
      /\ held' = held \ (G \ tracked)
      /\ aborts' = aborts \cup ((G \ tracked) \cap held)
      /\ outcome' = [g \in Guids |-> IF g \in (G \ tracked) \cap held THEN outcome[g] \cup {"aborted"} ELSE outcome[g]]
  BY DEF FT!Remove, FT!AbortSink
<1>2. DownloadTypes'
  <2>1. chrome' \in [Guids -> {"none", "running", "done", "removing", "removed"}]
    BY <1>1 DEF DownloadTypes
  <2>2. downloadBytes' \in [Guids -> Nat \cup {NoFile}]
    BY <1>1 DEF DownloadTypes
  <2>3. outcome' \in [Guids -> SUBSET {"committing", "committed", "aborted"}]
    BY <1>1 DEF DownloadTypes
  <2>4. sources' \in SUBSET Guids /\ held' \in SUBSET Guids /\ aborts' \in SUBSET Guids
    BY <1>1 DEF DownloadTypes
  <2> QED BY <2>1, <2>2, <2>3, <2>4 DEF DownloadTypes
<1>3. Releases
  BY <1>1 DEF Releases, FT!Tracked
<1> QED BY <1>2, <1>3

LEMMA WithdrawTyped ==
  ASSUME FT!FileTransfersAssumption, OfferTypes, NEW G, FT!Withdraw(G), commits' = commits
  PROVE  OfferTypes'
<1>1. FT!NoOffer \in [at : {"none", "offered", "streaming"}, generation : 0..MaxFileGeneration]
  BY FileConstants DEF FT!NoOffer
<1> QED BY <1>1 DEF OfferTypes, FT!Withdraw

-----------------------------------------------------------------------------
(* The head of the chain: uploads.                                         *)

\* The same for an upload whose bytes are returned.
LEMMA Returning ==
  ASSUME FT!FileTransfersAssumption, FileInv, FileTypes', ChainStep, CancelHeld', UNCHANGED <<takeover,
         fileGeneration>>,
         FT!Closed => FT!Closed', UploadsCalm, UploadsCounted', uploadBytes' <= uploadBytes, Releases
  PROVE  FileInv'
<1>1. ChainInv' /\ TakeoverInv'
  BY Moving, ChainStepInv, TakeoversKept DEF FileInv
<1>2. OffersInv'
  BY Moving, OffersKept DEF FileInv, FileTypes
<1>3. DiskInv'
  BY DiskKept DEF FileInv, FileTypes
<1>4. FT!QuotaRespected'
  BY QuotaKept DEF FileInv, FileTypes, Releases
<1> QED BY <1>1, <1>2, <1>3, <1>4 DEF FileInv

\* A step of the head that leaves alone what is cancelled outside the chain.
LEMMA HeadStep ==
  ASSUME FileInv, NEW op, NEW s, FT!At(op, s), s # "cancel", <<op, s>> # <<"completed", "stat">>
  PROVE  /\ fileChain # <<>> /\ fileChain[1] \in Entries /\ cancelling["chain"] = FT!Idle
         /\ FT!Pop => ChainStep
         /\ \A w \in {"write", "commit", "deliver", "cancel", "remove"} : FT!Await(w) => ChainStep
  BY HeadEntry DEF FileInv, FT!At, CancelHeld, ChainStep, Goes

LEMMA CancelsTyped ==
  ASSUME CancelTypes, UNCHANGED <<cancelling, ending>>
  PROVE  CancelTypes'
  BY DEF CancelTypes

LEMMA IdleStays ==
  ASSUME cancelling["chain"] = FT!Idle, UNCHANGED cancelling
  PROVE  CancelHeld'
  BY DEF CancelHeld

LEMMA RefuseKeeps ==
  ASSUME FT!FileTransfersAssumption, FileInv, NEW op, NEW s, FT!At(op, s), s # "cancel", <<op,
         s>> # <<"completed", "stat">>,
         FT!Refuse, UNCHANGED <<FT!sessionVars, FT!downloadVars, ending>>
  PROVE  FileInv'
<1>1. /\ FT!Await("cancel") /\ chooser' = FALSE /\ FT!AbortUpload
      /\ cancelling' = [cancelling EXCEPT !["chain"] = [at |-> "upload", for |-> {transfer} \ {NoFile}]]
  BY DEF FT!Refuse, FT!CancelFileFlow
<1>2. UploadTypes' /\ UploadsKept
  BY <1>1, AbortCalm DEF FileInv, FileTypes
<1>3. DownloadTypes' /\ OfferTypes' /\ Releases
  BY DownloadsStill, OffersStill DEF FileInv, FileTypes, FT!downloadVars
<1>4. SessionTypes' /\ UNCHANGED <<takeover, fileGeneration>>
  BY SessionStill DEF FileInv, FileTypes
<1>5. CancelTypes'
  <2>1. {transfer} \ {NoFile} \in SUBSET (Offers \cup Guids) /\ ending' = ending
    BY DEF FileInv, FileTypes, UploadTypes
  <2> QED BY <1>1, <2>1, StageTyped DEF FileInv, FileTypes, CancelTypes, FT!Callers
<1>6. CancelHeld'
  BY <1>1 DEF CancelHeld, FT!Await
<1>7. ChainStep
  BY <1>1, HeadStep
<1> QED BY <1>2, <1>3, <1>4, <1>5, <1>6, <1>7, Steady DEF FileTypes, FT!Closed

\* A step of the head that changes nothing beside the uploads and the chain.
LEMMA HeadKeeps ==
  ASSUME FT!FileTransfersAssumption, FileInv, NEW op, NEW s, FT!At(op, s), s # "cancel", <<op,
         s>> # <<"completed", "stat">>,
         FT!Pop \/ FT!Await("write") \/ FT!Await("commit") \/ FT!Await("deliver"),
         UploadTypes', UploadsKept, UNCHANGED <<FT!sessionVars, FT!downloadVars, cancelling, ending>>
  PROVE  FileInv'
<1>1. DownloadTypes' /\ OfferTypes' /\ Releases
  BY DownloadsStill, OffersStill DEF FileInv, FileTypes, FT!downloadVars
<1>2. SessionTypes' /\ UNCHANGED <<takeover, fileGeneration>>
  BY SessionStill DEF FileInv, FileTypes
<1>3. CancelTypes' /\ CancelHeld'
  BY HeadStep, IdleStays, CancelsTyped DEF FileInv, FileTypes
<1>4. ChainStep
  BY HeadStep
<1> QED BY <1>1, <1>2, <1>3, <1>4, Steady DEF FileTypes, FT!Closed

LEMMA HeadsKeep ==
  ASSUME FT!FileTransfersAssumption, FileInv,
         FT!HeadCancels \/ FT!HeadIgnored \/ FT!TransferStarts \/ FT!TransferRefused \/ FT!ChunkWritten
           \/ FT!UploadCommitted \/ FT!UploadDelivered \/ FT!TransferFails \/ FT!ViewerCancels
  PROVE  FileInv'
<1> USE DEF FileInv, FileTypes
<1>1. CASE FT!HeadCancels
  BY <1>1, RefuseKeeps DEF FT!HeadCancels
<1>2. CASE FT!HeadIgnored
  BY <1>2, UploadsStill, HeadKeeps DEF FT!HeadIgnored
<1>3. CASE FT!TransferStarts
  BY <1>3, UploadsStill, HeadKeeps DEF FT!TransferStarts
<1>4. CASE FT!TransferRefused
  BY <1>4, RefuseKeeps DEF FT!TransferRefused
<1>5. CASE FT!ChunkWritten
  <2>1. fileChain[1].arg \in Offers
    BY <1>5, HeadEntry, EntryKinds DEF FT!ChunkWritten, FT!At
  <2>2. UploadTypes'
    BY <1>5, <2>1 DEF FT!ChunkWritten, UploadTypes
  <2>3. UploadsKept
    BY <1>5 DEF FT!ChunkWritten, OffersInv, UploadsKept, UploadsCalm, FT!Charged
  <2> QED BY <1>5, <2>2, <2>3, HeadKeeps DEF FT!ChunkWritten
<1>6. CASE FT!UploadCommitted
  BY <1>6, UploadsStill, HeadKeeps DEF FT!UploadCommitted
<1>7. CASE FT!UploadDelivered
  <2>1. /\ transfer' = NoFile /\ UNCHANGED <<chooser, written, uploadBytes>>
        /\ upload' = [o \in Offers |-> IF o = fileChain[1].arg /\ upload[o] = "active" THEN "delivered" ELSE upload[o]]
    BY <1>7 DEF FT!UploadDelivered
  <2>2. UploadTypes'
    BY <2>1 DEF UploadTypes
  <2>3. UploadsKept
    BY <2>1 DEF UploadsKept, UploadsCalm, FT!Charged
  <2> QED BY <1>7, <2>2, <2>3, HeadKeeps DEF FT!UploadDelivered
<1>8. CASE FT!TransferFails
  BY <1>8, RefuseKeeps DEF FT!TransferFails
<1>9. CASE FT!ViewerCancels
  <2>1. chooser' \in BOOLEAN /\ fileChain[1].arg \in Offers
    BY <1>9, HeadEntry, EntryKinds DEF FT!ViewerCancels, FT!At
  <2>2. CASE transfer = fileChain[1].arg
    <3>1. /\ FT!AbortUpload /\ FT!Await("cancel") /\ ending' = ending
          /\ cancelling' = [cancelling EXCEPT !["chain"] = [at |-> "upload", for |-> {transfer}]]
      BY <1>9, <2>2 DEF FT!ViewerCancels, FT!Stage
    <3>2. UploadTypes' /\ UploadsKept
      BY <2>1, <3>1, AbortCalm
    <3>3. CancelTypes'
      BY <2>1, <2>2, <3>1, StageTyped DEF CancelTypes, FT!Callers
    <3>4. CancelHeld'
      BY <3>1 DEF CancelHeld, FT!Await
    <3>5. DownloadTypes' /\ OfferTypes' /\ Releases
      BY <1>9, DownloadsStill, OffersStill DEF FT!ViewerCancels, FT!downloadVars
    <3>6. SessionTypes' /\ UNCHANGED <<takeover, fileGeneration>>
      BY <1>9, SessionStill DEF FT!ViewerCancels
    <3>7. ChainStep
      BY <1>9, <3>1, HeadStep DEF FT!ViewerCancels
    <3> QED BY <3>1, <3>2, <3>3, <3>4, <3>5, <3>6, <3>7, Steady DEF FT!Closed
  <2>3. CASE transfer # fileChain[1].arg
    <3>1. UNCHANGED <<transfer, upload, written, uploadBytes, cancelling>> /\ FT!Pop
      BY <1>9, <2>3 DEF FT!ViewerCancels
    <3>2. UploadTypes'
      BY <2>1, <3>1 DEF UploadTypes
    <3>3. UploadsKept
      BY <3>1 DEF OffersInv, UploadsKept, UploadsCalm, FT!Charged
    <3> QED BY <1>9, <3>1, <3>2, <3>3, HeadKeeps DEF FT!ViewerCancels
  <2> QED BY <2>2, <2>3
<1> QED BY <1>1, <1>2, <1>3, <1>4, <1>5, <1>6, <1>7, <1>8, <1>9

-----------------------------------------------------------------------------
(* An offer at the head, and the bytes it takes.                           *)

\* The head is an offer, and its upload moves to v.
LEMMA OffersMoved ==
  ASSUME ChainInv, OffersInv, UploadTypes, fileChain # <<>>, fileChain[1].op = "offer",
         NEW v, upload' = [upload EXCEPT ![fileChain[1].arg] = v],
         FT!Pop \/ \E s \in FT!Steps \ {"start", "stat"} : FT!Await(s),
         step' = "reserve" => v = "reserving",
         step' = "undo" => v = "undoing",
         transfer' # NoFile => transfer' \in Offers /\ upload'[transfer'] = "active"
  PROVE  OffersInv' /\ ChainInv'
<1>1. fileChain[1].arg \in Offers /\ fileChain[1] \in Entries /\ 1 \in DOMAIN fileChain
  BY HeadEntry, EntryKinds
<1>2. \A i \in DOMAIN fileChain : /\ fileChain[i] \in Entries /\ (fileChain[i].op = "offer" => fileChain[i].arg \in Offers)
                              /\ i \in Nat /\ i > 0
  BY EntryKinds DEF ChainInv
<1>3. \A i \in DOMAIN fileChain : i > 1 /\ fileChain[i].op = "offer" =>
        upload[fileChain[i].arg] = "none" /\ upload'[fileChain[i].arg] = "none"
  <2> SUFFICES ASSUME NEW i \in DOMAIN fileChain, i > 1, fileChain[i].op = "offer"
               PROVE  upload[fileChain[i].arg] = "none" /\ upload'[fileChain[i].arg] = "none"
    OBVIOUS
  <2>1. upload[fileChain[i].arg] = "none"
    BY DEF OffersInv, OfferedAt
  <2>2. fileChain[i].arg # fileChain[1].arg
    BY <1>1 DEF OffersInv
  <2> QED BY <1>2, <2>1, <2>2 DEF UploadTypes
<1>4. CASE FT!Pop
  <2>1. /\ ChainInv' /\ step' = "start"
        /\ \A i \in DOMAIN fileChain' : i \in Nat /\ i > 0 /\ i + 1 \in DOMAIN fileChain /\ fileChain'[i] = fileChain[i + 1]
    BY <1>4, Popped
  <2>2. \A i \in DOMAIN fileChain' : OfferedAt(i)' => upload'[fileChain'[i].arg] = "none"
    <3> SUFFICES ASSUME NEW i \in DOMAIN fileChain', OfferedAt(i)'  PROVE upload'[fileChain'[i].arg] = "none"
      OBVIOUS
    <3>1. i + 1 \in DOMAIN fileChain /\ i + 1 > 1 /\ fileChain'[i] = fileChain[i + 1] /\ fileChain'[i].op = "offer"
      BY <2>1 DEF OfferedAt
    <3> QED BY <1>3, <3>1
  <2>3. \A i, j \in DOMAIN fileChain' :
          fileChain'[i].op = "offer" /\ fileChain'[j].op = "offer" /\ fileChain'[i].arg = fileChain'[j].arg => i = j
    <3> SUFFICES ASSUME NEW i \in DOMAIN fileChain', NEW j \in DOMAIN fileChain',
                        fileChain'[i].op = "offer", fileChain'[j].op = "offer", fileChain'[i].arg = fileChain'[j].arg
                 PROVE  i = j
      OBVIOUS
    <3>1. i + 1 = j + 1
      BY <2>1 DEF OffersInv
    <3> QED BY <2>1, <3>1
  <2> QED BY <2>1, <2>2, <2>3 DEF OffersInv
<1>5. ASSUME NEW s \in FT!Steps \ {"start", "stat"}, FT!Await(s)
      PROVE  OffersInv' /\ ChainInv'
  <2>1. fileChain' = fileChain /\ step' = s
    BY <1>5 DEF FT!Await
  <2>2. ChainInv'
    BY <1>5, <2>1 DEF ChainInv
  <2>3. \A i \in DOMAIN fileChain' : OfferedAt(i)' => upload'[fileChain'[i].arg] = "none"
    BY <1>3, <1>5, <2>1 DEF OfferedAt
  <2>4. upload'[fileChain[1].arg] = v
    BY <1>1 DEF UploadTypes
  <2> QED BY <2>1, <2>2, <2>3, <2>4 DEF OffersInv
<1> QED BY <1>4, <1>5

\* Nothing takes a takeover out of the chain, or puts one in.
LEMMA TakeoversAside ==
  ASSUME ChainInv, TakeoverInv, fileChain # <<>>, FT!Pop \/ \E s \in FT!Steps : FT!Await(s),
         UNCHANGED <<takeover, fileGeneration>>
  PROVE  TakeoverInv'
<1>1. CASE \E s \in FT!Steps : FT!Await(s)
  BY <1>1 DEF TakeoverInv, Takeovers, FT!Await
<1>2. CASE FT!Pop
  <2>1. \A i \in Takeovers' : i \in Nat /\ i + 1 \in Takeovers
    BY <1>2, Popped DEF Takeovers
  <2>2. \A i, j \in Takeovers' : i + 1 = j + 1 /\ i \in Nat /\ j \in Nat
    BY <2>1 DEF TakeoverInv
  <2> QED BY <2>1, <2>2 DEF TakeoverInv
<1> QED BY <1>1, <1>2

LEMMA DiskAside ==
  ASSUME DiskInv, ~FT!At("completed", "stat"), DownloadTypes, FT!Closed => FT!Closed', Releases
  PROVE  DiskInv'
<1>1. ASSUME NEW g \in FT!Reserved'
      PROVE  chrome'[g] \in {"running", "done", "removing"} \/ FT!Closed'
  <2>1. g \in Guids /\ downloadBytes'[g] # NoFile
    BY <1>1 DEF FT!Reserved
  <2>2. CASE chrome'[g] = chrome[g] /\ downloadBytes'[g] = downloadBytes[g]
    BY <2>1, <2>2 DEF DiskInv, Examined, FT!Reserved
  <2> QED BY <2>1, <2>2 DEF Releases
<1>2. ASSUME NEW g \in Guids, chrome'[g] \in {"running", "done"}
      PROVE  g \in FT!Reserved'
  BY <1>2 DEF Releases, DiskInv, FT!Reserved
<1> QED BY <1>1, <1>2 DEF DiskInv

\* Everything but the uploads and the chain, when an offer is at the head
LEMMA OfferAside ==
  ASSUME FileInv, NEW s \in {"start", "reserve", "undo"}, FT!At("offer", s),
         FT!Pop \/ \E w \in FT!Steps \ {"start", "stat"} : FT!Await(w),
         UNCHANGED <<FT!sessionVars, FT!downloadVars, ending>>
  PROVE  /\ SessionTypes' /\ DownloadTypes' /\ OfferTypes' /\ TakeoverInv' /\ DiskInv'
         /\ fileChain # <<>> /\ fileChain[1].op = "offer" /\ fileChain[1].arg \in Offers /\ cancelling["chain"] = FT!Idle
<1> USE DEF FileInv, FileTypes
<1>1. fileChain # <<>> /\ fileChain[1].op = "offer" /\ step = s /\ ~FT!At("completed", "stat")
  BY DEF FT!At
<1>2. fileChain[1].arg \in Offers
  BY <1>1, HeadEntry, EntryKinds
<1>3. DownloadTypes' /\ OfferTypes' /\ Releases
  BY DownloadsStill, OffersStill DEF FT!downloadVars
<1>4. SessionTypes' /\ UNCHANGED <<takeover, fileGeneration>>
  BY SessionStill
<1>5. TakeoverInv'
  <2>1. FT!Pop \/ \E w \in FT!Steps : FT!Await(w)
    OBVIOUS
  <2> QED BY <1>1, <1>4, <2>1, TakeoversAside
<1>6. DiskInv'
  BY <1>1, <1>3, DiskAside DEF FT!Closed
<1>7. cancelling["chain"] = FT!Idle
  BY <1>1 DEF CancelHeld
<1> QED BY <1>1, <1>2, <1>3, <1>4, <1>5, <1>6, <1>7

\* The quota, when the downloads are as they were
LEMMA QuotaOfUploads ==
  ASSUME FT!FileTransfersAssumption, FT!QuotaRespected, DownloadTypes, UNCHANGED FT!removalVars,
         uploadBytes' \in Nat,
         uploadBytes \in Nat,
         uploadBytes' <= uploadBytes \/ (FT!TemporaryBytes - uploadBytes) + uploadBytes' <= MaxTemporary
  PROVE  FT!QuotaRespected'
<1>1. downloadBytes' = downloadBytes /\ FT!Reserved' = FT!Reserved
  BY DEF FT!removalVars, FT!Reserved
<1>2. FT!SumOf(downloadBytes, FT!Reserved) \in Nat
  BY ReservedFinite
<1>3. FT!TemporaryBytes' = uploadBytes' + FT!SumOf(downloadBytes, FT!Reserved)
  BY <1>1 DEF FT!TemporaryBytes, FT!SumOf
<1>4. FT!TemporaryBytes' <= MaxTemporary
  BY <1>2, <1>3, FileConstants DEF FT!TemporaryBytes, FT!QuotaRespected
<1> QED BY <1>1, <1>4 DEF FT!QuotaRespected

LEMMA OfferStartsKeeps ==
  ASSUME FT!FileTransfersAssumption, FileInv, FT!OfferStarts
  PROVE  FileInv'
<1> DEFINE o == fileChain[1].arg
<1> USE DEF FileInv, FileTypes
<1>1. CASE ~FT!Valid(o) /\ FT!Refuse
  BY <1>1, RefuseKeeps DEF FT!OfferStarts
<1>2. CASE /\ FT!Valid(o) /\ upload' = [upload EXCEPT ![o] = "reserving"]
           /\ uploadBytes' = uploadBytes + Bytes[o] /\ FT!Await("reserve")
           /\ UNCHANGED <<chooser, transfer, written, cancelling>>
  <2>1. FT!At("offer", "start") /\ UNCHANGED <<FT!sessionVars, FT!downloadVars, ending>>
    BY DEF FT!OfferStarts
  <2>2. \E w \in FT!Steps \ {"start", "stat"} : FT!Await(w)
    BY <1>2 DEF FT!Steps
  <2>3. /\ SessionTypes' /\ DownloadTypes' /\ OfferTypes' /\ TakeoverInv' /\ DiskInv'
        /\ fileChain # <<>> /\ fileChain[1].op = "offer" /\ o \in Offers /\ cancelling["chain"] = FT!Idle
    BY <2>1, <2>2, OfferAside
  <2>4. upload[o] = "none"
    BY <2>1, <2>3, HeadEntry DEF FT!At, OffersInv, OfferedAt
  <2>5. Bytes[o] \in Nat /\ uploadBytes \in Nat
    BY <2>3, FileConstants DEF UploadTypes
  <2>6. UploadTypes'
    BY <1>2, <2>3, <2>5 DEF UploadTypes
  <2>7. transfer' = NoFile
    BY <1>2 DEF FT!Valid
  <2>8. OffersInv' /\ ChainInv'
    BY <1>2, <2>2, <2>3, <2>7, OffersMoved DEF FT!Await
  <2>9. UploadsCounted'
    <3>1. FT!Charged' = FT!Charged \cup {o} /\ o \notin FT!Charged
      BY <1>2, <2>3, <2>4 DEF FT!Charged, UploadTypes
    <3>2. FT!SumOf(Bytes, FT!Charged \cup {o}) = FT!SumOf(Bytes, FT!Charged) + Bytes[o]
      BY <2>5, <3>1, ChargedFinite, SumAdd
    <3> QED BY <1>2, <3>1, <3>2 DEF UploadsCounted, FT!SumOf
  <2>10. FT!QuotaRespected'
    <3>1. FT!TemporaryBytes + Bytes[o] <= MaxTemporary
      BY <1>2 DEF FT!Valid, FT!Fits
    <3>2. FT!TemporaryBytes \in Nat
      BY <2>5, ReservedFinite DEF FT!TemporaryBytes
    <3>3. (FT!TemporaryBytes - uploadBytes) + uploadBytes' <= MaxTemporary
      BY <1>2, <2>5, <3>1, <3>2, FileConstants
    <3> QED BY <1>2, <2>1, <2>5, <3>3, QuotaOfUploads DEF FT!downloadVars
  <2>11. CancelTypes' /\ CancelHeld'
    BY <1>2, <2>1, <2>3, CancelsTyped, IdleStays
  <2> QED BY <2>3, <2>6, <2>8, <2>9, <2>10, <2>11
<1> QED BY <1>1, <1>2 DEF FT!OfferStarts

LEMMA OfferReservedKeeps ==
  ASSUME FT!FileTransfersAssumption, FileInv, FT!OfferReserved \/ FT!OfferFails
  PROVE  FileInv'
<1> DEFINE o == fileChain[1].arg
<1> USE DEF FileInv, FileTypes
<1>1. /\ FT!At("offer", "reserve") /\ UNCHANGED <<FT!sessionVars, FT!downloadVars, cancelling,
                                                  ending, written, uploadBytes>>
      /\ FT!Pop \/ \E w \in FT!Steps \ {"start", "stat"} : FT!Await(w)
  BY DEF FT!OfferReserved, FT!OfferFails, FT!Steps
<1>2. /\ SessionTypes' /\ DownloadTypes' /\ OfferTypes' /\ TakeoverInv' /\ DiskInv'
      /\ fileChain # <<>> /\ fileChain[1].op = "offer" /\ o \in Offers /\ cancelling["chain"] = FT!Idle
  BY <1>1, OfferAside
<1>3. upload[o] = "reserving"
  BY <1>1 DEF FT!At, OffersInv
<1>4. PICK v \in {"active", "undoing"} : upload' = [upload EXCEPT ![o] = v]
  BY DEF FT!OfferReserved, FT!OfferFails
<1>5. UploadTypes'
  BY <1>2, <1>4 DEF FT!OfferReserved, FT!OfferFails, UploadTypes
<1>6. OffersInv' /\ ChainInv'
  <2>1. CASE FT!OfferReserved
    <3>1. /\ transfer' = o /\ upload' = [upload EXCEPT ![o] = "active"] /\ upload'[o] = "active"
          /\ FT!Pop /\ step' = "start"
      BY <1>2, <2>1 DEF FT!OfferReserved, UploadTypes, FT!Pop
    <3> QED BY <1>2, <3>1, OffersMoved
  <2>2. CASE FT!OfferFails
    <3>1. /\ upload' = [upload EXCEPT ![o] = "undoing"] /\ transfer' = transfer
          /\ step' = "undo" /\ \E w \in FT!Steps \ {"start", "stat"} : FT!Await(w)
      BY <2>2 DEF FT!OfferFails, FT!Steps, FT!Await
    <3>2. transfer # NoFile => transfer \in Offers /\ upload'[transfer] = "active"
      BY <1>2, <1>3, <3>1 DEF UploadTypes, OffersInv
    <3> QED BY <1>2, <3>1, <3>2, OffersMoved
  <2> QED BY <2>1, <2>2
<1>7. UploadsCounted'
  <2>1. FT!Charged' = FT!Charged
    BY <1>2, <1>3, <1>4 DEF FT!Charged, UploadTypes
  <2> QED BY <1>1, <2>1 DEF UploadsCounted, FT!SumOf
<1>8. FT!QuotaRespected'
  BY <1>1, QuotaOfUploads DEF FT!downloadVars, UploadTypes
<1>9. CancelTypes' /\ CancelHeld'
  BY <1>1, <1>2, CancelsTyped, IdleStays
<1> QED BY <1>2, <1>5, <1>6, <1>7, <1>8, <1>9

\* What an upload that goes returns
LEMMA BytesReturned ==
  ASSUME FT!FileTransfersAssumption, UploadTypes, UploadsCounted, NEW o \in FT!Charged,
         uploadBytes' = uploadBytes - Bytes[o],
         upload' = [upload EXCEPT ![o] = "gone"]
  PROVE  uploadBytes' \in Nat /\ uploadBytes' <= uploadBytes /\ UploadsCounted'
<1>1. /\ FT!Charged \subseteq Offers /\ IsFiniteSet(FT!Charged) /\ Bytes[o] \in Nat
      /\ IsFiniteSet(FT!Charged \ {o}) /\ \A x \in FT!Charged \ {o} : Bytes[x] \in Nat
  BY ChargedFinite, FS_Subset
<1>2. FT!SumOf(Bytes, FT!Charged) = FT!SumOf(Bytes, FT!Charged \ {o}) + Bytes[o]
  BY ChargedFinite, SumRemove
<1>3. FT!SumOf(Bytes, FT!Charged \ {o}) \in Nat
  BY <1>1, SumIsCount
<1>4. uploadBytes' = FT!SumOf(Bytes, FT!Charged \ {o})
  BY <1>1, <1>2, <1>3 DEF UploadsCounted
<1>5. FT!Charged' = FT!Charged \ {o}
  BY <1>1 DEF FT!Charged, UploadTypes
<1>6. UploadsCounted'
  BY <1>4, <1>5 DEF UploadsCounted, FT!SumOf
<1> QED BY <1>1, <1>2, <1>3, <1>4, <1>6 DEF UploadsCounted

LEMMA OfferUndoneKeeps ==
  ASSUME FT!FileTransfersAssumption, FileInv, FT!OfferUndone
  PROVE  FileInv'
<1> DEFINE o == fileChain[1].arg
<1> USE DEF FileInv, FileTypes
<1>1. /\ FT!At("offer", "undo") /\ UNCHANGED <<FT!sessionVars, FT!downloadVars, ending, written>>
      /\ FT!Await("cancel") /\ step' = "cancel" /\ chooser' = FALSE /\ transfer' = NoFile
      /\ upload' = [upload EXCEPT ![o] = "gone"] /\ uploadBytes' = uploadBytes - Bytes[o]
      /\ cancelling' = [cancelling EXCEPT !["chain"] = [at |-> "upload", for |-> {}]]
  BY DEF FT!OfferUndone, FT!Stage, FT!Await
<1>2. \E w \in FT!Steps \ {"start", "stat"} : FT!Await(w)
  BY <1>1 DEF FT!Steps
<1>3. /\ SessionTypes' /\ DownloadTypes' /\ OfferTypes' /\ TakeoverInv' /\ DiskInv'
      /\ fileChain # <<>> /\ fileChain[1].op = "offer" /\ o \in Offers
  BY <1>1, <1>2, OfferAside
<1>4. o \in FT!Charged
  BY <1>1, <1>3 DEF FT!At, OffersInv, FT!Charged
<1>5. uploadBytes' \in Nat /\ uploadBytes' <= uploadBytes /\ UploadsCounted'
  BY <1>1, <1>4, BytesReturned
<1>6. UploadTypes'
  BY <1>1, <1>3, <1>5 DEF UploadTypes
<1>7. OffersInv' /\ ChainInv'
  BY <1>1, <1>2, <1>3, OffersMoved
<1>8. FT!QuotaRespected'
  BY <1>1, <1>5, QuotaOfUploads DEF FT!downloadVars, UploadTypes
<1>9. CancelTypes'
  BY <1>1, StageTyped DEF CancelTypes, FT!Callers
<1>10. CancelHeld'
  BY <1>1 DEF CancelHeld
<1> QED BY <1>3, <1>5, <1>6, <1>7, <1>8, <1>9, <1>10

-----------------------------------------------------------------------------
(* Cancellation.                                                           *)

\* The same for a step that moves a takeover.
LEMMA Settling ==
  ASSUME FT!FileTransfersAssumption, FileInv, FileTypes', ChainStep, CancelHeld', TakeoverInv',
         FT!Closed => FT!Closed', UploadsKept, Releases
  PROVE  FileInv'
<1>1. ChainInv' /\ OffersInv'
  BY Moving, ChainStepInv, OffersKept DEF FileInv, FileTypes, UploadsKept
<1>2. UploadsCounted' /\ DiskInv'
  BY CountedKept, DiskKept DEF FileInv, FileTypes
<1>3. FT!QuotaRespected'
  <2>1. uploadBytes' <= uploadBytes
    BY DEF UploadsKept, FileInv, FileTypes, UploadTypes
  <2> QED BY <2>1, QuotaKept DEF FileInv, FileTypes, Releases
<1> QED BY <1>1, <1>2, <1>3 DEF FileInv

LEMMA ChooserMoves ==
  ASSUME UploadTypes, OffersInv, UNCHANGED <<transfer, upload, written, uploadBytes>>,
         chooser' \in BOOLEAN
  PROVE  UploadTypes' /\ UploadsKept
  BY DEF UploadTypes, OffersInv, UploadsKept, UploadsCalm, FT!Charged

LEMMA HeldStays ==
  ASSUME CancelHeld, UNCHANGED <<FT!chainVars, cancelling>>
  PROVE  CancelHeld'
  BY DEF CancelHeld, FT!chainVars

LEMMA ChainStays ==
  ASSUME UNCHANGED FT!chainVars
  PROVE  ChainStep
  BY DEF ChainStep

LEMMA UploadsEnd ==
  ASSUME FT!FileTransfersAssumption, FileInv,
         FT!UploadExpires \/ FT!ChooserExpires \/ \E o \in Offers : FT!UploadAborted(o)
  PROVE  FileInv'
<1> USE DEF FileInv, FileTypes
<1>1. UNCHANGED <<FT!sessionVars, FT!chainVars, FT!downloadVars, cancelling, ending>>
  BY DEF FT!UploadExpires, FT!ChooserExpires, FT!UploadAborted
<1>2. DownloadTypes' /\ OfferTypes' /\ Releases
  BY <1>1, DownloadsStill, OffersStill DEF FT!downloadVars
<1>3. SessionTypes' /\ UNCHANGED <<takeover, fileGeneration>>
  BY <1>1, SessionStill
<1>4. CancelTypes' /\ CancelHeld'
  BY <1>1, CancelsTyped, HeldStays
<1>5. ChainStep
  BY <1>1, ChainStays
<1>6. CASE FT!UploadExpires
  <2>1. UploadTypes' /\ UploadsKept
    BY <1>6, AbortCalm DEF FT!UploadExpires, UploadTypes
  <2> QED BY <1>1, <1>2, <1>3, <1>4, <1>5, <2>1, Steady DEF FT!Closed
<1>7. CASE FT!ChooserExpires
  <2>1. UploadTypes' /\ UploadsKept
    BY <1>7, ChooserMoves DEF FT!ChooserExpires
  <2> QED BY <1>1, <1>2, <1>3, <1>4, <1>5, <2>1, Steady DEF FT!Closed
<1>8. ASSUME NEW o \in Offers, FT!UploadAborted(o)
      PROVE  FileInv'
  <2>1. /\ upload[o] = "aborting" /\ upload' = [upload EXCEPT ![o] = "gone"]
        /\ uploadBytes' = uploadBytes - Bytes[o] /\ UNCHANGED <<chooser, transfer, written>>
    BY <1>8 DEF FT!UploadAborted
  <2>2. o \in FT!Charged
    BY <2>1 DEF FT!Charged
  <2>3. uploadBytes' \in Nat /\ uploadBytes' <= uploadBytes /\ UploadsCounted'
    BY <2>1, <2>2, BytesReturned
  <2>4. UploadTypes'
    BY <2>1, <2>3 DEF UploadTypes
  <2>5. UploadsCalm
    BY <2>1 DEF UploadsCalm, OffersInv, UploadTypes
  <2> QED BY <1>1, <1>2, <1>3, <1>4, <1>5, <2>3, <2>4, <2>5, Returning DEF FT!Closed
<1> QED BY <1>6, <1>7, <1>8

\* A cancellation goes on, and its caller still awaits it.
LEMMA StageKeeps ==
  ASSUME FT!FileTransfersAssumption, FileInv, NEW c \in FT!Callers, cancelling[c] # FT!Idle,
         NEW for \in SUBSET (Offers \cup Guids),
         NEW at \in {"commits", "offers", "sources", "aborts"}, FT!Stage(c, at, for),
         UNCHANGED <<FT!sessionVars, FT!chainVars, FT!uploadVars, commits, ending>>,
         DownloadTypes', OfferTypes', Releases
  PROVE  FileInv'
<1> USE DEF FileInv, FileTypes
<1>1. CancelTypes'
  <2>1. ending' \in {"no", "commits", "flow", "tab", "storage", "disposed"}
    BY DEF CancelTypes
  <2> QED BY <2>1, StageTyped DEF FT!Stage
<1>2. CancelHeld'
  <2>1. cancelling'["chain"] # cancelling["chain"] => c = "chain"
    BY DEF FT!Stage, CancelTypes, FT!Callers
  <2> QED BY <2>1 DEF CancelHeld, FT!chainVars
<1>3. UploadTypes' /\ UploadsKept
  BY UploadsStill
<1>4. SessionTypes' /\ UNCHANGED <<takeover, fileGeneration>>
  BY SessionStill
<1>5. ChainStep
  BY ChainStays
<1> QED BY <1>1, <1>2, <1>3, <1>4, <1>5, Steady DEF FT!Closed

LEMMA CancelledKeeps ==
  ASSUME FT!FileTransfersAssumption, FileInv, NEW c \in FT!Callers, cancelling[c] # FT!Idle,
         FT!Cancelled(c)
  PROVE  FileInv'
<1> USE DEF FileInv, FileTypes
<1>1. /\ cancelling' = [cancelling EXCEPT ![c] = FT!Idle]
      /\ c = "chain" => FT!Pop
      /\ c # "chain" => UNCHANGED FT!chainVars
      /\ ending' = IF c = "cleanup" THEN "tab" ELSE ending
      /\ takeover' = IF c = "chain" /\ fileChain[1].op = "takeover" THEN "drained" ELSE takeover
      /\ chooser' = (chooser \/ /\ c = "chain" /\ fileChain[1].op = "chooser"
                                /\ ~FT!Closed /\ viewer /\ "upload" \in grants)
      /\ UNCHANGED <<sink, viewer, fileGeneration, grants, transfer, upload, written, uploadBytes,
                     FT!downloadVars>>
  BY DEF FT!Cancelled
<1>2. CancelTypes'
  <2>1. ending' \in {"no", "commits", "flow", "tab", "storage", "disposed"}
    BY <1>1 DEF CancelTypes
  <2>2. cancelling' = [cancelling EXCEPT ![c] = [at |-> "idle", for |-> {}]]
    BY <1>1 DEF FT!Idle
  <2> QED BY <2>1, <2>2, StageTyped
<1>3. UploadTypes' /\ UploadsKept
  <2>1. chooser' \in BOOLEAN
    BY <1>1 DEF UploadTypes, SessionTypes
  <2> QED BY <1>1, <2>1, ChooserMoves
<1>4. DownloadTypes' /\ OfferTypes' /\ Releases
  BY <1>1, DownloadsStill, OffersStill DEF FT!downloadVars
<1>5. SessionTypes'
  BY <1>1 DEF SessionTypes
<1>6. FT!Closed => FT!Closed'
  BY <1>1 DEF FT!Closed
<1>7. CASE c = "chain"
  <2>1. step = "cancel" /\ fileChain # <<>> /\ ~FT!At("completed", "stat") /\ FT!Pop
    BY <1>1, <1>7 DEF CancelHeld, ChainInv, FT!At
  <2>2. ChainStep
    BY <2>1 DEF ChainStep, Goes
  <2>3. CancelHeld'
    BY <1>1, <1>7 DEF CancelHeld, CancelTypes, FT!Callers
  <2>4. CASE fileChain[1].op = "takeover"
    <3>1. \A i \in DOMAIN fileChain' : i \in Nat /\ i > 0 /\ i + 1 \in DOMAIN fileChain /\ fileChain'[i] = fileChain[i + 1]
      BY <2>1, Popped
    <3>2. 1 \in Takeovers
      BY <2>1, <2>4, HeadEntry DEF Takeovers
    <3>3. Takeovers' = {}
      <4> SUFFICES ASSUME NEW i \in Takeovers'  PROVE FALSE
        OBVIOUS
      <4>1. i + 1 \in Takeovers /\ i \in Nat /\ i > 0
        BY <3>1 DEF Takeovers
      <4>2. i + 1 = 1
        BY <3>2, <4>1 DEF TakeoverInv
      <4> QED BY <4>1, <4>2
    <3>4. takeover # "no" /\ fileGeneration' = fileGeneration
      BY <1>1, <3>2 DEF TakeoverInv
    <3>5. TakeoverInv'
      BY <3>3, <3>4 DEF TakeoverInv
    <3> QED BY <1>2, <1>3, <1>4, <1>5, <1>6, <2>2, <2>3, <3>5, Settling
  <2>5. CASE fileChain[1].op # "takeover"
    <3>1. UNCHANGED <<takeover, fileGeneration>>
      BY <1>1, <2>5
    <3> QED BY <1>2, <1>3, <1>4, <1>5, <1>6, <2>2, <2>3, <3>1, Steady
  <2> QED BY <2>4, <2>5
<1>8. CASE c # "chain"
  <2>1. CancelHeld'
    BY <1>1, <1>8 DEF CancelHeld, CancelTypes, FT!Callers, FT!chainVars
  <2>2. ChainStep /\ UNCHANGED <<takeover, fileGeneration>>
    BY <1>1, <1>8, ChainStays
  <2> QED BY <1>2, <1>3, <1>4, <1>5, <1>6, <2>1, <2>2, Steady
<1> QED BY <1>7, <1>8

LEMMA CancelsKeep ==
  ASSUME FT!FileTransfersAssumption, FileInv, NEW c \in FT!Callers, FT!CancelSteps(c)
  PROVE  FileInv'
<1> USE DEF FileInv, FileTypes
<1>1. cancelling[c] # FT!Idle
  BY DEF FT!CancelSteps, FT!UploadCancelled, FT!CancelOffers, FT!CommitsAwaited, FT!CancelSources, FT!SourcesCancelled,
         FT!DownloadsCancelled, FT!Idle
<1>2. CASE FT!UploadCancelled(c)
  <2>1. CASE FT!AllDownloads(c)
    <3>1. FT!Stage(c, "commits", FT!Committing) /\ UNCHANGED <<FT!sessionVars, FT!chainVars,
                                                               FT!uploadVars, FT!downloadVars, ending>>
      BY <1>2, <2>1 DEF FT!UploadCancelled
    <3>2. FT!Committing \in SUBSET (Offers \cup Guids)
      BY DEF FT!Committing
    <3>3. DownloadTypes' /\ OfferTypes' /\ Releases
      BY <3>1, DownloadsStill, OffersStill DEF FT!downloadVars
    <3> QED BY <1>1, <3>1, <3>2, <3>3, StageKeeps DEF FT!downloadVars
  <2> QED BY <1>1, <1>2, <2>1, CancelledKeeps DEF FT!UploadCancelled
<1>3. CASE FT!CancelOffers(c)
  <2> DEFINE G == {g \in Guids : offered[g] # FT!NoOffer}
  <2>1. /\ FT!Stage(c, "offers", G) /\ FT!Withdraw(G) /\ FT!Remove(G, FT!Tracked)
        /\ UNCHANGED <<FT!sessionVars, FT!chainVars, FT!uploadVars, commits, ending>>
    BY <1>3 DEF FT!CancelOffers
  <2>2. G \in SUBSET (Offers \cup Guids)
    OBVIOUS
  <2> HIDE DEF G
  <2>3. DownloadTypes' /\ Releases
    BY <2>1, RemoveReleases
  <2>4. OfferTypes'
    BY <2>1, WithdrawTyped
  <2> QED BY <1>1, <2>1, <2>2, <2>3, <2>4, StageKeeps
<1>4. CASE FT!CancelSources(c)
  <2>1. /\ FT!Stage(c, "sources", sources) /\ FT!Remove(sources, FT!Tracked)
        /\ UNCHANGED <<FT!sessionVars, FT!chainVars, FT!uploadVars, commits, offered, ending>>
    BY <1>4 DEF FT!CancelSources
  <2>2. sources \in SUBSET (Offers \cup Guids)
    BY DEF DownloadTypes
  <2>3. DownloadTypes' /\ Releases /\ OfferTypes'
    BY <2>1, RemoveReleases, OffersStill
  <2> QED BY <1>1, <2>1, <2>2, <2>3, StageKeeps
<1>5. CASE FT!SourcesCancelled(c)
  <2>1. /\ FT!Stage(c, "aborts", aborts)
        /\ UNCHANGED <<FT!sessionVars, FT!chainVars, FT!uploadVars, FT!downloadVars, ending>>
    BY <1>5 DEF FT!SourcesCancelled
  <2>2. aborts \in SUBSET (Offers \cup Guids)
    BY DEF DownloadTypes
  <2>3. DownloadTypes' /\ OfferTypes' /\ Releases
    BY <2>1, DownloadsStill, OffersStill DEF FT!downloadVars
  <2> QED BY <1>1, <2>1, <2>2, <2>3, StageKeeps DEF FT!downloadVars
<1>6. CASE FT!DownloadsCancelled(c)
  BY <1>1, <1>6, CancelledKeeps DEF FT!DownloadsCancelled
<1> QED BY <1>2, <1>3, <1>4, <1>5, <1>6 DEF FT!CancelSteps

-----------------------------------------------------------------------------
(* Downloads.                                                              *)

\* What a reservation is made of
LEMMA Reserving ==
  ASSUME FT!FileTransfersAssumption, DownloadTypes, UploadTypes, FT!QuotaRespected, NEW g \in Guids,
         NEW bytes \in Nat,
         FT!Reserve(g, bytes), UNCHANGED FT!uploadVars
  PROVE  /\ FT!QuotaRespected' /\ FT!Reserved' = FT!Reserved \cup {g}
         /\ downloadBytes' \in [Guids -> Nat \cup {NoFile}] /\ sources' \in SUBSET Guids
         /\ held' \in SUBSET Guids /\ UNCHANGED <<aborts, outcome>>
<1> DEFINE R == FT!Reserved
           Q == FT!Reserved \ {g}
           own == IF g \in FT!Reserved THEN downloadBytes[g] ELSE 0
<1>1. /\ FT!WithinLimits(g, bytes) /\ downloadBytes' = [downloadBytes EXCEPT ![g] = bytes]
      /\ held' = (IF sink THEN held \cup {g} ELSE held) /\ sources' = sources \cup {g}
      /\ UNCHANGED <<aborts, outcome>>
  BY DEF FT!Reserve
<1>2. downloadBytes' \in [Guids -> Nat \cup {NoFile}] /\ sources' \in SUBSET Guids /\ held' \in SUBSET Guids
  BY <1>1 DEF DownloadTypes
<1>3. downloadBytes'[g] = bytes /\ \A h \in Guids : h # g => downloadBytes'[h] = downloadBytes[h]
  BY <1>1 DEF DownloadTypes
<1>4. FT!Reserved' = R \cup {g}
  BY <1>3, FileConstants DEF FT!Reserved
<1>5. /\ R \subseteq Guids /\ IsFiniteSet(R) /\ \A h \in R : downloadBytes[h] \in Nat
      /\ FT!SumOf(downloadBytes, R) \in Nat /\ Cardinality(R) \in Nat
  BY ReservedFinite
<1>6. IsFiniteSet(Q) /\ g \notin Q /\ Q \cup {g} = R \cup {g} /\ \A h \in Q : downloadBytes[h] = downloadBytes'[h]
  BY <1>3, <1>5, FS_Subset
<1>7. FT!SumOf(downloadBytes, Q) = FT!SumOf(downloadBytes', Q) /\ FT!SumOf(downloadBytes, Q) \in Nat
  <2>1. \A h \in Q : downloadBytes[h] \in Nat
    BY <1>5
  <2> HIDE DEF Q
  <2> QED BY <1>6, <2>1, SumSame, SumIsCount
<1>8. FT!SumOf(downloadBytes', Q \cup {g}) = FT!SumOf(downloadBytes', Q) + bytes
  <2>1. \A h \in Q : downloadBytes'[h] \in Nat
    BY <1>5, <1>6
  <2> HIDE DEF Q
  <2> QED BY <1>3, <1>6, <2>1, SumAdd
<1>9. FT!SumOf(downloadBytes, R) = FT!SumOf(downloadBytes, Q) + own /\ own \in Nat
  <2>1. CASE g \in R
    BY <1>5, <2>1, SumRemove
  <2>2. CASE g \notin R
    <3>1. Q = R
      BY <2>2
    <3> QED BY <1>5, <2>2, <3>1
  <2> QED BY <2>1, <2>2
<1>10. FT!SumOf(downloadBytes, FT!Reserved)' = FT!SumOf(downloadBytes', R \cup {g})
  BY <1>4 DEF FT!SumOf
<1>11. FT!TemporaryBytes' <= MaxTemporary
  <2>1. FT!TemporaryBytes - own + bytes <= MaxTemporary
    BY <1>1 DEF FT!WithinLimits
  <2>2. uploadBytes' = uploadBytes /\ uploadBytes \in Nat
    BY DEF FT!uploadVars, UploadTypes
  <2>3. FT!TemporaryBytes = uploadBytes + FT!SumOf(downloadBytes, R)
    BY DEF FT!TemporaryBytes
  <2>4. FT!TemporaryBytes' = uploadBytes + FT!SumOf(downloadBytes', Q \cup {g})
    BY <1>6, <1>10, <2>2 DEF FT!TemporaryBytes
  <2> HIDE DEF R, Q, own
  <2> QED BY <1>7, <1>8, <1>9, <2>1, <2>2, <2>3, <2>4, FileConstants
<1>12. Cardinality(FT!Reserved)' <= MaxFiles
  <2>1. CASE g \in R
    <3>1. FT!Reserved' = FT!Reserved
      BY <1>4, <2>1
    <3> QED BY <3>1, SameCount DEF FT!QuotaRespected
  <2>2. CASE g \notin R
    <3>1. Cardinality(R) < MaxFiles
      BY <1>1, <2>2, SameCount DEF FT!WithinLimits
    <3>2. Cardinality(R \cup {g}) = Cardinality(R) + 1
      BY <1>5, <2>2, FS_AddElement
    <3>3. Cardinality(FT!Reserved)' = Cardinality(R \cup {g})
      BY <1>4
    <3> QED BY <1>5, <3>1, <3>2, <3>3, FileConstants
  <2> QED BY <2>1, <2>2
<1> QED BY <1>1, <1>2, <1>4, <1>11, <1>12, SameCount DEF FT!QuotaRespected

\* A reservation for a download that Chrome has, or that Core looks at
LEMMA ReserveKeeps ==
  ASSUME FT!FileTransfersAssumption, FileInv, NEW g \in Guids, NEW bytes \in Nat, FT!Reserve(g, bytes),
         UNCHANGED FT!uploadVars,
         chrome' \in [Guids -> {"none", "running", "done", "removing", "removed"}],
         \A h \in Guids : h # g => chrome'[h] = chrome[h],
         chrome'[g] \in {"running", "done"} \/ Examined(g)',
         \A h \in Guids : Examined(h) => Examined(h)' \/ h = g, UNCHANGED ending
  PROVE  DownloadTypes' /\ DiskInv' /\ FT!QuotaRespected'
<1>1. /\ FT!QuotaRespected' /\ FT!Reserved' = FT!Reserved \cup {g}
      /\ downloadBytes' \in [Guids -> Nat \cup {NoFile}] /\ sources' \in SUBSET Guids
      /\ held' \in SUBSET Guids /\ UNCHANGED <<aborts, outcome>>
  BY Reserving DEF FileInv, FileTypes
<1>2. DownloadTypes'
  BY <1>1 DEF DownloadTypes, FileInv, FileTypes
<1>3. DiskInv'
  <2>1. ASSUME NEW h \in FT!Reserved'
        PROVE  chrome'[h] \in {"running", "done", "removing"} \/ Examined(h)' \/ FT!Closed'
    <3>1. h \in Guids
      BY DEF FT!Reserved
    <3> QED BY <1>1, <3>1 DEF DiskInv, FileInv, FT!Closed
  <2>2. ASSUME NEW h \in Guids, chrome'[h] \in {"running", "done"}
        PROVE  h \in FT!Reserved'
    BY <1>1, <2>2 DEF DiskInv, FileInv
  <2> QED BY <2>1, <2>2 DEF DiskInv
<1> QED BY <1>1, <1>2, <1>3

\* Downloads change beside the chain, and the uploads do not.
LEMMA DownloadKeeps ==
  ASSUME FT!FileTransfersAssumption, FileInv, UNCHANGED <<FT!sessionVars, FT!chainVars,
                                                          FT!uploadVars, cancelling, ending>>,
         DownloadTypes', OfferTypes', Releases \/ (DiskInv' /\ FT!QuotaRespected')
  PROVE  FileInv'
<1> USE DEF FileInv, FileTypes
<1>1. UploadTypes' /\ UploadsKept
  BY UploadsStill
<1>2. SessionTypes' /\ UNCHANGED <<takeover, fileGeneration>>
  BY SessionStill
<1>3. CancelTypes' /\ CancelHeld'
  BY CancelsTyped, HeldStays
<1>4. ChainStep
  BY ChainStays
<1>5. CASE Releases
  BY <1>1, <1>2, <1>3, <1>4, <1>5, Steady DEF FT!Closed
<1>6. CASE DiskInv' /\ FT!QuotaRespected'
  <2>1. ChainInv' /\ TakeoverInv' /\ OffersInv'
    BY <1>1, <1>2, <1>4, Moving, ChainStepInv, TakeoversKept, OffersKept DEF UploadsKept
  <2>2. UploadsCounted'
    BY <1>1, CountedKept
  <2> QED BY <1>1, <1>2, <1>3, <1>6, <2>1, <2>2
<1> QED BY <1>5, <1>6

LEMMA ExaminedStill ==
  ASSUME UNCHANGED FT!chainVars, NEW g
  PROVE  Examined(g)' <=> Examined(g)
  BY DEF FT!chainVars, Examined, FT!At

LEMMA BeginsKeeps ==
  ASSUME FT!FileTransfersAssumption, FileInv, NEW g \in Guids,
         FT!DownloadBegins(g) \/ FT!DownloadProgresses(g)
  PROVE  FileInv'
<1> USE DEF FileInv, FileTypes
<1>1. UNCHANGED <<FT!sessionVars, FT!chainVars, FT!uploadVars, commits, offered, cancelling, ending>>
  BY DEF FT!DownloadBegins, FT!DownloadProgresses
<1>2. OfferTypes'
  BY <1>1, OffersStill
<1>3. \A h \in Guids : Examined(h) => Examined(h)'
  BY <1>1, ExaminedStill
<1>4. CASE FT!Reserve(g, 0) /\ chrome' = [chrome EXCEPT ![g] = "running"]
  <2>1. /\ chrome' \in [Guids -> {"none", "running", "done", "removing", "removed"}] /\ chrome'[g] = "running"
        /\ \A h \in Guids : h # g => chrome'[h] = chrome[h]
    BY <1>4 DEF DownloadTypes
  <2>2. DownloadTypes' /\ DiskInv' /\ FT!QuotaRespected'
    BY <1>1, <1>3, <1>4, <2>1, ReserveKeeps
  <2> QED BY <1>1, <1>2, <2>2, DownloadKeeps
<1>5. CASE FT!Reserve(g, Size[g]) /\ UNCHANGED chrome /\ chrome[g] = "running"
  <2>1. chrome' \in [Guids -> {"none", "running", "done", "removing", "removed"}]
    BY <1>5 DEF DownloadTypes
  <2>2. Size[g] \in Nat
    BY FileConstants
  <2>3. DownloadTypes' /\ DiskInv' /\ FT!QuotaRespected'
    BY <1>1, <1>3, <1>5, <2>1, <2>2, ReserveKeeps
  <2> QED BY <1>1, <1>2, <2>3, DownloadKeeps
<1>6. CASE FT!Remove({g}, FT!Tracked \cup {g}) \/ FT!Remove({g}, FT!Tracked)
  <2>1. DownloadTypes' /\ Releases
    BY <1>6, RemoveReleases
  <2> QED BY <1>1, <1>2, <2>1, DownloadKeeps
<1> QED BY <1>4, <1>5, <1>6 DEF FT!DownloadBegins, FT!DownloadProgresses

LEMMA CompletesKeeps ==
  ASSUME FT!FileTransfersAssumption, FileInv, NEW g \in Guids, FT!DownloadCompletes(g)
  PROVE  FileInv'
<1> USE DEF FileInv, FileTypes
<1>1. /\ FT!Reserve(g, Size[g]) /\ chrome' = [chrome EXCEPT ![g] = "done"]
      /\ UNCHANGED <<FT!sessionVars, FT!uploadVars, offered, cancelling, ending>>
      /\ IF sink THEN commits' = [commits EXCEPT ![g] = "stat"] /\ UNCHANGED FT!chainVars
                 ELSE FT!Enqueue("completed", g) /\ UNCHANGED commits
  BY DEF FT!DownloadCompletes
<1>2. ChainStep
  <2>1. CASE UNCHANGED FT!chainVars
    BY <2>1, ChainStays
  <2>2. CASE FT!Enqueue("completed", g)
    <3>1. [op |-> "completed", arg |-> g] \in Entries
      BY DEF Entries
    <3>2. "completed" \in FT!Ops \ {"takeover"} /\ g \in Offers \cup Guids \cup {NoFile}
      BY DEF FT!Ops
    <3>3. Joins(FT!Ops \ {"takeover"})
      BY <2>2, <3>1, <3>2 DEF Joins
    <3> QED BY <3>3 DEF ChainStep
  <2> QED BY <1>1, <2>1, <2>2
<1>3. OfferTypes'
  BY <1>1 DEF OfferTypes
<1>4. DownloadTypes' /\ DiskInv' /\ FT!QuotaRespected'
  <2>1. /\ chrome' \in [Guids -> {"none", "running", "done", "removing", "removed"}] /\ chrome'[g] = "done"
        /\ \A h \in Guids : h # g => chrome'[h] = chrome[h]
    BY <1>1 DEF DownloadTypes
  <2>2. \A h \in Guids : Examined(h) => Examined(h)'
    BY <1>2, ExaminedStays
  <2>3. Size[g] \in Nat
    BY FileConstants
  <2> QED BY <1>1, <2>1, <2>2, <2>3, ReserveKeeps
<1>5. UploadTypes' /\ UploadsKept
  BY <1>1, UploadsStill
<1>6. SessionTypes' /\ UNCHANGED <<takeover, fileGeneration>>
  BY <1>1, SessionStill
<1>7. CancelTypes'
  BY <1>1, CancelsTyped
<1>8. CancelHeld'
  BY <1>1 DEF CancelHeld, FT!Enqueue, FT!chainVars
<1>9. ChainInv' /\ TakeoverInv' /\ OffersInv'
  BY <1>2, <1>5, <1>6, Moving, ChainStepInv, TakeoversKept, OffersKept DEF UploadsKept
<1>10. UploadsCounted'
  BY <1>5, CountedKept
<1> QED BY <1>3, <1>4, <1>5, <1>6, <1>7, <1>8, <1>9, <1>10

\* The other steps of a download give bytes back.
LEMMA DownloadEndsKeeps ==
  ASSUME FT!FileTransfersAssumption, FileInv, NEW g \in Guids,
         FT!DownloadCanceled(g) \/ FT!RemoveEnds(g) \/ FT!SinkAborted(g) \/ FT!CommitStarts(g) \/ FT!Committed(g)
           \/ FT!CommitFails(g) \/ FT!CommitSettles(g) \/ FT!OfferExpires(g)
  PROVE  FileInv'
<1> USE DEF FileInv, FileTypes
<1>1. UNCHANGED <<FT!sessionVars, FT!chainVars, FT!uploadVars, cancelling, ending>>
  BY DEF FT!DownloadCanceled, FT!RemoveEnds, FT!SinkAborted, FT!CommitStarts, FT!Committed, FT!CommitFails, FT!CommitSettles, FT!OfferExpires
<1>2. CASE FT!DownloadCanceled(g) \/ FT!RemoveEnds(g)
  <2>1. /\ \E v \in {"removing", "removed"} : chrome' = [chrome EXCEPT ![g] = v]
        /\ downloadBytes' = [downloadBytes EXCEPT ![g] = NoFile]
        /\ sources' = sources \ {g} /\ UNCHANGED <<commits, offered>>
        /\ held' = held \ {g} /\ aborts' = aborts \cup ({g} \cap held)
        /\ outcome' = [h \in Guids |-> IF h \in {g} \cap held THEN outcome[h] \cup {"aborted"} ELSE outcome[h]]
    BY <1>2 DEF FT!DownloadCanceled, FT!RemoveEnds, FT!AbortSink
  <2>2. DownloadTypes'
    <3>1. chrome' \in [Guids -> {"none", "running", "done", "removing", "removed"}]
      BY <2>1 DEF DownloadTypes
    <3>2. outcome' \in [Guids -> SUBSET {"committing", "committed", "aborted"}]
      BY <2>1 DEF DownloadTypes
    <3>3. downloadBytes' \in [Guids -> Nat \cup {NoFile}]
      BY <2>1 DEF DownloadTypes
    <3>4. sources' \in SUBSET Guids /\ held' \in SUBSET Guids /\ aborts' \in SUBSET Guids
      BY <2>1 DEF DownloadTypes
    <3> QED BY <3>1, <3>2, <3>3, <3>4 DEF DownloadTypes
  <2>3. Releases
    BY <2>1 DEF Releases, DownloadTypes
  <2>4. OfferTypes'
    BY <2>1, OffersStill
  <2> QED BY <1>1, <2>2, <2>3, <2>4, DownloadKeeps
<1>3. CASE FT!SinkAborted(g)
  <2>1. DownloadTypes' /\ Releases /\ OfferTypes'
    BY <1>3 DEF FT!SinkAborted, DownloadTypes, OfferTypes, Releases
  <2> QED BY <1>1, <2>1, DownloadKeeps
<1>4. CASE FT!CommitStarts(g)
  <2>1. OfferTypes'
    BY <1>4 DEF FT!CommitStarts, OfferTypes
  <2>2. CASE FT!Remove({g}, FT!Tracked)
    <3>1. DownloadTypes' /\ Releases
      BY <2>2, RemoveReleases
    <3> QED BY <1>1, <2>1, <3>1, DownloadKeeps
  <2>3. CASE /\ outcome' = [outcome EXCEPT ![g] = @ \cup {"committing"}]
             /\ UNCHANGED <<chrome, downloadBytes, sources, held, aborts>>
    <3>1. DownloadTypes'
      BY <2>3 DEF DownloadTypes
    <3>2. Releases
      BY <2>3 DEF Releases
    <3> QED BY <1>1, <2>1, <3>1, <3>2, DownloadKeeps
  <2> QED BY <1>4, <2>2, <2>3 DEF FT!CommitStarts
<1>5. CASE FT!Committed(g) \/ FT!CommitFails(g)
  <2>1. /\ commits' = [commits EXCEPT ![g] = "remove"] /\ offered' = offered
        /\ chrome' = [chrome EXCEPT ![g] = IF g \in FT!Tracked THEN "removing" ELSE @]
        /\ sources' = sources \ {g}
        /\ downloadBytes' = [downloadBytes EXCEPT ![g] = IF g \in FT!Tracked THEN @ ELSE NoFile]
        /\ held' \subseteq held /\ aborts' \subseteq aborts \cup {g}
    BY <1>5 DEF FT!Committed, FT!CommitFails
  <2>2. outcome' \in [Guids -> SUBSET {"committing", "committed", "aborted"}]
    BY <1>5 DEF FT!Committed, FT!CommitFails, DownloadTypes
  <2>3. DownloadTypes'
    <3>1. chrome' \in [Guids -> {"none", "running", "done", "removing", "removed"}]
      BY <2>1 DEF DownloadTypes
    <3>2. downloadBytes' \in [Guids -> Nat \cup {NoFile}]
      BY <2>1 DEF DownloadTypes
    <3> QED BY <2>1, <2>2, <3>1, <3>2 DEF DownloadTypes
  <2>4. Releases
    BY <2>1 DEF Releases, DownloadTypes, FT!Tracked
  <2>5. OfferTypes'
    BY <2>1 DEF OfferTypes
  <2> QED BY <1>1, <2>3, <2>4, <2>5, DownloadKeeps
<1>6. CASE FT!CommitSettles(g)
  <2>1. DownloadTypes' /\ Releases
    BY <1>6, DownloadsStill DEF FT!CommitSettles
  <2>2. OfferTypes'
    BY <1>6 DEF FT!CommitSettles, OfferTypes
  <2> QED BY <1>1, <2>1, <2>2, DownloadKeeps
<1>7. CASE FT!OfferExpires(g)
  <2>1. FT!Withdraw({g}) /\ FT!Remove({g}, FT!Tracked) /\ commits' = commits
    BY <1>7 DEF FT!OfferExpires
  <2>2. DownloadTypes' /\ Releases /\ OfferTypes'
    BY <2>1, RemoveReleases, WithdrawTyped
  <2> QED BY <1>1, <2>2, DownloadKeeps
<1> QED BY <1>2, <1>3, <1>4, <1>5, <1>6, <1>7

-----------------------------------------------------------------------------
(* The head of the chain: downloads.                                       *)

\* The head goes on with its download.
LEMMA HeadOfDownload ==
  ASSUME FT!FileTransfersAssumption, FileInv, fileChain # <<>>, step # "cancel",
         FT!Pop \/ FT!Await("remove"), UNCHANGED <<FT!sessionVars, FT!uploadVars, cancelling>>,
         DownloadTypes', OfferTypes', CancelTypes', FT!Closed => FT!Closed', DiskInv',
         \A g \in Guids : downloadBytes'[g] = downloadBytes[g] \/ downloadBytes'[g] = NoFile
  PROVE  FileInv'
<1> USE DEF FileInv, FileTypes
<1>1. UploadTypes' /\ UploadsKept
  BY UploadsStill
<1>2. SessionTypes' /\ UNCHANGED <<takeover, fileGeneration>>
  BY SessionStill
<1>3. Moves
  BY DEF Moves, Goes
<1>4. ChainInv' /\ OffersInv'
  BY <1>1, <1>3, ChainStepInv, OffersKept DEF UploadsKept
<1>5. TakeoverInv'
  <2>1. FT!Pop \/ \E s \in FT!Steps : FT!Await(s)
    BY DEF FT!Steps
  <2> QED BY <1>2, <2>1, TakeoversAside
<1>6. CancelHeld'
  BY DEF CancelHeld
<1>7. UploadsCounted'
  BY <1>1, CountedKept
<1>8. FT!QuotaRespected'
  <2>1. uploadBytes' <= uploadBytes
    BY <1>1 DEF UploadsKept, UploadTypes
  <2> QED BY <1>1, <2>1, QuotaKept
<1> QED BY <1>1, <1>2, <1>4, <1>5, <1>6, <1>7, <1>8

LEMMA HeadReleases ==
  ASSUME FT!FileTransfersAssumption, FileInv, fileChain # <<>>, step \notin {"cancel", "stat"},
         FT!Pop \/ FT!Await("remove"), UNCHANGED <<FT!sessionVars, FT!uploadVars, cancelling, ending>>,
         DownloadTypes', OfferTypes', Releases
  PROVE  FileInv'
<1> USE DEF FileInv, FileTypes
<1>1. DiskInv'
  BY DiskAside DEF FT!At, FT!Closed
<1>2. CancelTypes'
  BY CancelsTyped
<1> QED BY <1>1, <1>2, HeadOfDownload DEF FT!Closed, Releases

LEMMA CompletedKeeps ==
  ASSUME FT!FileTransfersAssumption, FileInv, FT!CompletedStarts
  PROVE  FileInv'
<1>0. SUFFICES ASSUME NEW g, g = fileChain[1].arg  PROVE FileInv'
  OBVIOUS
<1> USE DEF FileInv, FileTypes
<1>1. /\ fileChain # <<>> /\ fileChain[1].op = "completed" /\ step = "start"
      /\ UNCHANGED <<FT!sessionVars, FT!uploadVars, commits, offered, cancelling, ending>>
  BY DEF FT!CompletedStarts, FT!At
<1>2. g \in Guids
  BY <1>0, <1>1, HeadEntry, EntryKinds
<1>3. OfferTypes'
  BY <1>1, OffersStill
<1>4. CASE FT!Remove({g}, FT!Tracked) /\ FT!Pop
  <2>1. DownloadTypes' /\ Releases
    BY <1>4, RemoveReleases
  <2> QED BY <1>1, <1>3, <1>4, <2>1, HeadReleases
<1>5. CASE FT!Reserve(g, Size[g]) /\ UNCHANGED chrome /\ FT!Await("stat")
  <2>1. step' = "stat" /\ fileChain' = fileChain
    BY <1>5 DEF FT!Await
  <2>2. Examined(g)' /\ \A h \in Guids : ~Examined(h)
    BY <1>0, <1>1, <2>1 DEF Examined, FT!At
  <2>3. Size[g] \in Nat
    BY <1>2, FileConstants
  <2>4. chrome' \in [Guids -> {"none", "running", "done", "removing", "removed"}]
    BY <1>5 DEF DownloadTypes
  <2>5. DownloadTypes' /\ DiskInv' /\ FT!QuotaRespected'
    BY <1>1, <1>2, <1>5, <2>2, <2>3, <2>4, ReserveKeeps
  <2>6. UploadTypes' /\ UploadsKept
    BY <1>1, UploadsStill
  <2>7. SessionTypes' /\ UNCHANGED <<takeover, fileGeneration>>
    BY <1>1, SessionStill
  <2>8. ChainInv'
    BY <1>1, <2>1 DEF ChainInv, FT!Steps
  <2>9. OffersInv'
    <3>1. upload' = upload /\ transfer' = transfer
      BY <1>1 DEF FT!uploadVars
    <3>2. \A i \in DOMAIN fileChain : OfferedAt(i)' => OfferedAt(i)
      BY <1>1, <2>1 DEF OfferedAt
    <3> QED BY <2>1, <3>1, <3>2 DEF OffersInv
  <2>10. TakeoverInv'
    <3>1. \E s \in FT!Steps : FT!Await(s)
      BY <1>5 DEF FT!Steps
    <3> QED BY <1>1, <2>7, <3>1, TakeoversAside
  <2>11. CancelTypes' /\ CancelHeld'
    BY <1>1, CancelsTyped DEF CancelHeld
  <2>12. UploadsCounted'
    BY <2>6, CountedKept
  <2> QED BY <1>3, <2>5, <2>6, <2>7, <2>8, <2>9, <2>10, <2>11, <2>12
<1> QED BY <1>0, <1>4, <1>5 DEF FT!CompletedStarts

\* The file has been looked at.
LEMMA ExaminedKeeps ==
  ASSUME FT!FileTransfersAssumption, FileInv,
         FT!DownloadOffered \/ FT!DownloadIncomplete \/ FT!DownloadVanished
  PROVE  FileInv'
<1> DEFINE g == fileChain[1].arg
<1> USE DEF FileInv, FileTypes
<1>1. /\ fileChain # <<>> /\ fileChain[1].op = "completed" /\ step = "stat" /\ commits' = commits
      /\ UNCHANGED <<FT!sessionVars, FT!uploadVars, cancelling>>
  BY DEF FT!DownloadOffered, FT!DownloadIncomplete, FT!DownloadVanished, FT!At, FT!downloadVars
<1>2. g \in Guids
  BY <1>1, HeadEntry, EntryKinds
<1>3. \A h \in Guids : h # g => ~Examined(h)
  BY DEF Examined
<1>4. CASE FT!DownloadOffered
  <2>1. FT!Pop /\ UNCHANGED <<FT!removalVars, ending>> /\ chrome[g] \in {"done", "removing"}
    BY <1>4 DEF FT!DownloadOffered
  <2>2. DownloadTypes' /\ Releases
    BY <2>1, DownloadsStill
  <2>3. OfferTypes'
    <3>1. [at |-> "offered", generation |-> fileGeneration] \in [at : {"none", "offered", "streaming"}, generation : 0..MaxFileGeneration]
      BY FileConstants DEF SessionTypes
    <3> QED BY <1>1, <1>4, <3>1 DEF FT!DownloadOffered, OfferTypes
  <2>4. DiskInv'
    <3>1. chrome' = chrome /\ FT!Reserved' = FT!Reserved
      BY <2>1 DEF FT!removalVars, FT!Reserved
    <3>2. \A h \in FT!Reserved : h \in Guids
      BY DEF FT!Reserved
    <3> QED BY <1>3, <2>1, <3>1, <3>2 DEF DiskInv, FT!Closed
  <2>5. CancelTypes'
    BY <1>1, <2>1, CancelsTyped
  <2> QED BY <1>1, <2>1, <2>2, <2>3, <2>4, <2>5, HeadOfDownload DEF FT!Closed, Releases
<1>5. CASE FT!DownloadIncomplete
  <2>1. FT!Remove({g}, FT!Tracked) /\ FT!Await("remove") /\ UNCHANGED <<offered, ending>>
    BY <1>5 DEF FT!DownloadIncomplete
  <2>2. DownloadTypes' /\ Releases
    BY <2>1, RemoveReleases
  <2>3. OfferTypes' /\ CancelTypes'
    BY <1>1, <2>1, OffersStill, CancelsTyped
  <2>4. chrome'[g] = "removing" \/ g \notin FT!Reserved'
    BY <1>2, <2>1 DEF FT!Remove, FT!Reserved
  <2>5. DiskInv'
    <3>1. ASSUME NEW h \in FT!Reserved'
          PROVE  chrome'[h] \in {"running", "done", "removing"} \/ FT!Closed'
      <4>1. h \in Guids /\ downloadBytes'[h] # NoFile
        BY DEF FT!Reserved
      <4> QED BY <1>3, <2>1, <2>2, <2>4, <4>1 DEF Releases, DiskInv, FT!Reserved, FT!Closed
    <3>2. ASSUME NEW h \in Guids, chrome'[h] \in {"running", "done"}
          PROVE  h \in FT!Reserved'
      BY <2>2, <3>2 DEF Releases, DiskInv, FT!Reserved
    <3> QED BY <3>1, <3>2 DEF DiskInv
  <2> QED BY <1>1, <2>1, <2>2, <2>3, <2>5, HeadOfDownload DEF FT!Closed, Releases
<1>6. CASE FT!DownloadVanished
  <2>1. FT!Pop /\ UNCHANGED FT!downloadVars /\ ending' = (IF FT!Closed THEN ending ELSE "commits")
    BY <1>6 DEF FT!DownloadVanished
  <2>2. DownloadTypes' /\ Releases /\ OfferTypes'
    BY <2>1, DownloadsStill, OffersStill DEF FT!downloadVars
  <2>3. FT!Closed' /\ CancelTypes'
    BY <1>1, <2>1 DEF FT!Closed, CancelTypes
  <2>4. DiskInv'
    BY <2>1, <2>3 DEF DiskInv, FT!downloadVars, FT!removalVars, FT!Reserved
  <2> QED BY <1>1, <2>1, <2>2, <2>3, <2>4, HeadOfDownload DEF Releases
<1> QED BY <1>4, <1>5, <1>6

LEMMA ResultsKeep ==
  ASSUME FT!FileTransfersAssumption, FileInv, FT!HeadRemoved \/ FT!DownloadAccepted \/ FT!DownloadResult
  PROVE  FileInv'
<1> USE DEF FileInv, FileTypes
<1>1. /\ fileChain # <<>> /\ step \notin {"cancel", "stat"} /\ commits' = commits
      /\ UNCHANGED <<FT!sessionVars, FT!uploadVars, cancelling, ending>>
  BY DEF FT!HeadRemoved, FT!DownloadAccepted, FT!DownloadResult, FT!At, ChainInv, FT!downloadVars
<1>2. CASE FT!HeadRemoved
  <2>1. FT!Pop /\ UNCHANGED FT!downloadVars
    BY <1>2 DEF FT!HeadRemoved
  <2>2. DownloadTypes' /\ Releases /\ OfferTypes'
    BY <2>1, DownloadsStill, OffersStill DEF FT!downloadVars
  <2> QED BY <1>1, <2>1, <2>2, HeadReleases
<1>3. CASE FT!DownloadAccepted
  <2>1. FT!Pop /\ UNCHANGED FT!removalVars
    BY <1>3 DEF FT!DownloadAccepted
  <2>2. DownloadTypes' /\ Releases
    BY <2>1, DownloadsStill
  <2>3. OfferTypes'
    <3>1. CASE offered' = offered
      BY <1>1, <3>1, OffersStill
    <3>2. CASE offered' = [offered EXCEPT ![fileChain[1].arg].at = "streaming"]
      <4>1. \A h \in Guids : [offered[h] EXCEPT !.at = "streaming"]
                               \in [at : {"none", "offered", "streaming"}, generation : 0..MaxFileGeneration]
        BY DEF OfferTypes
      <4> QED BY <1>1, <3>2, <4>1 DEF OfferTypes
    <3> QED BY <1>3, <3>1, <3>2 DEF FT!DownloadAccepted
  <2> QED BY <1>1, <2>1, <2>2, <2>3, HeadReleases
<1>4. CASE FT!DownloadResult
  <2>1. CASE FT!Withdraw({fileChain[1].arg}) /\ FT!Remove({fileChain[1].arg}, FT!Tracked) /\ FT!Await("remove")
    <3>1. DownloadTypes' /\ Releases /\ OfferTypes'
      BY <1>1, <2>1, RemoveReleases, WithdrawTyped
    <3> QED BY <1>1, <2>1, <3>1, HeadReleases
  <2>2. CASE FT!Pop /\ UNCHANGED <<FT!removalVars, offered>>
    <3>1. DownloadTypes' /\ Releases /\ OfferTypes'
      BY <1>1, <2>2, DownloadsStill, OffersStill
    <3> QED BY <1>1, <2>2, <3>1, HeadReleases
  <2> QED BY <1>4, <2>1, <2>2 DEF FT!DownloadResult
<1> QED BY <1>2, <1>3, <1>4

-----------------------------------------------------------------------------
(* The Viewer, the Embedder and the end of the Session.                    *)

LEMMA BesideKeeps ==
  ASSUME FT!FileTransfersAssumption, FileInv, ChainStep, CancelHeld', TakeoverInv', SessionTypes',
         CancelTypes', FT!Closed => FT!Closed',
         UNCHANGED <<FT!uploadVars, FT!downloadVars>>
  PROVE  FileInv'
<1>1. UploadTypes' /\ UploadsKept
  BY UploadsStill DEF FileInv, FileTypes
<1>2. DownloadTypes' /\ OfferTypes' /\ Releases
  BY DownloadsStill, OffersStill DEF FileInv, FileTypes, FT!downloadVars
<1> QED BY <1>1, <1>2, Settling DEF FileTypes

\* Something joins the chain.
LEMMA JoinKeeps ==
  ASSUME FT!FileTransfersAssumption, FileInv, NEW op \in FT!Ops \ {"takeover"}, NEW arg, FT!Enqueue(op,
         arg),
         [op |-> op, arg |-> arg] \in Entries,
         op = "offer" => /\ upload[arg] = "none"
                         /\ \A i \in DOMAIN fileChain : fileChain[i] # [op |-> op, arg |-> arg],
         SessionTypes', UNCHANGED <<takeover, fileGeneration, FT!uploadVars, FT!downloadVars,
                                    cancelling, ending>>
  PROVE  FileInv'
<1> USE DEF FileInv, FileTypes
<1>1. arg \in Offers \cup Guids \cup {NoFile}
  BY DEF Entries
<1>2. ChainStep
  BY <1>1 DEF ChainStep, Joins
<1>3. CancelHeld'
  BY DEF CancelHeld, FT!Enqueue
<1>4. TakeoverInv'
  BY <1>2, TakeoversKept
<1>5. CancelTypes'
  BY CancelsTyped
<1> QED BY <1>2, <1>3, <1>4, <1>5, BesideKeeps DEF FT!Closed

LEMMA SendsKeep ==
  ASSUME FT!FileTransfersAssumption, FileInv,
         \/ \E op \in FT!ViewerOps, o \in Offers : FT!ViewerSends(op, o)
         \/ \E op \in FT!DownloadOps, g \in Guids : FT!ViewerSends(op, g)
         \/ FT!ChooserOpened
  PROVE  FileInv'
<1> USE DEF FileInv, FileTypes
<1>1. ASSUME NEW op \in FT!ViewerOps, NEW o \in Offers, FT!ViewerSends(op, o)
      PROVE  FileInv'
  <2>1. /\ FT!Enqueue(op, o) /\ UNCHANGED <<FT!sessionVars, FT!uploadVars, FT!downloadVars,
                                            cancelling, ending>>
        /\ op = "offer" => /\ upload[o] = "none"
                           /\ \A i \in DOMAIN fileChain : fileChain[i] # [op |-> op, arg |-> o]
    BY <1>1 DEF FT!ViewerSends
  <2>2. op \in FT!Ops \ {"takeover"} /\ [op |-> op, arg |-> o] \in Entries
    BY DEF FT!Ops, FT!ViewerOps, Entries
  <2>3. SessionTypes' /\ UNCHANGED <<takeover, fileGeneration>>
    BY <2>1, SessionStill
  <2> QED BY <2>1, <2>2, <2>3, JoinKeeps
<1>2. ASSUME NEW op \in FT!DownloadOps, NEW g \in Guids, FT!ViewerSends(op, g)
      PROVE  FileInv'
  <2>1. /\ FT!Enqueue(op, g) /\ UNCHANGED <<FT!sessionVars, FT!uploadVars, FT!downloadVars,
                                            cancelling, ending>>
        /\ op # "offer"
    BY <1>2 DEF FT!ViewerSends, FT!DownloadOps
  <2>2. op \in FT!Ops \ {"takeover"} /\ [op |-> op, arg |-> g] \in Entries
    BY DEF FT!Ops, FT!DownloadOps, Entries
  <2>3. SessionTypes' /\ UNCHANGED <<takeover, fileGeneration>>
    BY <2>1, SessionStill
  <2> QED BY <2>1, <2>2, <2>3, JoinKeeps
<1>3. CASE FT!ChooserOpened
  <2>1. FT!Enqueue("chooser", NoFile) /\ UNCHANGED <<FT!sessionVars, FT!uploadVars,
                                                     FT!downloadVars, cancelling, ending>>
    BY <1>3 DEF FT!ChooserOpened
  <2>2. "chooser" \in FT!Ops \ {"takeover"} /\ [op |-> "chooser", arg |-> NoFile] \in Entries
    BY DEF FT!Ops, Entries
  <2>3. SessionTypes' /\ UNCHANGED <<takeover, fileGeneration>>
    BY <2>1, SessionStill
  <2> QED BY <2>1, <2>2, <2>3, JoinKeeps
<1> QED BY <1>1, <1>2, <1>3

LEMMA ViewersKeep ==
  ASSUME FT!FileTransfersAssumption, FileInv,
         FT!ViewerLeaves \/ FT!ViewerReturns \/ FT!RevokeUpload \/ FT!GrantDownload \/ FT!Close \/ FT!StorageCleaned
  PROVE  FileInv'
<1> USE DEF FileInv, FileTypes
<1>1. CASE FT!ViewerLeaves
  <2>1. /\ FT!Enqueue("departed", NoFile) /\ viewer' = FALSE
        /\ UNCHANGED <<sink, fileGeneration, takeover, grants, FT!uploadVars, FT!downloadVars,
                       cancelling, ending>>
    BY <1>1 DEF FT!ViewerLeaves
  <2>2. "departed" \in FT!Ops \ {"takeover"} /\ [op |-> "departed", arg |-> NoFile] \in Entries
    BY DEF FT!Ops, Entries
  <2>3. SessionTypes'
    BY <2>1 DEF SessionTypes
  <2> QED BY <2>1, <2>2, <2>3, JoinKeeps
<1>2. CASE FT!RevokeUpload
  <2>1. /\ FT!Enqueue("revoked", NoFile) /\ grants' = grants \ {"upload"}
        /\ UNCHANGED <<sink, viewer, fileGeneration, takeover, FT!uploadVars, FT!downloadVars,
                       cancelling, ending>>
    BY <1>2 DEF FT!RevokeUpload
  <2>2. "revoked" \in FT!Ops \ {"takeover"} /\ [op |-> "revoked", arg |-> NoFile] \in Entries
    BY DEF FT!Ops, Entries
  <2>3. SessionTypes'
    BY <2>1 DEF SessionTypes
  <2> QED BY <2>1, <2>2, <2>3, JoinKeeps
<1>3. CASE FT!ViewerReturns \/ FT!GrantDownload \/ FT!Close \/ FT!StorageCleaned
  <2>1. /\ UNCHANGED <<takeover, fileGeneration, FT!chainVars, FT!uploadVars, FT!downloadVars,
                       cancelling>>
        /\ ending' = ending \/ ending' \in {"commits", "disposed"}
    BY <1>3 DEF FT!ViewerReturns, FT!GrantDownload, FT!Close, FT!StorageCleaned, FT!sessionVars
  <2>2. SessionTypes'
    BY <1>3
       DEF FT!ViewerReturns, FT!GrantDownload, FT!Close, FT!StorageCleaned, FT!sessionVars, SessionTypes
  <2>3. ChainStep /\ CancelHeld'
    BY <2>1, ChainStays, HeldStays
  <2>4. TakeoverInv'
    BY <2>1, <2>3, TakeoversKept
  <2>5. CancelTypes' /\ (FT!Closed => FT!Closed')
    BY <2>1 DEF CancelTypes, FT!Closed
  <2> QED BY <2>1, <2>2, <2>3, <2>4, <2>5, BesideKeeps
<1> QED BY <1>1, <1>2, <1>3

LEMMA RevokeKeeps ==
  ASSUME FT!FileTransfersAssumption, FileInv, FT!RevokeDownload
  PROVE  FileInv'
<1> USE DEF FileInv, FileTypes
<1>1. /\ grants' = grants \ {"download"} /\ FT!Stage("revocation", "commits", FT!Committing)
      /\ UNCHANGED <<sink, viewer, fileGeneration, takeover, FT!chainVars, FT!uploadVars,
                     FT!downloadVars, ending>>
  BY DEF FT!RevokeDownload
<1>2. SessionTypes'
  BY <1>1 DEF SessionTypes
<1>3. CancelTypes'
  <2>1. FT!Committing \in SUBSET (Offers \cup Guids) /\ "revocation" \in FT!Callers
    BY DEF FT!Committing, FT!Callers
  <2>2. ending' \in {"no", "commits", "flow", "tab", "storage", "disposed"}
    BY <1>1 DEF CancelTypes
  <2> QED BY <1>1, <2>1, <2>2, StageTyped DEF FT!Stage
<1>4. CancelHeld'
  <2>1. cancelling'["chain"] = cancelling["chain"]
    BY <1>1 DEF FT!Stage, CancelTypes, FT!Callers
  <2> QED BY <1>1, <2>1 DEF CancelHeld, FT!chainVars
<1>5. ChainStep
  BY <1>1, ChainStays
<1>6. TakeoverInv'
  BY <1>1, <1>5, TakeoversKept
<1> QED BY <1>1, <1>2, <1>3, <1>4, <1>5, <1>6, BesideKeeps DEF FT!Closed

LEMMA TakeoverStartsKeeps ==
  ASSUME FT!FileTransfersAssumption, FileInv, FT!TakeoverStarts
  PROVE  FileInv'
<1> USE DEF FileInv, FileTypes
<1>1. /\ takeover = "no" /\ fileGeneration < MaxFileGeneration /\ takeover' = "queued" /\ FT!Enqueue("takeover", NoFile)
      /\ UNCHANGED <<sink, viewer, fileGeneration, grants, FT!uploadVars, FT!downloadVars,
                     cancelling, ending>>
  BY DEF FT!TakeoverStarts
<1>2. "takeover" \in FT!Ops /\ [op |-> "takeover", arg |-> NoFile] \in Entries
  BY DEF FT!Ops, Entries
<1>3. Moves
  <2>1. Joins(FT!Ops)
    BY <1>1, <1>2 DEF Joins
  <2> QED BY <2>1 DEF Moves
<1>4. SessionTypes'
  BY <1>1 DEF SessionTypes
<1>5. UploadTypes' /\ UploadsKept
  BY <1>1, UploadsStill
<1>6. DownloadTypes' /\ OfferTypes' /\ Releases
  BY <1>1, DownloadsStill, OffersStill DEF FT!downloadVars
<1>7. CancelTypes' /\ CancelHeld'
  BY <1>1, CancelsTyped DEF CancelHeld, FT!Enqueue
<1>8. ChainInv' /\ OffersInv'
  BY <1>3, <1>5, ChainStepInv, OffersKept DEF UploadsKept
<1>9. /\ DOMAIN fileChain' = DOMAIN fileChain \cup {Len(fileChain) + 1} /\ step' = step
      /\ \A i \in DOMAIN fileChain : fileChain'[i] = fileChain[i]
      /\ fileChain # <<>> => fileChain' # <<>> /\ fileChain'[1] = fileChain[1]
  BY <1>1, <1>2, Enqueued
<1>10. TakeoverInv'
  <2>1. Takeovers = {}
    BY <1>1 DEF TakeoverInv
  <2>2. \A i \in Takeovers' : i = Len(fileChain) + 1
    BY <1>9, <2>1 DEF Takeovers
  <2>3. \A i, j \in Takeovers' : i = j
    BY <2>2
  <2>4. fileGeneration' < MaxFileGeneration
    BY <1>1
  <2> QED BY <1>1, <2>3, <2>4 DEF TakeoverInv
<1>11. DiskInv'
  <2>1. \A g \in Guids : Examined(g) => Examined(g)'
    BY <1>9 DEF Examined, FT!At
  <2>2. chrome' = chrome /\ FT!Reserved' = FT!Reserved /\ \A g \in FT!Reserved : g \in Guids
    BY <1>1 DEF FT!downloadVars, FT!removalVars, FT!Reserved
  <2> QED BY <1>1, <2>1, <2>2 DEF DiskInv, FT!Closed
<1>12. UploadsCounted'
  BY <1>5, CountedKept
<1>13. FT!QuotaRespected'
  <2>1. uploadBytes' <= uploadBytes
    BY <1>5 DEF UploadsKept, UploadTypes
  <2> QED BY <1>5, <1>6, <2>1, QuotaKept DEF Releases
<1> QED BY <1>4, <1>5, <1>6, <1>7, <1>8, <1>10, <1>11, <1>12, <1>13

LEMMA ReplacedKeeps ==
  ASSUME FT!FileTransfersAssumption, FileInv, FT!ViewerReplaced
  PROVE  FileInv'
<1> USE DEF FileInv, FileTypes
<1>1. /\ takeover = "drained" /\ takeover' = "no" /\ viewer' = FALSE /\ fileGeneration' = fileGeneration + 1
      /\ UNCHANGED <<sink, grants, FT!chainVars, FT!uploadVars, FT!downloadVars, cancelling, ending>>
  BY DEF FT!ViewerReplaced
<1>2. fileGeneration < MaxFileGeneration /\ Takeovers = {}
  BY <1>1 DEF TakeoverInv
<1>3. SessionTypes'
  <2>1. fileGeneration + 1 \in 1..MaxFileGeneration
    BY <1>2, FileConstants DEF SessionTypes
  <2>2. UNCHANGED <<sink,
                    grants>> /\ viewer' = FALSE /\ takeover' = "no" /\ fileGeneration' \in 1..MaxFileGeneration
    BY <1>1, <2>1
  <2> QED BY <2>2 DEF SessionTypes
<1>4. TakeoverInv'
  BY <1>1, <1>2 DEF TakeoverInv, Takeovers, FT!chainVars
<1>5. ChainStep /\ CancelHeld' /\ CancelTypes'
  BY <1>1, ChainStays, HeldStays, CancelsTyped
<1> QED BY <1>1, <1>3, <1>4, <1>5, BesideKeeps DEF FT!Closed

LEMMA CleanupKeeps ==
  ASSUME FT!FileTransfersAssumption, FileInv, FT!CleanupCancels \/ FT!TabCloses
  PROVE  FileInv'
<1> USE DEF FileInv, FileTypes
<1>1. UNCHANGED <<FT!sessionVars, FT!chainVars, commits, offered>>
  BY DEF FT!CleanupCancels, FT!TabCloses, FT!downloadVars
<1>2. OfferTypes' /\ ChainStep
  BY <1>1, OffersStill, ChainStays
<1>3. SessionTypes' /\ UNCHANGED <<takeover, fileGeneration>>
  BY <1>1, SessionStill
<1>4. CASE FT!CleanupCancels
  <2>1. /\ ending' = "flow" /\ chooser' = FALSE /\ FT!AbortUpload /\ UNCHANGED FT!downloadVars
        /\ cancelling' = [cancelling EXCEPT !["cleanup"] = [at |-> "upload", for |-> {transfer} \ {NoFile}]]
    BY <1>4 DEF FT!CleanupCancels, FT!CancelFileFlow
  <2>2. UploadTypes' /\ UploadsKept
    BY <2>1, AbortCalm
  <2>3. DownloadTypes' /\ Releases
    BY <2>1, DownloadsStill DEF FT!downloadVars
  <2>4. CancelTypes'
    <3>1. {transfer} \ {NoFile} \in SUBSET (Offers \cup Guids)
      BY DEF UploadTypes
    <3> QED BY <2>1, <3>1, StageTyped DEF FT!Callers
  <2>5. CancelHeld'
    <3>1. cancelling'["chain"] = cancelling["chain"]
      BY <2>1 DEF CancelTypes, FT!Callers
    <3> QED BY <1>1, <3>1 DEF CancelHeld, FT!chainVars
  <2>6. FT!Closed'
    BY <2>1 DEF FT!Closed
  <2> QED BY <1>2, <1>3, <2>2, <2>3, <2>4, <2>5, <2>6, Steady
<1>5. CASE FT!TabCloses
  <2>1. /\ ending' = "storage" /\ chrome' = [g \in Guids |-> IF g \in FT!Tracked THEN "removed" ELSE chrome[g]]
        /\ UNCHANGED <<FT!uploadVars, cancelling, downloadBytes, sources, held, aborts, outcome>>
    BY <1>5 DEF FT!TabCloses
  <2>2. UploadTypes' /\ UploadsKept
    BY <2>1, UploadsStill
  <2>3. DownloadTypes'
    BY <2>1 DEF DownloadTypes
  <2>4. CancelTypes' /\ CancelHeld'
    BY <1>1, <2>1, HeldStays DEF CancelTypes
  <2>5. DiskInv'
    BY <2>1 DEF DiskInv, FT!Closed, FT!Tracked
  <2>6. FT!QuotaRespected'
    <3>1. uploadBytes' <= uploadBytes
      BY <2>2 DEF UploadsKept, UploadTypes
    <3> QED BY <2>1, <2>2, <2>3, <3>1, QuotaKept
  <2>7. ChainInv' /\ TakeoverInv' /\ OffersInv'
    BY <1>2, <1>3, <2>2, Moving, ChainStepInv, TakeoversKept, OffersKept DEF UploadsKept
  <2>8. UploadsCounted'
    BY <2>2, CountedKept
  <2> QED BY <1>2, <1>3, <2>2, <2>3, <2>4, <2>5, <2>6, <2>7, <2>8
<1> QED BY <1>4, <1>5

-----------------------------------------------------------------------------
LEMMA FileInit ==
  ASSUME FT!FileTransfersAssumption
  PROVE  FT!Init => FileInv
<1> SUFFICES ASSUME FT!Init  PROVE FileInv
  OBVIOUS
<1> USE DEF FT!Init
<1>1. FileTypes
  <2>1. FT!NoOffer \in [at : {"none", "offered", "streaming"}, generation : 0..MaxFileGeneration]
    BY FileConstants DEF FT!NoOffer
  <2>2. FT!Idle \in [at : {"idle", "upload", "commits", "offers", "sources", "aborts"},
                  for : SUBSET (Offers \cup Guids)]
    BY DEF FT!Idle
  <2>3. SessionTypes
    BY FileConstants DEF SessionTypes
  <2>4. UploadTypes
    BY FileConstants DEF UploadTypes
  <2>5. DownloadTypes
    BY DEF DownloadTypes
  <2> QED BY <2>1, <2>2, <2>3, <2>4, <2>5 DEF FileTypes, OfferTypes, CancelTypes
<1>2. ChainInv /\ CancelHeld
  BY DEF ChainInv, CancelHeld, FT!Steps, FT!Callers
<1>3. DOMAIN fileChain = {}
  OBVIOUS
<1>4. TakeoverInv /\ OffersInv
  BY <1>3 DEF TakeoverInv, Takeovers, OffersInv
<1>5. FT!Charged = {} /\ FT!Reserved = {}
  BY DEF FT!Charged, FT!Reserved
<1>6. UploadsCounted
  BY <1>5, SumEmpty DEF UploadsCounted
<1>7. DiskInv
  BY <1>5 DEF DiskInv
<1>8. FT!QuotaRespected
  <2>1. FT!TemporaryBytes = 0
    BY <1>5, SumEmpty DEF FT!TemporaryBytes
  <2>2. Cardinality(FT!Reserved) = 0
    BY <1>5, FS_EmptySet
  <2> QED BY <2>1, <2>2, FileConstants, SameCount DEF FT!QuotaRespected
<1> QED BY <1>1, <1>2, <1>4, <1>6, <1>7, <1>8 DEF FileInv

LEMMA FileUnchanged ==
  ASSUME FT!FileTransfersAssumption, FileInv, UNCHANGED FT!vars
  PROVE  FileInv'
<1>1. UNCHANGED <<FT!sessionVars, FT!chainVars, FT!uploadVars, FT!downloadVars, cancelling, ending>>
  BY DEF FT!vars
<1>2. ChainStep /\ CancelHeld' /\ CancelTypes'
  BY <1>1, ChainStays, HeldStays, CancelsTyped DEF FileInv, FileTypes
<1>3. SessionTypes' /\ UNCHANGED <<takeover, fileGeneration>>
  BY <1>1, SessionStill DEF FileInv, FileTypes
<1>4. TakeoverInv'
  BY <1>2, <1>3, TakeoversKept DEF FileInv
<1> QED BY <1>1, <1>2, <1>3, <1>4, BesideKeeps DEF FT!Closed

LEMMA FileStep ==
  ASSUME FT!FileTransfersAssumption
  PROVE  FileInv /\ [FT!Next]_(FT!vars) => FileInv'
<1> SUFFICES ASSUME FileInv, [FT!Next]_(FT!vars)  PROVE FileInv'
  OBVIOUS
<1>1. CASE FT!HeadUploads
  BY <1>1, HeadsKeep, OfferStartsKeeps, OfferReservedKeeps, OfferUndoneKeeps DEF FT!HeadUploads
<1>2. CASE FT!HeadDownloads
  BY <1>2, CompletedKeeps, ExaminedKeeps, ResultsKeep DEF FT!HeadDownloads
<1>3. ASSUME NEW c \in FT!Callers, FT!CancelSteps(c)  PROVE FileInv'
  BY <1>3, CancelsKeep
<1>4. CASE FT!UploadExpires \/ FT!ChooserExpires \/ \E o \in Offers : FT!UploadAborted(o)
  BY <1>4, UploadsEnd
<1>5. ASSUME NEW g \in Guids, FT!Download(g)  PROVE FileInv'
  BY <1>5, BeginsKeeps, CompletesKeeps, DownloadEndsKeeps DEF FT!Download
<1>6. CASE \/ \E op \in FT!ViewerOps, o \in Offers : FT!ViewerSends(op, o)
           \/ \E op \in FT!DownloadOps, g \in Guids : FT!ViewerSends(op, g)
           \/ FT!ChooserOpened
  BY <1>6, SendsKeep
<1>7. CASE FT!ViewerLeaves \/ FT!ViewerReturns \/ FT!RevokeUpload \/ FT!GrantDownload \/ FT!Close \/ FT!StorageCleaned
  BY <1>7, ViewersKeep
<1>8. CASE FT!RevokeDownload \/ FT!TakeoverStarts \/ FT!ViewerReplaced
  BY <1>8, RevokeKeeps, TakeoverStartsKeeps, ReplacedKeeps
<1>9. CASE FT!CleanupCancels \/ FT!TabCloses
  BY <1>9, CleanupKeeps
<1>10. CASE UNCHANGED FT!vars
  BY <1>10, FileUnchanged
<1> QED BY <1>1, <1>2, <1>3, <1>4, <1>5, <1>6, <1>7, <1>8, <1>9, <1>10 DEF FT!Next, FT!Cleanup

LEMMA FileConsistent == FileInv => FT!Consistent
<1> SUFFICES ASSUME FileInv  PROVE FT!Consistent
  OBVIOUS
<1>1. fileChain \in Seq(FT!Entry)
  <2>1. \A i \in DOMAIN fileChain : fileChain[i] \in FT!Entry
    BY EntryKinds DEF FileInv, ChainInv
  <2> QED BY <2>1 DEF FileInv, ChainInv
<1>2. FT!TypeOK
  BY <1>1
     DEF FT!TypeOK, FileInv, FileTypes, ChainInv, SessionTypes, UploadTypes, DownloadTypes, OfferTypes, CancelTypes
<1>3. FT!BytesAccounted
  BY DEF FT!BytesAccounted, FileInv, UploadsCounted, DiskInv, Examined
<1> QED BY <1>2, <1>3 DEF FT!Consistent, FileInv

\* The temporary budget counts exactly the uploads that may hold files, counts
\* no download that is not on disk while the Session lives, misses none that
\* is, and its limits are never exceeded, whatever the limits, the sizes, and
\* the order of messages, timers, failures and cancellations.
THEOREM FilesAccounted ==
  ASSUME FT!FileTransfersAssumption
  PROVE  FT!Spec => []FT!Consistent
<1>1. FT!Init => FileInv
  BY FileInit
<1>2. FileInv /\ [FT!Next]_(FT!vars) => FileInv'
  BY FileStep
<1> QED BY <1>1, <1>2, FileConsistent, PTL DEF FT!Spec

-----------------------------------------------------------------------------
(* What the sink is told of each download.                                 *)

\* The Embedder does not keep the downloads: nothing is the sink's.
Without ==
  /\ ~sink /\ held = {}
  /\ \A g \in Guids : commits[g] = "no" /\ outcome[g] = {}

\* A cancellation of all downloads has awaited every commit that began before
\* it, and none begins while it goes on.
CommitsAwait ==
  /\ cancelling["revocation"] # FT!Idle => "download" \notin grants
  /\ cancelling["cleanup"] # FT!Idle => ending \notin {"no", "commits"}
  /\ ending \notin {"no", "commits"} => FT!Committing = {}
  /\ cancelling["revocation"].at = "commits" => FT!Committing \subseteq cancelling["revocation"].for
  /\ cancelling["revocation"].at \in {"offers", "sources", "aborts"} => FT!Committing = {}

\* A download is committed from its completed file, and aborted once it goes.
Recorded(g) ==
  /\ g \in held => chrome[g] # "none"
  /\ "aborted" \in outcome[g] => chrome[g] \in {"removing", "removed"}
  /\ outcome[g] \cap {"committing", "committed"} # {} =>
       commits[g] = "commit" \/ (g \notin held /\ chrome[g] \in {"removing", "removed"})
  /\ commits[g] = "commit" => "committed" \notin outcome[g]
  /\ commits[g] \in {"stat", "commit"} => chrome[g] = "done"
  /\ "aborted" \in outcome[g] => outcome[g] \cap {"committing", "committed"} = {}

\* The Embedder keeps the downloads: none is offered to the Viewer.
Kept ==
  /\ sink /\ \A i \in DOMAIN fileChain : fileChain[i].op # "completed"
  /\ \A g \in Guids : offered[g] = FT!NoOffer
  /\ \A g \in Guids : Recorded(g)
  /\ cancelling["chain"].at \in {"idle", "upload"}
  /\ CommitsAwait

SinkInv == Without \/ Kept

LEMMA SinkStays == [FT!Next]_(FT!vars) => sink' = sink
<1> SUFFICES ASSUME [FT!Next]_(FT!vars)  PROVE sink' = sink
  OBVIOUS
<1> USE DEF FT!sessionVars
<1>1. CASE FT!HeadUploads
  BY <1>1
     DEF FT!HeadUploads, FT!HeadCancels, FT!HeadIgnored, FT!OfferStarts, FT!OfferReserved, FT!OfferFails, FT!OfferUndone,
              FT!TransferStarts, FT!TransferRefused, FT!ChunkWritten, FT!UploadCommitted, FT!UploadDelivered, FT!TransferFails,
              FT!ViewerCancels
<1>2. CASE FT!HeadDownloads
  BY <1>2
     DEF FT!HeadDownloads, FT!CompletedStarts, FT!DownloadOffered, FT!DownloadIncomplete, FT!DownloadVanished,
              FT!HeadRemoved, FT!DownloadAccepted, FT!DownloadResult
<1>3. ASSUME NEW c \in FT!Callers, FT!CancelSteps(c)  PROVE sink' = sink
  BY <1>3
     DEF FT!CancelSteps, FT!UploadCancelled, FT!CancelOffers, FT!CancelSources, FT!SourcesCancelled, FT!DownloadsCancelled, FT!Cancelled
<1>4. CASE FT!UploadExpires \/ FT!ChooserExpires \/ \E o \in Offers : FT!UploadAborted(o)
  BY <1>4 DEF FT!UploadExpires, FT!ChooserExpires, FT!UploadAborted
<1>5. ASSUME NEW g \in Guids, FT!Download(g)  PROVE sink' = sink
  BY <1>5
     DEF FT!Download, FT!DownloadBegins, FT!DownloadProgresses, FT!DownloadCompletes, FT!DownloadCanceled, FT!RemoveEnds,
              FT!SinkAborted, FT!CommitStarts, FT!Committed, FT!CommitFails, FT!CommitSettles, FT!OfferExpires
<1>6. CASE \/ \E op \in FT!ViewerOps, o \in Offers : FT!ViewerSends(op, o)
           \/ \E op \in FT!DownloadOps, g \in Guids : FT!ViewerSends(op, g)
           \/ FT!ChooserOpened
  BY <1>6 DEF FT!ViewerSends, FT!ChooserOpened
<1>7. CASE FT!ViewerLeaves \/ FT!ViewerReturns \/ FT!RevokeUpload \/ FT!GrantDownload \/ FT!Close \/ FT!StorageCleaned
  BY <1>7
     DEF FT!ViewerLeaves, FT!ViewerReturns, FT!RevokeUpload, FT!GrantDownload, FT!Close, FT!StorageCleaned
<1>8. CASE FT!RevokeDownload \/ FT!TakeoverStarts \/ FT!ViewerReplaced
  BY <1>8 DEF FT!RevokeDownload, FT!TakeoverStarts, FT!ViewerReplaced
<1>9. CASE FT!CleanupCancels \/ FT!TabCloses
  BY <1>9 DEF FT!CleanupCancels, FT!TabCloses
<1>10. CASE UNCHANGED FT!vars
  BY <1>10 DEF FT!vars
<1> QED BY <1>1, <1>2, <1>3, <1>4, <1>5, <1>6, <1>7, <1>8, <1>9, <1>10 DEF FT!Next, FT!Cleanup

-----------------------------------------------------------------------------
(* Without a sink.                                                         *)

LEMMA WithoutStill ==
  ASSUME Without, UNCHANGED <<sink, held, commits, outcome>>
  PROVE  Without'
  BY DEF Without

LEMMA WithoutAbort ==
  ASSUME Without, NEW G, FT!AbortSink(G), UNCHANGED <<sink, commits>>
  PROVE  Without'
  BY DEF Without, FT!AbortSink

LEMMA WithoutRemove ==
  ASSUME Without, NEW G, NEW tracked, FT!Remove(G, tracked), UNCHANGED <<sink, commits>>
  PROVE  Without'
  BY WithoutAbort DEF FT!Remove

LEMMA WithoutReserve ==
  ASSUME Without, NEW g, NEW bytes, FT!Reserve(g, bytes), UNCHANGED <<sink, commits>>
  PROVE  Without'
  BY DEF Without, FT!Reserve

LEMMA WithoutStep ==
  ASSUME Without, [FT!Next]_(FT!vars)
  PROVE  Without'
<1>0. sink' = sink
  BY SinkStays
<1> USE DEF FT!downloadVars, FT!removalVars
<1>1. CASE FT!HeadUploads
  <2>1. UNCHANGED FT!downloadVars
    BY <1>1
       DEF FT!HeadUploads, FT!HeadCancels, FT!HeadIgnored, FT!OfferStarts, FT!OfferReserved, FT!OfferFails, FT!OfferUndone,
                FT!TransferStarts, FT!TransferRefused, FT!ChunkWritten, FT!UploadCommitted, FT!UploadDelivered, FT!TransferFails,
                FT!ViewerCancels
  <2> QED BY <1>0, <2>1, WithoutStill
<1>2. CASE FT!HeadDownloads
  <2>1. CASE FT!CompletedStarts
    BY <1>0, <2>1, WithoutReserve, WithoutRemove DEF FT!CompletedStarts
  <2>2. CASE FT!DownloadIncomplete
    BY <1>0, <2>2, WithoutRemove DEF FT!DownloadIncomplete
  <2>3. CASE FT!DownloadResult
    BY <1>0, <2>3, WithoutRemove, WithoutStill DEF FT!DownloadResult
  <2>4. CASE FT!DownloadOffered \/ FT!DownloadVanished \/ FT!HeadRemoved \/ FT!DownloadAccepted
    <3>1. UNCHANGED <<held, commits, outcome>>
      BY <2>4 DEF FT!DownloadOffered, FT!DownloadVanished, FT!HeadRemoved, FT!DownloadAccepted
    <3> QED BY <1>0, <3>1, WithoutStill
  <2> QED BY <1>2, <2>1, <2>2, <2>3, <2>4 DEF FT!HeadDownloads
<1>3. ASSUME NEW c \in FT!Callers, FT!CancelSteps(c)  PROVE Without'
  <2>1. CASE FT!CancelOffers(c)
    BY <1>0, <2>1, WithoutRemove DEF FT!CancelOffers
  <2>2. CASE FT!CancelSources(c)
    BY <1>0, <2>2, WithoutRemove DEF FT!CancelSources
  <2>3. CASE FT!UploadCancelled(c) \/ FT!SourcesCancelled(c) \/ FT!DownloadsCancelled(c)
    <3>1. UNCHANGED FT!downloadVars
      BY <2>3 DEF FT!UploadCancelled, FT!SourcesCancelled, FT!DownloadsCancelled, FT!Cancelled
    <3> QED BY <1>0, <3>1, WithoutStill
  <2> QED BY <1>3, <2>1, <2>2, <2>3 DEF FT!CancelSteps
<1>4. CASE FT!UploadExpires \/ FT!ChooserExpires \/ \E o \in Offers : FT!UploadAborted(o)
  BY <1>0, <1>4, WithoutStill DEF FT!UploadExpires, FT!ChooserExpires, FT!UploadAborted
<1>5. ASSUME NEW g \in Guids, FT!Download(g)  PROVE Without'
  <2>1. CASE FT!DownloadBegins(g)
    BY <1>0, <2>1, WithoutReserve, WithoutRemove DEF FT!DownloadBegins
  <2>2. CASE FT!DownloadProgresses(g)
    BY <1>0, <2>2, WithoutReserve, WithoutRemove DEF FT!DownloadProgresses
  <2>3. CASE FT!DownloadCompletes(g)
    <3>1. FT!Reserve(g, Size[g]) /\ commits' = commits
      BY <2>3 DEF FT!DownloadCompletes, Without
    <3> QED BY <1>0, <3>1, WithoutReserve
  <2>4. CASE FT!DownloadCanceled(g) \/ FT!RemoveEnds(g)
    BY <1>0, <2>4, WithoutAbort DEF FT!DownloadCanceled, FT!RemoveEnds
  <2>5. CASE FT!SinkAborted(g)
    BY <1>0, <2>5, WithoutStill DEF FT!SinkAborted
  <2>6. CASE FT!CommitStarts(g) \/ FT!Committed(g) \/ FT!CommitFails(g) \/ FT!CommitSettles(g)
    BY <2>6 DEF FT!CommitStarts, FT!Committed, FT!CommitFails, FT!CommitSettles, Without
  <2>7. CASE FT!OfferExpires(g)
    BY <1>0, <2>7, WithoutRemove DEF FT!OfferExpires
  <2> QED BY <1>5, <2>1, <2>2, <2>3, <2>4, <2>5, <2>6, <2>7 DEF FT!Download
<1>6. CASE \/ \E op \in FT!ViewerOps, o \in Offers : FT!ViewerSends(op, o)
           \/ \E op \in FT!DownloadOps, g \in Guids : FT!ViewerSends(op, g)
           \/ FT!ChooserOpened
  BY <1>0, <1>6, WithoutStill DEF FT!ViewerSends, FT!ChooserOpened
<1>7. CASE FT!ViewerLeaves \/ FT!ViewerReturns \/ FT!RevokeUpload \/ FT!GrantDownload \/ FT!Close \/ FT!StorageCleaned
  BY <1>0, <1>7, WithoutStill
     DEF FT!ViewerLeaves, FT!ViewerReturns, FT!RevokeUpload, FT!GrantDownload, FT!Close, FT!StorageCleaned
<1>8. CASE FT!RevokeDownload \/ FT!TakeoverStarts \/ FT!ViewerReplaced
  BY <1>0, <1>8, WithoutStill DEF FT!RevokeDownload, FT!TakeoverStarts, FT!ViewerReplaced
<1>9. CASE FT!CleanupCancels \/ FT!TabCloses
  BY <1>0, <1>9, WithoutStill DEF FT!CleanupCancels, FT!TabCloses
<1>10. CASE UNCHANGED FT!vars
  BY <1>0, <1>10, WithoutStill DEF FT!vars
<1> QED BY <1>1, <1>2, <1>3, <1>4, <1>5, <1>6, <1>7, <1>8, <1>9, <1>10 DEF FT!Next, FT!Cleanup

-----------------------------------------------------------------------------
(* With one.                                                               *)

\* Recorded depends on the download's own state.
LEMMA RecordedStill ==
  ASSUME NEW g, Recorded(g), held' = held, chrome'[g] = chrome[g], outcome'[g] = outcome[g],
         commits'[g] = commits[g]
  PROVE  Recorded(g)'
  BY DEF Recorded

\* The entries that may wait in the chain
LEMMA KeptChain ==
  ASSUME FileInv, \A i \in DOMAIN fileChain : fileChain[i].op # "completed",
         \/ fileChain' = fileChain
         \/ fileChain # <<>> /\ FT!Pop
         \/ \E op \in FT!Ops \ {"completed"}, arg \in Offers \cup Guids \cup {NoFile} :
              FT!Enqueue(op, arg) /\ [op |-> op, arg |-> arg] \in Entries
  PROVE  \A i \in DOMAIN fileChain' : fileChain'[i].op # "completed"
<1>1. CASE fileChain' = fileChain
  BY <1>1
<1>2. CASE fileChain # <<>> /\ FT!Pop
  BY <1>2, Popped DEF FileInv
<1>3. ASSUME NEW op \in FT!Ops \ {"completed"}, NEW arg, FT!Enqueue(op, arg), [op |-> op, arg |-> arg] \in Entries
      PROVE  \A i \in DOMAIN fileChain' : fileChain'[i].op # "completed"
  BY <1>3, Enqueued DEF FileInv
<1> QED BY <1>1, <1>2, <1>3

\* Steps that leave the downloads alone
LEMMA KeptStill ==
  ASSUME FileInv, Kept, \A i \in DOMAIN fileChain' : fileChain'[i].op # "completed",
         cancelling' = cancelling
           \/ \E r : cancelling' = [cancelling EXCEPT !["chain"] = r] /\ r.at \in {"idle", "upload"},
         UNCHANGED <<sink, FT!downloadVars, ending>>, grants' \subseteq grants
  PROVE  Kept'
<1>1. UNCHANGED <<commits, offered, held, chrome, outcome>>
  BY DEF FT!downloadVars, FT!removalVars
<1>2. /\ cancelling'["revocation"] = cancelling["revocation"] /\ cancelling'["cleanup"] = cancelling["cleanup"]
      /\ cancelling'["chain"].at \in {"idle", "upload"}
  BY DEF Kept, FileInv, FileTypes, CancelTypes, FT!Callers
<1>3. CommitsAwait'
  BY <1>1, <1>2 DEF Kept, CommitsAwait, FT!Committing
<1>4. \A g \in Guids : Recorded(g)'
  BY <1>1, RecordedStill DEF Kept
<1> QED BY <1>1, <1>2, <1>3, <1>4 DEF Kept

\* Steps of the downloads, which begin no commit
LEMMA KeptDownloads ==
  ASSUME FileInv, Kept, UNCHANGED <<sink, grants, fileChain, offered, cancelling, ending>>,
         \A g \in Guids : commits'[g] # "no" => commits[g] # "no",
         \A g \in Guids : Recorded(g)'
  PROVE  Kept'
<1>1. FT!Committing' \subseteq FT!Committing
  BY DEF FT!Committing
<1>2. CommitsAwait'
  BY <1>1 DEF Kept, CommitsAwait
<1> QED BY <1>2 DEF Kept

\* A removal, when none of what it removes is being committed
LEMMA RemoveRecords ==
  ASSUME FileInv, Kept, NEW G, NEW tracked, FT!Tracked \subseteq tracked, FT!Remove(G, tracked),
         commits' = commits,
         \A g \in G \cap tracked : commits[g] \notin {"stat", "commit"}
  PROVE  \A g \in Guids : Recorded(g)'
<1> SUFFICES ASSUME NEW g \in Guids  PROVE Recorded(g)'
  OBVIOUS
<1>1. Recorded(g)
  BY DEF Kept
<1>2. /\ chrome'[g] = (IF g \in G \cap tracked THEN "removing" ELSE chrome[g])
      /\ held' = held \ (G \ tracked)
      /\ outcome'[g] = (IF g \in (G \ tracked) \cap held THEN outcome[g] \cup {"aborted"} ELSE outcome[g])
  BY DEF FT!Remove, FT!AbortSink
<1>3. chrome[g] \in {"none", "running", "done", "removing", "removed"}
  BY DEF FileInv, FileTypes, DownloadTypes
<1>4. CASE g \in G \cap tracked
  BY <1>1, <1>2, <1>4 DEF Recorded
<1>5. CASE g \in G \ tracked
  <2>1. chrome[g] \notin {"running", "done"} /\ chrome'[g] = chrome[g] /\ g \notin held'
    BY <1>2, <1>5 DEF FT!Tracked
  <2>2. commits[g] \notin {"stat", "commit"}
    BY <1>1, <2>1 DEF Recorded
  <2>3. CASE g \in held
    <3>1. chrome[g] \in {"removing", "removed"} /\ outcome[g] \cap {"committing", "committed"} = {}
      BY <1>1, <1>3, <2>1, <2>2, <2>3 DEF Recorded
    <3>2. outcome'[g] = outcome[g] \cup {"aborted"}
      BY <1>2, <1>5, <2>3
    <3>3. outcome'[g] \cap {"committing", "committed"} = {}
      BY <3>1, <3>2
    <3> QED BY <2>1, <2>2, <3>1, <3>3 DEF Recorded
  <2>4. CASE g \notin held
    BY <1>1, <1>2, <1>5, <2>1, <2>2, <2>4 DEF Recorded
  <2> QED BY <2>3, <2>4
<1>6. CASE g \notin G
  <2>1. chrome'[g] = chrome[g] /\ outcome'[g] = outcome[g] /\ (g \in held' <=> g \in held)
    BY <1>2, <1>6
  <2> QED BY <1>1, <2>1 DEF Recorded
<1> QED BY <1>4, <1>5, <1>6

\* The steps of one download leave the others as they are.
LEMMA KeptReserves ==
  ASSUME FileInv, Kept, NEW g \in Guids, NEW bytes, FT!Reserve(g, bytes), chrome[g] \in {"none",
         "running"},
         chrome' \in {[chrome EXCEPT ![g] = "running"], [chrome EXCEPT ![g] = "done"]},
         commits' = commits \/ (commits' = [commits EXCEPT ![g] = "stat"] /\ chrome'[g] = "done")
  PROVE  \A h \in Guids : Recorded(h)'
<1> SUFFICES ASSUME NEW h \in Guids  PROVE Recorded(h)'
  OBVIOUS
<1>1. Recorded(h) /\ held' = held \cup {g} /\ outcome' = outcome
  BY DEF Kept, FT!Reserve
<1>2. CASE h # g
  <2>1. chrome'[h] = chrome[h] /\ commits'[h] = commits[h] /\ (h \in held' <=> h \in held)
    BY <1>1, <1>2 DEF FileInv, FileTypes, DownloadTypes, OfferTypes
  <2> QED BY <1>1, <2>1 DEF Recorded
<1>3. CASE h = g
  <2>1. commits[g] \notin {"stat", "commit"} /\ "aborted" \notin outcome[g]
    BY <1>1, <1>3 DEF Recorded
  <2>2. outcome[g] \cap {"committing", "committed"} = {}
    BY <1>1, <1>3, <2>1 DEF Recorded
  <2>3. chrome'[g] \in {"running", "done"}
    BY DEF FileInv, FileTypes, DownloadTypes
  <2>4. commits'[g] # "commit" /\ (commits'[g] = "stat" => chrome'[g] = "done")
    BY <2>1 DEF FileInv, FileTypes, OfferTypes
  <2> QED BY <1>1, <1>3, <2>1, <2>2, <2>3, <2>4 DEF Recorded
<1> QED BY <1>2, <1>3

LEMMA KeptBegins ==
  ASSUME FileInv, Kept, NEW g \in Guids,
         FT!DownloadBegins(g) \/ FT!DownloadProgresses(g) \/ FT!DownloadCompletes(g), sink' = sink
  PROVE  Kept'
<1> USE DEF FileInv, FileTypes
<1>1. sink /\ Recorded(g) /\ UNCHANGED <<grants, offered, cancelling, ending>>
  BY DEF Kept, FT!DownloadBegins, FT!DownloadProgresses, FT!DownloadCompletes, FT!sessionVars
<1>2. CASE FT!DownloadBegins(g)
  <2>1. UNCHANGED <<fileChain, commits>>
    BY <1>2 DEF FT!DownloadBegins, FT!chainVars
  <2>2. CASE FT!Reserve(g, 0) /\ chrome' = [chrome EXCEPT ![g] = "running"]
    <3>1. \A h \in Guids : Recorded(h)'
      BY <1>2, <2>1, <2>2, KeptReserves DEF FT!DownloadBegins
    <3> QED BY <1>1, <2>1, <3>1, KeptDownloads
  <2>3. CASE FT!Remove({g}, FT!Tracked \cup {g})
    <3>1. commits[g] \notin {"stat", "commit"}
      BY <1>1, <1>2 DEF FT!DownloadBegins, Recorded
    <3>2. \A h \in Guids : Recorded(h)'
      BY <2>1, <2>3, <3>1, RemoveRecords
    <3> QED BY <1>1, <2>1, <3>2, KeptDownloads
  <2> QED BY <1>2, <2>2, <2>3 DEF FT!DownloadBegins
<1>3. CASE FT!DownloadProgresses(g)
  <2>1. UNCHANGED <<fileChain, commits>> /\ chrome[g] = "running"
    BY <1>3 DEF FT!DownloadProgresses, FT!chainVars
  <2>2. CASE FT!Reserve(g, Size[g]) /\ UNCHANGED chrome
    <3>1. chrome' = [chrome EXCEPT ![g] = "running"]
      BY <2>1, <2>2 DEF DownloadTypes
    <3>2. \A h \in Guids : Recorded(h)'
      BY <2>1, <2>2, <3>1, KeptReserves
    <3> QED BY <1>1, <2>1, <3>2, KeptDownloads
  <2>3. CASE FT!Remove({g}, FT!Tracked)
    <3>1. commits[g] \notin {"stat", "commit"}
      BY <1>1, <2>1 DEF Recorded
    <3>2. \A h \in Guids : Recorded(h)'
      BY <2>1, <2>3, <3>1, RemoveRecords
    <3> QED BY <1>1, <2>1, <3>2, KeptDownloads
  <2> QED BY <1>3, <2>2, <2>3 DEF FT!DownloadProgresses
<1>4. CASE FT!DownloadCompletes(g)
  <2>1. /\ chrome[g] = "running" /\ FT!Reserve(g, Size[g]) /\ chrome' = [chrome EXCEPT ![g] = "done"]
        /\ commits' = [commits EXCEPT ![g] = "stat"] /\ fileChain' = fileChain
    BY <1>1, <1>4 DEF FT!DownloadCompletes, FT!chainVars
  <2>2. chrome'[g] = "done"
    BY <2>1 DEF DownloadTypes
  <2>3. \A h \in Guids : Recorded(h)'
    BY <2>1, <2>2, KeptReserves
  <2>4. ending = "no" /\ "download" \in grants
    BY <2>1 DEF FT!Reserve, FT!Allowed, FT!Closed
  <2>5. cancelling["revocation"] = FT!Idle /\ cancelling["cleanup"] = FT!Idle
    BY <2>4 DEF Kept, CommitsAwait
  <2>6. CommitsAwait'
    BY <1>1, <2>4, <2>5 DEF CommitsAwait, FT!Idle
  <2> QED BY <1>1, <2>1, <2>3, <2>6 DEF Kept
<1> QED BY <1>2, <1>3, <1>4

LEMMA KeptEnds ==
  ASSUME FileInv, Kept, NEW g \in Guids, sink' = sink,
         FT!DownloadCanceled(g) \/ FT!RemoveEnds(g) \/ FT!SinkAborted(g) \/ FT!CommitStarts(g) \/ FT!Committed(g)
           \/ FT!CommitFails(g) \/ FT!CommitSettles(g) \/ FT!OfferExpires(g)
  PROVE  Kept'
<1> USE DEF FileInv, FileTypes
<1>1. Recorded(g) /\ UNCHANGED <<grants, fileChain, cancelling, ending>>
  BY DEF Kept, FT!DownloadCanceled, FT!RemoveEnds, FT!SinkAborted, FT!CommitStarts, FT!Committed, FT!CommitFails, FT!CommitSettles,
         FT!OfferExpires, FT!sessionVars, FT!chainVars
<1>2. ~FT!OfferExpires(g)
  BY DEF Kept, FT!OfferExpires
<1>3. offered' = offered
  BY <1>2
     DEF FT!DownloadCanceled, FT!RemoveEnds, FT!SinkAborted, FT!CommitStarts, FT!Committed, FT!CommitFails, FT!CommitSettles
<1>4. CASE FT!DownloadCanceled(g) \/ FT!RemoveEnds(g)
  <2>1. /\ chrome[g] \in {"running", "removing"} /\ commits' = commits
        /\ chrome'[g] \in {"removing", "removed"}
        /\ \A h \in Guids : h # g => chrome'[h] = chrome[h]
        /\ held' = held \ {g}
        /\ \A h \in Guids : outcome'[h] = (IF h \in {g} \cap held THEN outcome[h] \cup {"aborted"} ELSE outcome[h])
    BY <1>4 DEF FT!DownloadCanceled, FT!RemoveEnds, FT!AbortSink, DownloadTypes
  <2>2. commits[g] \notin {"stat", "commit"}
    BY <1>1, <2>1 DEF Recorded
  <2>3. Recorded(g)'
    <3>1. CASE g \in held
      <4>1. outcome[g] \cap {"committing", "committed"} = {}
        BY <1>1, <2>2, <3>1 DEF Recorded
      <4>2. outcome'[g] = outcome[g] \cup {"aborted"} /\ outcome'[g] \cap {"committing", "committed"} = {}
        BY <2>1, <3>1, <4>1
      <4> QED BY <2>1, <2>2, <4>2 DEF Recorded
    <3>2. CASE g \notin held
      BY <1>1, <2>1, <2>2, <3>2 DEF Recorded
    <3> QED BY <3>1, <3>2
  <2>4. ASSUME NEW h \in Guids, h # g  PROVE Recorded(h)'
    <3>1. Recorded(h)
      BY DEF Kept
    <3>2. chrome'[h] = chrome[h] /\ outcome'[h] = outcome[h] /\ (h \in held' <=> h \in held) /\ commits' = commits
      BY <2>1, <2>4
    <3> QED BY <3>1, <3>2 DEF Recorded
  <2>5. \A h \in Guids : Recorded(h)'
    BY <2>3, <2>4
  <2> QED BY <1>1, <1>3, <2>1, <2>5, KeptDownloads
<1>5. CASE FT!SinkAborted(g)
  <2>1. UNCHANGED <<held, chrome, outcome, commits>>
    BY <1>5 DEF FT!SinkAborted
  <2>2. \A h \in Guids : Recorded(h)'
    BY <2>1, RecordedStill DEF Kept
  <2> QED BY <1>1, <1>3, <2>1, <2>2, KeptDownloads
<1>6. CASE FT!CommitStarts(g)
  <2>1. commits[g] = "stat" /\ chrome[g] = "done"
    BY <1>1, <1>6 DEF FT!CommitStarts, Recorded
  <2>2. /\ commits' = [commits EXCEPT ![g] = "commit"]
        /\ outcome' = [outcome EXCEPT ![g] = outcome[g] \cup {"committing"}] /\ UNCHANGED <<chrome, held>>
    BY <1>6, <2>1 DEF FT!CommitStarts
  <2>3. outcome[g] \cap {"committing", "committed"} = {} /\ "aborted" \notin outcome[g]
    BY <1>1, <2>1 DEF Recorded
  <2>4. commits'[g] = "commit" /\ outcome'[g] = outcome[g] \cup {"committing"}
    BY <2>2 DEF DownloadTypes, OfferTypes
  <2>5. Recorded(g)'
    BY <1>1, <2>1, <2>2, <2>3, <2>4 DEF Recorded
  <2>6. ASSUME NEW h \in Guids, h # g  PROVE Recorded(h)'
    <3>1. Recorded(h) /\ commits'[h] = commits[h] /\ outcome'[h] = outcome[h]
      BY <2>2, <2>6 DEF Kept, DownloadTypes, OfferTypes
    <3> QED BY <2>2, <3>1, RecordedStill
  <2>7. \A h \in Guids : Recorded(h)'
    BY <2>5, <2>6
  <2>8. \A h \in Guids : commits'[h] # "no" => commits[h] # "no"
    BY <2>1, <2>2 DEF OfferTypes
  <2> QED BY <1>1, <1>3, <2>7, <2>8, KeptDownloads
<1>7. CASE FT!Committed(g) \/ FT!CommitFails(g)
  <2>1. commits[g] = "commit" /\ chrome[g] = "done" /\ g \in FT!Tracked
    BY <1>1, <1>7 DEF FT!Committed, FT!CommitFails, Recorded, FT!Tracked
  <2>2. "aborted" \notin outcome[g] /\ "committed" \notin outcome[g]
    BY <1>1, <2>1 DEF Recorded
  <2>3. /\ commits' = [commits EXCEPT ![g] = "remove"] /\ chrome' = [chrome EXCEPT ![g] = "removing"]
        /\ \/ outcome' = [outcome EXCEPT ![g] = outcome[g] \cup {"committed"}] /\ held' = held \ {g}
           \/ outcome' = [outcome EXCEPT ![g] = (outcome[g] \ {"committing"}) \cup {}] /\ held' = held
    BY <1>7, <2>1 DEF FT!Committed, FT!CommitFails
  <2>4. Recorded(g)'
    <3>1. commits'[g] = "remove" /\ chrome'[g] = "removing"
      BY <2>3 DEF DownloadTypes, OfferTypes
    <3>2. "aborted" \notin outcome'[g]
      BY <2>2, <2>3 DEF DownloadTypes
    <3>3. outcome'[g] \cap {"committing", "committed"} # {} => g \notin held'
      <4>1. CASE held' = held \ {g}
        BY <4>1
      <4>2. CASE outcome' = [outcome EXCEPT ![g] = (outcome[g] \ {"committing"}) \cup {}]
        <5>1. outcome'[g] = outcome[g] \ {"committing"}
          BY <4>2 DEF DownloadTypes
        <5> QED BY <2>2, <5>1
      <4> QED BY <2>3, <4>1, <4>2
    <3> QED BY <3>1, <3>2, <3>3 DEF Recorded
  <2>5. ASSUME NEW h \in Guids, h # g  PROVE Recorded(h)'
    <3>1. /\ Recorded(h) /\ commits'[h] = commits[h] /\ outcome'[h] = outcome[h] /\ chrome'[h] = chrome[h]
          /\ h \in held' <=> h \in held
      BY <2>3, <2>5 DEF Kept, DownloadTypes, OfferTypes
    <3> QED BY <3>1 DEF Recorded
  <2>6. \A h \in Guids : Recorded(h)'
    BY <2>4, <2>5
  <2>7. \A h \in Guids : commits'[h] # "no" => commits[h] # "no"
    BY <2>1, <2>3 DEF OfferTypes
  <2> QED BY <1>1, <1>3, <2>6, <2>7, KeptDownloads
<1>8. CASE FT!CommitSettles(g)
  <2>1. /\ commits[g] = "remove" /\ commits' = [commits EXCEPT ![g] = "no"] /\ UNCHANGED FT!removalVars
    BY <1>8 DEF FT!CommitSettles
  <2>2. ASSUME NEW h \in Guids  PROVE Recorded(h)'
    <3>1. /\ Recorded(h) /\ UNCHANGED <<held, chrome, outcome>>
          /\ commits'[h] = commits[h] \/ (commits'[h] = "no" /\ commits[h] = "remove")
      BY <2>1 DEF Kept, OfferTypes, FT!removalVars
    <3> QED BY <3>1 DEF Recorded
  <2>3. \A h \in Guids : commits'[h] # "no" => commits[h] # "no"
    BY <2>1 DEF OfferTypes
  <2> QED BY <1>1, <1>3, <2>2, <2>3, KeptDownloads
<1> QED BY <1>2, <1>4, <1>5, <1>6, <1>7, <1>8

\* A cancellation of all downloads goes on when nothing is being committed.
LEMMA NothingCommitting ==
  ASSUME FileInv, Kept, NEW c \in FT!Callers, FT!CommitsAwaited(c) \/ cancelling[c].at \in {"offers",
         "sources", "aborts"}
  PROVE  c # "chain" /\ FT!Committing = {}
<1>1. c # "chain"
  BY DEF Kept, FT!CommitsAwaited
<1>2. cancelling[c] # FT!Idle
  BY DEF FT!CommitsAwaited, FT!Idle
<1>3. CASE c = "cleanup"
  BY <1>1, <1>2, <1>3 DEF Kept, CommitsAwait
<1>4. CASE c = "revocation"
  <2>1. CASE FT!CommitsAwaited(c)
    <3>1. FT!Committing \subseteq cancelling[c].for /\ cancelling[c].for \cap FT!Committing = {}
      BY <1>4, <2>1 DEF FT!CommitsAwaited, Kept, CommitsAwait
    <3> QED BY <1>1, <3>1
  <2>2. CASE cancelling[c].at \in {"offers", "sources", "aborts"}
    BY <1>1, <1>4, <2>2 DEF Kept, CommitsAwait
  <2> QED BY <2>1, <2>2
<1> QED BY <1>1, <1>3, <1>4 DEF FT!Callers

\* The next stage of a cancellation
LEMMA KeptStage ==
  ASSUME FileInv, Kept, NEW c \in FT!Callers, c # "chain", cancelling[c] # FT!Idle, NEW at, NEW for,
         FT!Stage(c, at, for),
         (at = "commits" /\ for = FT!Committing) \/ FT!Committing = {},
         UNCHANGED <<sink, grants, fileChain, offered, commits, ending>>, \A g \in Guids : Recorded(g)'
  PROVE  Kept'
<1>1. /\ cancelling'[c] = [at |-> at, for |-> for]
      /\ \A d \in FT!Callers : d # c => cancelling'[d] = cancelling[d]
  BY DEF FT!Stage, FileInv, FileTypes, CancelTypes
<1>2. FT!Committing' = FT!Committing
  BY DEF FT!Committing
<1>3. CommitsAwait'
  <2>1. CASE c = "revocation"
    <3>1. cancelling'["cleanup"] = cancelling["cleanup"]
      BY <1>1, <2>1 DEF FT!Callers
    <3>2. "download" \notin grants /\ grants' = grants
      BY <2>1 DEF Kept, CommitsAwait
    <3> QED BY <1>1, <1>2, <2>1, <3>1, <3>2 DEF Kept, CommitsAwait
  <2>2. CASE c = "cleanup"
    <3>1. cancelling'["revocation"] = cancelling["revocation"]
      BY <1>1, <2>2 DEF FT!Callers
    <3>2. ending \notin {"no", "commits"} /\ ending' = ending
      BY <2>2 DEF Kept, CommitsAwait
    <3> QED BY <1>2, <3>1, <3>2 DEF Kept, CommitsAwait
  <2> QED BY <2>1, <2>2 DEF FT!Callers
<1>4. cancelling'["chain"].at \in {"idle", "upload"}
  BY <1>1 DEF Kept, FT!Callers
<1> QED BY <1>3, <1>4 DEF Kept

LEMMA KeptCancelled ==
  ASSUME FileInv, Kept, NEW c \in FT!Callers, cancelling[c] # FT!Idle, FT!Cancelled(c)
  PROVE  Kept'
<1> USE DEF FileInv, FileTypes
<1>1. /\ cancelling' = [cancelling EXCEPT ![c] = FT!Idle] /\ UNCHANGED <<sink, grants, FT!downloadVars>>
      /\ c = "chain" => FT!Pop
      /\ c # "chain" => UNCHANGED FT!chainVars
      /\ ending' = IF c = "cleanup" THEN "tab" ELSE ending
  BY DEF FT!Cancelled
<1>2. fileChain' = fileChain \/ (fileChain # <<>> /\ FT!Pop)
  BY <1>1 DEF CancelHeld, ChainInv, FT!chainVars
<1>3. \A i \in DOMAIN fileChain' : fileChain'[i].op # "completed"
  BY <1>2, KeptChain DEF Kept
<1>4. CASE c = "chain"
  <2>1. cancelling' = [cancelling EXCEPT !["chain"] = FT!Idle] /\ FT!Idle.at = "idle" /\ ending' = ending
    BY <1>1, <1>4 DEF FT!Idle
  <2> QED BY <1>1, <1>3, <2>1, KeptStill
<1>5. CASE c # "chain"
  <2>1. /\ cancelling'[c] = FT!Idle /\ FT!Idle.at = "idle"
        /\ \A d \in FT!Callers : d # c => cancelling'[d] = cancelling[d]
    BY <1>1 DEF CancelTypes, FT!Idle
  <2>2. UNCHANGED <<commits, offered, held, chrome, outcome>>
    BY <1>1 DEF FT!downloadVars, FT!removalVars
  <2>3. FT!Committing' = FT!Committing
    BY <2>2 DEF FT!Committing
  <2>4. CommitsAwait'
    <3>1. CASE c = "revocation"
      <4>1. cancelling'["cleanup"] = cancelling["cleanup"] /\ ending' = ending
        BY <1>1, <2>1, <3>1 DEF FT!Callers
      <4> QED BY <2>1, <2>3, <3>1, <4>1 DEF Kept, CommitsAwait
    <3>2. CASE c = "cleanup"
      <4>1. cancelling'["revocation"] = cancelling["revocation"] /\ ending' = "tab" /\ grants' = grants
        BY <1>1, <2>1, <3>2 DEF FT!Callers
      <4>2. FT!Committing = {}
        BY <3>2 DEF Kept, CommitsAwait
      <4> QED BY <2>1, <2>3, <3>2, <4>1, <4>2 DEF Kept, CommitsAwait
    <3> QED BY <1>5, <3>1, <3>2 DEF FT!Callers
  <2>5. \A g \in Guids : Recorded(g)'
    BY <2>2, RecordedStill DEF Kept
  <2>6. cancelling'["chain"].at \in {"idle", "upload"}
    BY <1>5, <2>1 DEF Kept, FT!Callers
  <2> QED BY <1>1, <1>3, <2>2, <2>4, <2>5, <2>6 DEF Kept
<1> QED BY <1>4, <1>5

LEMMA KeptCancels ==
  ASSUME FileInv, Kept, NEW c \in FT!Callers, FT!CancelSteps(c), sink' = sink
  PROVE  Kept'
<1> USE DEF FileInv, FileTypes
<1>1. cancelling[c] # FT!Idle
  BY DEF FT!CancelSteps, FT!UploadCancelled, FT!CancelOffers, FT!CommitsAwaited, FT!CancelSources, FT!SourcesCancelled,
         FT!DownloadsCancelled, FT!Idle
<1>2. CASE FT!UploadCancelled(c)
  <2>1. CASE FT!AllDownloads(c)
    <3>1. c # "chain"
      BY <2>1 DEF FT!AllDownloads, Kept
    <3>2. FT!Stage(c, "commits", FT!Committing) /\ UNCHANGED <<grants, fileChain, FT!downloadVars,
                                                               ending>>
      BY <1>2, <2>1 DEF FT!UploadCancelled, FT!sessionVars, FT!chainVars
    <3>3. UNCHANGED <<commits, offered, held, chrome, outcome>>
      BY <3>2 DEF FT!downloadVars, FT!removalVars
    <3>4. \A g \in Guids : Recorded(g)'
      BY <3>3, RecordedStill DEF Kept
    <3>5. ASSUME NEW for, for = FT!Committing  PROVE Kept'
      BY <1>1, <3>1, <3>2, <3>3, <3>4, <3>5, KeptStage
    <3> QED BY <3>5
  <2> QED BY <1>1, <1>2, <2>1, KeptCancelled DEF FT!UploadCancelled
<1>3. CASE FT!CancelOffers(c)
  <2>1. c # "chain" /\ FT!Committing = {}
    BY <1>3, NothingCommitting DEF FT!CancelOffers
  <2>2. PICK G : /\ FT!Stage(c, "offers", G) /\ FT!Withdraw(G) /\ FT!Remove(G, FT!Tracked)
                 /\ UNCHANGED <<grants, fileChain, commits, ending>>
    BY <1>3 DEF FT!CancelOffers, FT!sessionVars, FT!chainVars
  <2>3. offered' = offered
    BY <2>2 DEF FT!Withdraw, Kept, OfferTypes
  <2>4. \A g \in Guids : commits[g] = "no"
    BY <2>1 DEF FT!Committing
  <2>5. \A g \in Guids : Recorded(g)'
    BY <2>2, <2>4, RemoveRecords DEF FT!Tracked
  <2> QED BY <1>1, <2>1, <2>2, <2>3, <2>5, KeptStage
<1>4. CASE FT!CancelSources(c)
  <2>1. c # "chain" /\ FT!Committing = {}
    BY <1>4, NothingCommitting DEF FT!CancelSources
  <2>2. PICK G : /\ FT!Stage(c, "sources", G) /\ FT!Remove(G, FT!Tracked)
                 /\ UNCHANGED <<grants, fileChain, commits, offered, ending>>
    BY <1>4 DEF FT!CancelSources, FT!sessionVars, FT!chainVars
  <2>3. \A g \in Guids : commits[g] = "no"
    BY <2>1 DEF FT!Committing
  <2>4. \A g \in Guids : Recorded(g)'
    BY <2>2, <2>3, RemoveRecords DEF FT!Tracked
  <2> QED BY <1>1, <2>1, <2>2, <2>4, KeptStage
<1>5. CASE FT!SourcesCancelled(c)
  <2>1. c # "chain" /\ FT!Committing = {}
    BY <1>5, NothingCommitting DEF FT!SourcesCancelled
  <2>2. PICK for : FT!Stage(c, "aborts", for) /\ UNCHANGED <<grants, fileChain, FT!downloadVars,
                                                             ending>>
    BY <1>5 DEF FT!SourcesCancelled, FT!sessionVars, FT!chainVars
  <2>3. UNCHANGED <<commits, offered, held, chrome, outcome>>
    BY <2>2 DEF FT!downloadVars, FT!removalVars
  <2>4. \A g \in Guids : Recorded(g)'
    BY <2>3, RecordedStill DEF Kept
  <2> QED BY <1>1, <2>1, <2>2, <2>3, <2>4, KeptStage
<1>6. CASE FT!DownloadsCancelled(c)
  BY <1>1, <1>6, KeptCancelled DEF FT!DownloadsCancelled
<1> QED BY <1>2, <1>3, <1>4, <1>5, <1>6 DEF FT!CancelSteps

\* The head of the chain
LEMMA KeptHeads ==
  ASSUME FileInv, Kept, FT!HeadUploads \/ FT!HeadDownloads, sink' = sink
  PROVE  Kept'
<1> USE DEF FileInv, FileTypes
<1>1. fileChain # <<>> /\ fileChain[1].op # "completed"
  <2>1. fileChain # <<>>
    BY DEF FT!HeadUploads, FT!HeadCancels, FT!HeadIgnored, FT!OfferStarts, FT!OfferReserved, FT!OfferFails, FT!OfferUndone,
           FT!TransferStarts, FT!TransferRefused, FT!ChunkWritten, FT!UploadCommitted, FT!UploadDelivered, FT!TransferFails,
           FT!ViewerCancels, FT!HeadDownloads, FT!CompletedStarts, FT!DownloadOffered, FT!DownloadIncomplete, FT!DownloadVanished,
           FT!HeadRemoved, FT!DownloadAccepted, FT!DownloadResult, FT!At, ChainInv
  <2> QED BY <2>1, HeadEntry DEF Kept
<1>2. ASSUME NEW for, cancelling' = [cancelling EXCEPT !["chain"] = [at |-> "upload", for |-> for]]
      PROVE  \E r : cancelling' = [cancelling EXCEPT !["chain"] = r] /\ r.at \in {"idle", "upload"}
  <2>1. [at |-> "upload", for |-> for].at = "upload"
    OBVIOUS
  <2> QED BY <1>2, <2>1
<1>3. CASE FT!HeadUploads
  <2>1. FT!Pop \/ fileChain' = fileChain
    BY <1>3
       DEF FT!HeadUploads, FT!HeadCancels, FT!HeadIgnored, FT!OfferStarts, FT!OfferReserved, FT!OfferFails, FT!OfferUndone,
                FT!TransferStarts, FT!TransferRefused, FT!ChunkWritten, FT!UploadCommitted, FT!UploadDelivered, FT!TransferFails,
                FT!ViewerCancels, FT!Refuse, FT!Await
  <2>2. UNCHANGED <<FT!sessionVars, FT!downloadVars, ending>>
    BY <1>3
       DEF FT!HeadUploads, FT!HeadCancels, FT!HeadIgnored, FT!OfferStarts, FT!OfferReserved, FT!OfferFails, FT!OfferUndone,
                FT!TransferStarts, FT!TransferRefused, FT!ChunkWritten, FT!UploadCommitted, FT!UploadDelivered, FT!TransferFails,
                FT!ViewerCancels
  <2>3. \/ cancelling' = cancelling
        \/ \E for : cancelling' = [cancelling EXCEPT !["chain"] = [at |-> "upload", for |-> for]]
    BY <1>3
       DEF FT!HeadUploads, FT!HeadCancels, FT!HeadIgnored, FT!OfferStarts, FT!OfferReserved, FT!OfferFails, FT!OfferUndone,
                FT!TransferStarts, FT!TransferRefused, FT!ChunkWritten, FT!UploadCommitted, FT!UploadDelivered, FT!TransferFails,
                FT!ViewerCancels, FT!Refuse, FT!CancelFileFlow, FT!Stage
  <2>4. \A i \in DOMAIN fileChain' : fileChain'[i].op # "completed"
    BY <1>1, <2>1, KeptChain DEF Kept
  <2>5. cancelling' = cancelling
          \/ \E r : cancelling' = [cancelling EXCEPT !["chain"] = r] /\ r.at \in {"idle", "upload"}
    BY <1>2, <2>3
  <2>6. grants' \subseteq grants
    BY <2>2 DEF FT!sessionVars
  <2> QED BY <2>2, <2>4, <2>5, <2>6, KeptStill
<1>4. CASE FT!HeadDownloads
  <2>1. FT!HeadRemoved \/ FT!DownloadAccepted \/ FT!DownloadResult
    BY <1>1, <1>4
       DEF FT!HeadDownloads, FT!CompletedStarts, FT!DownloadOffered, FT!DownloadIncomplete, FT!DownloadVanished, FT!At
  <2>2. ASSUME FT!DownloadAccepted \/ FT!DownloadResult
        PROVE  ~FT!Active(fileChain[1].arg)
    <3>1. fileChain[1].arg \in Guids
      BY <1>1, <2>2, HeadEntry, EntryKinds DEF FT!DownloadAccepted, FT!DownloadResult, FT!At
    <3> QED BY <3>1 DEF FT!Active, Kept
  <2>3. FT!Pop /\ UNCHANGED <<FT!sessionVars, FT!downloadVars, cancelling, ending>>
    BY <2>1, <2>2 DEF FT!HeadRemoved, FT!DownloadAccepted, FT!DownloadResult, FT!downloadVars
  <2>4. \A i \in DOMAIN fileChain' : fileChain'[i].op # "completed"
    BY <1>1, <2>3, KeptChain DEF Kept
  <2>5. grants' \subseteq grants
    BY <2>3 DEF FT!sessionVars
  <2> QED BY <2>3, <2>4, <2>5, KeptStill
<1> QED BY <1>3, <1>4

\* The Viewer and the Embedder
LEMMA KeptSession ==
  ASSUME FileInv, Kept, sink' = sink,
         \/ \E op \in FT!ViewerOps, o \in Offers : FT!ViewerSends(op, o)
         \/ \E op \in FT!DownloadOps, g \in Guids : FT!ViewerSends(op, g)
         \/ FT!ChooserOpened \/ FT!ViewerLeaves \/ FT!ViewerReturns \/ FT!TakeoverStarts \/ FT!ViewerReplaced \/ FT!RevokeUpload
         \/ FT!UploadExpires \/ FT!ChooserExpires \/ \E o \in Offers : FT!UploadAborted(o)
         \/ UNCHANGED FT!vars
  PROVE  Kept'
<1>1. UNCHANGED <<FT!downloadVars, cancelling, ending>> /\ grants' \subseteq grants
  BY DEF FT!ViewerSends, FT!ChooserOpened, FT!ViewerLeaves, FT!ViewerReturns, FT!TakeoverStarts, FT!ViewerReplaced, FT!RevokeUpload,
         FT!UploadExpires, FT!ChooserExpires, FT!UploadAborted, FT!vars, FT!sessionVars
<1>2. \/ fileChain' = fileChain
      \/ \E op \in FT!Ops \ {"completed"}, arg \in Offers \cup Guids \cup {NoFile} :
           FT!Enqueue(op, arg) /\ [op |-> op, arg |-> arg] \in Entries
  <2>1. ASSUME NEW op \in FT!ViewerOps, NEW o \in Offers, FT!ViewerSends(op, o)
        PROVE  FT!Enqueue(op, o) /\ op \in FT!Ops \ {"completed"} /\ [op |-> op, arg |-> o] \in Entries
    BY <2>1 DEF FT!ViewerSends, FT!Ops, FT!ViewerOps, Entries
  <2>2. ASSUME NEW op \in FT!DownloadOps, NEW g \in Guids, FT!ViewerSends(op, g)
        PROVE  FT!Enqueue(op, g) /\ op \in FT!Ops \ {"completed"} /\ [op |-> op, arg |-> g] \in Entries
    BY <2>2 DEF FT!ViewerSends, FT!Ops, FT!DownloadOps, Entries
  <2>3. ASSUME NEW op \in {"chooser", "departed", "takeover", "revoked"}
        PROVE  op \in FT!Ops \ {"completed"} /\ [op |-> op, arg |-> NoFile] \in Entries
    BY DEF FT!Ops, Entries
  <2>4. CASE FT!ChooserOpened \/ FT!ViewerLeaves \/ FT!TakeoverStarts \/ FT!RevokeUpload
    <3>1. \E op \in {"chooser", "departed", "takeover", "revoked"} : FT!Enqueue(op, NoFile)
      BY <2>4 DEF FT!ChooserOpened, FT!ViewerLeaves, FT!TakeoverStarts, FT!RevokeUpload
    <3> QED BY <2>3, <3>1
  <2>5. CASE FT!ViewerReturns \/ FT!ViewerReplaced \/ FT!UploadExpires \/ FT!ChooserExpires \/ (\E o \in Offers : FT!UploadAborted(o))
               \/ UNCHANGED FT!vars
    BY <2>5
       DEF FT!ViewerReturns, FT!ViewerReplaced, FT!UploadExpires, FT!ChooserExpires, FT!UploadAborted, FT!vars, FT!chainVars
  <2> QED BY <2>1, <2>2, <2>4, <2>5
<1>3. \A i \in DOMAIN fileChain' : fileChain'[i].op # "completed"
  BY <1>2, KeptChain DEF Kept
<1> QED BY <1>1, <1>3, KeptStill

\* The download capability, and the end of the Session
LEMMA KeptEmbedder ==
  ASSUME FileInv, Kept, sink' = sink, Regrants = FALSE,
         FT!RevokeDownload \/ FT!GrantDownload \/ FT!Close \/ FT!CleanupCancels \/ FT!StorageCleaned
  PROVE  Kept'
<1> USE DEF FileInv, FileTypes
<1>1. UNCHANGED <<fileChain, FT!downloadVars>>
  BY DEF FT!RevokeDownload, FT!GrantDownload, FT!Close, FT!CleanupCancels, FT!StorageCleaned, FT!chainVars
<1>2. UNCHANGED <<commits, offered, held, chrome, outcome>> /\ FT!Committing' = FT!Committing
  BY <1>1 DEF FT!downloadVars, FT!removalVars, FT!Committing
<1>3. \A g \in Guids : Recorded(g)'
  BY <1>2, RecordedStill DEF Kept
<1>4. cancelling'["chain"] = cancelling["chain"]
  BY DEF FT!RevokeDownload, FT!GrantDownload, FT!Close, FT!CleanupCancels, FT!CancelFileFlow, FT!Stage, FT!StorageCleaned, CancelTypes, FT!Callers
<1>5. CommitsAwait'
  <2>1. CASE FT!RevokeDownload
    <3>1. /\ "download" \notin grants' /\ ending' = ending /\ cancelling'["cleanup"] = cancelling["cleanup"]
          /\ cancelling'["revocation"] = [at |-> "commits", for |-> FT!Committing]
      BY <2>1 DEF FT!RevokeDownload, FT!Stage, CancelTypes, FT!Callers
    <3> QED BY <1>2, <3>1 DEF Kept, CommitsAwait
  <2>2. CASE FT!GrantDownload
    <3>1. cancelling["revocation"] = FT!Idle /\ UNCHANGED <<cancelling, ending>>
      BY <2>2 DEF FT!GrantDownload
    <3> QED BY <1>2, <3>1 DEF Kept, CommitsAwait
  <2>3. CASE FT!Close
    <3>1. ending = "no" /\ ending' = "commits" /\ UNCHANGED <<cancelling, grants>>
      BY <2>3 DEF FT!Close, FT!Closed, FT!sessionVars
    <3> QED BY <1>2, <3>1 DEF Kept, CommitsAwait
  <2>4. CASE FT!CleanupCancels
    <3>1. /\ ending' = "flow" /\ FT!Committing = {} /\ grants' = grants
          /\ cancelling'["revocation"] = cancelling["revocation"]
      BY <2>4 DEF FT!CleanupCancels, FT!CancelFileFlow, CancelTypes, FT!Callers, FT!sessionVars
    <3> QED BY <1>2, <3>1 DEF Kept, CommitsAwait
  <2>5. CASE FT!StorageCleaned
    <3>1. ending = "storage" /\ ending' = "disposed" /\ UNCHANGED <<cancelling, grants>>
      BY <2>5 DEF FT!StorageCleaned, FT!sessionVars
    <3> QED BY <1>2, <3>1 DEF Kept, CommitsAwait
  <2> QED BY <2>1, <2>2, <2>3, <2>4, <2>5
<1> QED BY <1>1, <1>2, <1>3, <1>4, <1>5 DEF Kept

LEMMA KeptTab ==
  ASSUME FileInv, Kept, sink' = sink, FT!TabCloses
  PROVE  Kept'
<1> USE DEF FileInv, FileTypes
<1>1. /\ ending = "tab" /\ ending' = "storage" /\ UNCHANGED <<grants, fileChain, cancelling, held,
                                                              outcome, commits, offered>>
      /\ chrome' = [g \in Guids |-> IF g \in FT!Tracked THEN "removed" ELSE chrome[g]]
  BY DEF FT!TabCloses, FT!sessionVars, FT!chainVars
<1>2. FT!Committing = {} /\ FT!Committing' = {}
  BY <1>1 DEF Kept, CommitsAwait, FT!Committing
<1>3. ASSUME NEW g \in Guids  PROVE Recorded(g)'
  <2>1. Recorded(g) /\ commits[g] = "no" /\ commits'[g] = "no"
    BY <1>1, <1>2 DEF Kept, FT!Committing
  <2>2. chrome'[g] = chrome[g] \/ (chrome[g] \in {"running", "done"} /\ chrome'[g] = "removed")
    BY <1>1 DEF FT!Tracked
  <2> QED BY <1>1, <2>1, <2>2 DEF Recorded
<1>4. CommitsAwait'
  BY <1>1, <1>2 DEF Kept, CommitsAwait
<1> QED BY <1>1, <1>3, <1>4 DEF Kept

LEMMA SinkStep ==
  ASSUME FileInv, SinkInv, [FT!Next]_(FT!vars), Regrants = FALSE
  PROVE  SinkInv'
<1>1. CASE Without
  BY <1>1, WithoutStep DEF SinkInv
<1>2. CASE Kept
  <2>0. sink' = sink
    BY SinkStays
  <2>1. CASE FT!HeadUploads \/ FT!HeadDownloads
    BY <1>2, <2>0, <2>1, KeptHeads DEF SinkInv
  <2>2. ASSUME NEW c \in FT!Callers, FT!CancelSteps(c)  PROVE SinkInv'
    BY <1>2, <2>0, <2>2, KeptCancels DEF SinkInv
  <2>3. ASSUME NEW g \in Guids, FT!Download(g)  PROVE SinkInv'
    BY <1>2, <2>0, <2>3, KeptBegins, KeptEnds DEF SinkInv, FT!Download
  <2>4. CASE FT!RevokeDownload \/ FT!GrantDownload \/ FT!Close \/ FT!CleanupCancels \/ FT!StorageCleaned
    BY <1>2, <2>0, <2>4, KeptEmbedder DEF SinkInv
  <2>5. CASE FT!TabCloses
    BY <1>2, <2>0, <2>5, KeptTab DEF SinkInv
  <2>6. CASE \/ \E op \in FT!ViewerOps, o \in Offers : FT!ViewerSends(op, o)
             \/ \E op \in FT!DownloadOps, g \in Guids : FT!ViewerSends(op, g)
             \/ FT!ChooserOpened \/ FT!ViewerLeaves \/ FT!ViewerReturns \/ FT!TakeoverStarts \/ FT!ViewerReplaced \/ FT!RevokeUpload
             \/ FT!UploadExpires \/ FT!ChooserExpires \/ \E o \in Offers : FT!UploadAborted(o)
             \/ UNCHANGED FT!vars
    BY <1>2, <2>0, <2>6, KeptSession DEF SinkInv
  <2> QED BY <2>1, <2>2, <2>3, <2>4, <2>5, <2>6 DEF FT!Next, FT!Cleanup
<1> QED BY <1>1, <1>2 DEF SinkInv

LEMMA SinkInit == FT!Init => SinkInv
<1> SUFFICES ASSUME FT!Init  PROVE SinkInv
  OBVIOUS
<1> USE DEF FT!Init
<1>1. CASE sink = FALSE
  BY <1>1 DEF SinkInv, Without
<1>2. CASE sink = TRUE
  <2>1. DOMAIN fileChain = {}
    OBVIOUS
  <2>2. \A g \in Guids : Recorded(g)
    BY DEF Recorded
  <2>3. FT!Committing = {}
    BY DEF FT!Committing
  <2>4. \A c \in FT!Callers : cancelling[c] = FT!Idle /\ FT!Idle.at = "idle"
    BY DEF FT!Idle
  <2>5. CommitsAwait
    BY <2>3, <2>4 DEF CommitsAwait, FT!Callers
  <2> QED BY <1>2, <2>1, <2>2, <2>4, <2>5 DEF SinkInv, Kept, FT!Callers
<1> QED BY <1>1, <1>2

\* When the Embedder does not grant download again while it is being revoked,
\* the sink is never told to abort a download it is committing or has
\* committed: a cancellation awaits the commits, and none begins beside it.
THEOREM SinkSettles ==
  ASSUME FT!FileTransfersAssumption
  PROVE  FT!Spec /\ Regrants = FALSE => []FT!SinkSettled
<1>1. FT!Init => FileInv /\ SinkInv
  BY FileInit, SinkInit
<1>2. Regrants = FALSE /\ FileInv /\ SinkInv /\ [FT!Next]_(FT!vars) => FileInv' /\ SinkInv'
  BY FileStep, SinkStep
<1>3. SinkInv => FT!SinkSettled
  BY DEF SinkInv, Without, Kept, Recorded, FT!SinkSettled
<1>4. CASE Regrants = FALSE
  <2>1. FileInv /\ SinkInv /\ [FT!Next]_(FT!vars) => FileInv' /\ SinkInv'
    BY <1>2, <1>4
  <2> QED BY <1>1, <1>3, <2>1, PTL DEF FT!Spec
<1>5. CASE ~(Regrants = FALSE)
  BY <1>5, PTL
<1> QED BY <1>4, <1>5

=============================================================================
