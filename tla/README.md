# Verification of BrowShare Remote Tab

TLA+ models of the parts of this repository whose correctness depends on the
order of events, the TLC configurations that check them, and TLAPS proofs of
what holds for every value of the constants. Paths are relative to `src/`.

## The system

A trusted Embedder attaches a *Session* to a Chrome tab through Core, issues
*Viewer tickets*, and hands each to a browser that connects as the *Viewer*.
Core and Viewer meet at a signaling Gateway; media and control messages then
travel between the Viewer and a Chrome extension, which Core drives over a
loopback WebSocket.

    Embedder --attachSession, createViewerTicket, close--> Core Session
    Core Session --core.bind--> Gateway <--viewer.bind(ticket)-- Headless client
    Core Session --media.start/stop/suspend, control--> loopback --> Extension
    Extension <==WebRTC media, control, files==> Headless client --> Viewer element
    Core Session --CDP--> Chrome

### Inventory

Every component of `PROJECT.json` is below, with the state it keeps, its
operations, what is hard about it and what makes it correct.

| Component | State | Operations | Hard behaviour | Correct when |
|---|---|---|---|---|
| Signaling Gateway (`apps/signaling/src/index.ts`) | connections, addresses, peers, pairs with timers, consumed tickets, suspended binds | accept, bind, relay, expire, close/start, metrics | three awaited providers, two sockets for one role, disconnects between awaits | a ticket binds once; peers and pairs are inverse; both peers or nobody are told `ready`; nothing waits for ever |
| Gateway configuration, metrics, CLI | none that changes | parsing, rendering | - | - |
| Core Session lifecycle (`packages/core/src/session.ts`, `state-machine.ts`) | state, generation, ticket expiry, signaling client, retry timer, control chain, termination | `createViewerTicket`, negotiation, departure, failure, suspend/resume, close | values read before several awaits; events of a retiring Viewer during a takeover; cleanup racing everything | legal transitions; generations grow; no client, publisher or timer outlives its generation or the Session |
| Core signaling client (`signaling-client.ts`) | socket, ready, peerReady, closed, timer | connect, relay, fail, close | failure and pairing in either order; listeners cleared by `close` | one outcome per `connect`; no event after close |
| Core attachment registry (`RemoteTabCore`) | sessions, attaching, pending cleanup, target owners and reservations, clipboard chain | `attachSession`, `closeSession`, `close` | ownership compared across awaits, cleanup that fails and is retried | a target belongs to one Session; a failed attachment stays closable |
| Core control channel | control chain, pending hover, sequence numbers | every control message | queueing behind slow commands, coalescing, prompts that bypass the queue | order is kept where it matters; nothing of an old generation is obeyed |
| Core window selection | active tab, window, catalogue and capture revisions, switching flag | select, close, recover, replace capture | switching awaits the extension while windows close | input reaches the window it was meant for |
| Core file transfers | reservations, upload and download transfers, sink state | offer, chunk, commit, cancel | cancellation at every await, quota | reserved bytes are returned exactly once |
| Core clipboard | read and write transfers, exclusive chain | read, write, chunks | cross-Session exclusion | one Session at a time |
| Core notices, local open requests | pending requests with timers | request, respond, cancel | answer, timeout and cancel race | one result per request |
| Core extension loopback server (`extension-loopback.ts`) | peers, runtimes, session and target bindings, pending requests | bind, ready, prepareCapture, stop, control forwarding | runtime restarts, late answers, timeouts | an answer settles its own request only |
| Core CDP (`cdp.ts`) | targets, children, downloads, navigation interception | attach, navigate, close | children appear during attach and close | each target is owned or released |
| Core contracts, media limits | none | clamping | - | limits respected |
| Extension media runtime (`offscreen.ts`) | publishers, start attempts, peer readiness | start, stop, suspend, replace capture | starts awaited while stopped | one publisher per Session, acknowledged stops leave none |
| Extension service worker, policies | offscreen document, runtime configuration | start, resolve | worker restarts | - |
| Headless client (`remote-tab-client.ts`) | connection state, ICE restart, reconnect timers, requests, transfers | connect, reconnect, suspend, send | attempts, timers and close race | one live attempt; requests settle |
| Viewer element | DOM | rendering, input | focus-driven suspend | - |
| Protocol | none | codecs, schemas | - | - |
| Standalone daemon (`apps/standalone/src/server.ts`) | session records, ticket queue, spool | HTTP API, shutdown | terminal Session versus registry, generation counter | records follow Sessions |
| Standalone configuration, CLI; build, release, deployment | none that changes | - | - | - |

The Session is one class of 2,900 lines; its state machine, its window
selection, its files, clipboard and requests meet in one queue, `#controlChain`.
Each of those concerns has a module of its own here, in which the chain appears
with the entries of that concern and with the drain of a takeover, so that the
interference that matters (a takeover, a departure, a revocation, the close) is
in every one of them.

## Modules

| Module | What it is |
|---|---|
| `SignalingGateway` | the Gateway: one action per socket event, timer and provider answer |
| `SessionLifecycle` | abstract specification: what a Session promises its Embedder |
| `CoreSession` | a Session with its signaling client: tickets, negotiation, departure, failure, close |
| `AttachRegistry` | who owns a Chrome page: attachments, their failures and cleanups, popups |
| `WindowControl` | the control chain of a Session, its windows and their captures |
| `MediaRuntime` | Core and the Extension across the loopback socket: start, stop, replace, suspend |
| `QualityControl` | one Publisher's encoding: configurations, presets and automatic adaptation |
| `FileTransfers` | what uploads and downloads cost Core: bytes, reservations, the sink |
| `FileWire` | the same files on the wire: Viewer client, Extension, Core, chunk by chunk |
| `ClipboardTransfers` | clipboard writes and reads at both ends |
| `ViewerRequests` | notices, local opens, navigations, quality requests at both ends |
| `ViewerClient` | the connection of the headless client: ICE restarts, recovery, timers |
| `StandaloneDaemon` | the daemon's records, ticket queues, deletion and shutdown |
| `MC...` | the instance of each for TLC |
| `SignalingGateway_proofs`, `CoreSession_proofs`, `AttachRegistry_proofs`, `ViewerClient_proofs`, `StandaloneDaemon_proofs`, `WindowControl_proofs`, `MediaRuntime_proofs`, `ViewerRequests_proofs` | their theorems; those about `QualityControl` are in `MediaRuntime_proofs`, with the rest of the Extension (`Q == INSTANCE QualityControl`), those about `FileWire` in `ViewerClient_proofs` (`W == INSTANCE FileWire`), those about `ClipboardTransfers` in `WindowControl_proofs` (`C == INSTANCE ClipboardTransfers`), and those about `FileTransfers` in `CoreSession_proofs` (`FT == INSTANCE FileTransfers`) |

All processes run one JavaScript event loop each. An action is one run of that
loop up to the next `await`; what an `await` leaves suspended is a record in a
variable (`tasks` in the Gateway, `calls` and `chain` in a Session, `step` for
the head of the chain, `starts` in the Extension). Between two actions anything
else may run.

Two modules that look at the same code from two sides share no variables: what
one leaves abstract the other details, as said below. Composing them would
multiply their states without adding an interleaving that neither has.

### SignalingGateway

`peers`, `pairs`, `consumed`, `connections`, `byAddress`, `bindInProgress`
are the fields of `SignalingGateway`. `tasks` holds the suspended `#bindViewer`
(ticket being verified), `#bindCore` (authorizer) and `#completePair` (ICE
servers of Core, then of the Viewer). Message payloads are opaque; `delivered`
records the kinds of message a socket was sent, as far as the constant
`Observed` asks, and `boundWith` is a history of what each ticket has bound, and in
which run of the Gateway. `CloseAndStart` is `close` followed by `start` of the same
object: what was suspended goes on in the next run and finds its socket closed.
The identity of a `Pairing` object is its key: a socket binds at most once, so
an object that was deleted and created again never holds sockets of the old
one. Expiry is by the second (`now`, bounded by `MaxTime`).

### CoreSession

| Variable | Code |
|---|---|
| `state`, `generation`, `expired` | `#state`, `#viewerGeneration` (0 is undefined), `#viewerTicketExpiresAtMs` has passed |
| `signaling`, `clients` | `#signaling`; every `CoreSignalingClient` that is still of interest, in a slot: `connecting`, `preparing` (paired, `prepareCapture` awaited), `up`, `abandoned` (closed while preparing) |
| `retry` | the generation `#signalingRetryTimer` is armed for |
| `calls` | suspended `createViewerTicket` calls: awaiting the issuer, the drain of the control chain, `stopMedia`, the close of the old client; with what they have read before: `prev` is `previousSignaling`, `from` is `previousState` |
| `chain` | `#controlChain` |
| `media`, `inbox`, `replies`, `mediaUp` | what the extension was last told, what it may still send, whether its socket is open |
| `termination` | progress of `#terminate` and `#cleanup`; `"none"` is `!#closed` |
| `greeted` | history: `yes` when a hello of the current generation was accepted, `inherited` when the takeover that issued it left the Session served, else `no` |

Simplifications, each of which loses no behaviour the properties can tell
apart: the microtask of `#terminate` that moves the state runs with the handler
that started it; the hello, suspend and resume messages stand for the control
messages whose cases change the state, all others are refused or act outside
this module; the window a takeover may return to is not modelled (one more await
between `stopMedia` and the commit); a closed client that nobody refers to frees
its slot at once. Slots are a bound: with every slot in use a negotiation waits
for one. When `#handleSignalingFailure` throws out of the promise chain of
`#startNegotiation`, the process is taken to survive the unhandled rejection.
Two calls under way have different generations.

Nothing keeps the retiring Viewer from acting while `createViewerTicket` awaits: its
hello, its departure, a capture prepared for it, a failure of its client may all come
between the drain and the commit, as in the code. Two constants name what the
environment may do: `Concurrent`, the Embedder overlaps `createViewerTicket` calls
(the standalone daemon queues them, `server.ts`, `ticketQueue`; the library does
not); `MediaFaults`, the extension may not answer `media.stop` (`"timeout"`), its
socket may close (`"disconnect"`).

`SessionLifecycle` promises what the code keeps in spite of such a takeover.
`remembered` is the state a takeover has read (`Remembered` in `CoreSession`). A step
is a transition of `LEGAL_TRANSITIONS` (`Move`), the begin of a takeover or its failure
(`Retire`, `GiveUp`), or the issue of a larger generation: in the state remembered it
takes the Session to negotiation (`Issue`), in another one it moves the Session
legally or not at all (`IssueOvertaken`). `ImplementsLifecycle` says that `CoreSession`
refines it. That a generation *always* comes with a negotiation is what the documents
say, and what the code does not do (`TakeoverNegotiates`).

### AttachRegistry

`attachSession` compares the page it wants with five tables, awaits the
Extension, the browser and the page, compares again, now with every popup the
page has opened, and only then claims. One variable per table of `RemoteTabCore`
(`attaching`, `reservations`, `pendingAttachments`, `owners`); `phase` is where
the `async` function of an identity stands, or what its `#pendingCleanup` entry
still has to do:

| Phase | Code |
|---|---|
| `connect` | awaiting `waitUntilReady` and `CdpBrowser.connect` |
| `attach`, `discover` | `attachTab` with a page; with a controller that listens, awaiting the snapshot of `discoverChildren` |
| `claimed`, `owned` | in `#pendingAttachments`; in `#targetOwners` |
| `session`, `disposed` | in `#sessions`; closed before `attachSession` returned |
| `abandon`, `closeFailed` | a page `attachTab` created and failed on: its own cleanup, then the one of `attachSession` |
| `closeTree`, `closePage`, `closeNothing` | a controller to close; a created page that lost the second check; nothing |

`root`, `children` and `listening` are what the controller of the identity knows,
`pages` and `born` what Chrome has and had, `bound` the Extension loopback's
`#sessionTargets`. Pages open popups and go by themselves at any time, except
that a page Core has created is `about:blank`, and opens none, until it is
claimed. A cleanup closes its pages in one step, or some of them and fails: a
popup that appears between two closes, and makes the code report that targets
still require cleanup, is one that opens just before a close that fails.

Controllers lose their CDP connection at any time, and pages open popups meanwhile.
`strays` is a history of the popups that were opened behind the back of whoever held
their opener, with all that these open in their turn; `victims` of the pages that were
closed while another Session owned them. `ExclusiveOwnership` and `NoForeignClose`
hold of every page that is not a stray; of the strays too, `ExclusiveOwnership` says
that two Sessions which are both connected share nothing.

Assumptions: Chrome never uses a target identity again, and its events reach a
connected controller with the change. They are about Chrome, and what the checks
of the code rely on.

### WindowControl

`queue` is what has not begun in `#controlChain`; `selection` is `#selectWindow`
under way at its head, with what it remembers across its awaits. `capture` is
what the media runtime captures, `endings` the capture-ended signals it has sent
and Core has not read, `shown` the windows and revisions this Viewer has been
told of, from which its next command is made; input that was stamped while
`windowSelection` was granted keeps its stamp when it is revoked. `hit` is a history of the last
input dispatched: the window it was meant for, the one it went to, and its place
in the order of arrival. A hover that waits is coalesced (`HoverArrives`), a
selection prepares, replaces the capture and commits; a child closes, a capture
ends, `windowSelection` is revoked and a takeover drains the chain at any time.
`AWAY` stands for the states in which no Viewer is connected; `SUSPENDED` is in
`CoreSession`.

### MediaRuntime

The requests of `extension-loopback.ts` and the handlers of `offscreen.ts`,
joined by two ordered queues. A request is its number; a capture and a Publisher
carry the number of the request that asked for them. `pending` and `resolved`
are Core's promises, `starts` and `replacements` the acquisitions that nothing
can cancel, `attempt` is `publisherStartAttempts`, `stops` the runs of
`stopPublisherAndAcknowledge`, and `live` the captures whose tracks run in
Chrome. A capture is granted in one step (`CaptureGranted`) and handed over in a later
one, between which its frame rate is limited: it runs already, and nobody has it yet.
The socket is lost and opened again (`losses`), requests time out, a
Viewer leaves and a takeover stops the media. Of the Session only what calls the
loopback server is here; its own state is `CoreSession`.

### QualityControl

`operations` is the queue `mediaOperations` of one Publisher and `step` the await
of its head; every step of an operation may fail and roll back to `saved`. An
encoding is a level. The sampler (`timer`, `sampling`, `baseline`, `history`)
awaits its statistics across whatever the queue does and enqueues an adaptation
when the counts of `media-quality-policy.ts` are reached.

### FileTransfers

`uploadBytes`, `downloadBytes`, `held`, `aborts`, `commits`, `sources` and
`offered` are the fields of the Session with those duties, `chrome` is each
download as its controller tracks it. Uploads, downloads and most cancellations
wait in `chain`; what acts beside it are the timers, Chrome, the sink, a revoked
capability and the cleanup, each of which walks the same tables in several awaits
(`cancelling`, `ending`). Chunks are abstracted: all bytes of an upload have
arrived or not.

### FileWire

The ordered file channel as two queues, `up` and `down`. At the Viewer:
`#pendingUpload`, `#sendUploadBytes` (`sender`), the promises its callers hold
(`promise`) and the chunks received. At Core: the chooser, the upload transfer,
`#streamDownload` (`stream`) with its forwarded chunk, which the Extension may
hold until the channel drains (`relay`) while other messages pass it.

### ClipboardTransfers

One write and one read transfer of a Session with their chunks, their timers on
both ends and the pastes and reads that the chain awaits. `asker`, `pasted`,
`landed` and `outcome` are histories. What a Viewer of an older generation has
queued stays in the chain until its turn.

### ViewerRequests

`notices`, `opens` and `requests` are the tables of Core with how each entry
stands; `viewer` is what the Viewer holds, `down` and `replies` what is under
way. The head of the chain may await a hook of the Embedder or the answer to a
notice (`confirming`); answers to notices go round the chain. The Extension
applies configurations (`media`) and answers late.

### ViewerClient

`client` is the object, one field per private field that decides something; a
handler is an operator from the object to the object, made of the operators for
the private methods it calls, so that the order in which those reset, arm and
reject is the order of the code. `told` is what Core last said on the reliable
channel. The network is whatever events may arrive, those of a replaced socket
or channel included.

### StandaloneDaemon

A Session is a handle, so that two Sessions of one ID differ. `records` and
`attaching` are the daemon's tables; `create`, `deleting`, `queue`, `ticket` and
`removing` are its suspended requests and callbacks; `life` is what Core does
with the handle; `granted` and `committed` are the two generation counters.

A Session may fail at any moment, before its record is written included, and an ID may
be given again as soon as the tables allow it. Two histories name the Sessions to
which that happened, so that the properties can say what holds of all others:
`unheard` are those that no callback waits for when they have cleaned up, because they
failed before the daemon knew them or their cleanup failed in `FAILED`, from which a
retry makes no transition; `hasty` are those created while a DELETE of their ID was
unanswered. `close()` may fail at Core, or later at the storage or the Extension
(`unclean`), from where `start()` is possible. Two DELETEs of one Session at the same
time are not modelled.

## Runs

| Run | Checks | Instance | Distinct states |
|---|---|---|---|
| `gateway` | `Consistent` (tickets spent by binds of this run only, peers and pairs inverse, timers, ceilings); `SingleUse`, per run of the Gateway; `ReadyTogether`; `PairsSettle` | 3 sockets, 2 addresses, 1 ticket, every table at a limit of 1 or 2, a restart, 1 second | 382,422 |
| `session` | `Consistent` (the client is current; who is served was greeted or inherited); `PublishesCurrent`; `ClosedStartsNothing`; `ImplementsLifecycle`; `SessionSettles` | 2 generations, 2 clients, both media faults | 149,880 |
| `registry_ownership` | `Consistent` (owners, reservations, created pages, popups, bound Sessions); `ExclusiveOwnership`; `NoForeignClose` | 2 identities, 5 pages in two families, lost CDP connections | 1,478,283 |
| `control` | `Consistent` (the capture is live and of the active window); `InputHitsWindowSeen`; `InputInOrder` | 2 children, 3 commands, 2 generations | 1,224,001 |
| `media` | `Consistent` (captures accounted for, suspension holds); `AnswersAreTrue`; `Settles` | 3 requests, 2 generations, 1 lost socket | 159,718 |
| `quality` | `Consistent` (what was reported is applied, counts are fresh); `AutomaticYields`; `Settles` | 3 levels, windows of 2 samples, 3 requests | 152,497 |
| `transfers` | `Consistent` (bytes accounted, quota); `SinkSettled`; `EverythingReleased` | 1 upload of 1 byte, 1 download of 2, a budget of 2, 2 generations | 1,109,686 |
| `wire` | `Consistent` (delivered means with the page); `ChunksFit`; `PromisesSettle` | 2 uploads (one dropped), 1 download, 2 files per behaviour, 2 chunks each | 594,195 |
| `clipboard` | `Consistent` (pastes are the asker's, reports are true); `TransfersReleased` | 1 write, 1 read, 2 chunks, 2 generations | 289,731 |
| `requests` | `Consistent` (prompts the Viewer accepts, resolved means applied); `AnswersReachTheirCaller`; `Settles` | 2 notices, 1 open, 1 navigation, 2 configurations, 2 of them per behaviour, 2 generations | 385,030 |
| `viewer` | `Consistent` (recovery is timed, quiet while fetching, requests die with the channel); `ServesAsTold`; `TerminalIsFinal`; `Settles` | 2 recoveries, 2 ICE restarts, 2 offers | 8,193 |
| `standalone` | `Consistent` (capacity, generation counters, nothing outlives shutdown); `RecordsCurrent`; `LiveListed`; `Settles` | 2 IDs, 2 Sessions, capacity 1, 1 ticket each | 245,293 |

In every module `Consistent` is the type invariant and the invariants that tie
its tables together, and `Settles` (`PairsSettle`, `SessionSettles`) the
conjunction of what must eventually happen; each conjunct has a name and a
comment of its own in the module.

These runs hold. Every property of theirs is also checked to fail when one definition
of the model is replaced by the form a plausible bug would give it; `mutants` in
`PROJECT.json` names them. 

The modules also state sentences of the documentation that the code does not keep.
They are in no `.cfg`; added to the one named here, TLC finds each violated, on the
path the third column describes:

| Property | Add it to | What the code does |
|---|---|---|
| `ReplayPrevented` | `gateway.cfg`, INVARIANT | a ticket that has bound binds again after `close` and `start` |
| `TakeoverNegotiates` | `session.cfg`, PROPERTY | a takeover decides by the state it read before its awaits |
| `ConnectedIsGreeted` | `session.cfg`, INVARIANT | a hello during `media.stop` connects the generation that replaces it |
| `ServedByHello` | `session.cfg`, PROPERTY | a late suspension reply connects a Session whose Viewer has left |
| `GenerationGrows` | `session.cfg` with `Concurrent = TRUE`, PROPERTY instead of `ImplementsLifecycle` | of two overlapping tickets the smaller generation commits last |
| `MediaServesCurrent` | `session.cfg`, INVARIANT | a capture of the old Viewer is started after `media.stop` |
| `NegotiationKept` | `session.cfg`, PROPERTY | a retry of the old generation ends the new negotiation |
| `ExpiryEndsNegotiation` | `session.cfg`, PROPERTY | after a takeover that failed nothing notices that the ticket expires |
| `RevokedInputHitsWindowSeen` | `control.cfg`, INVARIANT | input queued behind a revocation acts on the main window |
| `ForeignTabsSurvive` | `registry_ownership.cfg`, INVARIANT | a cleanup closes a popup another Session has adopted during an outage |
| `EndedEvicted` | `standalone.cfg`, INVARIANT | a Session that fails early is recorded after its end |
| `SuccessorsListed` | `standalone.cfg`, INVARIANT | the DELETE of an old Session removes the record of its successor |

**Bounds.** In the Gateway three sockets are both roles and a rival for one; one
ticket replayed by two of them, or kept across a restart, meets every check, and
limits of one or two put each table at its ceiling. A takeover of a Session
involves two generations; one that failed half way is repeated with the second;
two clients are the current one and one still closing. One queued control message
(`MaxChain`) may be a hello, a suspension or a resumption, beside the drain. In the registry two identities
meet in every check; the page `p` has a popup `c` that exists before any
attachment and one more, `d`, of the popup, so that ancestry has two steps and an
attachment can start in the middle of a family; `n` is the page that is created,
and opens `e`. Two children let a selection be overtaken by one of the other and
by the closing of either; three commands are a selection, an input and what
overtakes them. Three requests of the media runtime are a start, the stop or
replacement that overtakes it and its repetition; a second loss of the socket
begins where the first one did. In `transfers` the two files exceed the budget
together and fit alone. In `wire` two of three files take part in one behaviour:
an upload with another upload, or with a download; two chunks are the least that
can be in flight together. Windows of two samples, three and six in the code,
distinguish a counter that was reset from one that was not. The queues of the
other modules (`MaxChain`) admit an entry while one is being executed and the
drain behind it. Two attempts of a Viewer are one that fails and one more, two
ICE restarts likewise. Two Sessions of the daemon are one, and the one created while it ends:
under the ID whose DELETE still waits, or under the other.

**Deadlock** is not checked: a Session ends, a Gateway whose sockets are all used
has nothing to do, and the bounds end every other behaviour. **Symmetry** is used
on identities and windows, in runs without liveness properties, where nothing
distinguishes the members.

**Fairness.** Nothing is assumed of the verifier, the authorizer, the ICE
provider, the ticket issuer, the Viewer or the Embedder, with the one exception
below: none of them has to act. What is assumed:

- *Gateway*: timers fire, and a closing WebSocket closes (the library destroys a
  socket that does not answer).
- *Session*: timers fire (ticket expiry, retry, the client's connection timer),
  the control chain advances, requests to the Extension are answered or time out
  (`requestTimeoutMs`), sockets close, hooks return.
- *Media, quality*: both ends read their socket, acquisitions and sender changes
  end, successfully or not. Nothing makes a time-out happen.
- *Transfers*: the chain advances, and so does what is due beside it: storage,
  sink and Chrome settle what they were asked, the cleanup goes on, the timer of
  an upload fires. The last is needed: a reservation granted after the cleanup
  has passed is ended by its timer only.
- *Wire*: the channel delivers, files are read, Core and the storage answer; the
  Extension forwards a chunk or gives up.
- *Clipboard, requests*: the chain advances, hooks return, the timers of Core (and
  the Viewer's of a configuration) fire.
- *Viewer*: its timers fire, and the provider of reconnect credentials answers or
  fails: `getConnection` has no timer, and a provider that never settles leaves
  the client `RECONNECTING` for ever.
- *Standalone*: Core's `attachSession` and `close` settle, which is what
  `SessionSettles` shows of the latter; the queue of a record advances.

## Where the code departs from its documents

A departure that begins with the name of a property is one of the second table above;
the others were met while modelling. In parentheses the code, then the text it departs
from.

**Gateway.** `ReplayPrevented`: `close` clears the consumed tickets (`index.ts:265`) and
`start` may follow on the same object, while
`docs/design/06-signaling-and-ice.md:54` asks for replay protection as long as a ticket
lives; `SingleUse` is per run of the Gateway, which the code keeps. A relayed message
can precede `signal.ready` and a departure can be announced to a peer that was never
told `ready` (`index.ts:713`); the client treats either as a failure
(`signaling-client.ts:230`).

**Session.** What a retiring Viewer does during a takeover is admitted in every run.

- `TakeoverNegotiates`: the commit decides by the state read before the awaits
  (`session.ts:959`). After a departure in between its transition is illegal and throws
  when the generation is already assigned (`1003`; `docs/design/03-embedding-api.md:96`).
  `ImplementsLifecycle` says what holds all the same.
- `ConnectedIsGreeted`: a hello handled during the awaits makes the Session `CONNECTED`;
  the commit, which remembers `NEGOTIATING`, keeps it so with the new generation (`1000`).
  `ServedIsGreeted` says that this is the only way to be served without a hello.
- `MediaServesCurrent`: a capture that is ready between `media.stop` and its acknowledgement
  is started for the old generation (`1159`). `PublishesCurrent` says that at that moment
  the generation is still the current one: after the commit the capture is dropped.
- `NegotiationKept`: a signaling failure during the awaits arms the retry again; it fires
  for a generation that is not current any more and takes the new negotiation to `READY`
  (`1276`).
- `ServedByHello`: a `suspension_changed` that arrives after the Viewer left makes a
  `RECONNECTING` Session `CONNECTED` (`1312`; `docs/design/02-architecture.md:103`).
- `GenerationGrows`: the generation is compared before the issuer is awaited and assigned
  after (`934`), so that overlapping calls may take it back.
- `ExpiryEndsNegotiation`: when `stopMedia` times out, the takeover has cancelled the retry
  already (`957`, `980`) and the Session stays `NEGOTIATING` beyond its ticket
  (`docs/design/03-embedding-api.md:87`): the antecedent of `NegotiationSettles` therefore
  names a client or a retry.

Stated by no property: a retry armed while a hello is queued survives into `CONNECTED` (`1253`;
`docs/design/03-embedding-api.md:86`); a close during a takeover leaks the old client (`1003`, `2757`;
`docs/design/13-phase-3-lifecycle.md:30`); with the loopback socket gone,
`sendMediaPeerState` throws before the client is closed (`1227`, `1247`).

**Registry.** `ForeignTabsSurvive`: a popup opens while its opener's owner is disconnected,
another Session adopts it, and the owner's cleanup closes it (`cdp.ts:1743`;
`docs/design/05-extension-and-core.md:233`); `NoForeignClose` says that nothing else is
closed for another. The created page `n` in `Adoptable` would violate it too: a page in
creation is in no table, and an Embedder that adopts it loses it when that call fails.
The instance, and the theorems that need it, leave such an adoption out: it takes an
Embedder that guesses a target identity before the call that makes it has returned.

**Windows.** `RevokedInputHitsWindowSeen`: once the capability is revoked, input that was sent
before it hits the main window (`docs/design/04-control-protocol.md:396`);
`InputHitsWindowSeen` is about Viewers that may select windows. A revocation while
`RECONNECTING` leaves a child active (`session.ts:1031`;
`docs/design/03-embedding-api.md:771`). When a child closes while the Viewer is away, the
recovery fails the Session (`785`–`795`; `docs/design/03-embedding-api.md:778`).

**Media.** A capture of the old generation offers to the new Viewer
(`session.ts:1159`). A stop that times out leaves a negotiation without an offer.
After `peer_left` the acknowledgement of a stop does not wait for an abandoned
acquisition (`docs/design/03-embedding-api.md:721`). A `peer_ready` lost with the socket is not
repeated. `start_failed` and descriptions name no attempt, so that those of one
attempt are taken for another's; the hello of a departed Viewer passes for its
successor's when they share a generation. A failed Publisher whose restart never
returns is kept.

**Quality.** A legacy `media.set_quality` queued for a Publisher that stops is
never answered (`offscreen.ts:823`); `ConfigurationsAnswered` is about
configurations. A suspension and a resumption, both queued before an adaptation,
let a decision from before them apply.

**Transfers.** `Regrants = TRUE`, the Embedder grants `download` again while it is
being revoked, violates `SinkSettled` (`docs/design/03-embedding-api.md:848`).

**Wire.** A failed write, an expiry or a refusal with several chunks in flight
answers each with a failed result, and the second fails the Viewer
(`docs/design/14-phase-4-browser-io.md:64`). So does a cancellation that crosses an
acceptance or a result. A stale chunk of a cancelled upload aborts another that is
active (`session.ts:2235`). Core's refusal clears the chooser without telling the
Viewer. The model's Viewer may fail (`failed`); what is checked is what it was told
before, and that its promises settle all the same.

**Clipboard.** A request still queued when a takeover cancels the transfers
(`session.ts:978`) can start one that outlives it, whose messages go to the next
Viewer (`docs/design/04-control-protocol.md:250`); it is the paste and the report that
`PastesAreOwn` and `ReportsAreTrue` keep apart. Time-outs of both ends that cross
fail the Viewer.

**Requests.** A notice asked for between `cancelAll` (`session.ts:976`) and the
change of generation (`992`) survives the takeover. The result of a navigation goes
to the successor of the Viewer that asked (`2629`). A capability is not checked
again after the hook of a local open (`1568`–`1620`); the answer to one that expired
is an error without an identifier, which rejects everything that is pending at the
Viewer. The drain of a takeover may wait for a prompt, 60 seconds at most.

**Viewer.** `ConnectAfterClose = TRUE` violates `TerminalIsFinal`: `connect()` does
not look whether the client was closed. A suspension, resumption or quality request
that replaces another rejects it. An `error` event of the signaling socket, or a
departed peer, tears a healthy connection down, while its `close` does not. A
quality request of the older protocol right after `connect` fails the client
(`session.ts:2560`; `docs/design/03-embedding-api.md:802`).

**Standalone.** `EndedEvicted`: when a Session fails before `attachSession` returns
it, the terminal callback has no record to remove, and `createSession` then adds one for
a dead Session (`server.ts:410`; `docs/design/12-standalone-api.md:239`); the record of a
FAILED Session whose cleanup had to be repeated stays as well, until a DELETE.
`SuccessorsListed`: a DELETE that has awaited the ticket queue and `close` removes
whatever record its ID has (`server.ts:306`; `docs/design/12-standalone-api.md:240`).
`RecordsCurrent` and `LiveListed` say that these are the only ways. The counter advances
only when `createViewerTicket` succeeds (`server.ts:490`), so that after one that threw it
is one behind (`GenerationsAgree` allows for it).

## Theorems

TLAPS proves, from the constants' assumptions and those named here:

- **Gateway.** `TypeCorrect`, `PeersAlwaysMatchPairs`, `TimerAlwaysIffWaiting`,
  `ReadyAlwaysTogether` and `TicketsBindOnce`. The inductive invariant is
  `GatewayInv`: types, the two tables are inverse, a timer is armed iff a peer is
  missing, and `BindsExclusive`, without which the step from a verified ticket
  cannot be proved: a socket whose bind is suspended is no peer yet, and has one
  task. That a ticket binds at most once in each run of the Gateway needs `TicketInv`:
  a ticket that has bound in the present run is in `consumed`, or has expired. A
  verification that was suspended when the Gateway closed ends without a bind, its
  socket being gone. `CeilingsAlwaysHold` and `TicketsSpentByBinding` need the tables
  to be finite, and that a connection is counted for its address exactly while it is
  in the table (`ConnectionsCounted`, `PairsCounted`, `TicketsCounted`);
  `GatewayConsistent` joins them all.
- **Session.** Nothing is assumed of what the retiring Viewer, the signaling or the
  media runtime does during a takeover. `TypeCorrect`; `SignalingAlwaysCurrent`,
  inductive by itself; `ClosedSessionStartsNothing`, with `RetryOffWhenClosed`.
  `ServedAlwaysGreeted` stands on `GreetingKnown`: a reply of the media runtime, which
  makes the Session CONNECTED or SUSPENDED without naming a generation, is under way
  only for one that was greeted or inherited its Viewer. `PublisherAlwaysCurrent`
  follows from `SignalingCurrent`: the client whose capture is ready is compared with
  `#signaling`, which is of the current generation. `SessionConsistent` joins types,
  client and greeting. Two theorems are about an Embedder that awaits each ticket
  (`Concurrent = FALSE`), without which they are false (`GenerationGrows`):
  `GenerationNeverTakenBack`, with `OneFreshCall` (one call at a time, and before its
  commit its generation is ahead of the Session's), and `LifecycleImplemented`, the
  refinement, which adds `RetiringIssued` (what is retired was issued). Their steps are
  sorted into those that keep the generation (`LegalStep`) and the commits.
- **Registry.** Without assumptions, lost connections included: `TypeCorrect`;
  `ReservationsAlwaysReturned`, with the observation that two calls under way never
  want the same page; `OwnersAlwaysAccounted`; `PopupsAlwaysKnown`, from `Roster` (who
  is pending, and that only pages that existed are owned), `Lineage` (what a stray
  opens is a stray) and `PopupsHeld`: what a held page has opened is held with it,
  unless it is a stray that its holder has missed (`Missed`), being disconnected. The
  set of descendants is a least fixed point, and its lemmas need no induction
  (`ClosedHasItsDescendants`). `PagesOwnedOnce` stands on these: a claim excludes what
  others hold and know, and a new popup has one opener, which has one holder.
  `CreatedAlwaysKept`: a created page that is not gone is kept by an identity that is
  pending, open, or whose cleanup can be repeated (`CreatedHasKeeper`, `ClosedIsGone`).
  `NoPageClosedForAnother` uses that a cleanup condemns what its identity owns, and
  strays beside (`HeldCondemned`), and `CreatedApart`, that a page in creation is
  nobody else's and has opened nothing, for which it assumes `AdoptsKnownPages` (no
  adoption of a page in creation). `SessionsAlwaysBound` needs the same: the route to
  the Extension is registered by page, so two attachments may not have one root
  (`RootsApart`, `AdoptedApart`). `RegistryConsistent` joins the parts.
- **Viewer.** `ConsistentAlways`, `ServesAsToldAlways`, `TerminalIsFinalAlways`,
  for every number of attempts, restarts and offers, provided that `connect()` is
  not called after `disconnect()` (`ConnectAfterClose = FALSE`). The inductive
  invariant `Sound` has six parts: while credentials are fetched there is no
  transport (`Fetching`); nothing exists before `connect()`, and no recovery before
  the first greeting (`Fresh`); what an ended client still holds dispatches nothing
  (`Ended`); requests need an open channel, a channel and an armed restart their
  peer (`Layered`); each unsettled state has its timer (`Timed`); and the state that
  an ICE restart will come back to is the one Core last told on this channel
  (`Told`), without which `ServesAsTold` is not inductive. The lemmas follow the
  private methods: what `#fail`, `#requestReconnectCredentials`, `#handleFailure`
  and `#requestIceRestart` make of a live client is proved once, and the handlers
  cite it.
- **Standalone.** `GenerationsAlwaysAgree`, `RecordsAlwaysCurrent`, `LiveAlwaysListed`
  and `AlwaysConsistent`, from the assumptions on the constants only, whenever Sessions
  fail and IDs are given again. The invariant relates the stages of a handle, and that
  one which ends unannounced is in `unheard` (`Staged`); says that Core has one Session
  of an ID, beside which no DELETE of an earlier one is under way but one that it was
  created in haste to follow (`Unshared`); and that records are of Sessions that Core
  has, or that ended unannounced (`Backed`). `Unshared` is what the removal by ID needs:
  the record a DELETE removes is its own, or of a Session in `hasty`. Capacity is counted
  by an injection of the other Sessions into the two tables.
- **Windows.** `InputAlwaysInOrder`, `InputAlwaysHitsWindowSeen` and
  `CaptureAlwaysConsistent`, without assumptions. The proof first sorts the steps by
  what they make of the chain (`QueueSteps`) and of the windows (`WindowSteps`).
  `Ordered`: what waits came later than the last hit, and in order. `Seen`: a view of
  the current revision shows the active window, no selection being under way; the
  views in the chain count as well, unless their Viewer was replaced. For the
  capture, `Flushes` (a takeover waits for one flush), `Follows` (whose capture it
  is at each step of a selection and of a takeover) and `Awaited` with `Recovers`:
  what has died, or lost its window, either has its signal under way or a recovery
  in the chain.
- **Media runtime.** `MediaConsistent` and `AnswersAlwaysTrue`, without assumptions
  but those on the constants: Core has a first generation, and no Publisher is the
  value that says there is none. `CaptureInv` holds requests to their order
  (`Numbered`: what is under way is newer than all that the Extension has read),
  attempts, captures and replacements to their own identifiers (`Apart`), so that a
  capture which ends is neither the Publisher's nor a replacement's, and the
  queue of a Publisher to the replacement that has begun (`Turns`). That an
  acknowledgement is true is a statement about the past which requests under way
  could undo; `AnswerInv` therefore says of every stop that is being carried out, is
  answered or is resolved that nothing older publishes or is being started
  (`Retired`), and of every replacement the same of the capture shown (`Shown`).
  `Kinds` keeps an answer from resolving a request of the other kind.
- **Quality.** `QualityConsistent` and `AutomaticAlwaysYields`, for any limits within
  which automatic mode begins (`Balanced`, which the code limits as well). They are
  stated of an instance `Q` in `MediaRuntime_proofs`, with the assumption of
  `QualityControl` as their hypothesis.
  `Agreed` says at which step of the operation at the head of the queue the sender
  may differ from what Core was told, and that its rollback restores just that;
  `Yields`, that neither quality nor suspension changes between the second look of
  an adaptation and its call of `setParameters`; `Counts`, that the sample under
  way has begun since the counters were reset.
- **Viewer requests.** `AnswersAlwaysReachTheirCaller` and `RequestsConsistent`, from
  the assumptions on the constants, among them that the identifiers of
  configurations are not those of notices, opened pages and navigations, as the
  messages they travel in are of different types. What the properties say of a
  message holds when the Viewer receives it; the invariants therefore say of every
  message under way what it will find. One lemma (`AlwaysMoved`) sorts the steps: a
  step takes the first message (`Taken`), loses the channel (`Cut`) or sends what is
  right at that moment (`Sent`, `Fit`). The rest is why it stays right: `Alone`, what
  is under way is for the Viewer of this generation; `DownTrue`, a success is of a
  configuration that was asked for here and has been applied; `Granting`, what needs
  the capability follows the acceptance that grants it, and nothing ahead of it takes
  that away; `Opening`, a page is asked about once; `Showing`, what the Viewer will
  show after each message under way is pending at Core, so that it stays within the
  limit, and what was answered is not shown again. `Queueing` says that a takeover or
  an opened page is in the chain once, while it is queued.

- **Files on the wire.** `UploadsReachThePage` and `ChunksArriveInOrder`, for any
  files and chunk counts, stated of an instance `W` in `ViewerClient_proofs` with the
  assumption of `FileWire` as their hypothesis. `PageInv` follows an upload through
  `#controlChain`: it is committed at its last chunk, and what the page has was
  written to its end; `ToldInv` says the same of every result under way. A download
  is offered once (`OfferInv`), and while the Viewer waits for it the chunks under way
  are, in order and without a gap, those between what it has and what Core has sent
  (`ChunkInv`); the one that waits in the Extension is the last of them and goes out
  before Core sends the next (`StreamInv`).

- **Clipboard.** `ClipboardTruth`, for any operations, chunks and Viewers, stated of an
  instance `C` in `WindowControl_proofs`. A success that is under way must stay true
  until the Viewer reads it: `down` holds only messages of `Truths(landed)`, a set that
  grows with the page. `ChainWellFormed` says that a head which awaits a paste or a read
  is the message that asked for it, so that the paste that ends is the one that was
  started; `OneDrain`, that a takeover has one drain in the chain and a generation left.

- **Files at Core.** `FilesAccounted`, for any uploads, downloads, sizes and limits, and
  `SinkSettles`, while the Embedder does not grant download again during its revocation
  (`Regrants = FALSE`), stated of an instance `FT` in `CoreSession_proofs`. A sum over a
  set is the number of its units (`SumOf`), so that what one file adds or returns is a
  lemma about finite sets (`SumAdd`, `SumRemove`). `FileInv` says which upload is where:
  an offer in the chain is of an upload that has reserved nothing yet and is offered
  once (`OffersInv`), and the transfer is the one active upload; without these, bytes
  could be counted or returned twice. A download has bytes while Chrome has it on disk
  or the head of the chain looks at its file (`DiskInv`); a takeover has one entry in
  the chain and a generation left (`TakeoverInv`). Most steps begin no upload and
  reserve nothing, and follow from one lemma (`Steady`). `SinkInv` distinguishes a
  Session without a sink, where nothing is held or committed, from one with a sink,
  where nothing is offered to the Viewer: a cancellation of all downloads has then
  awaited the commits of its time, and none begins beside it (`CommitsAwait`).

Only model-checked: liveness, which is out of the prover's reach.

## Not modelled

- Data without order: schemas and codecs, media limits, window catalogs, Chrome's
  cursor, metrics and diagnostics, configuration and command lines. They are
  functions that a unit test reaches.
- The Viewer element: DOM events and rendering over the headless client.
- The Extension's service worker: it starts the offscreen document and forwards.
- Over CDP: navigation interception, dialogs, input dispatch. The order in which
  commands reach `cdp.ts` is `WindowControl`; what Chrome makes of them is Chrome's.
- Chrome's WebRTC: an offer, an answer, a channel that opens or closes are events
  that may arrive; ICE itself, codecs and congestion control are not modelled, nor
  the ICE restarts of a Publisher.
- The Standalone daemon's HTTP parsing and the files of `session-storage.ts`.
- Target resolution and the authentication of runtimes in the loopback server.
- Build, release and deployment files.

The three ends (Core, Extension, Viewer) are composed pairwise where they exchange
messages: Core and Extension in `MediaRuntime`, Core and Viewer in `FileWire`,
`ClipboardTransfers` and `ViewerRequests`. Pairing through the Gateway is not
composed with Core's and the Viewer's clients: each of the three modules admits
every order of the events that the others can cause.
