-------------------------- MODULE ClipboardTransfers --------------------------
(* Clipboard operations between a Viewer (remote-tab-client.ts) and Core        *)
(* (session.ts) over the ordered file channel.  A write offers bytes that Core  *)
(* pastes into the page; a read asks for the bytes of the remote clipboard.     *)
(* What a Viewer sends waits in #controlChain, whose head runs to its next      *)
(* await; timers, takeovers, a revocation and the close act beside it.          *)
(* An operation is a model value of one item and `Chunks` chunks.               *)
EXTENDS Naturals, Sequences

CONSTANTS
    Writes, Reads,   \* the operations the Viewers may ask for
    Chunks,          \* chunks of one operation
    MaxChain,        \* bound: what a Viewer sends while the chain is shorter
    MaxGeneration,   \* bound: Viewer generations
    None

ASSUME ClipboardAssumption ==
    /\ {Chunks, MaxChain, MaxGeneration} \subseteq Nat \ {0}
    /\ Writes \cap Reads = {} /\ None \notin Writes \cup Reads \cup Nat

VARIABLES
    generation,  \* #viewerGeneration
    takeover,    \* progress of createViewerTicket around the drain of the chain
    linked,      \* a Viewer of this generation holds the channels
    granted,     \* the clipboard capabilities
    closed,      \* #closed
    chain,       \* #controlChain
    step,        \* what its head awaits
    writing,     \* #clipboardWriteTransfer: the operation and the bytes it has
    reading,     \* #clipboardReadTransfer
    stream,      \* runs of #streamClipboardRead: the chunk whose delivery is awaited
    viewer,      \* #pendingClipboardWrite and #pendingClipboardRead of that Viewer
    sender,      \* its runs of #sendClipboardWriteBytes: the chunk being read
    down,        \* Core's messages under way on the channel
    asker,       \* history: the generation that asked for each operation
    pasted,      \* history: the generation each paste was started for
    landed,      \* history: the writes that are in the page
    outcome      \* history: what the caller was told

coreVars == <<writing, reading, stream>>
viewerVars == <<viewer, sender>>
sessionVars == <<generation, takeover, linked, granted, closed>>
chainVars == <<chain, step>>
historyVars == <<asker, pasted, landed, outcome>>
vars == <<sessionVars, chainVars, coreVars, viewerVars, down, historyVars>>

Ops == Writes \cup Reads
NoWrite == [id |-> None, got |-> 0, timer |-> FALSE]
NoRead == [id |-> None, generation |-> 0, accepted |-> FALSE]
NoViewer == [write |-> None, accepted |-> FALSE, read |-> None, offered |-> FALSE, got |-> 0]

Upward == [type : {"offer", "chunk", "complete", "request", "accept", "result"},
           id : Ops, n : 0..Chunks]
Marks == [type : {"select", "drain"}, id : {None}, n : {0}]
Downward == [type : {"writeAccept", "writeResult", "readOffer", "readChunk",
                     "readComplete", "readResult"},
             id : Ops, n : 0..Chunks]

TypeOK ==
    /\ generation \in 1..MaxGeneration
    /\ takeover \in {"no", "queued", "drained"}
    /\ {linked, granted, closed} \subseteq BOOLEAN
    /\ chain \in Seq(Upward \cup Marks) /\ step \in {"start", "paste", "read"}
    /\ writing \in [id : Writes \cup {None}, got : 0..Chunks, timer : BOOLEAN]
    /\ reading \in [id : Reads \cup {None}, generation : 0..MaxGeneration, accepted : BOOLEAN]
    /\ stream \in [Reads -> 0..Chunks]
    /\ viewer \in [write : Writes \cup {None}, accepted : BOOLEAN,
                   read : Reads \cup {None}, offered : BOOLEAN, got : 0..Chunks]
    /\ sender \in [Writes -> 0..Chunks]
    /\ down \in Seq(Downward)
    /\ asker \in [Ops -> 0..MaxGeneration]
    /\ pasted \in [Writes -> 0..MaxGeneration] /\ landed \in SUBSET Writes
    /\ outcome \in [Ops -> {"none", "done", "failed"}]

Init ==
    /\ generation = 1 /\ takeover = "no" /\ linked = TRUE /\ granted = TRUE /\ closed = FALSE
    /\ chain = <<>> /\ step = "start"
    /\ writing = NoWrite /\ reading = NoRead /\ stream = [r \in Reads |-> 0]
    /\ viewer = NoViewer /\ sender = [w \in Writes |-> 0]
    /\ down = <<>>
    /\ asker = [o \in Ops |-> 0] /\ pasted = [w \in Writes |-> 0] /\ landed = {}
    /\ outcome = [o \in Ops |-> "none"]

-----------------------------------------------------------------------------
(* Messages.  Core's reach a Viewer only while one is connected.                *)

Message(type, id, n) == [type |-> type, id |-> id, n |-> n]
Send(ms) == down' = IF linked /\ ~closed THEN down \o ms ELSE down
Quiet == UNCHANGED down
Failure(type, id) == Message(type, id, 0)

At(s) == chain # <<>> /\ step = s /\ ~closed
Head1 == Head(chain)
Pop == chain' = Tail(chain) /\ step' = "start"
Await(s) == step' = s /\ UNCHANGED chain

(* What #cancelClipboardWrite and #cancelClipboardRead tell the Viewer. *)
WriteCancelled == IF writing.id = None THEN <<>> ELSE <<Failure("writeResult", writing.id)>>
ReadCancelled == IF reading.id = None THEN <<>> ELSE <<Failure("readResult", reading.id)>>

(* #handleControl and #requireAnyClipboardCapability, at the head of the chain *)
MayServe(m) == asker[m.id] = generation /\ linked /\ granted

-----------------------------------------------------------------------------
(* The Viewer.                                                                  *)

Room == Len(chain) < MaxChain
Up(ms) == chain' = chain \o ms /\ UNCHANGED step
Told(o, what) == outcome' = [outcome EXCEPT ![o] = what]

(* writeRemoteClipboard() *)
StartWrite(w) ==
    /\ linked /\ Room /\ viewer.write = None /\ asker[w] = 0
    /\ viewer' = [viewer EXCEPT !.write = w, !.accepted = FALSE]
    /\ asker' = [asker EXCEPT ![w] = generation]
    /\ Up(<<Message("offer", w, 0)>>)
    /\ UNCHANGED <<sessionVars, coreVars, sender, down, pasted, landed, outcome>>

(* readRemoteClipboard() *)
StartRead(r) ==
    /\ linked /\ Room /\ viewer.read = None /\ asker[r] = 0
    /\ viewer' = [viewer EXCEPT !.read = r, !.offered = FALSE, !.got = 0]
    /\ asker' = [asker EXCEPT ![r] = generation]
    /\ Up(<<Message("request", r, 0)>>)
    /\ UNCHANGED <<sessionVars, coreVars, sender, down, pasted, landed, outcome>>

(* One turn of #sendClipboardWriteBytes: the chunk was read and the channel has *)
(* drained.  The operation is looked at again only after the chunk is sent.     *)
SenderTurn(w) ==
    /\ linked /\ Room /\ sender[w] > 0
    /\ LET last == sender[w] = Chunks
           chunk == Message("chunk", w, sender[w]) IN
       /\ Up(IF last /\ viewer.write = w THEN <<chunk, Message("complete", w, 0)>> ELSE <<chunk>>)
       /\ sender' = [sender EXCEPT ![w] = IF last \/ viewer.write # w THEN 0 ELSE @ + 1]
    /\ UNCHANGED <<sessionVars, coreVars, viewer, down, historyVars>>

(* The clipboard timer of either operation *)
ViewerWriteTimeout ==
    /\ viewer.write # None
    /\ Told(viewer.write, "failed")
    /\ viewer' = [viewer EXCEPT !.write = None]
    /\ UNCHANGED <<sessionVars, chainVars, coreVars, sender, down, asker, pasted, landed>>

(* #failClipboardRead; Core hears of it once the operation has its transfer. *)
FailRead(known) ==
    /\ Told(viewer.read, "failed")
    /\ viewer' = [viewer EXCEPT !.read = None]
    /\ IF known THEN Up(<<Message("result", viewer.read, 0)>>) ELSE UNCHANGED chainVars

ViewerReadTimeout ==
    /\ viewer.read # None
    /\ FailRead(viewer.offered)
    /\ UNCHANGED <<sessionVars, coreVars, sender, down, asker, pasted, landed>>

(* The channels are gone: every pending operation is rejected, every run ends. *)
Unlink ==
    /\ linked' = FALSE /\ down' = <<>> /\ viewer' = NoViewer
    /\ sender' = [w \in Writes |-> 0]
    /\ outcome' = [o \in Ops |-> IF o \in {viewer.write, viewer.read} THEN "failed" ELSE outcome[o]]

(* A message that matches nothing pending fails the Viewer, which closes. *)
ViewerFails == Unlink /\ UNCHANGED <<generation, takeover, granted, closed, chainVars>>

Matches(m) ==
    CASE m.type = "writeAccept" -> viewer.write = m.id /\ ~viewer.accepted
      [] m.type = "writeResult" -> viewer.write = m.id
      [] m.type = "readOffer" -> viewer.read = m.id /\ ~viewer.offered
      [] m.type = "readComplete" -> viewer.read = m.id /\ viewer.offered
      [] m.type = "readResult" -> viewer.read = m.id

Delivered(m) == down # <<>> /\ Head(down) = m
Taken == down' = Tail(down)

(* #handleFileMessage for each type *)
WriteAccepted(m) ==
    /\ viewer' = [viewer EXCEPT !.accepted = TRUE]
    /\ sender' = [sender EXCEPT ![m.id] = 1]
    /\ UNCHANGED <<chainVars, outcome>>

WriteResult(m) ==
    /\ viewer' = [viewer EXCEPT !.write = None]
    /\ Told(m.id, IF m.n = 1 THEN "done" ELSE "failed")
    /\ UNCHANGED <<chainVars, sender>>

ReadOffer(m) ==
    /\ viewer' = [viewer EXCEPT !.offered = TRUE]
    /\ Up(<<Message("accept", m.id, 0)>>)
    /\ UNCHANGED <<sender, outcome>>

ReadChunk(m) ==
    /\ IF viewer.read = m.id /\ viewer.offered /\ m.n = viewer.got + 1
       THEN viewer' = [viewer EXCEPT !.got = @ + 1] /\ UNCHANGED <<chainVars, outcome>>
       ELSE IF viewer.read # None THEN FailRead(TRUE)
       ELSE UNCHANGED <<viewer, chainVars, outcome>>
    /\ UNCHANGED sender

ReadComplete(m) ==
    /\ IF viewer.got = Chunks
       THEN /\ Told(m.id, "done")
            /\ viewer' = [viewer EXCEPT !.read = None]
            /\ Up(<<Message("result", m.id, 1)>>)
       ELSE FailRead(TRUE)
    /\ UNCHANGED sender

ReadResult(m) ==
    /\ viewer' = [viewer EXCEPT !.read = None]
    /\ Told(m.id, "failed")
    /\ UNCHANGED <<chainVars, sender>>

ViewerReceives(m) ==
    /\ Delivered(m)
    /\ \/ /\ m.type = "readChunk" /\ ReadChunk(m)
          /\ Taken /\ UNCHANGED sessionVars
       \/ /\ m.type # "readChunk" /\ ~Matches(m)
          /\ ViewerFails
       \/ /\ m.type # "readChunk" /\ Matches(m)
          /\ CASE m.type = "writeAccept" -> WriteAccepted(m)
               [] m.type = "writeResult" -> WriteResult(m)
               [] m.type = "readOffer" -> ReadOffer(m)
               [] m.type = "readComplete" -> ReadComplete(m)
               [] m.type = "readResult" -> ReadResult(m)
          /\ Taken /\ UNCHANGED sessionVars
    /\ UNCHANGED <<coreVars, asker, pasted, landed>>

-----------------------------------------------------------------------------
(* Core, at the head of its chain.                                              *)

HeadIs(type) == At("start") /\ Head1.type = type

(* Stale generation, no Viewer or no capability: an error, and nothing else. *)
HeadRefused ==
    /\ At("start") /\ Head1.id # None /\ ~MayServe(Head1)
    /\ Pop
    /\ UNCHANGED <<sessionVars, coreVars, viewerVars, down, historyVars>>

(* clipboard.write.offer replaces the write before it. *)
WriteOffered ==
    /\ HeadIs("offer") /\ MayServe(Head1)
    /\ writing' = [id |-> Head1.id, got |-> 0, timer |-> TRUE]
    /\ Send(Append(WriteCancelled, Message("writeAccept", Head1.id, 0)))
    /\ Pop
    /\ UNCHANGED <<sessionVars, reading, stream, viewerVars, historyVars>>

(* Mutant: the timer is cleared for a chunk and not armed again. *)
WriteChunkUntimed ==
    /\ HeadIs("chunk") /\ MayServe(Head1)
    /\ writing' = IF writing.id = Head1.id /\ Head1.n = writing.got + 1
                  THEN [writing EXCEPT !.got = @ + 1, !.timer = FALSE] ELSE writing
    /\ Pop
    /\ UNCHANGED <<sessionVars, reading, stream, viewerVars, down, historyVars>>

(* clipboard.write.chunk: only the next one of the current write is taken. *)
WriteChunk ==
    /\ HeadIs("chunk") /\ MayServe(Head1)
    /\ writing' = IF writing.id = Head1.id /\ Head1.n = writing.got + 1
                  THEN [writing EXCEPT !.got = @ + 1, !.timer = TRUE] ELSE writing
    /\ Pop
    /\ UNCHANGED <<sessionVars, reading, stream, viewerVars, down, historyVars>>

WriteUnknown ==
    /\ HeadIs("complete") /\ MayServe(Head1) /\ writing.id # Head1.id
    /\ Pop
    /\ UNCHANGED <<sessionVars, coreVars, viewerVars, down, historyVars>>

(* The paste waits for the clipboard of the browser, which Sessions share.  The *)
(* chunks of this client precede its complete on an ordered channel.            *)
PasteStarts ==
    /\ HeadIs("complete") /\ MayServe(Head1) /\ writing.id = Head1.id /\ writing.got = Chunks
    /\ writing' = [writing EXCEPT !.timer = FALSE]
    /\ pasted' = [pasted EXCEPT ![Head1.id] = generation]
    /\ Await("paste")
    /\ UNCHANGED <<sessionVars, reading, stream, viewerVars, down, asker, landed, outcome>>

(* Mutant: the answer does not wait for what the paste comes to. *)
PasteEndsUnheard(ok) ==
    /\ At("paste")
    /\ landed' = IF ok THEN landed \cup {Head1.id} ELSE landed
    /\ IF writing.id = Head1.id
       THEN /\ writing' = NoWrite
            /\ Send(<<Message("writeResult", Head1.id, 1)>>)
       ELSE UNCHANGED <<writing, down>>
    /\ Pop
    /\ UNCHANGED <<sessionVars, reading, stream, viewerVars, asker, pasted, outcome>>

(* It took place or failed; a write cancelled meanwhile was answered already. *)
PasteEnds(ok) ==
    /\ At("paste")
    /\ landed' = IF ok THEN landed \cup {Head1.id} ELSE landed
    /\ IF writing.id = Head1.id
       THEN /\ writing' = NoWrite
            /\ Send(<<Message("writeResult", Head1.id, IF ok THEN 1 ELSE 0)>>)
       ELSE UNCHANGED <<writing, down>>
    /\ Pop
    /\ UNCHANGED <<sessionVars, reading, stream, viewerVars, asker, pasted, outcome>>

(* clipboard.read.request replaces the read before it and reads the clipboard. *)
ReadRequested ==
    /\ HeadIs("request") /\ MayServe(Head1)
    /\ reading' = NoRead
    /\ Send(ReadCancelled)
    /\ Await("read")
    /\ UNCHANGED <<sessionVars, writing, stream, viewerVars, historyVars>>

ReadObtained ==
    /\ At("read")
    /\ reading' = [id |-> Head1.id, generation |-> generation, accepted |-> FALSE]
    /\ Send(<<Message("readOffer", Head1.id, 0)>>)
    /\ Pop
    /\ UNCHANGED <<sessionVars, writing, stream, viewerVars, historyVars>>

(* Chrome refuses, or nothing permitted is on the clipboard. *)
ReadUnobtained ==
    /\ At("read")
    /\ Send(<<Failure("readResult", Head1.id)>>)
    /\ Pop
    /\ UNCHANGED <<sessionVars, coreVars, viewerVars, historyVars>>

ReadActive == reading.id = Head1.id /\ reading.generation = generation

(* clipboard.read.accept starts the stream with its first chunk. *)
ReadAccepted ==
    /\ HeadIs("accept") /\ MayServe(Head1)
    /\ IF ReadActive /\ ~reading.accepted
       THEN /\ reading' = [reading EXCEPT !.accepted = TRUE]
            /\ stream' = [stream EXCEPT ![Head1.id] = 1]
            /\ Send(<<Message("readChunk", Head1.id, 1)>>)
       ELSE UNCHANGED <<reading, stream, down>>
    /\ Pop
    /\ UNCHANGED <<sessionVars, writing, viewerVars, historyVars>>

(* clipboard.read.result ends the read. *)
ReadFinished ==
    /\ HeadIs("result") /\ MayServe(Head1)
    /\ reading' = IF ReadActive THEN NoRead ELSE reading
    /\ Pop
    /\ UNCHANGED <<sessionVars, writing, stream, viewerVars, down, historyVars>>

(* #selectWindow, once it runs, cancels both transfers. *)
WindowSelected ==
    /\ HeadIs("select")
    /\ writing' = NoWrite /\ reading' = NoRead
    /\ Send(WriteCancelled \o ReadCancelled)
    /\ Pop
    /\ UNCHANGED <<sessionVars, stream, viewerVars, historyVars>>

-----------------------------------------------------------------------------
(* Beside the chain.                                                            *)

(* One turn of #streamClipboardRead: Extension acknowledged the chunk. *)
StreamTurn(r) ==
    /\ linked /\ ~closed /\ stream[r] > 0 /\ asker[r] = generation
    /\ LET last == stream[r] = Chunks IN
       /\ Send(IF reading.id # r THEN <<>>
               ELSE IF last THEN <<Message("readComplete", r, 0)>>
               ELSE <<Message("readChunk", r, stream[r] + 1)>>)
       /\ stream' = [stream EXCEPT ![r] = IF last \/ reading.id # r THEN 0 ELSE @ + 1]
    /\ UNCHANGED <<sessionVars, chainVars, writing, reading, viewerVars, historyVars>>

(* The chunk was not delivered. *)
StreamFails(r) ==
    /\ stream[r] > 0
    /\ stream' = [stream EXCEPT ![r] = 0]
    /\ IF reading.id = r
       THEN reading' = NoRead /\ Send(<<Failure("readResult", r)>>)
       ELSE UNCHANGED <<reading, down>>
    /\ UNCHANGED <<sessionVars, chainVars, writing, viewerVars, historyVars>>

CoreWriteTimeout ==
    /\ writing.id # None /\ writing.timer
    /\ writing' = NoWrite
    /\ Send(WriteCancelled)
    /\ UNCHANGED <<sessionVars, chainVars, reading, stream, viewerVars, historyVars>>

CoreReadTimeout ==
    /\ reading.id # None
    /\ reading' = NoRead
    /\ Send(ReadCancelled)
    /\ UNCHANGED <<sessionVars, chainVars, writing, stream, viewerVars, historyVars>>

(* A window selection enters the chain. *)
SelectWindow ==
    /\ linked /\ Room /\ ~closed
    /\ \A i \in DOMAIN chain : chain[i].type # "select"
    /\ Up(<<[type |-> "select", id |-> None, n |-> 0]>>)
    /\ UNCHANGED <<sessionVars, coreVars, viewerVars, down, historyVars>>

(* updateCapabilities without clipboardText and clipboardImage *)
RevokeClipboard ==
    /\ granted /\ ~closed
    /\ granted' = FALSE
    /\ writing' = NoWrite /\ reading' = NoRead
    /\ Send(WriteCancelled \o ReadCancelled)
    /\ UNCHANGED <<generation, takeover, linked, closed, chainVars, stream, viewerVars,
                   historyVars>>

(* createViewerTicket cancels the transfers, then waits for the chain. *)
TakeoverStarts ==
    /\ takeover = "no" /\ generation < MaxGeneration /\ ~closed
    /\ takeover' = "queued"
    /\ writing' = NoWrite /\ reading' = NoRead
    /\ Up(<<[type |-> "drain", id |-> None, n |-> 0]>>)
    /\ UNCHANGED <<generation, linked, granted, closed, stream, viewerVars, down,
                   historyVars>>

Drained ==
    /\ HeadIs("drain")
    /\ takeover' = "drained"
    /\ Pop
    /\ UNCHANGED <<generation, linked, granted, closed, coreVars, viewerVars, down,
                   historyVars>>

(* The media has stopped and the generation changes. *)
ViewerReplaced ==
    /\ takeover = "drained" /\ ~closed
    /\ generation' = generation + 1 /\ takeover' = "no"
    /\ Unlink
    /\ UNCHANGED <<granted, closed, chainVars, coreVars, asker, pasted, landed>>

(* The next Viewer says hello; nothing is acknowledged to the old one any more. *)
ViewerConnects ==
    /\ ~linked /\ ~closed /\ takeover = "no"
    /\ \A o \in Ops : asker[o] < generation
    /\ \A r \in Reads : stream[r] = 0
    /\ linked' = TRUE
    /\ UNCHANGED <<generation, takeover, granted, closed, chainVars, coreVars, viewerVars,
                   down, historyVars>>

ViewerLeaves ==
    /\ linked
    /\ Unlink
    /\ UNCHANGED <<generation, takeover, granted, closed, chainVars, coreVars, asker, pasted, landed>>

(* #cleanup *)
Close ==
    /\ ~closed
    /\ closed' = TRUE
    /\ writing' = NoWrite /\ reading' = NoRead
    /\ Unlink
    /\ UNCHANGED <<generation, takeover, granted, chainVars, stream, asker, pasted, landed>>

-----------------------------------------------------------------------------
Chain ==
    \/ HeadRefused \/ WriteOffered \/ WriteChunk \/ WriteUnknown
    \/ PasteStarts \/ \E ok \in BOOLEAN : PasteEnds(ok)
    \/ ReadRequested \/ ReadObtained \/ ReadUnobtained \/ ReadAccepted \/ ReadFinished
    \/ WindowSelected \/ Drained

Next ==
    \/ \E w \in Writes : StartWrite(w) \/ SenderTurn(w)
    \/ \E r \in Reads : StartRead(r) \/ StreamTurn(r) \/ StreamFails(r)
    \/ ViewerWriteTimeout \/ ViewerReadTimeout
    \/ down # <<>> /\ ViewerReceives(Head(down))
    \/ Chain
    \/ CoreWriteTimeout \/ CoreReadTimeout
    \/ SelectWindow \/ RevokeClipboard \/ TakeoverStarts \/ ViewerReplaced
    \/ ViewerConnects \/ ViewerLeaves \/ Close

(* The chain goes on and Core's timers fire. *)
Fairness == WF_vars(Chain) /\ WF_vars(CoreWriteTimeout) /\ WF_vars(CoreReadTimeout)

Spec == Init /\ [][Next]_vars /\ Fairness

-----------------------------------------------------------------------------
(* A paste was asked for by the Viewer in charge when it starts: bytes left by  *)
(* a replaced Viewer are never pasted in the name of its successor.             *)
PastesAreOwn == \A w \in Writes : pasted[w] # 0 => pasted[w] = asker[w]

(* A caller told that its write succeeded was told the truth, whatever timed    *)
(* out, was replaced or was cancelled while the paste was under way.            *)
ReportsAreTrue == \A w \in Writes : outcome[w] = "done" => w \in landed

(* Core holds the bytes of a transfer for a bounded time, whoever leaves. *)
TransfersReleased ==
    /\ writing.id # None ~> writing.id = None
    /\ reading.id # None ~> reading.id = None

(* What is pasted and what is reported belong to the Viewer that asked.         *)
Consistent == TypeOK /\ PastesAreOwn /\ ReportsAreTrue
=============================================================================
