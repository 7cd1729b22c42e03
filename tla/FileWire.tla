------------------------------ MODULE FileWire ------------------------------
(***************************************************************************)
(* The files of one Viewer connection, seen from both ends of the ordered  *)
(* file channel: the uploads and downloads of the Viewer's client          *)
(* (remote-tab-client.ts), those of Core (session.ts), and the Extension   *)
(* between them (extension-loopback.ts, offscreen.ts), where a chunk of a  *)
(* download waits for the channel to drain while later messages pass it.   *)
(* What the files cost Core is FileTransfers; a chunk is one unit here.    *)
(***************************************************************************)
EXTENDS Integers, Sequences, FiniteSets

CONSTANTS
  Uploads,   \* uploads the user may make; each answers a chooser of its own
  Drops,     \* those that are dropped on the page and answer none
  Downloads, \* files Chrome has downloaded
  Chunks,    \* [file -> the number of its chunks]
  MaxFiles,  \* bound: files that take part in one behaviour
  None

ASSUME FileWireAssumption ==
  /\ IsFiniteSet(Uploads) /\ IsFiniteSet(Downloads) /\ Uploads \cap Downloads = {}
  /\ Drops \subseteq Uploads /\ Chunks \in [Uploads \cup Downloads -> Nat \ {0}] /\ MaxFiles \in Nat
  /\ None \notin Uploads \cup Downloads

VARIABLES
  shown,     \* #uploadRequests: the choosers the Viewer shows
  pending,   \* #pendingUpload
  accepted,  \* #pendingUpload.accepted
  sender,    \* #sendUploadBytes of each upload: the chunk it awaits to send
  promise,   \* how each upload and download of the Viewer stands
  received,  \* chunks of each download the Viewer holds
  failed,    \* the Viewer has torn its connection down
  opened,    \* the choosers the page has opened
  chooser,   \* #pendingFileChooser
  transfer,  \* #uploadTransfer
  written,   \* nextOffset of each upload, in chunks
  step,      \* what the head of #controlChain awaits, and for which upload
  owed,      \* expired uploads whose result is not sent yet
  page,      \* the uploads the page was given
  serving,   \* #downloadTransfers: each download of Core
  stream,    \* #streamDownload: what it awaits, and how many chunks were sent
  relay,     \* the Extension's handling of the chunk last sent
  up, down   \* the file channel, each way

uploadVars == <<shown, pending, accepted, sender>>
viewerVars == <<uploadVars, promise, received, failed>>
coreUploadVars == <<opened, chooser, transfer, written, step, owed, page>>
coreDownloadVars == <<serving, stream, relay>>
vars == <<viewerVars, coreUploadVars, coreDownloadVars, up, down>>

-----------------------------------------------------------------------------
Files == Uploads \cup Downloads
Off(u) == Chunks[u]
AnyChunk == UNION {0..Chunks[f] : f \in Files}
Idle == [at |-> "start", for |-> None, old |-> None]
Message == [type : {"request", "offer", "accept", "chunk", "complete", "cancel", "result"},
            id : Files, arg : AnyChunk \cup {1}]

TypeOK ==
  /\ shown \in SUBSET Uploads /\ pending \in Uploads \cup {None}
  /\ {accepted, failed} \subseteq BOOLEAN
  /\ sender \in [Uploads -> AnyChunk]
  /\ promise \in [Files -> {"none", "offered", "pending", "resolved", "rejected"}]
  /\ received \in [Downloads -> AnyChunk]
  /\ {chooser, transfer} \subseteq Uploads \cup {None}
  /\ written \in [Uploads -> AnyChunk] /\ {opened, owed, page} \subseteq SUBSET Uploads
  /\ step \in [at : {"start", "reserve", "write", "commit", "refuse", "abort", "replace"},
               for : Uploads \cup {None}, old : Uploads \cup {None}]
  /\ serving \in [Downloads -> {"none", "offered", "accepted", "gone"}]
  /\ stream \in [Downloads -> [at : {"off", "read", "forward"}, sent : AnyChunk]]
  /\ relay \in [Downloads -> {"idle", "waiting", "forwarded"}]
  /\ up \in Seq(Message) /\ down \in Seq(Message) 

Init ==
  /\ shown = {} /\ pending = None /\ accepted = FALSE
  /\ sender = [u \in Uploads |-> Off(u)]
  /\ promise = [f \in Files |-> "none"] /\ received = [d \in Downloads |-> 0]
  /\ failed = FALSE
  /\ chooser = None /\ transfer = None /\ written = [u \in Uploads |-> 0]
  /\ step = Idle /\ opened = {} /\ owed = {} /\ page = {}
  /\ serving = [d \in Downloads |-> "none"]
  /\ stream = [d \in Downloads |-> [at |-> "off", sent |-> 0]]
  /\ relay = [d \in Downloads |-> "idle"]
  /\ up = <<>> /\ down = <<>>

Begun == opened \cup {d \in Downloads : serving[d] # "none"} \cup {u \in Drops : promise[u] # "none"}
Room == Cardinality(Begun) < MaxFiles

-----------------------------------------------------------------------------
(* The Viewer.                                                             *)

Msg(type, id) == [type |-> type, id |-> id, arg |-> 0]
ToCore(m) == up' = Append(up, m)
Settle(F, how) == promise' = [f \in Files |-> IF f \in F THEN how ELSE promise[f]]

\* #rejectUpload
RejectUpload(u) == pending' = None /\ accepted' = FALSE /\ Settle({u}, "rejected")

\* #uploadFiles
UploadFiles(u) ==
  /\ ~failed /\ u \in shown \cup Drops /\ pending = None /\ promise[u] = "none"
  /\ u \in shown \/ Room
  /\ pending' = u /\ accepted' = FALSE /\ Settle({u}, "pending")
  /\ shown' = shown \ {u}
  /\ ToCore(Msg("offer", u))
  /\ UNCHANGED <<sender, received, failed, coreUploadVars, coreDownloadVars, down>>

\* cancelUpload, for a chooser that is shown or the upload that is pending
CancelUpload(u) ==
  /\ ~failed /\ u \in shown \cup {pending}
  /\ ToCore(Msg("cancel", u))
  /\ shown' = shown \ {u}
  /\ IF pending = u
       THEN RejectUpload(u)
       ELSE UNCHANGED <<pending, accepted, promise>>
  /\ UNCHANGED <<sender, received, failed, coreUploadVars, coreDownloadVars, down>>

RequestExpires(u) ==
  /\ u \in shown /\ shown' = shown \ {u}
  /\ UNCHANGED <<pending, accepted, sender, promise, received, failed,
                 coreUploadVars, coreDownloadVars, up, down>>

\* #sendUploadBytes after it has read a chunk and the channel has drained:
\* the chunk goes out, and only then is the upload compared with the pending one.
SendUploadBytes(u) ==
  /\ ~failed /\ sender[u] # Off(u)
  /\ LET chunk == [type |-> "chunk", id |-> u, arg |-> sender[u]]
         last == sender[u] + 1 = Chunks[u]
     IN /\ up' = up \o (IF last /\ pending = u THEN <<chunk, Msg("complete", u)>> ELSE <<chunk>>)
        /\ sender' = [sender EXCEPT ![u] = IF pending = u THEN @ + 1 ELSE Off(u)]
  /\ UNCHANGED <<shown, pending, accepted, promise, received, failed,
                 coreUploadVars, coreDownloadVars, down>>

\* The file cannot be read, or #waitForFileBackpressure gives up.
SendingFails(u) ==
  /\ ~failed /\ sender[u] # Off(u)
  /\ sender' = [sender EXCEPT ![u] = Off(u)]
  /\ IF pending = u
       THEN RejectUpload(u) /\ ToCore(Msg("cancel", u))
       ELSE UNCHANGED <<pending, accepted, promise, up>>
  /\ UNCHANGED <<shown, received, failed, coreUploadVars, coreDownloadVars, down>>

\* acceptDownload: the timer of the offer is cleared.
AcceptDownload(d) ==
  /\ ~failed /\ promise[d] = "offered"
  /\ Settle({d}, "pending") /\ ToCore(Msg("accept", d))
  /\ UNCHANGED <<uploadVars, received, failed, coreUploadVars, coreDownloadVars, down>>

\* cancelDownload, and the timer of an offer that was not accepted
CancelDownload(d) ==
  /\ ~failed /\ promise[d] \in {"offered", "pending"}
  /\ Settle({d}, "rejected") /\ ToCore(Msg("cancel", d))
  /\ UNCHANGED <<uploadVars, received, failed, coreUploadVars, coreDownloadVars, down>>

-----------------------------------------------------------------------------
(* What the Viewer receives: #handleFileMessage.                           *)

Incoming(type, id) ==
  /\ ~failed /\ down # <<>> /\ down[1].type = type /\ down[1].id = id
  /\ down' = Tail(down)

\* #handleFailure: every promise is rejected and the connection torn down; what
\* follows is ViewerClient's, and FileTransfers' at Core.
ViewerFails ==
  /\ failed' = TRUE /\ pending' = None /\ accepted' = FALSE /\ shown' = {}
  /\ Settle({f \in Files : promise[f] \in {"offered", "pending"}}, "rejected")

\* A newer chooser replaces the ones that are shown.
ReceiveRequest(u) ==
  /\ Incoming("request", u)
  /\ shown' = {u}
  /\ UNCHANGED <<pending, accepted, sender, promise, received, failed,
                 coreUploadVars, coreDownloadVars, up>>

ReceiveUploadAccept(u) ==
  /\ Incoming("accept", u)
  /\ IF pending = u /\ ~accepted
       THEN /\ accepted' = TRUE /\ sender' = [sender EXCEPT ![u] = 0]
            /\ UNCHANGED <<shown, pending, promise, failed>>
       ELSE ViewerFails /\ UNCHANGED sender
  /\ UNCHANGED <<received, coreUploadVars, coreDownloadVars, up>>

ReceiveUploadCancel(u) ==
  /\ Incoming("cancel", u)
  /\ shown' = shown \ {u}
  /\ IF pending = u THEN RejectUpload(u) ELSE UNCHANGED <<pending, accepted, promise>>
  /\ UNCHANGED <<sender, received, failed, coreUploadVars, coreDownloadVars, up>>

\* Mutant: the result is taken for the upload that is pending, whichever it names.
ReceiveUploadResultOfAny(u) ==
  /\ Incoming("result", u)
  /\ IF pending # None
       THEN /\ pending' = None /\ accepted' = FALSE
            /\ Settle({pending}, IF down[1].arg = 1 THEN "resolved" ELSE "rejected")
            /\ UNCHANGED <<shown, failed>>
       ELSE ViewerFails
  /\ UNCHANGED <<sender, received, coreUploadVars, coreDownloadVars, up>>

ReceiveUploadResult(u) ==
  /\ Incoming("result", u)
  /\ IF pending = u
       THEN /\ pending' = None /\ accepted' = FALSE
            /\ Settle({u}, IF down[1].arg = 1 THEN "resolved" ELSE "rejected")
            /\ UNCHANGED <<shown, failed>>
       ELSE ViewerFails
  /\ UNCHANGED <<sender, received, coreUploadVars, coreDownloadVars, up>>

ReceiveOffer(d) ==
  /\ Incoming("offer", d)
  /\ Settle({d}, "offered")
  /\ UNCHANGED <<uploadVars, received, failed, coreUploadVars, coreDownloadVars, up>>

Result(id, ok) == [type |-> "result", id |-> id, arg |-> IF ok THEN 1 ELSE 0]

\* #handleDownloadChunk: data of a download that is not accepted, or no more,
\* is answered, a chunk that is not the next one fails the download.
ReceiveChunk(d) ==
  /\ Incoming("chunk", d)
  /\ IF promise[d] = "pending" /\ down[1].arg = received[d]
       THEN received' = [received EXCEPT ![d] = @ + 1] /\ UNCHANGED <<promise, up>>
       ELSE /\ ToCore(Result(d, FALSE)) /\ UNCHANGED received
            /\ IF promise[d] = "pending" THEN Settle({d}, "rejected") ELSE UNCHANGED promise
  /\ UNCHANGED <<uploadVars, failed, coreUploadVars, coreDownloadVars>>

\* #handleDownloadComplete
ReceiveComplete(d) ==
  /\ Incoming("complete", d)
  /\ LET whole == promise[d] = "pending" /\ received[d] = Chunks[d] IN
       /\ ToCore(Result(d, whole))
       /\ IF promise[d] = "pending"
            THEN Settle({d}, IF whole THEN "resolved" ELSE "rejected") ELSE UNCHANGED promise
  /\ UNCHANGED <<uploadVars, received, failed, coreUploadVars, coreDownloadVars>>

ReceiveDownloadCancel(d) ==
  /\ Incoming("cancel", d)
  /\ IF promise[d] \in {"offered", "pending"} THEN Settle({d}, "rejected") ELSE UNCHANGED promise
  /\ UNCHANGED <<uploadVars, received, failed, coreUploadVars, coreDownloadVars, up>>

Receive ==
  \/ \E u \in Uploads : \/ ReceiveRequest(u) \/ ReceiveUploadAccept(u)
                        \/ ReceiveUploadCancel(u) \/ ReceiveUploadResult(u)
  \/ \E d \in Downloads : \/ ReceiveOffer(d) \/ ReceiveChunk(d)
                          \/ ReceiveComplete(d) \/ ReceiveDownloadCancel(d)

-----------------------------------------------------------------------------
(* The head of Core's control chain: uploads.                              *)

ToViewer(ms) == down' = down \o ms
At(s) == step.at = s /\ ~failed
Arrived(type, id) == /\ At("start") /\ up # <<>> /\ up[1].type = type /\ up[1].id = id
                     /\ up' = Tail(up)
Await(s, u) == step' = [at |-> s, for |-> u, old |-> None]

\* The catch of #handleUploadMessage: #cancelFileFlow aborts whatever upload is
\* active and forgets the chooser, then the message's upload gets a result.
Refuse(u) ==
  /\ chooser' = None /\ transfer' = None
  /\ Await("refuse", u)

Refused(u) ==
  /\ At("refuse") /\ step.for = u
  /\ step' = Idle /\ ToViewer(<<Result(u, FALSE)>>)
  /\ UNCHANGED <<viewerVars, opened, chooser, transfer, written, owed, page, coreDownloadVars, up>>

\* #acceptUploadOffer up to its await; any offer may exceed a limit.
UploadOffered(u) ==
  /\ Arrived("offer", u)
  /\ \/ /\ transfer = None /\ chooser = (IF u \in Drops THEN None ELSE u)
        /\ Await("reserve", u)
        /\ UNCHANGED <<chooser, transfer>>
     \/ Refuse(u)
  /\ UNCHANGED <<viewerVars, opened, written, owed, page, coreDownloadVars, down>>

UploadReserved(u) ==
  /\ At("reserve") /\ step.for = u
  /\ chooser' = None /\ transfer' = u
  /\ step' = Idle /\ ToViewer(<<Msg("accept", u)>>)
  /\ UNCHANGED <<viewerVars, opened, written, owed, page, coreDownloadVars, up>>

\* #writeUploadChunk up to its await
WriteUploadChunk(u) ==
  /\ Arrived("chunk", u)
  /\ IF transfer = u /\ up[1].arg = written[u]
       THEN Await("write", u) /\ UNCHANGED <<chooser, transfer>>
       ELSE Refuse(u)
  /\ UNCHANGED <<viewerVars, opened, written, owed, page, coreDownloadVars, down>>

ChunkWritten(u) ==
  /\ At("write") /\ step.for = u
  /\ written' = [written EXCEPT ![u] = @ + 1]
  /\ step' = Idle
  /\ UNCHANGED <<viewerVars, opened, chooser, transfer, owed, page, coreDownloadVars, up, down>>

\* #completeUpload up to the commits and the page
CompleteUpload(u) ==
  /\ Arrived("complete", u)
  /\ IF transfer = u /\ written[u] = Chunks[u]
       THEN Await("commit", u) /\ UNCHANGED <<chooser, transfer>>
       ELSE Refuse(u)
  /\ UNCHANGED <<viewerVars, opened, written, owed, page, coreDownloadVars, down>>

UploadDelivered(u) ==
  /\ At("commit") /\ step.for = u
  /\ page' = page \cup {u} /\ transfer' = None
  /\ step' = Idle /\ ToViewer(<<Result(u, TRUE)>>)
  /\ UNCHANGED <<viewerVars, opened, chooser, written, owed, coreDownloadVars, up>>

\* A reservation, a write, a commit or the page fails.
UploadFails(u) ==
  /\ At("reserve") \/ At("write") \/ At("commit")
  /\ step.for = u /\ Refuse(u)
  /\ UNCHANGED <<viewerVars, opened, written, owed, page, coreDownloadVars, up, down>>

\* #cancelUploadRequest
CancelUploadRequest(u) ==
  /\ Arrived("cancel", u)
  /\ chooser' = (IF chooser = u THEN None ELSE chooser)
  /\ IF transfer = u THEN transfer' = None /\ Await("abort", u) ELSE UNCHANGED <<transfer, step>>
  /\ UNCHANGED <<viewerVars, opened, written, owed, page, coreDownloadVars, down>>

Aborted ==
  /\ At("abort") /\ step' = Idle
  /\ UNCHANGED <<viewerVars, opened, chooser, transfer, written, owed, page, coreDownloadVars, up, down>>

\* #handleFileChooser: a chooser replaces the one before it and its upload.
ChooserOpens(u) ==
  /\ At("start") /\ u \notin Drops \cup opened /\ Room
  /\ opened' = opened \cup {u} /\ chooser' = None /\ transfer' = None
  /\ step' = [at |-> "replace", for |-> u, old |-> transfer]
  /\ ToViewer(IF chooser = None THEN <<>> ELSE <<Msg("cancel", chooser)>>)
  /\ UNCHANGED <<viewerVars, written, owed, page, coreDownloadVars, up>>

ChooserShown(u) ==
  /\ At("replace") /\ step.for = u
  /\ chooser' = u /\ step' = Idle
  /\ ToViewer((IF step.old = None THEN <<>> ELSE <<Result(step.old, FALSE)>>) \o <<Msg("request", u)>>)
  /\ UNCHANGED <<viewerVars, opened, transfer, written, owed, page, coreDownloadVars, up>>

ChooserExpires ==
  /\ ~failed /\ chooser # None
  /\ chooser' = None /\ ToViewer(<<Msg("cancel", chooser)>>)
  /\ UNCHANGED <<viewerVars, opened, transfer, written, step, owed, page, coreDownloadVars, up>>

\* The timer of #createUploadTimer, which #completeUpload clears: the upload is
\* aborted, then the Viewer is told.
UploadExpires ==
  /\ ~failed /\ transfer # None /\ ~At("commit")
  /\ transfer' = None /\ owed' = owed \cup {transfer}
  /\ UNCHANGED <<viewerVars, opened, chooser, written, step, page, coreDownloadVars, up, down>>

ExpiryReported(u) ==
  /\ ~failed /\ u \in owed
  /\ owed' = owed \ {u} /\ ToViewer(<<Result(u, FALSE)>>)
  /\ UNCHANGED <<viewerVars, opened, chooser, transfer, written, step, page, coreDownloadVars, up>>

CoreUploads ==
  \/ ChooserExpires \/ UploadExpires \/ Aborted
  \/ \E u \in Uploads :
       \/ UploadOffered(u) \/ UploadReserved(u) \/ WriteUploadChunk(u) \/ ChunkWritten(u)
       \/ CompleteUpload(u) \/ UploadDelivered(u) \/ UploadFails(u) \/ Refused(u)
       \/ CancelUploadRequest(u) \/ ChooserOpens(u) \/ ChooserShown(u) \/ ExpiryReported(u)

-----------------------------------------------------------------------------
(* Downloads: Core and the Extension.                                      *)

Active(d) == serving[d] \in {"offered", "accepted"}
End(d) == serving' = [serving EXCEPT ![d] = "gone"]
Streams(d, s) == stream' = [stream EXCEPT ![d] = s]

\* #handleDownloadCompleted
OfferDownload(d) ==
  /\ At("start") /\ serving[d] = "none" /\ Room
  /\ serving' = [serving EXCEPT ![d] = "offered"] /\ ToViewer(<<Msg("offer", d)>>)
  /\ UNCHANGED <<viewerVars, coreUploadVars, stream, relay, up>>

\* #handleDownloadMessage.  A message for a download that has ended is answered
\* with an error, which no transfer of the Viewer listens to.
DownloadAccepted(d) ==
  /\ Arrived("accept", d)
  /\ IF serving[d] = "offered"
       THEN /\ serving' = [serving EXCEPT ![d] = "accepted"]
            /\ Streams(d, [at |-> "read", sent |-> 0])
       ELSE UNCHANGED <<serving, stream>>
  /\ UNCHANGED <<viewerVars, coreUploadVars, relay, down>>

DownloadCancelled(d) ==
  /\ Arrived("cancel", d)
  /\ IF Active(d) THEN End(d) ELSE UNCHANGED serving
  /\ UNCHANGED <<viewerVars, coreUploadVars, stream, relay, down>>

DownloadResult(d) ==
  /\ Arrived("result", d)
  /\ IF serving[d] = "accepted" THEN End(d) ELSE UNCHANGED serving
  /\ UNCHANGED <<viewerVars, coreUploadVars, stream, relay, down>>

\* The timers of an offer and of a download being streamed
DownloadExpires(d) ==
  /\ ~failed /\ Active(d)
  /\ End(d) /\ ToViewer(<<Msg("cancel", d)>>)
  /\ UNCHANGED <<viewerVars, coreUploadVars, stream, relay, up>>

\* sendMediaControlAndWait
Forward(d) == relay' = [relay EXCEPT ![d] = "waiting"]

\* #streamDownload: a chunk has been read and is given to the Extension; the
\* download may have ended meanwhile.
ChunkRead(d) ==
  /\ ~failed /\ stream[d].at = "read"
  /\ Forward(d)
  /\ Streams(d, [stream[d] EXCEPT !.at = "forward"])
  /\ UNCHANGED <<viewerVars, coreUploadVars, serving, up, down>>

Chunk(d, n) == [type |-> "chunk", id |-> d, arg |-> n]

\* handleControlMessage of the Extension: the channel has drained far enough.
ChunkForwarded(d) ==
  /\ ~failed /\ relay[d] = "waiting"
  /\ relay' = [relay EXCEPT ![d] = "forwarded"]
  /\ ToViewer(<<Chunk(d, stream[d].sent)>>)
  /\ UNCHANGED <<viewerVars, coreUploadVars, serving, stream, up>>

\* waitForFileBackpressure gives up, and Core hears nothing.
ChunkDropped(d) ==
  /\ ~failed /\ relay[d] = "waiting"
  /\ relay' = [relay EXCEPT ![d] = "idle"]
  /\ UNCHANGED <<viewerVars, coreUploadVars, serving, stream, up, down>>

\* Where the loop of #streamDownload goes on after a chunk.
NextChunk(d) ==
  LET sent == stream[d].sent + 1 IN
    IF sent < Chunks[d] /\ Active(d)
      THEN Streams(d, [at |-> "read", sent |-> sent]) /\ UNCHANGED down
      ELSE /\ Streams(d, [at |-> "off", sent |-> sent])
           /\ ToViewer(IF Active(d) THEN <<Msg("complete", d)>> ELSE <<>>)

\* Mutant: a chunk counts as sent once it is given to the Extension.
ChunkSentUnacknowledged(d) ==
  /\ ~failed /\ stream[d].at = "forward"
  /\ NextChunk(d)
  /\ UNCHANGED <<viewerVars, coreUploadVars, serving, relay, up>>

\* media.control_forwarded
ChunkAcknowledged(d) ==
  /\ ~failed /\ stream[d].at = "forward" /\ relay[d] = "forwarded"
  /\ relay' = [relay EXCEPT ![d] = "idle"] /\ NextChunk(d)
  /\ UNCHANGED <<viewerVars, coreUploadVars, serving, up>>

\* Mutant: the Viewer is not told.
StreamFailsSilently(d) ==
  /\ ~failed /\ stream[d].at # "off"
  /\ Streams(d, [stream[d] EXCEPT !.at = "off"])
  /\ IF Active(d) THEN End(d) ELSE UNCHANGED serving
  /\ UNCHANGED <<viewerVars, coreUploadVars, relay, up, down>>

\* The file cannot be read or sendMediaControlAndWait times out: a chunk that
\* still waits in the Extension may be sent after the cancellation.
StreamFails(d) ==
  /\ ~failed /\ stream[d].at # "off"
  /\ Streams(d, [stream[d] EXCEPT !.at = "off"])
  /\ IF Active(d)
       THEN End(d) /\ ToViewer(<<Msg("cancel", d)>>) ELSE UNCHANGED <<serving, down>>
  /\ UNCHANGED <<viewerVars, coreUploadVars, relay, up>>

CoreDownloads ==
  \E d \in Downloads :
    \/ OfferDownload(d) \/ DownloadAccepted(d) \/ DownloadCancelled(d) \/ DownloadResult(d)
    \/ DownloadExpires(d) \/ ChunkRead(d) \/ ChunkForwarded(d) \/ ChunkDropped(d)
    \/ ChunkAcknowledged(d) \/ StreamFails(d)

ViewerActs ==
  \/ \E u \in Uploads : \/ UploadFiles(u) \/ CancelUpload(u) \/ RequestExpires(u)
                        \/ SendUploadBytes(u) \/ SendingFails(u)
  \/ \E d \in Downloads : AcceptDownload(d) \/ CancelDownload(d)

Next == ViewerActs \/ Receive \/ CoreUploads \/ CoreDownloads

Spec == Init /\ [][Next]_vars

\* The channel delivers, Core and the storage answer, files are read, the
\* Extension forwards a chunk or gives up, and Core's wait for it is timed.
Fairness ==
  /\ WF_vars(Receive)
  /\ WF_vars(Aborted)
  /\ \A u \in Uploads :
       /\ WF_vars(SendUploadBytes(u) \/ SendingFails(u))
       /\ WF_vars(UploadOffered(u)) /\ WF_vars(WriteUploadChunk(u))
       /\ WF_vars(CompleteUpload(u)) /\ WF_vars(CancelUploadRequest(u))
       /\ WF_vars(UploadReserved(u) \/ ChunkWritten(u) \/ UploadDelivered(u) \/ UploadFails(u))
       /\ WF_vars(Refused(u)) /\ WF_vars(ChooserShown(u)) /\ WF_vars(ExpiryReported(u))
  /\ \A d \in Downloads :
       /\ WF_vars(DownloadAccepted(d)) /\ WF_vars(DownloadCancelled(d)) /\ WF_vars(DownloadResult(d))
       /\ WF_vars(ChunkRead(d)) /\ WF_vars(ChunkForwarded(d) \/ ChunkDropped(d))
       /\ WF_vars(ChunkAcknowledged(d)) /\ WF_vars(StreamFails(d) /\ relay[d] # "waiting" /\ stream[d].at = "forward")

FairSpec == Spec /\ Fairness

-----------------------------------------------------------------------------
\* An upload the caller is told of as delivered is with the page, with every
\* chunk in its place, whatever was cancelled, expired or offered before it
\* (#completeUpload, #handleFileMessage).
DeliveredToThePage ==
  \A u \in Uploads : promise[u] = "resolved" \/ u \in page => u \in page /\ written[u] = Chunks[u]

\* The chunks of a download fit together at the Viewer although a chunk may wait
\* in the Extension while other messages pass it, and although cancellations
\* and time-outs cross them (#streamDownload, #handleDownloadChunk).
ChunksFit ==
  down # <<>> /\ down[1].type \in {"chunk", "complete"} /\ promise[down[1].id] = "pending" =>
    received[down[1].id] = IF down[1].type = "chunk" THEN down[1].arg ELSE Chunks[down[1].id]

\* Every upload and every accepted download is settled.
PromisesSettle == \A f \in Files : promise[f] = "pending" ~> promise[f] # "pending"

\* An upload reported as delivered is with the page.
Consistent == TypeOK /\ DeliveredToThePage
=============================================================================
