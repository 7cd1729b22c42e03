---------------------------- MODULE FileTransfers ----------------------------
(***************************************************************************)
(* Uploads and downloads of one Session (session.ts, cdp.ts), the bytes    *)
(* they reserve, and what cancels them.  Viewer messages, choosers,        *)
(* completed downloads and most cancellations wait in #controlChain, whose *)
(* head runs up to its next await; timers, Chrome, a revoked download      *)
(* capability and the cleanup of the Session act beside it.                *)
(***************************************************************************)
EXTENDS Integers, FiniteSets, Sequences

CONSTANTS
  Offers,        \* uploads the Viewer may offer, each with its own transferId
  Drops,         \* the offers that are dropped on the page, not chosen
  Bytes,         \* [Offers -> bytes]
  Guids,         \* downloads of Chrome
  Size,          \* [Guids -> bytes]
  MaxTemporary,  \* fileTransferLimits.maxTemporaryBytes
  MaxFiles,      \* fileTransferLimits.maxFiles
  Regrants,      \* the Embedder may grant download again while it is being revoked
  MaxChain,      \* bound: entries of #controlChain when something is added to it
  MaxGeneration, \* bound: Viewer generations
  None

ASSUME FileTransfersAssumption ==
  /\ IsFiniteSet(Offers) /\ IsFiniteSet(Guids)
  /\ Drops \subseteq Offers /\ Bytes \in [Offers -> Nat] /\ Size \in [Guids -> Nat]
  /\ {MaxTemporary, MaxFiles, MaxChain, MaxGeneration} \subseteq Nat \ {0}
  /\ Regrants \in BOOLEAN /\ None \notin Offers \cup Guids \cup Nat

VARIABLES
  sink,         \* the Embedder keeps the downloads (downloadSink)
  viewer,       \* the Session is CONNECTED
  generation,   \* #viewerGeneration
  takeover,     \* progress of a createViewerTicket: the drain of the chain
  grants,       \* upload and download capabilities
  chain,        \* #controlChain
  step,         \* what the head of the chain awaits
  chooser,      \* #pendingFileChooser
  transfer,     \* #uploadTransfer
  upload,       \* progress of each upload
  written,      \* the uploads whose bytes have arrived
  uploadBytes,  \* #uploadReservedBytes
  chrome,       \* each download as #downloads of its controller has it
  downloadBytes,\* #downloadReservedBytes
  sources,      \* #downloadSources
  commits,      \* #downloadCommits: progress of a download to the sink
  held,         \* #sinkReservations
  aborts,       \* #sinkAborts
  offered,      \* #downloadTransfers: the generation of each, and its progress
  cancelling,   \* progress of #cancelFileFlow and #cancelAllDownloads, per caller
  ending,       \* progress of #cleanup
  outcome       \* history: how the sink was told to settle each download

chainVars == <<chain, step>>
uploadVars == <<chooser, transfer, upload, written, uploadBytes>>
removalVars == <<chrome, downloadBytes, sources, held, aborts, outcome>>
downloadVars == <<removalVars, commits, offered>>
sessionVars == <<sink, viewer, generation, takeover, grants>>
vars == <<sessionVars, chainVars, uploadVars, downloadVars, cancelling, ending>>

-----------------------------------------------------------------------------
Callers == {"chain", "revocation", "cleanup"}
NoOffer == [at |-> "none", generation |-> 0]
Idle == [at |-> "idle", for |-> {}]
ViewerOps == {"offer", "chunk", "complete", "cancel"}
DownloadOps == {"accept", "result"}
Ops == ViewerOps \cup DownloadOps \cup {"chooser", "completed", "departed", "takeover", "revoked"}
Steps == {"start", "reserve", "undo", "write", "commit", "deliver", "cancel", "stat", "remove"}
Entry == [op : Ops, arg : Offers \cup Guids \cup {None}]

TypeOK ==
  /\ sink \in BOOLEAN /\ viewer \in BOOLEAN
  /\ generation \in 1..MaxGeneration /\ takeover \in {"no", "queued", "drained"}
  /\ grants \in SUBSET {"upload", "download"}
  /\ chain \in Seq(Entry) /\ step \in Steps
  /\ chooser \in BOOLEAN /\ transfer \in Offers \cup {None}
  /\ upload \in [Offers -> {"none", "reserving", "undoing", "active", "aborting", "gone", "delivered"}]
  /\ written \in SUBSET Offers
  /\ uploadBytes \in Nat
  /\ chrome \in [Guids -> {"none", "running", "done", "removing", "removed"}]
  /\ downloadBytes \in [Guids -> Nat \cup {None}]
  /\ sources \in SUBSET Guids
  /\ commits \in [Guids -> {"no", "stat", "commit", "remove"}]
  /\ held \in SUBSET Guids /\ aborts \in SUBSET Guids
  /\ offered \in [Guids -> [at : {"none", "offered", "streaming"}, generation : 0..MaxGeneration]]
  /\ cancelling \in [Callers -> [at : {"idle", "upload", "commits", "offers", "sources", "aborts"},
                                for : SUBSET (Offers \cup Guids)]]
  /\ ending \in {"no", "commits", "flow", "tab", "storage", "disposed"}
  /\ outcome \in [Guids -> SUBSET {"committing", "committed", "aborted"}]

Init ==
  /\ sink \in BOOLEAN /\ viewer = TRUE /\ generation = 1 /\ takeover = "no"
  /\ grants = {"upload", "download"}
  /\ chain = <<>> /\ step = "start"
  /\ chooser = FALSE /\ transfer = None
  /\ upload = [o \in Offers |-> "none"] /\ written = {} /\ uploadBytes = 0
  /\ chrome = [g \in Guids |-> "none"] /\ downloadBytes = [g \in Guids |-> None]
  /\ sources = {} /\ commits = [g \in Guids |-> "no"]
  /\ held = {} /\ aborts = {} /\ offered = [g \in Guids |-> NoOffer]
  /\ cancelling = [c \in Callers |-> Idle]
  /\ ending = "no" /\ outcome = [g \in Guids |-> {}]

-----------------------------------------------------------------------------
Closed == ending # "no"
At(op, s) == chain # <<>> /\ chain[1].op = op /\ step = s
Pop == chain' = Tail(chain) /\ step' = "start"
Await(s) == step' = s /\ UNCHANGED chain
Enqueue(op, arg) == chain' = Append(chain, [op |-> op, arg |-> arg]) /\ UNCHANGED step
Room == Len(chain) < MaxChain

Tracked == {g \in Guids : chrome[g] \in {"running", "done"}}
Reserved == {g \in Guids : downloadBytes[g] # None}

\* The sum of f over S: as many as S has pairs of a member and one of its bytes.
SumOf(f, S) == Cardinality(UNION {{x} \X (1..f[x]) : x \in S})
TemporaryBytes == uploadBytes + SumOf(downloadBytes, Reserved)

\* #abortDownloadSink
AbortSink(G) ==
  /\ held' = held \ G
  /\ aborts' = aborts \cup (G \cap held)
  /\ outcome' = [g \in Guids |-> IF g \in G \cap held THEN outcome[g] \cup {"aborted"} ELSE outcome[g]]

\* #removeDownload for each of G: the controller forgets a download it tracks
\* and goes on removing it; it refuses any other, which is released here.
Remove(G, tracked) ==
  /\ chrome' = [g \in Guids |-> IF g \in G \cap tracked THEN "removing" ELSE chrome[g]]
  /\ sources' = sources \ G
  /\ downloadBytes' = [g \in Guids |-> IF g \in G \ tracked THEN None ELSE downloadBytes[g]]
  /\ AbortSink(G \ tracked)

Removed(G) == \A g \in G : chrome[g] # "removing" /\ g \notin aborts
Withdraw(G) == offered' = [g \in Guids |-> IF g \in G THEN NoOffer ELSE offered[g]]

-----------------------------------------------------------------------------
(* Cancellation: #cancelFileFlow aborts the upload and, for some callers,   *)
(* goes on with #cancelAllDownloads.                                       *)

\* #abortUploadTransfer, up to its await
AbortUpload ==
  /\ transfer' = None
  /\ upload' = [o \in Offers |-> IF o = transfer THEN "aborting" ELSE upload[o]]
  /\ UNCHANGED <<written, uploadBytes>>

CancelFileFlow(c) ==
  /\ chooser' = FALSE
  /\ AbortUpload
  /\ cancelling' = [cancelling EXCEPT ![c] = [at |-> "upload", for |-> {transfer} \ {None}]]

\* The head of the chain refuses what it was asked, and cancels the flow.
Refuse == Await("cancel") /\ CancelFileFlow("chain")

UploadAborted(o) ==
  /\ upload[o] = "aborting"
  /\ upload' = [upload EXCEPT ![o] = "gone"]
  /\ uploadBytes' = uploadBytes - Bytes[o]
  /\ UNCHANGED <<sessionVars, chainVars, downloadVars, cancelling, ending, chooser, transfer, written>>

\* The timer of #createUploadTimer; #completeUpload clears it.
UploadExpires ==
  /\ transfer # None
  /\ ~\E s \in {"commit", "deliver"} : At("complete", s) /\ chain[1].arg = transfer
  /\ AbortUpload
  /\ UNCHANGED <<sessionVars, chainVars, downloadVars, cancelling, ending, chooser>>

ChooserExpires ==
  /\ chooser /\ chooser' = FALSE
  /\ UNCHANGED <<sessionVars, chainVars, downloadVars, cancelling, ending,
                 transfer, upload, written, uploadBytes>>

AllDownloads(c) ==
  \/ c # "chain"
  \/ chain[1].op \in {"departed", "takeover"} /\ ~sink

\* What its caller does when the cancellation has ended.
Cancelled(c) ==
  /\ cancelling' = [cancelling EXCEPT ![c] = Idle]
  /\ IF c = "chain" THEN Pop ELSE UNCHANGED chainVars
  /\ ending' = IF c = "cleanup" THEN "tab" ELSE ending
  /\ takeover' = IF c = "chain" /\ chain[1].op = "takeover" THEN "drained" ELSE takeover
  /\ chooser' = (chooser \/ /\ c = "chain" /\ chain[1].op = "chooser"
                            /\ ~Closed /\ viewer /\ "upload" \in grants)
  /\ UNCHANGED <<sink, viewer, generation, grants, transfer, upload, written, uploadBytes, downloadVars>>

Stage(c, at, for) == cancelling' = [cancelling EXCEPT ![c] = [at |-> at, for |-> for]]
Committing == {g \in Guids : commits[g] # "no"}

UploadCancelled(c) ==
  /\ cancelling[c].at = "upload" /\ \A o \in cancelling[c].for : upload[o] # "aborting"
  /\ IF AllDownloads(c)
       THEN /\ Stage(c, "commits", Committing)
            /\ UNCHANGED <<sessionVars, chainVars, uploadVars, downloadVars, ending>>
       ELSE Cancelled(c)

CommitsAwaited(c) == cancelling[c].at = "commits" /\ cancelling[c].for \cap Committing = {}

CancelOffers(c) ==
  /\ CommitsAwaited(c)
  /\ LET G == {g \in Guids : offered[g] # NoOffer} IN
       Stage(c, "offers", G) /\ Withdraw(G) /\ Remove(G, Tracked)
  /\ UNCHANGED <<sessionVars, chainVars, uploadVars, commits, ending>>

CancelSources(c) ==
  /\ cancelling[c].at = "offers" /\ Removed(cancelling[c].for)
  /\ Stage(c, "sources", sources) /\ Remove(sources, Tracked)
  /\ UNCHANGED <<sessionVars, chainVars, uploadVars, commits, offered, ending>>

SourcesCancelled(c) ==
  /\ cancelling[c].at = "sources" /\ Removed(cancelling[c].for)
  /\ Stage(c, "aborts", aborts)
  /\ UNCHANGED <<sessionVars, chainVars, uploadVars, downloadVars, ending>>

DownloadsCancelled(c) ==
  /\ cancelling[c].at = "aborts" /\ cancelling[c].for \cap aborts = {}
  /\ Cancelled(c)

CancelSteps(c) ==
  \/ UploadCancelled(c) \/ CancelOffers(c) \/ CancelSources(c)
  \/ SourcesCancelled(c) \/ DownloadsCancelled(c)

-----------------------------------------------------------------------------
(* The head of the chain: uploads.                                         *)

\* A chooser, a departure, a takeover and a revocation cancel the flow first.
HeadCancels ==
  /\ \E op \in {"chooser", "departed", "takeover", "revoked"} : At(op, "start")
  /\ Refuse
  /\ UNCHANGED <<sessionVars, downloadVars, ending>>

\* handleControl returns when the Session has been closed.
HeadIgnored ==
  /\ \E op \in ViewerOps \cup DownloadOps : At(op, "start")
  /\ Closed
  /\ Pop
  /\ UNCHANGED <<sessionVars, uploadVars, downloadVars, cancelling, ending>>

MayUpload == viewer /\ "upload" \in grants
Fits(o) == TemporaryBytes + Bytes[o] <= MaxTemporary
Valid(o) ==
  /\ MayUpload /\ transfer = None /\ Fits(o)
  /\ chooser = (o \notin Drops)

OfferStarts ==
  /\ At("offer", "start") /\ ~Closed
  /\ LET o == chain[1].arg IN
       \/ /\ Valid(o)
          /\ upload' = [upload EXCEPT ![o] = "reserving"]
          /\ uploadBytes' = uploadBytes + Bytes[o]
          /\ Await("reserve")
          /\ UNCHANGED <<chooser, transfer, written, cancelling>>
       \/ ~Valid(o) /\ Refuse
  /\ UNCHANGED <<sessionVars, downloadVars, ending>>

\* Nothing looks at #closed here.
OfferReserved ==
  /\ At("offer", "reserve")
  /\ upload' = [upload EXCEPT ![chain[1].arg] = "active"]
  /\ transfer' = chain[1].arg /\ chooser' = FALSE
  /\ Pop
  /\ UNCHANGED <<sessionVars, downloadVars, cancelling, ending, written, uploadBytes>>

\* A reservation of the storage fails: those made before it are aborted.
OfferFails ==
  /\ At("offer", "reserve")
  /\ upload' = [upload EXCEPT ![chain[1].arg] = "undoing"]
  /\ Await("undo")
  /\ UNCHANGED <<sessionVars, downloadVars, cancelling, ending, chooser, transfer, written, uploadBytes>>

\* Mutant: the bytes of a failed reservation are not returned.
OfferUndoneKeepingBytes ==
  /\ At("offer", "undo")
  /\ Await("cancel") /\ chooser' = FALSE
  /\ transfer' = None /\ upload' = [upload EXCEPT ![chain[1].arg] = "gone"]
  /\ Stage("chain", "upload", {})
  /\ UNCHANGED <<sessionVars, downloadVars, ending, written, uploadBytes>>

OfferUndone ==
  /\ At("offer", "undo")
  /\ Await("cancel") /\ chooser' = FALSE
  /\ transfer' = None /\ upload' = [upload EXCEPT ![chain[1].arg] = "gone"]
  /\ uploadBytes' = uploadBytes - Bytes[chain[1].arg]
  /\ Stage("chain", "upload", {})
  /\ UNCHANGED <<sessionVars, downloadVars, ending, written>>

\* A chunk, and the end of the upload, up to their first await
TransferStarts ==
  /\ \/ /\ At("chunk", "start") /\ transfer = chain[1].arg /\ transfer \notin written
        /\ MayUpload /\ Await("write")
     \/ /\ At("complete", "start") /\ transfer = chain[1].arg /\ transfer \in written
        /\ MayUpload /\ Await("commit")
  /\ ~Closed
  /\ UNCHANGED <<sessionVars, uploadVars, downloadVars, cancelling, ending>>

TransferRefused ==
  /\ \E op \in {"chunk", "complete"} : At(op, "start")
  /\ ~Closed
  /\ \/ ~MayUpload \/ transfer # chain[1].arg
     \/ (transfer \in written) # (chain[1].op = "complete")
  /\ Refuse
  /\ UNCHANGED <<sessionVars, downloadVars, ending>>

ChunkWritten ==
  /\ At("chunk", "write") /\ written' = written \cup {chain[1].arg}
  /\ Pop
  /\ UNCHANGED <<sessionVars, downloadVars, cancelling, ending, chooser, transfer, upload, uploadBytes>>

\* A reservation that has been aborted cannot be committed.
UploadCommitted ==
  /\ At("complete", "commit") /\ upload[chain[1].arg] = "active"
  /\ Await("deliver")
  /\ UNCHANGED <<sessionVars, uploadVars, downloadVars, cancelling, ending>>

\* The page has the files, which count until the cleanup of the Session.
UploadDelivered ==
  /\ At("complete", "deliver")
  /\ transfer' = None
  /\ upload' = [o \in Offers |-> IF o = chain[1].arg /\ upload[o] = "active" THEN "delivered" ELSE upload[o]]
  /\ Pop
  /\ UNCHANGED <<sessionVars, downloadVars, cancelling, ending, chooser, written, uploadBytes>>

\* The storage or the page fails.
TransferFails ==
  /\ At("chunk", "write") \/ At("complete", "commit") \/ At("complete", "deliver")
  /\ Refuse
  /\ UNCHANGED <<sessionVars, downloadVars, ending>>

\* #cancelUploadRequest, for the chooser o answers and for its transfer
ViewerCancels ==
  /\ At("cancel", "start") /\ ~Closed
  /\ chooser' = (chooser /\ chain[1].arg \in Drops)
  /\ IF transfer = chain[1].arg
       THEN AbortUpload /\ Stage("chain", "upload", {transfer}) /\ Await("cancel")
       ELSE UNCHANGED <<transfer, upload, written, uploadBytes, cancelling>> /\ Pop
  /\ UNCHANGED <<sessionVars, downloadVars, ending>>

HeadUploads ==
  \/ HeadCancels \/ HeadIgnored \/ OfferStarts \/ OfferReserved \/ OfferFails \/ OfferUndone
  \/ TransferStarts \/ TransferRefused \/ ChunkWritten \/ UploadCommitted \/ UploadDelivered
  \/ TransferFails \/ ViewerCancels

-----------------------------------------------------------------------------
(* Downloads.                                                              *)

\* #reserveDownloadBytes: may g hold so many bytes?
Allowed == ~Closed /\ "download" \in grants /\ (sink \/ viewer)
WithinLimits(g, bytes) ==
  /\ g \in Reserved \/ Cardinality(Reserved) < MaxFiles
  /\ TemporaryBytes - (IF g \in Reserved THEN downloadBytes[g] ELSE 0) + bytes <= MaxTemporary

\* The reservation is made, or resized; the sink may refuse it.
Reserve(g, bytes) ==
  /\ Allowed /\ WithinLimits(g, bytes)
  /\ downloadBytes' = [downloadBytes EXCEPT ![g] = bytes]
  /\ held' = IF sink THEN held \cup {g} ELSE held
  /\ sources' = sources \cup {g}
  /\ UNCHANGED <<aborts, outcome>>

Unreservable(g, bytes) == sink \/ ~Allowed \/ ~WithinLimits(g, bytes)
Listening == ending \in {"no", "commits", "flow"}

\* Page.downloadWillBegin
DownloadBegins(g) ==
  /\ chrome[g] = "none" /\ Listening
  /\ \/ Reserve(g, 0) /\ chrome' = [chrome EXCEPT ![g] = "running"]
     \/ Unreservable(g, 0) /\ Remove({g}, Tracked \cup {g})
  /\ UNCHANGED <<sessionVars, chainVars, uploadVars, commits, offered, cancelling, ending>>

\* Page.downloadProgress; the Session may have cancelled the download within
\* the progress that reports it complete.
DownloadProgresses(g) ==
  /\ chrome[g] = "running" /\ Listening
  /\ \/ Reserve(g, Size[g]) /\ downloadBytes[g] # Size[g] /\ UNCHANGED chrome
     \/ Unreservable(g, Size[g]) /\ Remove({g}, Tracked)
  /\ UNCHANGED <<sessionVars, chainVars, uploadVars, commits, offered, cancelling, ending>>

DownloadCompletes(g) ==
  /\ chrome[g] = "running" /\ Listening
  /\ Reserve(g, Size[g])
  /\ chrome' = [chrome EXCEPT ![g] = "done"]
  /\ IF sink THEN commits' = [commits EXCEPT ![g] = "stat"] /\ UNCHANGED chainVars
             ELSE Enqueue("completed", g) /\ UNCHANGED commits
  /\ UNCHANGED <<sessionVars, uploadVars, offered, cancelling, ending>>

DownloadCanceled(g) ==
  /\ chrome[g] = "running" /\ Listening
  /\ chrome' = [chrome EXCEPT ![g] = "removing"]
  /\ downloadBytes' = [downloadBytes EXCEPT ![g] = None]
  /\ sources' = sources \ {g}
  /\ AbortSink({g})
  /\ UNCHANGED <<sessionVars, chainVars, uploadVars, commits, offered, cancelling, ending>>

\* Mutant: the last progress event does not reach the sink.
RemoveEndsSilently(g) ==
  /\ chrome[g] = "removing"
  /\ chrome' = [chrome EXCEPT ![g] = "removed"]
  /\ downloadBytes' = [downloadBytes EXCEPT ![g] = None]
  /\ sources' = sources \ {g}
  /\ UNCHANGED <<sessionVars, chainVars, uploadVars, commits, offered, cancelling, ending,
                 held, aborts, outcome>>

\* removeDownload of the controller ends, with a last progress event.
RemoveEnds(g) ==
  /\ chrome[g] = "removing"
  /\ chrome' = [chrome EXCEPT ![g] = "removed"]
  /\ downloadBytes' = [downloadBytes EXCEPT ![g] = None]
  /\ sources' = sources \ {g}
  /\ AbortSink({g})
  /\ UNCHANGED <<sessionVars, chainVars, uploadVars, commits, offered, cancelling, ending>>

\* downloadSink.abort settles.
SinkAborted(g) ==
  /\ g \in aborts /\ aborts' = aborts \ {g}
  /\ UNCHANGED <<sessionVars, chainVars, uploadVars, chrome, downloadBytes, sources, held, outcome,
                 commits, offered, cancelling, ending>>

\* #handleDownloadCompleted with a sink: the file is looked at, committed ...
CommitStarts(g) ==
  /\ commits[g] = "stat"
  /\ \/ /\ chrome[g] \in {"done", "removing"}
        /\ commits' = [commits EXCEPT ![g] = "commit"]
        /\ outcome' = [outcome EXCEPT ![g] = @ \cup {"committing"}]
        /\ UNCHANGED <<chrome, downloadBytes, sources, held, aborts>>
     \/ chrome[g] # "done" /\ commits' = [commits EXCEPT ![g] = "remove"] /\ Remove({g}, Tracked)
  /\ UNCHANGED <<sessionVars, chainVars, uploadVars, offered, cancelling, ending>>

\* Mutant: a committed reservation is not forgotten.
CommittedHeld(g) ==
  /\ commits[g] = "commit"
  /\ commits' = [commits EXCEPT ![g] = "remove"]
  /\ outcome' = [outcome EXCEPT ![g] = {"committed"}]
  /\ chrome' = [chrome EXCEPT ![g] = IF g \in Tracked THEN "removing" ELSE @]
  /\ sources' = sources \ {g}
  /\ UNCHANGED <<sessionVars, chainVars, uploadVars, offered, cancelling, ending, aborts, downloadBytes, held>>

\* ... and removed: a committed one is no reservation of the sink any more.
Committed(g) ==
  /\ commits[g] = "commit"
  /\ commits' = [commits EXCEPT ![g] = "remove"]
  /\ outcome' = [outcome EXCEPT ![g] = @ \cup {"committed"}]
  /\ held' = held \ {g}
  /\ chrome' = [chrome EXCEPT ![g] = IF g \in Tracked THEN "removing" ELSE @]
  /\ sources' = sources \ {g}
  /\ downloadBytes' = [downloadBytes EXCEPT ![g] = IF g \in Tracked THEN @ ELSE None]
  /\ UNCHANGED <<sessionVars, chainVars, uploadVars, offered, cancelling, ending, aborts>>

CommitFails(g) ==
  /\ commits[g] = "commit"
  /\ commits' = [commits EXCEPT ![g] = "remove"]
  /\ chrome' = [chrome EXCEPT ![g] = IF g \in Tracked THEN "removing" ELSE @]
  /\ sources' = sources \ {g}
  /\ downloadBytes' = [downloadBytes EXCEPT ![g] = IF g \in Tracked THEN @ ELSE None]
  /\ outcome' = [outcome EXCEPT ![g] = (@ \ {"committing"})
                                        \cup (IF g \in held \ Tracked THEN {"aborted"} ELSE {})]
  /\ held' = IF g \in Tracked THEN held ELSE held \ {g}
  /\ aborts' = IF g \in held \ Tracked THEN aborts \cup {g} ELSE aborts
  /\ UNCHANGED <<sessionVars, chainVars, uploadVars, offered, cancelling, ending>>

CommitSettles(g) ==
  /\ commits[g] = "remove" /\ Removed({g})
  /\ commits' = [commits EXCEPT ![g] = "no"]
  /\ UNCHANGED <<sessionVars, chainVars, uploadVars, removalVars, offered, cancelling, ending>>

\* #handleDownloadCompleted without a sink, at the head of the chain
CompletedStarts ==
  /\ At("completed", "start")
  /\ LET g == chain[1].arg IN
       \/ Reserve(g, Size[g]) /\ UNCHANGED chrome /\ Await("stat")
       \/ ~(Allowed /\ WithinLimits(g, Size[g])) /\ Remove({g}, Tracked) /\ Pop
  /\ UNCHANGED <<sessionVars, uploadVars, commits, offered, cancelling, ending>>

\* The offer is made to the generation of the moment.
DownloadOffered ==
  /\ At("completed", "stat")
  /\ chrome[chain[1].arg] \in {"done", "removing"}
  /\ offered' = [offered EXCEPT ![chain[1].arg] = [at |-> "offered", generation |-> generation]]
  /\ Pop
  /\ UNCHANGED <<sessionVars, uploadVars, removalVars, commits, cancelling, ending>>

DownloadIncomplete ==
  /\ At("completed", "stat")
  /\ Remove({chain[1].arg}, Tracked) /\ Await("remove")
  /\ UNCHANGED <<sessionVars, uploadVars, commits, offered, cancelling, ending>>

\* The file has been removed: stat fails with an error that is not the Session's
\* own, and handleControlError ends the Session.
DownloadVanished ==
  /\ At("completed", "stat") /\ chrome[chain[1].arg] \in {"removing", "removed"}
  /\ Pop
  /\ ending' = IF Closed THEN ending ELSE "commits"
  /\ UNCHANGED <<sessionVars, uploadVars, downloadVars, cancelling>>

HeadRemoved ==
  /\ step = "remove" /\ Removed({chain[1].arg})
  /\ Pop
  /\ UNCHANGED <<sessionVars, uploadVars, downloadVars, cancelling, ending>>

Active(g) == viewer /\ offered[g] # NoOffer /\ offered[g].generation = generation

DownloadAccepted ==
  /\ At("accept", "start") /\ ~Closed
  /\ LET g == chain[1].arg IN
       offered' = IF Active(g) /\ "download" \in grants THEN [offered EXCEPT ![g].at = "streaming"] ELSE offered
  /\ Pop
  /\ UNCHANGED <<sessionVars, uploadVars, removalVars, commits, cancelling, ending>>

\* The Viewer reports the download received, or cancels it.
DownloadResult ==
  /\ At("result", "start") /\ ~Closed
  /\ LET g == chain[1].arg IN
       \/ Active(g) /\ Withdraw({g}) /\ Remove({g}, Tracked) /\ Await("remove")
       \/ ~Active(g) /\ Pop /\ UNCHANGED <<removalVars, offered>>
  /\ UNCHANGED <<sessionVars, uploadVars, commits, cancelling, ending>>

\* The offer expires, or its stream fails.
OfferExpires(g) ==
  /\ offered[g] # NoOffer
  /\ Withdraw({g}) /\ Remove({g}, Tracked)
  /\ UNCHANGED <<sessionVars, chainVars, uploadVars, commits, cancelling, ending>>

HeadDownloads ==
  \/ CompletedStarts \/ DownloadOffered \/ DownloadIncomplete \/ DownloadVanished
  \/ HeadRemoved \/ DownloadAccepted \/ DownloadResult

Download(g) ==
  \/ DownloadBegins(g) \/ DownloadProgresses(g) \/ DownloadCompletes(g) \/ DownloadCanceled(g)
  \/ RemoveEnds(g) \/ SinkAborted(g) \/ CommitStarts(g) \/ Committed(g) \/ CommitFails(g)
  \/ CommitSettles(g) \/ OfferExpires(g)

-----------------------------------------------------------------------------
(* The Viewer, the Embedder and the end of the Session.                    *)

\* An offer is not made twice; a chooser waits for the page.
ViewerSends(op, arg) ==
  /\ viewer /\ ~Closed /\ Room
  /\ op = "offer" => upload[arg] = "none" /\ ~\E i \in DOMAIN chain : chain[i] = [op |-> op, arg |-> arg]
  /\ op \in {"chunk", "complete"} => upload[arg] # "none"
  /\ op \in DownloadOps => offered[arg] # NoOffer
  /\ Enqueue(op, arg)
  /\ UNCHANGED <<sessionVars, uploadVars, downloadVars, cancelling, ending>>

ChooserOpened ==
  /\ Listening /\ Room
  /\ Enqueue("chooser", None)
  /\ UNCHANGED <<sessionVars, uploadVars, downloadVars, cancelling, ending>>

\* peer-left
ViewerLeaves ==
  /\ viewer /\ ~Closed /\ Room
  /\ viewer' = FALSE
  /\ Enqueue("departed", None)
  /\ UNCHANGED <<sink, generation, takeover, grants, uploadVars, downloadVars, cancelling, ending>>

\* The hello of the Viewer waits behind a cancellation.
ViewerReturns ==
  /\ ~viewer /\ ~Closed /\ takeover = "no"
  /\ \A i \in DOMAIN chain : chain[i].op # "departed"
  /\ viewer' = TRUE
  /\ UNCHANGED <<sink, generation, takeover, grants, chainVars, uploadVars, downloadVars, cancelling, ending>>

\* createViewerTicket: the flow is cancelled in the chain; then the generation.
TakeoverStarts ==
  /\ takeover = "no" /\ ~Closed /\ generation < MaxGeneration /\ Room
  /\ takeover' = "queued"
  /\ Enqueue("takeover", None)
  /\ UNCHANGED <<sink, viewer, generation, grants, uploadVars, downloadVars, cancelling, ending>>

ViewerReplaced ==
  /\ takeover = "drained"
  /\ takeover' = "no" /\ viewer' = FALSE /\ generation' = generation + 1
  /\ UNCHANGED <<sink, grants, chainVars, uploadVars, downloadVars, cancelling, ending>>

\* updateCapabilities
RevokeUpload ==
  /\ "upload" \in grants /\ ~Closed /\ Room
  /\ grants' = grants \ {"upload"}
  /\ Enqueue("revoked", None)
  /\ UNCHANGED <<sink, viewer, generation, takeover, uploadVars, downloadVars, cancelling, ending>>

RevokeDownload ==
  /\ "download" \in grants /\ ~Closed /\ cancelling["revocation"] = Idle
  /\ grants' = grants \ {"download"}
  /\ Stage("revocation", "commits", Committing)
  /\ UNCHANGED <<sink, viewer, generation, takeover, chainVars, uploadVars, downloadVars, ending>>

GrantDownload ==
  /\ "download" \notin grants /\ ~Closed
  /\ Regrants \/ cancelling["revocation"] = Idle
  /\ grants' = grants \cup {"download"}
  /\ UNCHANGED <<sink, viewer, generation, takeover, chainVars, uploadVars, downloadVars, cancelling, ending>>

Close ==
  /\ ~Closed /\ ending' = "commits"
  /\ UNCHANGED <<sessionVars, chainVars, uploadVars, downloadVars, cancelling>>

\* #cleanup: completed files are committed, the flow is cancelled, ...
CleanupCancels ==
  /\ ending = "commits" /\ Committing = {}
  /\ ending' = "flow"
  /\ CancelFileFlow("cleanup")
  /\ UNCHANGED <<sessionVars, chainVars, downloadVars>>

\* ... the controller removes what it still tracks, and the storage its files.
TabCloses ==
  /\ ending = "tab" /\ ending' = "storage"
  /\ chrome' = [g \in Guids |-> IF g \in Tracked THEN "removed" ELSE chrome[g]]
  /\ UNCHANGED <<sessionVars, chainVars, uploadVars, cancelling, downloadBytes, sources, held, aborts,
                 outcome, commits, offered>>

StorageCleaned ==
  /\ ending = "storage" /\ ending' = "disposed"
  /\ UNCHANGED <<sessionVars, chainVars, uploadVars, downloadVars, cancelling>>

Cleanup == CleanupCancels \/ TabCloses \/ StorageCleaned

Next ==
  \/ HeadUploads \/ HeadDownloads
  \/ \E c \in Callers : CancelSteps(c)
  \/ \E o \in Offers : UploadAborted(o)
  \/ UploadExpires \/ ChooserExpires
  \/ \E g \in Guids : Download(g)
  \/ \E op \in ViewerOps, o \in Offers : ViewerSends(op, o)
  \/ \E op \in DownloadOps, g \in Guids : ViewerSends(op, g)
  \/ ChooserOpened \/ ViewerLeaves \/ ViewerReturns \/ TakeoverStarts \/ ViewerReplaced
  \/ RevokeUpload \/ RevokeDownload \/ GrantDownload \/ Close \/ Cleanup

\* What is due outside the control chain: awaits of the storage, the sink and
\* Chrome, which settle, the cleanup, and the timer of an upload.
Due ==
  \/ Cleanup \/ UploadExpires
  \/ \E c \in Callers \ {"chain"} : CancelSteps(c)
  \/ \E o \in Offers : UploadAborted(o)
  \/ \E g \in Guids : \/ RemoveEnds(g) \/ SinkAborted(g)
                      \/ CommitStarts(g) \/ Committed(g) \/ CommitFails(g) \/ CommitSettles(g)

\* The event loop idles neither the control chain nor what is due beside it.
\* Nothing is assumed of the other timers, of the Viewer or of takeovers.
Fairness ==
  /\ WF_vars(HeadUploads \/ HeadDownloads \/ CancelSteps("chain"))
  /\ WF_vars(Due)

Spec == Init /\ [][Next]_vars /\ Fairness

-----------------------------------------------------------------------------
Charged == {o \in Offers : upload[o] \in {"reserving", "undoing", "active", "aborting", "delivered"}}

\* The temporary budget counts exactly the uploads that hold or may still write
\* files, and only downloads that Chrome still has on disk; while the Session
\* lives, every one of those (#uploadReservedBytes, #downloadReservedBytes).
BytesAccounted ==
  /\ uploadBytes = SumOf(Bytes, Charged)
  /\ \A g \in Reserved : \/ chrome[g] \in {"running", "done", "removing"}
                          \/ (At("completed", "stat") /\ chain[1].arg = g)
                          \/ Closed
  /\ \A g \in Guids : chrome[g] \in {"running", "done"} => g \in Reserved

\* Concurrent uploads and downloads never exceed the budget they share.
QuotaRespected ==
  /\ TemporaryBytes <= MaxTemporary
  /\ Cardinality(Reserved) <= MaxFiles

\* The bytes of the budget are those of files that may exist, and within bounds.
Consistent == TypeOK /\ BytesAccounted /\ QuotaRespected

\* The sink is never told to abort a download it is committing or has committed.
SinkSettled ==
  \A g \in Guids : "aborted" \in outcome[g] => outcome[g] \cap {"committing", "committed"} = {}

\* Once a Session is being closed, it is disposed of, with every reservation of
\* the sink settled, every download removed and no upload left open.
EverythingReleased ==
  Closed ~> /\ ending = "disposed" /\ held = {} /\ aborts = {} /\ Tracked = {}
            /\ \A o \in Offers : upload[o] \in {"none", "gone", "delivered"}
=============================================================================
