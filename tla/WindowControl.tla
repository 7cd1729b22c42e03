---------------------------- MODULE WindowControl ----------------------------
(***************************************************************************)
(* The control chain of a Core Session and the selection of its windows    *)
(* (packages/core/src/session.ts): commands of the Viewer and events of    *)
(* the browser wait in one chain; a selection replaces the capture of the  *)
(* media runtime and then commits the active window; a child that closes,  *)
(* a capture that ends, a revocation and a takeover interfere.  SUSPENDED, *)
(* in which windows are selected and input is refused, is in CoreSession.  *)
(***************************************************************************)
EXTENDS Naturals, Sequences, SequencesExt

CONSTANTS
  Children,       \* the windows of the Session besides its main one
  MaxGeneration,  \* bound: takeovers
  MaxCommands,    \* bound: what the Viewer and the browser put in the chain
  None

ASSUME WindowControlAssumption ==
  /\ None \notin Children \cup {"main"} /\ "main" \notin Children
  /\ MaxGeneration \in Nat \ {0} /\ MaxCommands \in Nat

Windows == Children \cup {"main"}

VARIABLES
  state,        \* of the Session; AWAY stands for READY, NEGOTIATING and RECONNECTING
  generation,   \* #viewerGeneration
  takeover,     \* how far createViewerTicket is, and the grant it asks for
  capable,      \* windowSelection is in #capabilities
  granted,      \* ... and in #viewerCapabilities
  active,       \* #activeTab
  owned,        \* the children that exist
  switching,    \* #windowSwitching
  recovering,   \* #windowRecoveryQueued
  revision,     \* #windowRevision
  captured,     \* #captureRevision
  ended,        \* #endedCaptureRevision
  queue,        \* #controlChain: what has not begun
  selection,    \* #selectWindow, under way at the head of the chain
  capture,      \* what the media runtime captures
  endings,      \* capture-ended signals under way, in order
  shown,        \* the states of the windows this Viewer was told of
  arrived,      \* how much was put in the chain
  hit           \* the last input that was dispatched

chainVars == <<queue, arrived>>
captureVars == <<captured, ended, capture, endings>>
grantVars == <<generation, takeover, capable, granted>>
windowVars == <<active, switching, recovering, revision, shown>>
vars == <<state, grantVars, windowVars, owned, chainVars, selection, captureVars, hit>>

-----------------------------------------------------------------------------
Views == [revision : Nat, window : Windows]
Inputs == [op : {"button", "hover"}, at : Nat, generation : Nat, view : Views \cup {None}]
Commands == [op : {"select", "close"}, generation : Nat, view : Views, target : Windows]
Others == [op : {"hello", "recover", "return", "flush", "event"}]
Selections == [op : {"select", "close", "recover", "return"}, target : Windows, left : Windows,
               generation : Nat, revision : Nat, step : {"prepare", "replace", "replaced"}]
Captures == [window : Windows, revision : Nat, live : BOOLEAN]

ASSUME NoneAssumption == None \notin Selections \cup Captures

TypeOK ==
  /\ state \in {"CONNECTED", "AWAY", "FAILED"}
  /\ generation \in 1 .. MaxGeneration
  /\ takeover \in [step : {"no", "drain", "stop", "stopped"}, grant : BOOLEAN]
  /\ {capable, granted, switching, recovering} \subseteq BOOLEAN
  /\ active \in Windows /\ owned \subseteq Children
  /\ {revision, captured} \subseteq Nat /\ ended \in Nat \cup {None}
  /\ queue \in Seq(Inputs \cup Commands \cup Others)
  /\ selection \in Selections \cup {None}
  /\ capture \in Captures \cup {None}
  /\ endings \in Seq(Nat) /\ shown \subseteq Views
  /\ arrived \in Nat
  /\ hit \in [at : Nat, aim : Windows \cup {None}, window : Windows, checked : BOOLEAN]

\* A Viewer that may select windows is connected and sees the main window.
Init ==
  /\ state = "CONNECTED" /\ generation = 1
  /\ takeover = [step |-> "no", grant |-> FALSE]
  /\ capable = TRUE /\ granted = TRUE
  /\ active = "main" /\ owned = Children /\ switching = FALSE /\ recovering = FALSE
  /\ revision = 0 /\ captured = 0 /\ ended = None
  /\ queue = <<>> /\ selection = None
  /\ capture = [window |-> "main", revision |-> 0, live |-> TRUE] /\ endings = <<>>
  /\ shown = {[revision |-> 0, window |-> "main"]}
  /\ arrived = 0 /\ hit = [at |-> 0, aim |-> None, window |-> "main", checked |-> FALSE]

-----------------------------------------------------------------------------
Fails ==
  /\ state' = "FAILED" /\ queue' = <<>> /\ selection' = None
  /\ capture' = None /\ endings' = <<>> /\ switching' = FALSE /\ recovering' = FALSE
  /\ takeover' = [takeover EXCEPT !.step = "no"]
  /\ UNCHANGED <<generation, capable, granted, active, owned, revision, captured, ended, shown, arrived, hit>>

Exists(w) == w \in owned \cup {"main"}

\* #queueWindowRecovery
RecoversTo(chain) ==
  IF active = "main" \/ switching \/ recovering
    THEN queue' = chain /\ UNCHANGED <<switching, recovering>>
    ELSE /\ queue' = Append(chain, [op |-> "recover"])
         /\ switching' = TRUE /\ recovering' = TRUE

\* A window is closed: its capture ends, and the controller reports it.
Closes(w) ==
  /\ owned' = owned \ {w}
  /\ IF capture # None /\ capture.window = w /\ capture.live
       THEN /\ capture' = [capture EXCEPT !.live = FALSE]
            /\ endings' = Append(endings, capture.revision)
       ELSE UNCHANGED <<capture, endings>>

ChildCloses(w) ==
  /\ state # "FAILED" /\ w \in owned
  /\ Closes(w)
  /\ IF active = w THEN RecoversTo(queue) ELSE UNCHANGED <<queue, switching, recovering>>
  /\ UNCHANGED <<state, grantVars, active, revision, shown, arrived, selection, captured, ended, hit>>

\* The capture may also end by itself.
CaptureEnds ==
  /\ capture # None /\ capture.live
  /\ capture' = [capture EXCEPT !.live = FALSE]
  /\ endings' = Append(endings, capture.revision)
  /\ UNCHANGED <<state, grantVars, windowVars, owned, chainVars, selection, captured, ended, hit>>

\* #handleMediaSignal, capture-ended
CaptureEnded ==
  /\ state # "FAILED" /\ endings # <<>>
  /\ IF Head(endings) = captured /\ active = "main" THEN Fails
     ELSE /\ ended' = Head(endings) /\ endings' = Tail(endings)
          /\ IF Head(endings) = captured THEN RecoversTo(queue) ELSE UNCHANGED <<queue, switching, recovering>>
          /\ UNCHANGED <<state, grantVars, owned, active, revision, shown, arrived, selection, captured, capture, hit>>

-----------------------------------------------------------------------------
\* What reaches the chain, in the order of arrival.
Queued(c) ==
  /\ queue' = Append(queue, c)
  /\ arrived' = arrived + 1
  /\ UNCHANGED <<state, grantVars, windowVars, owned, selection, captureVars, hit>>

ViewerSends == state = "CONNECTED" /\ capture # None /\ arrived < MaxCommands

\* The Viewer stamps a command with a state of the windows it was told of.
Stamps == IF granted THEN shown ELSE {None}

Input(op, v) == [op |-> op, at |-> arrived + 1, generation |-> generation, view |-> v]
Command(op, v, w) == [op |-> op, generation |-> generation, view |-> v, target |-> w]

ButtonArrives == ViewerSends /\ \E v \in Stamps : Queued(Input("button", v))

\* Mutant: the slot of a hover is replaced wherever it waits.
HoverOvertakes ==
  /\ ViewerSends
  /\ \E v \in Stamps :
       \/ Queued(Input("hover", v))
       \/ \E i \in 1 .. Len(queue) :
            /\ queue[i].op = "hover" /\ queue[i].view = v /\ queue[i].generation = generation
            /\ queue' = [queue EXCEPT ![i].at = arrived + 1]
            /\ arrived' = arrived + 1
            /\ UNCHANGED <<state, grantVars, windowVars, owned, selection, captureVars, hit>>

\* Only the latest of the hovers at the end of the chain is kept.
HoverArrives ==
  /\ ViewerSends
  /\ \E v \in Stamps :
       LET merges == /\ queue # <<>> /\ Last(queue).op = "hover"
                     /\ Last(queue).view = v /\ Last(queue).generation = generation
       IN  \/ Queued(Input("hover", v))
           \/ /\ merges
              /\ queue' = [queue EXCEPT ![Len(queue)].at = arrived + 1]
              /\ arrived' = arrived + 1
              /\ UNCHANGED <<state, grantVars, windowVars, owned, selection, captureVars, hit>>

SelectArrives ==
  /\ ViewerSends /\ granted
  /\ \E v \in shown, w \in Windows :
       \/ Queued(Command("select", v, w))
       \/ Queued(Command("close", v, "main"))

\* The browser reports a file chooser, a popup or a download.
EventArrives == state # "FAILED" /\ arrived < MaxCommands /\ Queued([op |-> "event"])

\* updateCapabilities takes windowSelection away.
Revoked ==
  /\ state # "FAILED" /\ capable /\ arrived < MaxCommands
  /\ \A i \in 1 .. Len(queue) : queue[i].op # "return"
  /\ selection # None => selection.op # "return"
  /\ IF granted THEN Queued([op |-> "return"])
     ELSE /\ capable' = FALSE
          /\ UNCHANGED <<state, generation, takeover, granted, windowVars, owned, chainVars, selection, captureVars, hit>>

-----------------------------------------------------------------------------
Idle == state # "FAILED" /\ selection = None /\ queue # <<>>
Begins(op) == Idle /\ Head(queue).op = op /\ queue' = Tail(queue)

\* Mutant: the revision of the windows is not compared.
AcceptedUnrevised(c) ==
  /\ state = "CONNECTED" /\ c.generation = generation
  /\ granted => ~switching

\* #handleControl: the command is of this Viewer and of the windows it sees.
Accepted(c) ==
  /\ state = "CONNECTED" /\ c.generation = generation
  /\ granted => ~switching /\ c.view # None /\ c.view.revision = revision

Dispatches ==
  /\ \E op \in {"button", "hover"} : Begins(op)
  /\ LET c == Head(queue) IN
     hit' = IF Accepted(c)
              THEN [at |-> c.at, aim |-> IF c.view = None THEN None ELSE c.view.window,
                    window |-> active, checked |-> granted]
              ELSE hit
  /\ UNCHANGED <<state, grantVars, windowVars, owned, arrived, selection, captureVars>>

Passes ==
  /\ Begins("event")
  /\ UNCHANGED <<state, grantVars, windowVars, owned, arrived, selection, captureVars, hit>>

\* #selectWindow
Selects(op, w) ==
  /\ switching' = TRUE /\ revision' = revision + 1
  /\ selection' = [op |-> op, target |-> w, left |-> active, generation |-> generation,
                   revision |-> revision + 1, step |-> "prepare"]
  /\ UNCHANGED <<state, grantVars, active, shown, owned, arrived, captureVars, hit>>

\* window.select, window.close
SelectionBegins ==
  \E op \in {"select", "close"} :
    /\ Begins(op)
    /\ LET c == Head(queue)
           selects == Accepted(c) /\ granted /\ capable /\ c.target # active
       IN  \/ selects /\ Selects(op, c.target) /\ UNCHANGED recovering
           \/ ~selects /\ UNCHANGED <<state, grantVars, windowVars, owned, arrived, selection, captureVars, hit>>

\* The queued return to the main window, which only an active Viewer can have.
RecoveryBegins ==
  /\ Idle /\ Head(queue).op = "recover"
  /\ IF state = "CONNECTED" /\ granted /\ capable
       THEN queue' = Tail(queue) /\ recovering' = FALSE /\ Selects("recover", "main")
       ELSE Fails

Withdraws == capable' = FALSE /\ granted' = FALSE

ReturnBegins ==
  /\ Begins("return")
  /\ IF active = "main" \/ state # "CONNECTED"
       THEN /\ Withdraws
            /\ UNCHANGED <<state, generation, takeover, windowVars, owned, arrived, selection, captureVars, hit>>
       ELSE Selects("return", "main") /\ UNCHANGED recovering

\* The target may be gone, and every await on the way may fail: the old window
\* stays, unless it is gone as well.
PreparationFails ==
  /\ selection # None /\ selection.step = "prepare"
  /\ IF \/ selection.op = "recover"
        \/ (~Exists(active) \/ ended = captured) /\ active = "main"
       THEN Fails
       ELSE /\ selection' = None
            /\ shown' = shown \cup {[revision |-> revision, window |-> active]}
            /\ IF Exists(active) /\ ended # captured
                 THEN switching' = FALSE /\ UNCHANGED <<queue, recovering>>
                 ELSE /\ switching' = ~recovering /\ recovering' = TRUE
                      /\ queue' = IF recovering THEN queue
                                  ELSE Append(queue, [op |-> "recover"])
            /\ UNCHANGED <<state, grantVars, active, revision, owned, arrived, captureVars, hit>>

\* A Viewer that was replaced meanwhile has its selection refused.
Prepared ==
  /\ selection # None /\ selection.step = "prepare"
  /\ selection.generation = generation /\ Exists(selection.target)
  /\ selection' = [selection EXCEPT !.step = "replace"]
  /\ UNCHANGED <<state, grantVars, windowVars, owned, chainVars, captureVars, hit>>

\* The media runtime replaces the capture, which may end before Core knows.
MediaReplaces ==
  /\ selection # None /\ selection.step = "replace"
  /\ capture # None /\ Exists(selection.target)
  /\ selection' = [selection EXCEPT !.step = "replaced"]
  /\ capture' = [window |-> selection.target, revision |-> revision, live |-> TRUE]
  /\ UNCHANGED <<state, grantVars, windowVars, owned, chainVars, captured, ended, endings, hit>>

ReplacementFails ==
  /\ selection # None /\ selection.step = "replace"
  /\ Fails

\* Mutant: the capture is not recorded as the one of this revision.
CommitsUnrecorded ==
  /\ active' = selection.target /\ switching' = FALSE /\ selection' = None
  /\ shown' = shown \cup {[revision |-> revision, window |-> selection.target]}
  /\ UNCHANGED <<state, grantVars, owned, recovering, revision, chainVars, captureVars, hit>>

\* The windows the Viewer is told of: the new one, or none when it lost the grant.
Commits ==
  /\ captured' = revision /\ active' = selection.target /\ switching' = FALSE
  /\ selection' = None
  /\ IF selection.op = "return" THEN Withdraws ELSE UNCHANGED <<capable, granted>>
  /\ IF selection.op = "close"
       THEN \E gone \in {{}, {selection.left}} : owned' = owned \ gone
       ELSE UNCHANGED owned
  /\ shown' = shown \cup {[revision |-> revision, window |-> selection.target]}
  /\ UNCHANGED <<state, generation, takeover, recovering, revision, chainVars, ended, capture, endings, hit>>

SelectionCommits ==
  /\ selection # None /\ selection.step = "replaced"
  /\ IF ended = revision \/ ~Exists(selection.target) THEN Fails ELSE Commits

-----------------------------------------------------------------------------
\* createViewerTicket: the chain is drained, the media runtime stopped, ...
TakeoverBegins ==
  /\ state # "FAILED" /\ takeover.step = "no" /\ generation < MaxGeneration
  /\ \E grant \in BOOLEAN : (grant => capable) /\ takeover' = [step |-> "drain", grant |-> grant]
  /\ queue' = Append(queue, [op |-> "flush"])
  /\ UNCHANGED <<state, generation, capable, granted, windowVars, owned, arrived, selection, captureVars, hit>>

Drained ==
  /\ Begins("flush")
  /\ takeover' = [takeover EXCEPT !.step = "stop"]
  /\ UNCHANGED <<state, generation, capable, granted, windowVars, owned, arrived, selection, captureVars, hit>>

MediaStops ==
  /\ takeover.step = "stop"
  /\ takeover' = [takeover EXCEPT !.step = "stopped"] /\ capture' = None
  /\ UNCHANGED <<state, generation, capable, granted, windowVars, owned, chainVars, selection, captured,
                 ended, endings, hit>>

\* ... and the next generation assigned, at the main window unless it may select
\* others.  The media runtime answered before it reported to be stopped.
TakeoverCommits ==
  /\ takeover.step = "stopped" /\ endings = <<>>
  /\ selection # None => selection.step = "prepare"
  /\ generation' = generation + 1 /\ state' = "AWAY"
  /\ takeover' = [takeover EXCEPT !.step = "no"] /\ granted' = takeover.grant
  /\ shown' = {}
  /\ IF takeover.grant \/ active = "main" THEN UNCHANGED <<active, revision, switching>>
     ELSE /\ active' = "main" /\ revision' = revision + 1 /\ switching' = FALSE
  /\ UNCHANGED <<capable, recovering, owned, chainVars, selection, captureVars, hit>>

\* The pairing of the new Viewer starts the capture of the active window, ...
MediaStarts ==
  /\ state = "AWAY" /\ takeover.step = "no" /\ capture = None /\ Exists(active)
  /\ capture' = [window |-> active, revision |-> revision, live |-> TRUE]
  /\ captured' = revision /\ ended' = None
  /\ UNCHANGED <<state, grantVars, windowVars, owned, chainVars, selection, endings, hit>>

\* ... and its hello connects it.
HelloArrives ==
  /\ state = "AWAY" /\ takeover.step = "no" /\ capture # None
  /\ \A i \in 1 .. Len(queue) : queue[i].op # "hello"
  /\ queue' = Append(queue, [op |-> "hello"])
  /\ UNCHANGED <<state, grantVars, windowVars, owned, arrived, selection, captureVars, hit>>

AcceptsHello ==
  /\ Begins("hello")
  /\ IF state = "AWAY" /\ capture # None
       THEN /\ state' = "CONNECTED" /\ granted' = (granted /\ capable)
            /\ shown' = IF granted /\ capable /\ ~switching
                          THEN {[revision |-> revision, window |-> active]} ELSE {}
       ELSE UNCHANGED <<state, granted, shown>>
  /\ UNCHANGED <<generation, takeover, capable, active, switching, recovering, revision, owned, arrived,
                 selection, captureVars, hit>>

\* #handleViewerDeparture
ViewerLeaves ==
  /\ state = "CONNECTED" /\ takeover.step = "no" /\ arrived < MaxCommands
  /\ state' = "AWAY"
  /\ queue' = Append(queue, [op |-> "event"]) /\ arrived' = arrived + 1
  /\ UNCHANGED <<grantVars, windowVars, owned, selection, captureVars, hit>>

ChainStep ==
  \/ Dispatches \/ Passes \/ SelectionBegins \/ RecoveryBegins \/ ReturnBegins \/ Drained \/ AcceptsHello
  \/ PreparationFails \/ Prepared \/ MediaReplaces \/ ReplacementFails \/ SelectionCommits

Next ==
  \/ \E w \in Children : ChildCloses(w)
  \/ CaptureEnds \/ CaptureEnded
  \/ ButtonArrives \/ HoverArrives \/ SelectArrives \/ EventArrives \/ Revoked
  \/ ChainStep
  \/ TakeoverBegins \/ MediaStops \/ TakeoverCommits \/ MediaStarts \/ HelloArrives \/ ViewerLeaves

Spec == Init /\ [][Next]_vars

-----------------------------------------------------------------------------
\* Input reaches the window that the Viewer saw when it sent it, however many
\* selections were made meanwhile, while the windows are negotiated (#handleControl).
InputHitsWindowSeen == hit.checked => hit.aim = hit.window

\* So does input that was stamped before windowSelection was revoked and waits in
\* the chain behind the return to the main window (docs/design/04-control-protocol.md:
\* late packets cannot act on a successor window).  Core compares the revision only
\* while the grant holds: TLC refutes this when it is added to control.cfg.
RevokedInputHitsWindowSeen == hit.aim # None => hit.aim = hit.window

\* Commands are carried out in the order of their arrival: a hover is dropped for
\* a later one, and never overtakes what lies between.
InputInOrder == [][hit' # hit => hit'.at > hit.at]_vars

\* What a connected Viewer sees is the active window, at its revision, unless a
\* selection or a takeover is under way (#captureRevision).
CaptureFollowsSelection ==
  state = "CONNECTED" /\ ~switching /\ takeover.step = "no" =>
    /\ capture # None /\ capture.window = active /\ capture.revision = captured

\* When nothing is under way, the capture of a connected Session is live.
NoDeadCapture ==
  state = "CONNECTED" /\ queue = <<>> /\ selection = None /\ endings = <<>> /\ takeover.step = "no" =>
    capture.live /\ Exists(active)

\* The capture of a Session is live, and of the window that is active.
Consistent == TypeOK /\ CaptureFollowsSelection /\ NoDeadCapture
=============================================================================
