---------------------------- MODULE AttachRegistry ----------------------------
(***************************************************************************)
(* Who owns a Chrome page: RemoteTabCore.attachSession and closeSession of *)
(* session.ts with CdpBrowser.attachTab and the tab controller of cdp.ts.  *)
(* Attachments run concurrently and compare the page they want, and the    *)
(* popups it has opened, with what other attachments own, before and after *)
(* several awaits.  A failed attachment or a failed close keeps what it    *)
(* owns until its cleanup succeeds.                                        *)
(*                                                                         *)
(* A page is opened by another one or by Core, and its identity is never   *)
(* used again.  Chrome's target events reach every connected controller    *)
(* with the change: the checks that depend on them come several round      *)
(* trips later on a connection of their own.                               *)
(***************************************************************************)
EXTENDS FiniteSets

CONSTANTS
  Ids,        \* Session identities
  Targets,    \* bound: page targets that may ever exist
  Opener,     \* the page whose popup a target is; None for the others, and
              \* for an initial page whose opener is gone
  Initial,    \* pages open at the start
  Adoptable,  \* pages the Embedder may ask to adopt
  None

ASSUME AttachRegistryAssumption ==
  /\ Opener \in [Targets -> Targets \cup {None}]
  /\ Initial \subseteq Targets /\ Adoptable \subseteq Targets
  /\ \A t \in Initial : Opener[t] \in Initial \cup {None}
  /\ None \notin Targets \cup Ids

VARIABLES
  pages,               \* page targets of Chrome
  born,                \* those that have ever existed
  phase,               \* how far the attachment of an identity is
  attaching,           \* #attaching
  closing,             \* its cleanup promise: none, running, targets closed
  adopt,               \* input.tab.targetId, None to create a page
  root,                \* targetId of its controller, or of the page it created
  children,            \* #childTargets of its controller (provenTargets without one)
  listening,           \* its controller receives the target events
  reservations,        \* #targetReservations
  pendingAttachments,  \* #pendingAttachments
  owners,              \* #targetOwners
  bound,               \* #sessionTargets of the extension loopback
  strays,              \* history: popups opened behind the back of who held their
                       \* opener, who was disconnected, and what these have opened
  victims              \* history: pages a cleanup closed under another owner

vars == <<pages, born, phase, attaching, closing, adopt, root, children, listening,
          reservations, pendingAttachments, owners, bound, strays, victims>>

\* What Chrome has and what the controllers know of it; what Core remembers.
chromeVars == <<pages, born, children, listening, strays, victims>>
tableVars == <<reservations, pendingAttachments, owners, bound>>

-----------------------------------------------------------------------------
\* #pendingCleanup by what is left to do: close the tree of a controller, the
\* page that was created, a failed attachment of CdpBrowser, or nothing.
CleanupPhases == {"closeTree", "closePage", "closeFailed", "closeNothing"}
Phases == {"none", "connect", "attach", "discover", "claimed", "owned", "session",
           "disposed", "abandon"} \cup CleanupPhases

Sessions == {id \in Ids : phase[id] = "session"}
PendingCleanup == {id \in Ids : phase[id] \in CleanupPhases}

TypeOK ==
  /\ pages \in SUBSET born /\ born \in SUBSET Targets
  /\ phase \in [Ids -> Phases]
  /\ attaching \in SUBSET Ids
  /\ closing \in [Ids -> {"no", "running", "closed"}]
  /\ adopt \in [Ids -> Targets \cup {None}]
  /\ root \in [Ids -> Targets \cup {None}]
  /\ children \in [Ids -> SUBSET Targets]
  /\ listening \in SUBSET Ids
  /\ reservations \in SUBSET Targets
  /\ pendingAttachments \in SUBSET Ids
  /\ owners \in [Targets -> Ids \cup {None}]
  /\ bound \in [Ids -> Targets \cup {None}]
  /\ strays \in SUBSET born /\ victims \in SUBSET Targets
  /\ \A id \in listening : root[id] # None

Init ==
  /\ pages = Initial /\ born = Initial
  /\ phase = [id \in Ids |-> "none"] /\ attaching = {}
  /\ closing = [id \in Ids |-> "no"]
  /\ adopt = [id \in Ids |-> None] /\ root = [id \in Ids |-> None]
  /\ children = [id \in Ids |-> {}] /\ listening = {}
  /\ reservations = {} /\ pendingAttachments = {}
  /\ owners = [t \in Targets |-> None] /\ bound = [id \in Ids |-> None]
  /\ strays = {} /\ victims = {}

-----------------------------------------------------------------------------
\* CdpTabController.ownsTarget
Owned(id) == ({root[id]} \ {None}) \cup children[id]

\* Mutant: attachments that have not become Sessions are not looked at.
SessionOwns(t, id) ==
  \/ \E other \in Sessions \ {id} : t \in Owned(other)
  \/ \E other \in Ids : phase[other] = "closeFailed" /\ t \in Owned(other)

\* The three sources both checks of attachSession consult: Sessions, pending
\* attachments, and the failed attachments behind pending cleanups.
ElsewhereOwned(t, id) ==
  \/ \E other \in (Sessions \cup pendingAttachments) \ {id} : t \in Owned(other)
  \/ \E other \in Ids : phase[other] = "closeFailed" /\ t \in Owned(other)

\* #rememberDescendants: the pages whose chain of openers leads to ancestry.
Descendants(ancestry) ==
  {t \in pages : \A found \in SUBSET pages :
     (\A u \in pages : Opener[u] \in ancestry \cup found => u \in found) => t \in found}

\* Target.targetDestroyed as the connected controllers see it.
WithoutPages(closed) ==
  [id \in Ids |-> IF id \in listening THEN children[id] \ closed ELSE children[id]]

\* ExtensionLoopbackServer.releaseTarget
ReleaseTarget(t) == bound' = [id \in Ids |-> IF bound[id] = t THEN None ELSE bound[id]]

-----------------------------------------------------------------------------
(* Attachment *)

\* attachSession up to its first await.  A refused call changes nothing.
Attach(id, t) ==
  /\ phase[id] = "none" /\ id \notin attaching
  /\ t # None => /\ t \in Adoptable
                 /\ owners[t] = None /\ t \notin reservations /\ ~ElsewhereOwned(t, id)
  /\ phase' = [phase EXCEPT ![id] = "connect"]
  /\ attaching' = attaching \cup {id}
  /\ adopt' = [adopt EXCEPT ![id] = t]
  /\ reservations' = reservations \cup ({t} \ {None})
  /\ UNCHANGED <<closing, root, chromeVars, pendingAttachments, owners, bound>>

\* The Extension is ready, the browser connected, and attachTab has found the
\* page or created one.
FindPage(id) ==
  /\ phase[id] = "connect"
  /\ \E t \in Targets :
       /\ IF adopt[id] = None
            THEN /\ t \notin born /\ Opener[t] = None
                 /\ pages' = pages \cup {t} /\ born' = born \cup {t}
            ELSE /\ t = adopt[id] /\ t \in pages
                 /\ UNCHANGED <<pages, born>>
       /\ root' = [root EXCEPT ![id] = t]
  /\ phase' = [phase EXCEPT ![id] = "attach"]
  /\ UNCHANGED <<attaching, closing, adopt, children, listening, tableVars, strays, victims>>

\* The page resolved to a tab; its controller listens before it takes a
\* snapshot of the popups.
CreateController(id) ==
  /\ phase[id] = "attach" /\ root[id] \in pages
  /\ phase' = [phase EXCEPT ![id] = "discover"]
  /\ listening' = listening \cup {id}
  /\ UNCHANGED <<pages, born, attaching, closing, adopt, root, children, tableVars, strays, victims>>

\* discoverChildren
Discovered(id) == (children[id] \cup Descendants({root[id]} \cup children[id])) \ {root[id]}

\* Mutant: only the page itself is compared again.
ConflictOnPage(id) ==
  (root[id] # adopt[id] /\ root[id] \in reservations) \/ ElsewhereOwned(root[id], id)

\* The second check, on the page and its popups.
Conflict(id) ==
  \E t \in {root[id]} \cup Discovered(id) :
    (t # adopt[id] /\ t \in reservations) \/ ElsewhereOwned(t, id)

Claim(id) ==
  /\ phase[id] = "discover" /\ root[id] \in pages /\ id \in listening
  /\ ~Conflict(id)
  /\ children' = [children EXCEPT ![id] = Discovered(id)]
  /\ pendingAttachments' = pendingAttachments \cup {id}
  /\ phase' = [phase EXCEPT ![id] = "claimed"]
  /\ UNCHANGED <<pages, born, attaching, closing, adopt, root, listening, reservations,
                 owners, bound, strays, victims>>

\* ownershipConflict: the cleanup detaches at once, and later closes the page
\* only if this attachment has created it.
LoseConflict(id) ==
  /\ phase[id] = "discover" /\ root[id] \in pages /\ id \in listening
  /\ Conflict(id)
  /\ children' = [children EXCEPT ![id] = {}]
  /\ listening' = listening \ {id}
  /\ phase' = [phase EXCEPT ![id] = IF adopt[id] = None THEN "closePage" ELSE "closeNothing"]
  /\ closing' = [closing EXCEPT ![id] = "running"]
  /\ UNCHANGED <<pages, born, attaching, adopt, root, tableVars, strays, victims>>

\* Navigation is intercepted; bindSession, then the owner is recorded.  That the
\* page has an owner cannot happen here: that owner would hold it (Conflict).
BindTarget(id) ==
  /\ phase[id] = "claimed" /\ root[id] \in pages /\ id \in listening
  /\ owners[root[id]] = None
  /\ bound' = [bound EXCEPT ![id] = root[id]]
  /\ owners' = [owners EXCEPT ![root[id]] = id]
  /\ phase' = [phase EXCEPT ![id] = "owned"]
  /\ UNCHANGED <<attaching, closing, adopt, root, chromeVars, reservations, pendingAttachments>>

Publish(id) ==
  /\ phase[id] = "owned" /\ root[id] \in pages /\ id \in listening
  /\ phase' = [phase EXCEPT ![id] = "session"]
  /\ UNCHANGED <<attaching, closing, adopt, root, chromeVars, tableVars>>

\* finally of #attachSession
Return(id) ==
  /\ attaching' = attaching \ {id}
  /\ reservations' = reservations \ {adopt[id]}
  /\ adopt' = [adopt EXCEPT ![id] = None]

\* The children and the page script are initialised, or that failed and the
\* close it starts is StartClose; the Session may be closed by then.
InitialisationEnds(id) ==
  /\ phase[id] \in {"session", "disposed"} /\ id \in attaching
  /\ Return(id)
  /\ pendingAttachments' = pendingAttachments \ {id}
  /\ IF phase[id] = "session" THEN UNCHANGED <<phase, root>>
     ELSE /\ phase' = [phase EXCEPT ![id] = "none"]
          /\ root' = [root EXCEPT ![id] = None]
  /\ UNCHANGED <<closing, chromeVars, owners, bound>>

-----------------------------------------------------------------------------
(* Failure of an attachment *)

\* Before there was a page, or attachTab gave an adopted page back.
FailBare(id) ==
  /\ phase[id] = "connect" \/ (phase[id] \in {"attach", "discover"} /\ adopt[id] # None)
  /\ phase' = [phase EXCEPT ![id] = "closeNothing"]
  /\ closing' = [closing EXCEPT ![id] = "running"]
  /\ children' = [children EXCEPT ![id] = {}]
  /\ listening' = listening \ {id}
  /\ root' = [root EXCEPT ![id] = None]
  /\ IF phase[id] = "discover" THEN ReleaseTarget(root[id]) ELSE UNCHANGED bound
  /\ UNCHANGED <<pages, born, attaching, adopt, reservations, pendingAttachments, owners,
                 strays, victims>>

\* Mutant: a failed attachTab forgets the page.
FailCreatedForgotten(id) ==
  /\ phase[id] \in {"attach", "discover"} /\ adopt[id] = None
  /\ phase' = [phase EXCEPT ![id] = "closeNothing"]
  /\ closing' = [closing EXCEPT ![id] = "running"]
  /\ root' = [root EXCEPT ![id] = None]
  /\ listening' = listening \ {id}
  /\ UNCHANGED <<pages, born, children, strays, victims, attaching, adopt, tableVars>>

\* attachTab keeps a page it has created in #failedAttachments and tries to
\* close it before it throws.
FailCreated(id) ==
  /\ phase[id] \in {"attach", "discover"} /\ adopt[id] = None
  /\ phase' = [phase EXCEPT ![id] = "abandon"]
  /\ closing' = [closing EXCEPT ![id] = "running"]
  /\ UNCHANGED <<attaching, adopt, root, chromeVars, tableVars>>

\* attachSession enters its cleanup; the controller is closed.
FailClaimed(id) ==
  /\ phase[id] \in {"claimed", "owned"}
  /\ phase' = [phase EXCEPT ![id] = "closeTree"]
  /\ closing' = [closing EXCEPT ![id] = "running"]
  /\ UNCHANGED <<attaching, adopt, root, chromeVars, tableVars>>

-----------------------------------------------------------------------------
(* Cleanup *)

\* Session.close, #fail, or closeSession
StartClose(id) ==
  /\ phase[id] = "session" /\ closing[id] = "no"
  /\ closing' = [closing EXCEPT ![id] = "running"]
  /\ UNCHANGED <<phase, attaching, adopt, root, chromeVars, tableVars>>

\* closeSession on an identity that awaits its cleanup
RetryCleanup(id) ==
  /\ id \in PendingCleanup /\ id \notin attaching /\ closing[id] = "no"
  /\ closing' = [closing EXCEPT ![id] = "running"]
  /\ UNCHANGED <<phase, attaching, adopt, root, chromeVars, tableVars>>

\* The pages a cleanup sets out to close.  A controller that lost its
\* connection, or never finished its snapshot, asks a new connection for the
\* descendants.
Condemned(id) ==
  CASE phase[id] = "closeNothing" -> {}
    [] phase[id] = "closePage" -> {root[id]}
    [] phase[id] \in {"abandon", "closeFailed"} -> Owned(id) \cup Descendants(Owned(id))
    [] OTHER -> Owned(id) \cup (IF id \in listening THEN {} ELSE Descendants(Owned(id)))

ClosePages(id, closed) ==
  /\ pages' = pages \ closed
  /\ children' = [WithoutPages(closed) EXCEPT
                    ![id] = IF phase[id] \in {"closeNothing", "closePage"} THEN {}
                            ELSE ((children[id] \cup Condemned(id)) \ closed) \ {root[id]}]
  /\ victims' = victims \cup {t \in closed \cap pages :
                                \E other \in (Sessions \cup pendingAttachments) \ {id} :
                                  t \in Owned(other)}

CloseTargets(id) ==
  /\ closing[id] = "running"
  /\ ClosePages(id, Condemned(id))
  /\ closing' = [closing EXCEPT ![id] = "closed"]
  /\ UNCHANGED <<born, phase, attaching, adopt, root, listening, tableVars, strays>>

\* The cleanup failed: what is owned stays owned, and a failed attachment is
\* handed from attachTab to the cleanup of attachSession, which tries at once.
Retain(id) ==
  /\ phase' = [phase EXCEPT ![id] = IF @ = "abandon" THEN "closeFailed" ELSE @]
  /\ closing' = [closing EXCEPT ![id] = IF phase[id] = "abandon" THEN "running" ELSE "no"]
  /\ IF id \in PendingCleanup /\ id \in attaching
       THEN Return(id) ELSE UNCHANGED <<attaching, reservations, adopt>>
  /\ UNCHANGED <<born, root, listening, pendingAttachments, owners, bound, strays>>

\* Chrome refuses some of the closes, cannot be reached, or a popup that opened
\* in the meantime still requires cleanup.
CloseRefused(id) ==
  /\ closing[id] = "running" /\ phase[id] # "closeNothing"
  /\ \/ \E closed \in SUBSET (Condemned(id) \cap pages) : ClosePages(id, closed)
     \/ UNCHANGED <<pages, children, victims>>
  /\ Retain(id)

\* The pages are closed, but the Session storage could not be cleaned.
StorageCleanupFails(id) ==
  /\ phase[id] = "session" /\ closing[id] = "closed"
  /\ UNCHANGED <<pages, children, victims>>
  /\ Retain(id)

Forget(id) ==
  /\ children' = [children EXCEPT ![id] = {}]
  /\ listening' = listening \ {id}
  /\ UNCHANGED <<pages, born, strays, victims>>

\* The owner's entry is deleted only if it is its own.
Disown(id) ==
  owners' = [t \in Targets |-> IF t = root[id] /\ owners[t] = id THEN None ELSE owners[t]]

\* The failed attachment is cleaned up; releaseTarget only if the page had
\* been resolved to a tab.
AbandonEnds(id) ==
  /\ phase[id] = "abandon" /\ closing[id] = "closed"
  /\ phase' = [phase EXCEPT ![id] = "closeNothing"]
  /\ closing' = [closing EXCEPT ![id] = "running"]
  /\ root' = [root EXCEPT ![id] = None]
  /\ ReleaseTarget(root[id]) \/ UNCHANGED bound
  /\ Forget(id)
  /\ UNCHANGED <<attaching, adopt, reservations, pendingAttachments, owners>>

\* cleanup.close of #attachSession ends.
CleanupEnds(id) ==
  /\ id \in PendingCleanup /\ closing[id] = "closed"
  /\ phase' = [phase EXCEPT ![id] = "none"]
  /\ closing' = [closing EXCEPT ![id] = "no"]
  /\ root' = [root EXCEPT ![id] = None]
  /\ ReleaseTarget(root[id]) \/ (phase[id] = "closeFailed" /\ UNCHANGED bound)
  /\ Disown(id)
  /\ pendingAttachments' = pendingAttachments \ {id}
  /\ IF id \in attaching THEN Return(id) ELSE UNCHANGED <<attaching, reservations, adopt>>
  /\ Forget(id)

\* onDisposed: releaseSession and releaseTarget.
Dispose(id) ==
  /\ phase[id] = "session" /\ closing[id] = "closed"
  /\ closing' = [closing EXCEPT ![id] = "no"]
  /\ bound' = [other \in Ids |->
                 IF other = id \/ bound[other] = root[id] THEN None ELSE bound[other]]
  /\ Disown(id)
  /\ IF id \in attaching
       THEN phase' = [phase EXCEPT ![id] = "disposed"] /\ UNCHANGED root
       ELSE phase' = [phase EXCEPT ![id] = "none"] /\ root' = [root EXCEPT ![id] = None]
  /\ Forget(id)
  /\ UNCHANGED <<attaching, adopt, reservations, pendingAttachments>>

-----------------------------------------------------------------------------
(* Chrome *)

\* The attachment created its page, which is about:blank until it is claimed.
Creating(id) ==
  \/ phase[id] \in {"abandon", "closeFailed", "closePage"}
  \/ phase[id] \in {"attach", "discover"} /\ adopt[id] = None

Blank(t) == \E id \in Ids : root[id] = t /\ Creating(id)

\* The controller of whoever holds the opener hears of its popup.
HeldPhases == {"claimed", "owned", "session", "closeTree"}
Seen(t) ==
  \A id \in Ids : phase[id] \in HeldPhases /\ Opener[t] \in Owned(id) => id \in listening

\* A page opens a popup; Target.targetCreated reaches who is connected.
OpenPopup(t) ==
  /\ t \notin born /\ Opener[t] \in pages /\ ~Blank(Opener[t])
  /\ pages' = pages \cup {t} /\ born' = born \cup {t}
  /\ children' = [id \in Ids |-> IF id \in listening /\ Opener[t] \in Owned(id)
                                   THEN children[id] \cup {t} ELSE children[id]]
  /\ strays' = IF Seen(t) /\ Opener[t] \notin strays THEN strays ELSE strays \cup {t}
  /\ UNCHANGED <<phase, attaching, closing, adopt, root, listening, tableVars, victims>>

\* A page goes by itself.  A Session that loses its page fails: StartClose.
PageGoes(t) ==
  /\ t \in pages
  /\ pages' = pages \ {t}
  /\ children' = WithoutPages({t})
  /\ UNCHANGED <<born, phase, attaching, closing, adopt, root, listening, tableVars, strays,
                 victims>>

\* A Session that does not retain popups, or whose Viewer closes one, closes a
\* page its controller owns.
CloseChild(id, t) ==
  /\ id \in Sessions /\ id \in listening /\ t \in children[id]
  /\ pages' = pages \ {t}
  /\ children' = WithoutPages({t})
  /\ victims' = victims \cup {u \in {t} : \E other \in (Sessions \cup pendingAttachments) \ {id} :
                                             u \in Owned(other)}
  /\ UNCHANGED <<born, phase, attaching, closing, adopt, root, listening, tableVars, strays>>

\* The CDP connection of an attachment is lost; what it knows grows stale.
LoseConnection(id) ==
  /\ id \in listening
  /\ listening' = listening \ {id}
  /\ UNCHANGED <<pages, born, phase, attaching, closing, adopt, root, children, tableVars, strays, victims>>

-----------------------------------------------------------------------------
AttachStep(id) ==
  \/ FindPage(id) \/ CreateController(id) \/ Claim(id) \/ LoseConflict(id)
  \/ BindTarget(id) \/ Publish(id) \/ InitialisationEnds(id)
  \/ FailBare(id) \/ FailCreated(id) \/ FailClaimed(id)

CleanupStep(id) ==
  \/ CloseTargets(id) \/ CloseRefused(id) \/ StorageCleanupFails(id)
  \/ AbandonEnds(id) \/ CleanupEnds(id) \/ Dispose(id)

Next ==
  \/ \E id \in Ids :
       \/ \E t \in Targets \cup {None} : Attach(id, t)
       \/ AttachStep(id) \/ StartClose(id) \/ RetryCleanup(id) \/ CleanupStep(id)
       \/ \E t \in Targets : CloseChild(id, t)
       \/ LoseConnection(id)
  \/ \E t \in Targets : OpenPopup(t) \/ PageGoes(t)

Spec == Init /\ [][Next]_vars

-----------------------------------------------------------------------------
(* Safety *)

\* A page belongs to one Session or pending attachment at a time, its popups
\* included, whichever of two attachments is overtaken by the other.  Two may hold
\* the same page only if it is a stray that one of them has missed because it was
\* disconnected: two that are connected share nothing.
ExclusiveOwnership ==
  \A id \in Sessions \cup pendingAttachments :
    \A other \in (Sessions \cup pendingAttachments) \ {id} :
      /\ Owned(id) \cap Owned(other) \subseteq strays
      /\ {id, other} \subseteq listening => Owned(id) \cap Owned(other) = {}

\* No cleanup closes a page that another Session owns, and no Session closes
\* another one's popup, unless it is a stray: whose cleanup asks a new connection
\* for the popups it has missed takes what they have become for its own
\* (closeTargets, closeChildTarget).
NoForeignClose == victims \subseteq strays

\* What the design asks, strays included: cleanup never closes another Session's
\* tab.
ForeignTabsSurvive == victims = {}

\* An entry of #targetOwners belongs to an identity that still has to close the
\* page: none is left behind by a failure, and no open Session lacks its own.
OwnersAccounted ==
  /\ \A t \in Targets : owners[t] # None =>
       root[owners[t]] = t /\ phase[owners[t]] \in {"owned", "session", "closeTree"}
  /\ \A id \in Ids : phase[id] \in {"owned", "session"} => owners[root[id]] = id

\* A reservation lives as long as the call that made it.
ReservationsReturned == reservations = {adopt[id] : id \in attaching} \ {None}

\* A page that Core has created is closed or is still somebody's to close: a
\* failed attachment can always be closed by its identity.
CreatedKept ==
  \A t \in pages \ Initial : Opener[t] = None =>
    \E id \in Ids : root[id] = t /\ phase[id] \notin {"none", "disposed"}

\* A Session keeps its route to the Extension runtime, whatever other
\* attachments release (releaseTarget, releaseSession).
SessionsBound == \A id \in Sessions : bound[id] = root[id]

\* While it is connected, a Session knows every popup its pages have opened,
\* those from before the attachment included.
PopupsKnown ==
  \A id \in Sessions \cap listening : Descendants(Owned(id)) \subseteq Owned(id)

\* What the tables of RemoteTabCore promise together, between any two awaits.
Consistent ==
  /\ TypeOK /\ OwnersAccounted /\ ReservationsReturned
  /\ CreatedKept /\ SessionsBound /\ PopupsKnown
=============================================================================
