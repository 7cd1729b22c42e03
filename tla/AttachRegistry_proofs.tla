------------------------ MODULE AttachRegistry_proofs ------------------------
(***************************************************************************)
(* Theorems about AttachRegistry, for every set of identities and pages.   *)
(***************************************************************************)
EXTENDS AttachRegistry, TLAPS

\* Descendants are pages, somebody has opened them, and there are none of
\* pages that have opened nothing.
LEMMA DescendantsArePages ==
  ASSUME NEW A
  PROVE  Descendants(A) \subseteq pages
  BY DEF Descendants

LEMMA DescendantsHaveOpeners ==
  ASSUME NEW A, None \notin A, None \notin pages, NEW t \in Descendants(A)
  PROVE  Opener[t] # None
<1> SUFFICES ASSUME Opener[t] = None PROVE FALSE
  OBVIOUS
<1> DEFINE found == pages \ {t}
<1>1. \A u \in pages : Opener[u] \in A \cup found => u \in found
  OBVIOUS
<1>2. t \in found
  BY <1>1 DEF Descendants
<1> QED BY <1>2

LEMMA NoPopupsNoDescendants ==
  ASSUME NEW A, \A u \in pages : Opener[u] \notin A
  PROVE  Descendants(A) = {}
<1> SUFFICES ASSUME NEW t \in Descendants(A) PROVE FALSE
  OBVIOUS
<1>1. \A u \in pages : Opener[u] \in A \cup {} => u \in {}
  OBVIOUS
<1>2. t \in {}
  BY <1>1 DEF Descendants
<1> QED BY <1>2

\* A and its descendants are closed under opening.
LEMMA DescendantsClosed ==
  ASSUME NEW A, NEW t \in pages, Opener[t] \in A \cup Descendants(A)
  PROVE  t \in Descendants(A)
<1> SUFFICES ASSUME NEW found \in SUBSET pages,
                    \A u \in pages : Opener[u] \in A \cup found => u \in found
             PROVE  t \in found
  BY DEF Descendants
<1>1. CASE Opener[t] \in A
  BY <1>1
<1>2. CASE Opener[t] \in Descendants(A)
  <2>1. Opener[t] \in found
    BY <1>2 DEF Descendants
  <2> QED BY <2>1
<1> QED BY <1>1, <1>2

\* A set that is closed under opening has no descendants outside.
LEMMA ClosedHasItsDescendants ==
  ASSUME NEW A, \A t \in pages : Opener[t] \in A => t \in A
  PROVE  Descendants(A) \subseteq A
<1> SUFFICES ASSUME NEW t \in Descendants(A) PROVE t \in A
  OBVIOUS
<1> DEFINE found == A \cap pages
<1>1. \A u \in pages : Opener[u] \in A \cup found => u \in found
  OBVIOUS
<1>2. found \in SUBSET pages
  OBVIOUS
<1>3. t \in found
  BY <1>1, <1>2 DEF Descendants
<1> QED BY <1>3

-----------------------------------------------------------------------------
\* Cleanup runs where there is something to clean up, a disposed Session has no
\* listening controller, and an attachment has its page from attachTab on.
CleanupShape ==
  \A id \in Ids :
    /\ closing[id] # "no" => phase[id] \in {"session", "abandon"} \cup CleanupPhases
    /\ phase[id] = "disposed" => id \notin listening
    /\ phase[id] \in {"attach", "discover", "claimed", "owned", "session", "abandon", "closeTree"}
         => root[id] # None

TypeInv == TypeOK /\ CleanupShape

LEMMA OwnedTypes ==
  ASSUME TypeOK, NEW id \in Ids
  PROVE  /\ Owned(id) \subseteq Targets /\ None \notin Owned(id)
         /\ Condemned(id) \subseteq Targets \cup {None}
         /\ Discovered(id) \subseteq children[id] \cup pages
<1>1. Owned(id) \subseteq Targets
  BY AttachRegistryAssumption DEF AttachRegistryAssumption, TypeOK, Owned
<1>2. Descendants(Owned(id)) \subseteq pages /\ Descendants({root[id]} \cup children[id]) \subseteq pages
  BY DescendantsArePages
<1>3. root[id] \in Targets \cup {None} /\ pages \subseteq Targets
  BY DEF TypeOK
<1>4. Condemned(id) \subseteq Owned(id) \cup Descendants(Owned(id)) \cup {root[id]}
  BY DEF Condemned
<1> QED BY <1>1, <1>2, <1>3, <1>4, AttachRegistryAssumption
        DEF AttachRegistryAssumption, Discovered

\* What closing pages does to a controller.
LEMMA ClosePagesFacts ==
  ASSUME TypeOK, NEW id \in Ids, NEW closed, ClosePages(id, closed),
         closed \subseteq Condemned(id)
  PROVE  /\ children' \in [Ids -> SUBSET Targets]
         /\ pages' = pages \ closed
         /\ \A other \in Ids \ {id} :
              children'[other] = IF other \in listening THEN children[other] \ closed
                                 ELSE children[other]
         /\ children'[id] = IF phase[id] \in {"closeNothing", "closePage"} THEN {}
                            ELSE ((children[id] \cup Condemned(id)) \ closed) \ {root[id]}
         /\ victims' \in SUBSET Targets
<1>1. children' = [other \in Ids |->
        IF other = id THEN IF phase[id] \in {"closeNothing", "closePage"} THEN {}
                           ELSE ((children[id] \cup Condemned(id)) \ closed) \ {root[id]}
        ELSE IF other \in listening THEN children[other] \ closed ELSE children[other]]
  BY DEF ClosePages, WithoutPages
<1>2. ((children[id] \cup Condemned(id)) \ closed) \ {root[id]} \subseteq Targets
  <2>1. Condemned(id) \subseteq Owned(id) \cup Descendants(Owned(id)) \cup {root[id]}
    BY DEF Condemned
  <2>2. Owned(id) \subseteq Targets /\ Descendants(Owned(id)) \subseteq pages
    BY OwnedTypes, DescendantsArePages
  <2>3. children[id] \subseteq Targets /\ pages \subseteq Targets
    BY DEF TypeOK
  <2> QED BY <2>1, <2>2, <2>3
<1>3. children' \in [Ids -> SUBSET Targets]
  BY <1>1, <1>2 DEF TypeOK
<1>4. victims' \in SUBSET Targets
  BY DEF ClosePages, TypeOK
<1>5. pages' = pages \ closed
  BY DEF ClosePages
<1> QED BY <1>1, <1>3, <1>4, <1>5

LEMMA InitType == Init => TypeInv
  BY AttachRegistryAssumption DEF AttachRegistryAssumption, Init, TypeInv, TypeOK,
     CleanupShape, Phases

LEMMA AttachStepType ==
  ASSUME TypeInv, NEW id \in Ids, AttachStep(id)
  PROVE  TypeInv'
<1> USE DEF TypeInv, CleanupShape, chromeVars, tableVars, Phases, CleanupPhases
<1>1. CASE FindPage(id)
  BY <1>1, AttachRegistryAssumption DEF TypeOK, FindPage, AttachRegistryAssumption
<1>2. CASE CreateController(id)
  BY <1>2, AttachRegistryAssumption DEF TypeOK, CreateController, AttachRegistryAssumption
<1>3. CASE Claim(id)
  <2>1. Discovered(id) \in SUBSET Targets
    BY OwnedTypes DEF TypeOK
  <2> QED BY <1>3, <2>1 DEF TypeOK, Claim
<1>4. CASE LoseConflict(id)
  BY <1>4 DEF TypeOK, LoseConflict
<1>5. CASE BindTarget(id)
  BY <1>5 DEF TypeOK, BindTarget
<1>6. CASE Publish(id)
  BY <1>6 DEF TypeOK, Publish
<1>7. CASE InitialisationEnds(id)
  BY <1>7 DEF TypeOK, InitialisationEnds, Return
<1>8. CASE FailBare(id)
  BY <1>8 DEF TypeOK, FailBare, ReleaseTarget
<1>9. CASE FailCreated(id)
  BY <1>9 DEF TypeOK, FailCreated
<1>10. CASE FailClaimed(id)
  BY <1>10 DEF TypeOK, FailClaimed
<1> QED BY <1>1, <1>2, <1>3, <1>4, <1>5, <1>6, <1>7, <1>8, <1>9, <1>10 DEF AttachStep

LEMMA CleanupStepType ==
  ASSUME TypeInv, NEW id \in Ids, CleanupStep(id)
  PROVE  TypeInv'
<1> USE DEF TypeInv, CleanupShape, chromeVars, tableVars, Phases, CleanupPhases, PendingCleanup
<1>1. CASE CloseTargets(id)
  BY <1>1, ClosePagesFacts DEF TypeOK, CloseTargets
<1>2. ASSUME Retain(id), pages' \subseteq pages, children' \in [Ids -> SUBSET Targets],
             victims' \in SUBSET Targets, closing[id] # "no"
      PROVE  TypeInv'
  BY <1>2 DEF TypeOK, Retain, Return
<1>3. CASE CloseRefused(id)
  <2>1. ASSUME NEW closed \in SUBSET (Condemned(id) \cap pages), ClosePages(id, closed)
        PROVE  TypeInv'
    BY <1>2, <1>3, <2>1, ClosePagesFacts DEF CloseRefused
  <2>2. CASE UNCHANGED <<pages, children, victims>>
    BY <1>2, <1>3, <2>2 DEF CloseRefused, TypeOK
  <2> QED BY <1>3, <2>1, <2>2 DEF CloseRefused
<1>4. CASE StorageCleanupFails(id)
  BY <1>2, <1>4 DEF StorageCleanupFails, TypeOK
<1>5. CASE AbandonEnds(id)
  BY <1>5 DEF TypeOK, AbandonEnds, ReleaseTarget, Forget
<1>6. CASE CleanupEnds(id)
  BY <1>6 DEF TypeOK, CleanupEnds, ReleaseTarget, Forget, Disown, Return
<1>7. CASE Dispose(id)
  BY <1>7 DEF TypeOK, Dispose, Forget, Disown
<1> QED BY <1>1, <1>3, <1>4, <1>5, <1>6, <1>7 DEF CleanupStep

LEMMA NextType ==
  ASSUME TypeInv, [Next]_vars
  PROVE  TypeInv'
<1> USE DEF TypeInv, CleanupShape, chromeVars, tableVars
<1>1. ASSUME NEW id \in Ids, NEW t \in Targets \cup {None}, Attach(id, t)
      PROVE  TypeInv'
  BY <1>1 DEF TypeOK, Attach, Phases, CleanupPhases
<1>2. ASSUME NEW id \in Ids, StartClose(id) \/ RetryCleanup(id)
      PROVE  TypeInv'
  BY <1>2 DEF TypeOK, StartClose, RetryCleanup, PendingCleanup
<1>3. ASSUME NEW id \in Ids, NEW t \in Targets, CloseChild(id, t)
      PROVE  TypeInv'
  BY <1>3 DEF TypeOK, CloseChild, WithoutPages
<1>4. ASSUME NEW id \in Ids, LoseConnection(id)
      PROVE  TypeInv'
  BY <1>4 DEF TypeOK, LoseConnection
<1>5. ASSUME NEW t \in Targets, OpenPopup(t)
      PROVE  TypeInv'
  BY <1>5 DEF TypeOK, OpenPopup
<1>6. ASSUME NEW t \in Targets, PageGoes(t)
      PROVE  TypeInv'
  BY <1>6 DEF TypeOK, PageGoes, WithoutPages
<1>7. CASE UNCHANGED vars
  BY <1>7 DEF TypeOK, vars
<1> QED BY <1>1, <1>2, <1>3, <1>4, <1>5, <1>6, <1>7, AttachStepType, CleanupStepType DEF Next

LEMMA TypeInvariant == Spec => []TypeInv
  BY InitType, NextType, PTL DEF Spec

\* Every variable keeps its type, and only a controller with a page listens.
THEOREM TypeCorrect == Spec => []TypeOK
  BY TypeInvariant, PTL DEF TypeInv

-----------------------------------------------------------------------------
(* The two tables of attachSession *)

\* Two calls under way never want the same page.
AdoptionsDistinct ==
  \A id, other \in attaching : id # other /\ adopt[id] = adopt[other] => adopt[id] = None

ReservationInv == TypeInv /\ ReservationsReturned /\ AdoptionsDistinct

\* A call that returns gives back its own reservation.
LEMMA ReturnReserves ==
  ASSUME ReservationInv, NEW id \in attaching, Return(id)
  PROVE  ReservationsReturned' /\ AdoptionsDistinct'
<1>1. id \in Ids /\ attaching \subseteq Ids /\ adopt \in [Ids -> Targets \cup {None}]
  BY DEF ReservationInv, TypeInv, TypeOK
<1>2. \A other \in attaching' : other # id /\ adopt'[other] = adopt[other]
  BY <1>1 DEF Return
<1> QED BY <1>1, <1>2 DEF Return, ReservationInv, ReservationsReturned, AdoptionsDistinct

\* What neither begins nor ends a call changes no reservation.
LEMMA ReservationsUnchanged ==
  ASSUME ReservationInv, UNCHANGED <<attaching, reservations, adopt>>
  PROVE  ReservationsReturned' /\ AdoptionsDistinct'
  BY DEF ReservationInv, ReservationsReturned, AdoptionsDistinct

LEMMA NextReserves ==
  ASSUME ReservationInv, [Next]_vars
  PROVE  ReservationInv'
<1>1. TypeInv'
  BY NextType DEF ReservationInv
<1>2. ASSUME NEW id \in Ids, NEW t \in Targets \cup {None}, Attach(id, t)
      PROVE  ReservationsReturned' /\ AdoptionsDistinct'
  <2>1. adopt \in [Ids -> Targets \cup {None}] /\ attaching \subseteq Ids
    BY DEF ReservationInv, TypeInv, TypeOK
  <2>2. \A other \in attaching : other # id /\ adopt'[other] = adopt[other]
    BY <1>2, <2>1 DEF Attach
  <2>3. adopt'[id] = t /\ attaching' = attaching \cup {id}
    BY <1>2, <2>1 DEF Attach
  <2>4. ReservationsReturned'
    BY <1>2, <2>2, <2>3 DEF Attach, ReservationInv, ReservationsReturned
  <2>5. t # None => \A other \in attaching : adopt[other] # t
    BY <1>2 DEF Attach, ReservationInv, ReservationsReturned
  <2>6. AdoptionsDistinct'
    BY <2>2, <2>3, <2>5 DEF ReservationInv, AdoptionsDistinct
  <2> QED BY <2>4, <2>6
<1>3. ASSUME NEW id \in Ids, AttachStep(id)
      PROVE  ReservationsReturned' /\ AdoptionsDistinct'
  <2>1. CASE InitialisationEnds(id)
    BY <2>1, ReturnReserves DEF InitialisationEnds
  <2>2. CASE UNCHANGED <<attaching, reservations, adopt>>
    BY <2>2, ReservationsUnchanged
  <2> QED BY <1>3, <2>1, <2>2 DEF AttachStep, FindPage, CreateController, Claim, LoseConflict,
        BindTarget, Publish, FailBare, FailCreated, FailClaimed, tableVars
<1>4. ASSUME NEW id \in Ids, CleanupStep(id)
      PROVE  ReservationsReturned' /\ AdoptionsDistinct'
  <2>1. CASE Retain(id)
    BY <2>1, ReturnReserves, ReservationsUnchanged DEF Retain
  <2>2. CASE CleanupEnds(id)
    BY <2>2, ReturnReserves, ReservationsUnchanged DEF CleanupEnds
  <2>3. CASE UNCHANGED <<attaching, reservations, adopt>>
    BY <2>3, ReservationsUnchanged
  <2> QED BY <1>4, <2>1, <2>2, <2>3 DEF CleanupStep, CloseTargets, CloseRefused,
        StorageCleanupFails, AbandonEnds, Dispose, tableVars
<1>5. ASSUME NEW id \in Ids,
             \/ StartClose(id) \/ RetryCleanup(id) \/ LoseConnection(id)
             \/ \E t \in Targets : CloseChild(id, t)
      PROVE  ReservationsReturned' /\ AdoptionsDistinct'
  <2>1. UNCHANGED <<attaching, reservations, adopt>>
    BY <1>5 DEF StartClose, RetryCleanup, CloseChild, LoseConnection, tableVars
  <2> QED BY <2>1, ReservationsUnchanged
<1>6. ASSUME NEW t \in Targets, OpenPopup(t) \/ PageGoes(t)
      PROVE  ReservationsReturned' /\ AdoptionsDistinct'
  <2>1. UNCHANGED <<attaching, reservations, adopt>>
    BY <1>6 DEF OpenPopup, PageGoes, tableVars
  <2> QED BY <2>1, ReservationsUnchanged
<1>7. ASSUME UNCHANGED vars
      PROVE  ReservationsReturned' /\ AdoptionsDistinct'
  <2>1. UNCHANGED <<attaching, reservations, adopt>>
    BY <1>7 DEF vars
  <2> QED BY <2>1, ReservationsUnchanged
<1>8. ReservationsReturned' /\ AdoptionsDistinct'
  BY <1>2, <1>3, <1>4, <1>5, <1>6, <1>7 DEF Next
<1> QED BY <1>1, <1>8 DEF ReservationInv

\* A reservation of attachSession lives as long as the call that made it,
\* however the call ends (the finally of #attachSession).
THEOREM ReservationsAlwaysReturned == Spec => []ReservationsReturned
<1>1. Init => ReservationInv
  BY InitType DEF Init, ReservationInv, ReservationsReturned, AdoptionsDistinct
<1> QED BY <1>1, NextReserves, PTL DEF Spec, ReservationInv

-----------------------------------------------------------------------------
OwnersInv == TypeInv /\ OwnersAccounted

\* An identity that gives up its entry touches no other one's.
LEMMA DisownAccounts ==
  ASSUME OwnersInv, NEW id \in Ids, Disown(id),
         phase' \in [Ids -> Phases], phase'[id] \in {"none", "disposed"},
         \A other \in Ids \ {id} : phase'[other] = phase[other] /\ root'[other] = root[other]
  PROVE  OwnersAccounted'
<1>1. /\ owners \in [Targets -> Ids \cup {None}]
      /\ \A t \in Targets : owners'[t] = IF t = root[id] /\ owners[t] = id THEN None ELSE owners[t]
  BY DEF OwnersInv, TypeInv, TypeOK, Disown
<1>2. \A t \in Targets : owners[t] # None =>
        root[owners[t]] = t /\ phase[owners[t]] \in {"owned", "session", "closeTree"}
  BY DEF OwnersInv, OwnersAccounted
<1>3. \A t \in Targets : owners'[t] # None => owners'[t] = owners[t] /\ owners[t] # id
  BY <1>1, <1>2
<1>4. ASSUME NEW t \in Targets, owners'[t] # None
      PROVE  root'[owners'[t]] = t /\ phase'[owners'[t]] \in {"owned", "session", "closeTree"}
  BY <1>1, <1>2, <1>3, <1>4
<1>5. ASSUME NEW other \in Ids, phase'[other] \in {"owned", "session"}
      PROVE  owners'[root'[other]] = other
  <2>1. other # id /\ phase[other] \in {"owned", "session"} /\ root'[other] = root[other]
    BY <1>5
  <2>2. owners[root[other]] = other /\ root[other] \in Targets
    BY <2>1 DEF OwnersInv, OwnersAccounted, TypeInv, TypeOK, CleanupShape
  <2>3. owners'[root[other]] = other
    BY <1>1, <2>1, <2>2
  <2> QED BY <2>1, <2>3
<1> QED BY <1>4, <1>5 DEF OwnersAccounted

\* What changes neither a phase, nor a page, nor an entry changes no account.
LEMMA OwnersUnchanged ==
  ASSUME OwnersInv, UNCHANGED <<phase, root, owners>>
  PROVE  OwnersAccounted'
  BY DEF OwnersInv, OwnersAccounted

\* Nor does a step of an identity that has no entry before or after.
LEMMA OwnersElsewhere ==
  ASSUME OwnersInv, NEW id \in Ids, UNCHANGED owners,
         phase[id] \notin {"owned", "session", "closeTree"},
         phase' = [phase EXCEPT ![id] = phase'[id]],
         phase'[id] \notin {"owned", "session", "closeTree"},
         \A other \in Ids \ {id} : root'[other] = root[other]
  PROVE  OwnersAccounted'
<1>1. phase \in [Ids -> Phases] /\ owners \in [Targets -> Ids \cup {None}]
  BY DEF OwnersInv, TypeInv, TypeOK
<1>2. \A other \in Ids \ {id} : phase'[other] = phase[other]
  BY <1>1
<1>3. \A t \in Targets : owners[t] # None => owners[t] \in Ids \ {id}
  BY <1>1 DEF OwnersInv, OwnersAccounted
<1>4. ASSUME NEW t \in Targets, owners'[t] # None
      PROVE  root'[owners'[t]] = t /\ phase'[owners'[t]] \in {"owned", "session", "closeTree"}
  BY <1>2, <1>3, <1>4 DEF OwnersInv, OwnersAccounted
<1>5. ASSUME NEW other \in Ids, phase'[other] \in {"owned", "session"}
      PROVE  owners'[root'[other]] = other
  BY <1>2, <1>5 DEF OwnersInv, OwnersAccounted
<1> QED BY <1>4, <1>5 DEF OwnersAccounted

LEMMA AttachStepAccounts ==
  ASSUME OwnersInv, NEW id \in Ids, AttachStep(id)
  PROVE  OwnersAccounted'
<1> USE DEF chromeVars, tableVars
<1>1. /\ phase \in [Ids -> Phases] /\ owners \in [Targets -> Ids \cup {None}]
      /\ root \in [Ids -> Targets \cup {None}]
  BY DEF OwnersInv, TypeInv, TypeOK
<1>2. CASE FindPage(id)
  BY <1>1, <1>2, OwnersElsewhere DEF FindPage
<1>3. CASE CreateController(id) \/ Claim(id) \/ FailCreated(id)
  BY <1>1, <1>3, OwnersElsewhere DEF CreateController, Claim, FailCreated
<1>4. CASE LoseConflict(id)
  BY <1>1, <1>4, OwnersElsewhere DEF LoseConflict
<1>5. CASE FailBare(id)
  BY <1>1, <1>5, OwnersElsewhere DEF FailBare
<1>6. CASE BindTarget(id)
  <2>1. root[id] \in Targets
    BY <1>1, <1>6 DEF BindTarget, OwnersInv, TypeInv, CleanupShape
  <2>2. /\ owners[root[id]] = None /\ UNCHANGED root
        /\ \A t \in Targets : owners'[t] = IF t = root[id] THEN id ELSE owners[t]
        /\ \A other \in Ids : phase'[other] = IF other = id THEN "owned" ELSE phase[other]
    BY <1>1, <1>6, <2>1 DEF BindTarget
  <2>3. /\ \A t \in Targets : owners[t] # None =>
             root[owners[t]] = t /\ phase[owners[t]] \in {"owned", "session", "closeTree"}
        /\ \A other \in Ids : phase[other] \in {"owned", "session"} =>
             owners[root[other]] = other /\ root[other] \in Targets
    BY <1>1 DEF OwnersInv, OwnersAccounted, TypeInv, CleanupShape
  <2>4. ASSUME NEW t \in Targets, owners'[t] # None
        PROVE  root'[owners'[t]] = t /\ phase'[owners'[t]] \in {"owned", "session", "closeTree"}
    BY <1>1, <2>2, <2>3, <2>4
  <2>5. ASSUME NEW other \in Ids, phase'[other] \in {"owned", "session"}
        PROVE  owners'[root'[other]] = other
    BY <2>1, <2>2, <2>3, <2>5, AttachRegistryAssumption DEF AttachRegistryAssumption
  <2> QED BY <2>4, <2>5 DEF OwnersAccounted
<1>7. CASE Publish(id)
  BY <1>1, <1>7 DEF Publish, OwnersInv, OwnersAccounted
<1>8. CASE FailClaimed(id)
  BY <1>1, <1>8 DEF FailClaimed, OwnersInv, OwnersAccounted
<1>9. CASE InitialisationEnds(id)
  <2>1. CASE phase[id] = "session"
    BY <1>9, <2>1, OwnersUnchanged DEF InitialisationEnds
  <2>2. CASE phase[id] = "disposed"
    BY <1>1, <1>9, <2>2, OwnersElsewhere DEF InitialisationEnds
  <2> QED BY <1>9, <2>1, <2>2 DEF InitialisationEnds
<1> QED BY <1>2, <1>3, <1>4, <1>5, <1>6, <1>7, <1>8, <1>9 DEF AttachStep

LEMMA CleanupStepAccounts ==
  ASSUME OwnersInv, NEW id \in Ids, CleanupStep(id)
  PROVE  OwnersAccounted'
<1> USE DEF chromeVars, tableVars
<1>1. /\ phase \in [Ids -> Phases] /\ owners \in [Targets -> Ids \cup {None}]
      /\ root \in [Ids -> Targets \cup {None}]
  BY DEF OwnersInv, TypeInv, TypeOK
<1>2. CASE CloseTargets(id)
  BY <1>2, OwnersUnchanged DEF CloseTargets
<1>3. CASE Retain(id)
  <2>1. CASE phase[id] = "abandon"
    BY <1>1, <1>3, <2>1, OwnersElsewhere DEF Retain
  <2>2. CASE phase[id] # "abandon"
    BY <1>1, <1>3, <2>2, OwnersUnchanged DEF Retain
  <2> QED BY <2>1, <2>2
<1>4. CASE AbandonEnds(id)
  BY <1>1, <1>4, OwnersElsewhere DEF AbandonEnds
<1>5. CASE CleanupEnds(id) \/ Dispose(id)
  <2>1. Disown(id) /\ phase'[id] \in {"none", "disposed"}
    BY <1>1, <1>5 DEF CleanupEnds, Dispose
  <2>2. \A other \in Ids \ {id} : phase'[other] = phase[other] /\ root'[other] = root[other]
    BY <1>1, <1>5 DEF CleanupEnds, Dispose
  <2>3. phase' \in [Ids -> Phases]
    BY <1>1, <1>5 DEF CleanupEnds, Dispose, Phases
  <2> QED BY <2>1, <2>2, <2>3, DisownAccounts
<1> QED BY <1>2, <1>3, <1>4, <1>5 DEF CleanupStep, CloseRefused, StorageCleanupFails

LEMMA NextAccounts ==
  ASSUME OwnersInv, [Next]_vars
  PROVE  OwnersInv'
<1>1. TypeInv'
  BY NextType DEF OwnersInv
<1>2. ASSUME NEW id \in Ids, NEW t \in Targets \cup {None}, Attach(id, t)
      PROVE  OwnersAccounted'
  <2>1. phase \in [Ids -> Phases]
    BY DEF OwnersInv, TypeInv, TypeOK
  <2> QED BY <1>2, <2>1, OwnersElsewhere DEF Attach
<1>3. ASSUME \/ UNCHANGED vars
             \/ \E id \in Ids : \/ StartClose(id) \/ RetryCleanup(id) \/ LoseConnection(id)
                                \/ \E t \in Targets : CloseChild(id, t)
             \/ \E t \in Targets : OpenPopup(t) \/ PageGoes(t)
      PROVE  OwnersAccounted'
  <2>1. UNCHANGED <<phase, root, owners>>
    BY <1>3 DEF vars, StartClose, RetryCleanup, LoseConnection, CloseChild, OpenPopup, PageGoes,
       chromeVars, tableVars
  <2> QED BY <2>1, OwnersUnchanged
<1>4. OwnersAccounted'
  BY <1>2, <1>3, AttachStepAccounts, CleanupStepAccounts DEF Next
<1> QED BY <1>1, <1>4 DEF OwnersInv

\* #targetOwners: an open Session has its entry, and an entry always has an
\* identity that can still give it back (onDisposed and #cleanup).
THEOREM OwnersAlwaysAccounted == Spec => []OwnersAccounted
<1>1. Init => OwnersInv
  BY InitType DEF Init, OwnersInv, OwnersAccounted
<1> QED BY <1>1, NextAccounts, PTL DEF Spec, OwnersInv

-----------------------------------------------------------------------------
(* What identities hold *)

Holders == Sessions \cup pendingAttachments

\* Who is pending, and that what is owned has existed.
Roster ==
  \A id \in Ids :
    /\ id \in pendingAttachments => phase[id] \in HeldPhases \cup {"disposed"}
    /\ phase[id] \in {"claimed", "owned", "closeTree"} => id \in pendingAttachments
    /\ phase[id] = "session" /\ id \in pendingAttachments => id \in attaching
    /\ phase[id] \in {"connect", "attach", "discover", "claimed", "owned"} => id \in attaching
    /\ Owned(id) \subseteq born

RosterInv == TypeInv /\ Roster

LEMMA AttachStepRoster ==
  ASSUME RosterInv, NEW id \in Ids, AttachStep(id)
  PROVE  Roster'
<1> USE DEF RosterInv, TypeInv, TypeOK, Roster, HeldPhases, Owned, chromeVars, tableVars
<1>1. CASE FindPage(id)
  BY <1>1 DEF FindPage
<1>2. CASE CreateController(id)
  BY <1>2 DEF CreateController
<1>3. CASE Claim(id)
  <2>1. Discovered(id) \subseteq born
    BY OwnedTypes
  <2> QED BY <1>3, <2>1 DEF Claim
<1>4. CASE LoseConflict(id)
  BY <1>4 DEF LoseConflict
<1>5. CASE BindTarget(id)
  BY <1>5 DEF BindTarget
<1>6. CASE Publish(id)
  BY <1>6 DEF Publish
<1>7. CASE InitialisationEnds(id)
  BY <1>7 DEF InitialisationEnds, Return
<1>8. CASE FailBare(id)
  BY <1>8 DEF FailBare
<1>9. CASE FailCreated(id)
  BY <1>9 DEF FailCreated
<1>10. CASE FailClaimed(id)
  BY <1>10 DEF FailClaimed
<1> QED BY <1>1, <1>2, <1>3, <1>4, <1>5, <1>6, <1>7, <1>8, <1>9, <1>10 DEF AttachStep

\* Closing pages teaches a controller of nothing but pages, and others nothing.
LEMMA ClosePagesOwned ==
  ASSUME RosterInv, NEW id \in Ids, NEW closed, ClosePages(id, closed),
         closed \subseteq Condemned(id), root' = root
  PROVE  /\ \A other \in Ids : Owned(other)' \subseteq born
         /\ \A other \in Ids \ {id} : Owned(other)' \subseteq Owned(other)
         /\ Owned(id)' \subseteq Owned(id) \cup Condemned(id)
<1>1. TypeOK
  BY DEF RosterInv, TypeInv
<1>2. \A other \in Ids \ {id} : Owned(other)' \subseteq Owned(other)
  <2>1. \A other \in Ids \ {id} :
          children'[other] = IF other \in listening THEN children[other] \ closed
                             ELSE children[other]
    BY <1>1, ClosePagesFacts
  <2> QED BY <2>1 DEF Owned
<1>3. children'[id] = IF phase[id] \in {"closeNothing", "closePage"} THEN {}
                      ELSE ((children[id] \cup Condemned(id)) \ closed) \ {root[id]}
  BY <1>1, ClosePagesFacts
<1>4. Condemned(id) \subseteq Owned(id) \cup born \cup {root[id]}
  BY <1>1, DescendantsArePages DEF Condemned, TypeOK
<1>5. Owned(id)' \subseteq born
  BY <1>3, <1>4 DEF Owned, RosterInv, Roster
<1>6. Owned(id)' \subseteq Owned(id) \cup Condemned(id)
  BY <1>3 DEF Owned
<1> QED BY <1>2, <1>5, <1>6 DEF RosterInv, Roster

LEMMA CleanupStepRoster ==
  ASSUME RosterInv, NEW id \in Ids, CleanupStep(id)
  PROVE  Roster'
<1> USE DEF chromeVars, tableVars
<1>1. TypeOK /\ TypeInv /\ Roster
  BY DEF RosterInv, TypeInv
<1>2. CASE CloseTargets(id)
  <2>1. \A other \in Ids : Owned(other)' \subseteq born
    BY <1>2, ClosePagesOwned DEF CloseTargets
  <2> QED BY <1>1, <1>2, <2>1 DEF CloseTargets, Roster
<1>3. ASSUME Retain(id), \A other \in Ids : Owned(other)' \subseteq born, closing[id] # "no"
      PROVE  Roster'
  <2>1. /\ phase' = [phase EXCEPT ![id] = IF @ = "abandon" THEN "closeFailed" ELSE @]
        /\ born' = born /\ listening' = listening /\ pendingAttachments' = pendingAttachments
    BY <1>3 DEF Retain
  <2>2. phase[id] = "session" => attaching' = attaching
    BY <1>3 DEF Retain, PendingCleanup, CleanupPhases
  <2>3. \A other \in Ids \ {id} : other \in attaching => other \in attaching'
    BY <1>3 DEF Retain, Return
  <2>4. id \notin attaching' => id \notin attaching \/ id \in PendingCleanup
    BY <1>3 DEF Retain
  <2> QED BY <1>1, <1>3, <2>1, <2>2, <2>3, <2>4
        DEF Roster, TypeOK, HeldPhases, PendingCleanup, CleanupPhases
<1>4. CASE CloseRefused(id)
  <2>1. closing[id] # "no" /\ Retain(id)
    BY <1>4 DEF CloseRefused
  <2>2. root' = root
    BY <2>1 DEF Retain
  <2>3. ASSUME NEW closed \in SUBSET (Condemned(id) \cap pages), ClosePages(id, closed)
        PROVE  Roster'
    BY <1>3, <2>1, <2>2, <2>3, ClosePagesOwned
  <2>4. CASE UNCHANGED <<pages, children, victims>>
    BY <1>1, <1>3, <2>1, <2>2, <2>4 DEF Owned, Roster
  <2> QED BY <1>4, <2>3, <2>4 DEF CloseRefused
<1>5. CASE StorageCleanupFails(id)
  <2>1. Retain(id) /\ closing[id] # "no" /\ UNCHANGED <<root, children, born>>
    BY <1>5 DEF StorageCleanupFails, Retain
  <2>2. \A other \in Ids : Owned(other)' \subseteq born
    BY <1>1, <2>1 DEF Owned, Roster
  <2> QED BY <1>3, <2>1, <2>2
<1>6. CASE AbandonEnds(id)
  BY <1>1, <1>6 DEF AbandonEnds, Forget, Roster, TypeOK, HeldPhases, Owned
<1>7. CASE CleanupEnds(id)
  BY <1>1, <1>7 DEF CleanupEnds, Forget, Return, Roster, TypeOK, HeldPhases, Owned
<1>8. CASE Dispose(id)
  BY <1>1, <1>8 DEF Dispose, Forget, Roster, TypeOK, HeldPhases, Owned
<1> QED BY <1>2, <1>4, <1>5, <1>6, <1>7, <1>8 DEF CleanupStep

LEMMA NextRoster ==
  ASSUME RosterInv, [Next]_vars
  PROVE  RosterInv'
<1> USE DEF chromeVars, tableVars
<1>1. TypeInv'
  BY NextType DEF RosterInv
<1>2. TypeOK /\ Roster
  BY DEF RosterInv, TypeInv
<1>3. ASSUME NEW id \in Ids, NEW t \in Targets \cup {None}, Attach(id, t)
      PROVE  Roster'
  BY <1>2, <1>3 DEF Attach, Roster, TypeOK, HeldPhases, Owned
<1>4. ASSUME NEW id \in Ids, StartClose(id) \/ RetryCleanup(id)
      PROVE  Roster'
  <2>1. UNCHANGED <<phase, attaching, root, children, listening, born, pendingAttachments>>
    BY <1>4 DEF StartClose, RetryCleanup
  <2> QED BY <1>2, <2>1 DEF Roster, Owned
<1>5. ASSUME NEW id \in Ids, NEW t \in Targets, CloseChild(id, t)
      PROVE  Roster'
  BY <1>2, <1>5 DEF CloseChild, WithoutPages, Roster, TypeOK, Owned
<1>6. ASSUME NEW t \in Targets, OpenPopup(t)
      PROVE  Roster'
  BY <1>2, <1>6 DEF OpenPopup, Roster, TypeOK, Owned
<1>7. ASSUME NEW t \in Targets, PageGoes(t)
      PROVE  Roster'
  BY <1>2, <1>7 DEF PageGoes, WithoutPages, Roster, TypeOK, Owned
<1>8. ASSUME UNCHANGED vars
      PROVE  Roster'
  BY <1>2, <1>8 DEF vars, Roster, Owned
<1>9. ASSUME NEW id \in Ids, LoseConnection(id)
      PROVE  Roster'
  BY <1>2, <1>9 DEF LoseConnection, Roster, Owned
<1>10. Roster'
  BY <1>3, <1>4, <1>5, <1>6, <1>7, <1>8, <1>9, AttachStepRoster, CleanupStepRoster DEF Next
<1> QED BY <1>1, <1>10 DEF RosterInv

LEMMA InitRoster == Init => RosterInv
  BY InitType DEF Init, RosterInv, Roster, HeldPhases, Owned

-----------------------------------------------------------------------------
(* What a Session knows of its popups *)

\* A page's opener has existed, only a popup is a child, and what a stray opens
\* is a stray.
Lineage ==
  /\ Initial \subseteq born
  /\ \A t \in born : Opener[t] \in born \cup {None}
  /\ \A t \in born : Opener[t] \in strays => t \in strays
  /\ \A id \in Ids : \A t \in children[id] : Opener[t] # None

\* What a held page has opened is held with it, unless it is a stray that its
\* holder has missed.
Missed(id, t) == id \notin listening /\ t \in strays

PopupsHeld ==
  \A id \in Ids : phase[id] \in HeldPhases =>
    \A t \in pages : Opener[t] \in Owned(id) => t \in Owned(id) \/ Missed(id, t)

KnownInv == RosterInv /\ Lineage /\ PopupsHeld

LEMMA DescendantsOfTargets ==
  ASSUME TypeOK, NEW A, A \subseteq Targets
  PROVE  \A t \in Descendants(A) : t \in pages /\ Opener[t] # None
<1>1. None \notin A /\ None \notin pages
  BY AttachRegistryAssumption DEF AttachRegistryAssumption, TypeOK
<1> QED BY <1>1, DescendantsArePages, DescendantsHaveOpeners

\* A close finds only popups beside the page itself.
LEMMA CondemnedPopups ==
  ASSUME TypeOK, Lineage, NEW id \in Ids
  PROVE  \A t \in Condemned(id) \ {root[id]} : Opener[t] # None
<1>1. \A t \in Descendants(Owned(id)) : Opener[t] # None
  BY OwnedTypes, DescendantsOfTargets
<1>2. \A t \in Owned(id) \ {root[id]} : Opener[t] # None
  BY DEF Owned, Lineage
<1> QED BY <1>1, <1>2 DEF Condemned

LEMMA ClosePagesLineage ==
  ASSUME TypeOK, Lineage, NEW id \in Ids, NEW closed, ClosePages(id, closed),
         closed \subseteq Condemned(id), born' = born, strays' = strays
  PROVE  Lineage'
<1>1. \A other \in Ids \ {id} : children'[other] \subseteq children[other]
  <2>1. \A other \in Ids \ {id} :
          children'[other] = IF other \in listening THEN children[other] \ closed
                             ELSE children[other]
    BY ClosePagesFacts
  <2> QED BY <2>1
<1>2. children'[id] \subseteq (children[id] \cup Condemned(id)) \ {root[id]}
  <2>1. children'[id] = IF phase[id] \in {"closeNothing", "closePage"} THEN {}
                        ELSE ((children[id] \cup Condemned(id)) \ closed) \ {root[id]}
    BY ClosePagesFacts
  <2> QED BY <2>1
<1>3. \A other \in Ids : \A t \in children'[other] : Opener[t] # None
  BY <1>1, <1>2, CondemnedPopups DEF Lineage
<1> QED BY <1>3 DEF Lineage

\* Where nothing is born and no controller learns of a page.
LEMMA LineageKept ==
  ASSUME Lineage, born' = born, strays' = strays,
         \A id \in Ids : children'[id] \subseteq children[id]
  PROVE  Lineage'
  BY DEF Lineage

LEMMA NextLineage ==
  ASSUME TypeOK, Lineage, [Next]_vars
  PROVE  Lineage'
<1> USE DEF chromeVars, tableVars
<1>1. ASSUME NEW id \in Ids, FindPage(id)
      PROVE  Lineage'
  <2>1. strays' = strays /\ born \subseteq born' /\ children' = children
        /\ \A t \in born' \ born : Opener[t] = None
    BY <1>1 DEF FindPage
  <2>2. None \notin strays
    BY AttachRegistryAssumption DEF TypeOK, AttachRegistryAssumption
  <2> QED BY <2>1, <2>2 DEF Lineage
<1>2. ASSUME NEW id \in Ids, Claim(id)
      PROVE  Lineage'
  <2>1. {root[id]} \cup children[id] \subseteq Targets
    BY <1>2, AttachRegistryAssumption DEF Claim, TypeOK
  <2>2. \A t \in Discovered(id) : Opener[t] # None
    BY <2>1, DescendantsOfTargets DEF Discovered, Lineage
  <2>3. born' = born /\ strays' = strays /\ children' = [children EXCEPT ![id] = Discovered(id)]
    BY <1>2 DEF Claim
  <2> QED BY <2>2, <2>3 DEF Lineage, TypeOK
<1>3. ASSUME NEW id \in Ids, AttachStep(id)
      PROVE  Lineage'
  <2>1. ASSUME CreateController(id) \/ LoseConflict(id) \/ BindTarget(id) \/ Publish(id)
                 \/ InitialisationEnds(id) \/ FailBare(id) \/ FailCreated(id) \/ FailClaimed(id)
        PROVE  /\ born' = born /\ strays' = strays
               /\ \A other \in Ids : children'[other] \subseteq children[other]
    BY <2>1 DEF CreateController, LoseConflict, BindTarget, Publish, InitialisationEnds,
       FailBare, FailCreated, FailClaimed, TypeOK
  <2> QED BY <1>1, <1>2, <1>3, <2>1, LineageKept DEF AttachStep
<1>4. ASSUME NEW id \in Ids, CleanupStep(id)
      PROVE  Lineage'
  <2>1. CASE CloseTargets(id)
    BY <2>1, ClosePagesLineage DEF CloseTargets
  <2>2. CASE CloseRefused(id)
    <3>1. born' = born /\ strays' = strays
      BY <2>2 DEF CloseRefused, Retain
    <3>2. CASE UNCHANGED <<pages, children, victims>>
      BY <3>1, <3>2, LineageKept
    <3>3. ASSUME NEW closed \in SUBSET (Condemned(id) \cap pages), ClosePages(id, closed)
          PROVE  Lineage'
      BY <3>1, <3>3, ClosePagesLineage
    <3> QED BY <2>2, <3>2, <3>3 DEF CloseRefused
  <2>3. ASSUME StorageCleanupFails(id) \/ AbandonEnds(id) \/ CleanupEnds(id) \/ Dispose(id)
        PROVE  /\ born' = born /\ strays' = strays
               /\ \A other \in Ids : children'[other] \subseteq children[other]
    BY <2>3 DEF StorageCleanupFails, Retain, AbandonEnds, CleanupEnds, Dispose, Forget, TypeOK
  <2> QED BY <1>4, <2>1, <2>2, <2>3, LineageKept DEF CleanupStep
<1>5. ASSUME NEW t \in Targets, OpenPopup(t)
      PROVE  Lineage'
  <2>1. Opener[t] \in born /\ Opener[t] # None /\ t # None /\ t \notin born
    BY <1>5, AttachRegistryAssumption DEF OpenPopup, AttachRegistryAssumption, TypeOK
  <2>2. \A u \in born : Opener[u] # t
    BY <2>1 DEF Lineage
  <2>3. /\ born' = born \cup {t} /\ strays' \in {strays, strays \cup {t}}
        /\ Opener[t] \in strays => t \in strays'
    BY <1>5 DEF OpenPopup
  <2>4. \A u \in born' : Opener[u] \in strays' => u \in strays'
    BY <2>1, <2>2, <2>3 DEF Lineage
  <2>5. \A id \in Ids : children'[id] \subseteq children[id] \cup {t}
    BY <1>5 DEF OpenPopup
  <2> QED BY <2>1, <2>3, <2>4, <2>5 DEF Lineage
<1>6. ASSUME \/ UNCHANGED vars
             \/ \E id \in Ids : \/ StartClose(id) \/ RetryCleanup(id) \/ LoseConnection(id)
                                \/ \E t \in Targets \cup {None} : Attach(id, t)
                                \/ \E t \in Targets : CloseChild(id, t)
             \/ \E t \in Targets : PageGoes(t)
      PROVE  Lineage'
  <2>1. born' = born /\ strays' = strays /\ \A id \in Ids : children'[id] \subseteq children[id]
    BY <1>6 DEF vars, StartClose, RetryCleanup, LoseConnection, Attach, CloseChild, PageGoes,
       WithoutPages
  <2> QED BY <2>1, LineageKept
<1> QED BY <1>3, <1>4, <1>5, <1>6 DEF Next

\* Pages that go are forgotten by every controller that holds them.
LEMMA FewerPagesHeld ==
  ASSUME PopupsHeld, NEW closed, pages' = pages \ closed, strays \subseteq strays',
         \A id \in Ids : phase'[id] \in HeldPhases =>
           /\ id \in listening' => id \in listening
           /\ phase[id] \in HeldPhases /\ root'[id] = root[id]
           /\ children'[id] \subseteq children[id] /\ children[id] \ closed \subseteq children'[id]
  PROVE  PopupsHeld'
<1> SUFFICES ASSUME NEW id \in Ids, phase'[id] \in HeldPhases,
                    NEW t \in pages', Opener[t] \in Owned(id)'
             PROVE  t \in Owned(id)' \/ Missed(id, t)'
  BY DEF PopupsHeld, HeldPhases
<1>1. Owned(id)' \subseteq Owned(id) /\ Owned(id) \ closed \subseteq Owned(id)'
  BY DEF Owned
<1>2. (t \in Owned(id) \/ Missed(id, t)) /\ t \notin closed
  BY <1>1 DEF PopupsHeld
<1> QED BY <1>1, <1>2 DEF Missed

LEMMA SamePagesHeld ==
  ASSUME PopupsHeld, pages' = pages, strays' = strays,
         \A id \in Ids : phase'[id] \in HeldPhases =>
           /\ id \in listening' => id \in listening
           /\ phase[id] \in HeldPhases /\ root'[id] = root[id] /\ children'[id] = children[id]
  PROVE  PopupsHeld'
<1>1. pages' = pages \ {}
  OBVIOUS
<1> QED BY <1>1, FewerPagesHeld

LEMMA AttachStepHolds ==
  ASSUME KnownInv, NEW id \in Ids, AttachStep(id)
  PROVE  PopupsHeld'
<1> USE DEF chromeVars, tableVars
<1>1. TypeOK /\ Roster /\ Lineage /\ PopupsHeld
  BY DEF KnownInv, RosterInv, TypeInv
<1>2. CASE FindPage(id)
  <2>1. \A other \in Ids : None \notin Owned(other)
    BY <1>1, OwnedTypes
  <2>2. /\ \A t \in pages' \ pages : Opener[t] = None
        /\ listening' = listening /\ strays' = strays
    BY <1>2 DEF FindPage
  <2>3. \A other \in Ids : phase'[other] \in HeldPhases =>
          phase[other] \in HeldPhases /\ Owned(other)' = Owned(other)
    BY <1>1, <1>2 DEF FindPage, TypeOK, HeldPhases, Owned
  <2> QED BY <1>1, <2>1, <2>2, <2>3 DEF PopupsHeld, HeldPhases, Missed
<1>3. CASE Claim(id)
  <2>1. /\ pages' = pages /\ Owned(id)' = {root[id]} \cup Discovered(id)
        /\ listening' = listening /\ strays' = strays
        /\ \A other \in Ids \ {id} : Owned(other)' = Owned(other) /\ phase'[other] = phase[other]
    BY <1>1, <1>3, AttachRegistryAssumption
       DEF Claim, Owned, TypeOK, AttachRegistryAssumption
  <2>2. {root[id]} \cup Discovered(id)
          = ({root[id]} \cup children[id]) \cup Descendants({root[id]} \cup children[id])
    BY DEF Discovered
  <2>3. \A t \in pages : Opener[t] \in Owned(id)' => t \in Owned(id)'
    BY <2>1, <2>2, DescendantsClosed
  <2> QED BY <1>1, <2>1, <2>3 DEF PopupsHeld, HeldPhases, Missed
<1>4. ASSUME CreateController(id) \/ LoseConflict(id) \/ BindTarget(id) \/ Publish(id)
               \/ InitialisationEnds(id) \/ FailBare(id) \/ FailCreated(id) \/ FailClaimed(id)
      PROVE  PopupsHeld'
  <2>1. pages' = pages /\ strays' = strays
    BY <1>4 DEF CreateController, LoseConflict, BindTarget, Publish, InitialisationEnds,
       FailBare, FailCreated, FailClaimed
  <2>2. \A other \in Ids : phase'[other] \in HeldPhases =>
          /\ other \in listening' => other \in listening
          /\ phase[other] \in HeldPhases /\ root'[other] = root[other]
          /\ children'[other] = children[other]
    BY <1>1, <1>4 DEF CreateController, LoseConflict, BindTarget, Publish, InitialisationEnds,
       FailBare, FailCreated, FailClaimed, TypeOK, HeldPhases
  <2> QED BY <1>1, <2>1, <2>2, SamePagesHeld
<1> QED BY <1>2, <1>3, <1>4 DEF AttachStep

\* A held page's descendants are held with it, those a disconnected holder has
\* missed excepted.
LEMMA HeldCondemned ==
  ASSUME KnownInv, NEW id \in Ids, phase[id] \in HeldPhases
  PROVE  /\ Owned(id) \subseteq Condemned(id) /\ Condemned(id) \subseteq Owned(id) \cup strays
         /\ id \in listening => Condemned(id) = Owned(id)
<1>1. PopupsHeld /\ \A t \in pages : Opener[t] \in strays => t \in strays
  BY DEF KnownInv, Lineage, RosterInv, TypeInv, TypeOK
<1>2. \A t \in pages : Opener[t] \in Owned(id) \cup strays => t \in Owned(id) \cup strays
  BY <1>1 DEF PopupsHeld, Missed
<1>3. Descendants(Owned(id)) \subseteq Owned(id) \cup strays
  <2> SUFFICES ASSUME NEW t \in Descendants(Owned(id)) PROVE t \in Owned(id) \cup strays
    OBVIOUS
  <2> DEFINE found == (Owned(id) \cup strays) \cap pages
  <2>1. \A u \in pages : Opener[u] \in Owned(id) \cup found => u \in found
    BY <1>2
  <2>2. found \in SUBSET pages
    OBVIOUS
  <2> HIDE DEF found
  <2>3. t \in found
    BY <2>1, <2>2 DEF Descendants
  <2> QED BY <2>3 DEF found
<1> QED BY <1>3 DEF Condemned, HeldPhases

LEMMA ClosePagesHolds ==
  ASSUME KnownInv, NEW id \in Ids, NEW closed, ClosePages(id, closed),
         closed \subseteq Condemned(id), root' = root, listening' = listening,
         strays' = strays,
         \A other \in Ids : phase'[other] \in HeldPhases => phase'[other] = phase[other]
  PROVE  PopupsHeld'
<1>1. TypeOK /\ Roster /\ PopupsHeld /\ RosterInv /\ Lineage /\ pages \subseteq born
  BY DEF KnownInv, RosterInv, TypeInv, TypeOK
<1>2. pages' = pages \ closed
  BY <1>1, ClosePagesFacts
<1>3. \A other \in Ids \ {id} :
        children'[other] = IF other \in listening THEN children[other] \ closed
                           ELSE children[other]
  BY <1>1, ClosePagesFacts
<1>4. children'[id] = IF phase[id] \in {"closeNothing", "closePage"} THEN {}
                      ELSE ((children[id] \cup Condemned(id)) \ closed) \ {root[id]}
  BY <1>1, ClosePagesFacts
<1>5. phase[id] \in HeldPhases =>
        /\ Owned(id)' \subseteq Owned(id) \cup strays
        /\ id \in listening => Owned(id)' \subseteq Owned(id)
  BY <1>1, ClosePagesOwned, HeldCondemned
<1> SUFFICES ASSUME NEW other \in Ids, phase'[other] \in HeldPhases,
                    NEW t \in pages', Opener[t] \in Owned(other)'
             PROVE  t \in Owned(other)' \/ Missed(other, t)'
  BY DEF PopupsHeld, HeldPhases
<1>6. phase[other] \in HeldPhases
  OBVIOUS
<1>7. CASE other = id
  <2>1. CASE Missed(id, t)
    BY <1>7, <2>1 DEF Missed
  <2>2. CASE ~Missed(id, t)
    <3>1. Opener[t] \in Owned(id)
      BY <1>1, <1>2, <1>5, <1>6, <1>7, <2>2 DEF Missed, Lineage
    <3>2. t \in Owned(id) /\ t \notin closed
      BY <1>1, <1>2, <1>6, <1>7, <2>2, <3>1 DEF PopupsHeld
    <3>3. phase[id] \notin {"closeNothing", "closePage"}
      BY <1>6, <1>7 DEF HeldPhases
    <3>4. t = root[id] \/ t \in children[id]
      BY <3>2 DEF Owned
    <3>5. t # None
      BY <1>1, <1>7, <3>2, OwnedTypes
    <3>6. t \in Owned(id)'
      BY <1>4, <3>2, <3>3, <3>4, <3>5 DEF Owned
    <3> QED BY <1>7, <3>6
  <2> QED BY <2>1, <2>2
<1>8. CASE other # id
  <2>1. Owned(other)' \subseteq Owned(other) /\ Owned(other) \ closed \subseteq Owned(other)'
    BY <1>3, <1>8 DEF Owned
  <2> QED BY <1>1, <1>2, <1>6, <2>1 DEF PopupsHeld, Missed
<1> QED BY <1>7, <1>8

LEMMA CleanupStepHolds ==
  ASSUME KnownInv, NEW id \in Ids, CleanupStep(id)
  PROVE  PopupsHeld'
<1> USE DEF chromeVars, tableVars
<1>1. TypeOK /\ PopupsHeld
  BY DEF KnownInv, RosterInv, TypeInv
<1>2. CASE CloseTargets(id)
  BY <1>2, ClosePagesHolds DEF CloseTargets
<1>3. ASSUME Retain(id)
      PROVE  /\ UNCHANGED <<root, listening, strays>>
             /\ \A other \in Ids : phase'[other] \in HeldPhases => phase'[other] = phase[other]
  BY <1>1, <1>3 DEF Retain, TypeOK, HeldPhases
<1>4. CASE CloseRefused(id)
  <2>1. CASE UNCHANGED <<pages, children, victims>>
    BY <1>1, <1>3, <1>4, <2>1, SamePagesHeld DEF CloseRefused
  <2>2. ASSUME NEW closed \in SUBSET (Condemned(id) \cap pages), ClosePages(id, closed)
        PROVE  PopupsHeld'
    BY <1>3, <1>4, <2>2, ClosePagesHolds DEF CloseRefused
  <2> QED BY <1>4, <2>1, <2>2 DEF CloseRefused
<1>5. CASE StorageCleanupFails(id)
  BY <1>1, <1>3, <1>5, SamePagesHeld DEF StorageCleanupFails
<1>6. CASE AbandonEnds(id) \/ CleanupEnds(id) \/ Dispose(id)
  <2>1. pages' = pages /\ strays' = strays /\ listening' \subseteq listening
    BY <1>6 DEF AbandonEnds, CleanupEnds, Dispose, Forget
  <2>2. phase'[id] \notin HeldPhases
    BY <1>1, <1>6 DEF AbandonEnds, CleanupEnds, Dispose, HeldPhases, TypeOK
  <2>3. \A other \in Ids \ {id} : /\ phase'[other] = phase[other] /\ root'[other] = root[other]
                                  /\ children'[other] = children[other]
    BY <1>1, <1>6 DEF AbandonEnds, CleanupEnds, Dispose, Forget, TypeOK
  <2> QED BY <1>1, <2>1, <2>2, <2>3, SamePagesHeld
<1> QED BY <1>2, <1>4, <1>5, <1>6 DEF CleanupStep

LEMMA PopupHolds ==
  ASSUME KnownInv, NEW t \in Targets, OpenPopup(t)
  PROVE  PopupsHeld'
<1>1. TypeOK /\ Roster /\ Lineage /\ PopupsHeld
  BY DEF KnownInv, RosterInv, TypeInv
<1>2. t \notin born /\ t # None /\ pages' = pages \cup {t} /\ pages \subseteq born
  BY <1>1, AttachRegistryAssumption DEF OpenPopup, TypeOK, AttachRegistryAssumption
<1>3. \A u \in pages \cup {t} : Opener[u] # t
  BY <1>1, <1>2 DEF OpenPopup, Lineage
<1> SUFFICES ASSUME NEW id \in Ids, phase[id] \in HeldPhases,
                    NEW u \in pages', Opener[u] \in Owned(id)'
             PROVE  u \in Owned(id)' \/ Missed(id, u)'
  BY DEF PopupsHeld, HeldPhases, OpenPopup
<1>4. Opener[t] \in Owned(id) => id \in listening \/ t \in strays'
  BY DEF OpenPopup, Seen
<1>5. /\ Owned(id) \subseteq Owned(id)' /\ Owned(id)' \subseteq Owned(id) \cup {t}
      /\ Opener[t] \in Owned(id) /\ id \in listening => t \in Owned(id)'
      /\ listening' = listening /\ strays \subseteq strays'
  BY <1>1 DEF OpenPopup, Owned, TypeOK
<1>6. Opener[u] \in Owned(id)
  BY <1>2, <1>3, <1>5
<1>7. CASE u = t
  BY <1>4, <1>5, <1>6, <1>7 DEF Missed
<1>8. CASE u \in pages
  BY <1>1, <1>5, <1>6, <1>8 DEF PopupsHeld, Missed
<1> QED BY <1>2, <1>7, <1>8

LEMMA NextKnown ==
  ASSUME KnownInv, [Next]_vars
  PROVE  KnownInv'
<1> USE DEF chromeVars, tableVars
<1>1. RosterInv'
  BY NextRoster DEF KnownInv
<1>2. TypeOK /\ PopupsHeld /\ Lineage
  BY DEF KnownInv, RosterInv, TypeInv
<1>3. Lineage'
  BY <1>2, NextLineage
<1>4. ASSUME NEW id \in Ids, NEW t \in Targets \cup {None}, Attach(id, t)
      PROVE  PopupsHeld'
  BY <1>2, <1>4, SamePagesHeld DEF Attach, TypeOK, HeldPhases
<1>5. ASSUME \/ UNCHANGED vars
             \/ \E id \in Ids : StartClose(id) \/ RetryCleanup(id) \/ LoseConnection(id)
      PROVE  PopupsHeld'
  <2>1. UNCHANGED <<pages, phase, root, children, strays>> /\ listening' \subseteq listening
    BY <1>5 DEF vars, StartClose, RetryCleanup, LoseConnection
  <2> QED BY <1>2, <2>1, SamePagesHeld
<1>6. ASSUME NEW t \in Targets, PageGoes(t) \/ \E id \in Ids : CloseChild(id, t)
      PROVE  PopupsHeld'
  <2>1. /\ pages' = pages \ {t} /\ UNCHANGED <<phase, root, listening, strays>>
        /\ children' = WithoutPages({t})
    BY <1>6 DEF PageGoes, CloseChild
  <2>2. \A id \in Ids : children'[id] \subseteq children[id] /\ children[id] \ {t} \subseteq children'[id]
    BY <2>1 DEF WithoutPages
  <2> QED BY <1>2, <2>1, <2>2, FewerPagesHeld
<1>7. PopupsHeld'
  BY <1>4, <1>5, <1>6, AttachStepHolds, CleanupStepHolds, PopupHolds DEF Next
<1> QED BY <1>1, <1>3, <1>7 DEF KnownInv

LEMMA InitKnown == Init => KnownInv
  BY InitRoster, AttachRegistryAssumption
     DEF Init, KnownInv, Lineage, PopupsHeld, HeldPhases, AttachRegistryAssumption

\* While it is connected, an open Session knows every popup that its pages have
\* opened, before the attachment or after (discoverChildren).
THEOREM PopupsAlwaysKnown == Spec => []PopupsKnown
<1>1. KnownInv => PopupsKnown
  BY ClosedHasItsDescendants
     DEF KnownInv, PopupsHeld, PopupsKnown, Missed, Sessions, HeldPhases, RosterInv
<1> QED BY <1>1, InitKnown, NextKnown, PTL DEF Spec

-----------------------------------------------------------------------------
(* Exclusive ownership *)

ExclusiveInv == KnownInv /\ ExclusiveOwnership

\* What gives pages up, or learns of strays while it is disconnected, leaves the
\* rest exclusive.
LEMMA StillExclusive ==
  ASSUME ExclusiveOwnership, Holders' \subseteq Holders, strays \subseteq strays',
         \A id \in Holders' :
           /\ Owned(id)' \subseteq Owned(id) \cup strays
           /\ id \in listening' => id \in listening /\ Owned(id)' \subseteq Owned(id)
  PROVE  ExclusiveOwnership'
<1> SUFFICES ASSUME NEW x \in Holders', NEW y \in Holders' \ {x}
             PROVE  /\ Owned(x)' \cap Owned(y)' \subseteq strays'
                    /\ {x, y} \subseteq listening' => Owned(x)' \cap Owned(y)' = {}
  BY DEF ExclusiveOwnership, Holders
<1>1. /\ Owned(x) \cap Owned(y) \subseteq strays
      /\ {x, y} \subseteq listening => Owned(x) \cap Owned(y) = {}
  BY DEF ExclusiveOwnership, Holders
<1>2. Owned(x)' \cap Owned(y)' \subseteq strays'
  BY <1>1
<1>3. ASSUME {x, y} \subseteq listening'
      PROVE  Owned(x)' \cap Owned(y)' = {}
  BY <1>1, <1>3
<1> QED BY <1>2, <1>3

\* Nor does a step matter that changes only what is not held.
LEMMA ExclusiveElsewhere ==
  ASSUME ExclusiveInv, NEW id \in Ids, pendingAttachments' \subseteq pendingAttachments,
         phase' = [phase EXCEPT ![id] = phase'[id]],
         phase'[id] # "session" /\ id \notin pendingAttachments',
         strays' = strays, listening' \ {id} \subseteq listening,
         \A other \in Ids \ {id} : root'[other] = root[other] /\ children'[other] = children[other]
  PROVE  ExclusiveOwnership'
<1>1. /\ phase \in [Ids -> Phases] /\ pendingAttachments \subseteq Ids
      /\ phase' \in [Ids -> {phase[x] : x \in Ids} \cup {phase'[id]}]
  BY DEF ExclusiveInv, KnownInv, RosterInv, TypeInv, TypeOK
<1>2. Holders' \subseteq Holders \ {id} /\ Holders' \subseteq Ids
  BY <1>1 DEF Holders, Sessions
<1>3. \A other \in Ids \ {id} : Owned(other)' = Owned(other)
  BY DEF Owned
<1> QED BY <1>2, <1>3, StillExclusive DEF ExclusiveInv

\* Claim compares the page and its popups with everything that is held.
LEMMA ClaimExcludes ==
  ASSUME ExclusiveInv, NEW id \in Ids, Claim(id)
  PROVE  ExclusiveOwnership'
<1>1. TypeOK
  BY DEF ExclusiveInv, KnownInv, RosterInv, TypeInv
<1>2. Holders' \subseteq Holders \cup {id}
  BY <1>1 DEF Claim, Holders, Sessions, TypeOK
<1>3. /\ Owned(id)' \subseteq {root[id]} \cup Discovered(id)
      /\ \A other \in Ids \ {id} : Owned(other)' = Owned(other)
        /\ listening' = listening /\ strays' = strays
  BY <1>1 DEF Claim, Owned, TypeOK
<1>4. \A other \in Holders \ {id} : ({root[id]} \cup Discovered(id)) \cap Owned(other) = {}
  BY DEF Claim, Conflict, ElsewhereOwned, Holders
<1>5. Holders' \subseteq Ids
  BY <1>1 DEF Claim, Holders, Sessions, TypeOK
<1>6. ASSUME NEW x \in Holders', NEW y \in Holders' \ {x}
      PROVE  /\ Owned(x)' \cap Owned(y)' \subseteq strays'
             /\ {x, y} \subseteq listening' => Owned(x)' \cap Owned(y)' = {}
  <2>1. CASE x = id
    BY <1>2, <1>3, <1>4, <1>5, <1>6, <2>1
  <2>2. CASE y = id
    BY <1>2, <1>3, <1>4, <1>5, <1>6, <2>2
  <2>3. CASE x # id /\ y # id
    BY <1>2, <1>3, <1>5, <1>6, <2>3 DEF ExclusiveInv, ExclusiveOwnership, Holders
  <2> QED BY <2>1, <2>2, <2>3
<1> QED BY <1>6 DEF ExclusiveOwnership, Holders

\* A new popup has one opener, which has one holder that is connected.
LEMMA PopupExcludes ==
  ASSUME ExclusiveInv, NEW t \in Targets, OpenPopup(t)
  PROVE  ExclusiveOwnership'
<1>1. TypeOK /\ Roster
  BY DEF ExclusiveInv, KnownInv, RosterInv, TypeInv
<1>2. Holders' = Holders /\ Holders \subseteq Ids /\ listening' = listening
  BY <1>1 DEF OpenPopup, Holders, Sessions, tableVars, TypeOK
<1>3. /\ strays \subseteq strays'
      /\ \A id \in Ids :
           /\ Owned(id)' \subseteq Owned(id) \cup {t}
           /\ t \in Owned(id)' => \/ t \in Owned(id)
                                  \/ id \in listening /\ Opener[t] \in Owned(id)
  BY <1>1 DEF OpenPopup, Owned, TypeOK
<1>4. \A id \in Ids : t \notin Owned(id)
  BY <1>1 DEF OpenPopup, Roster
<1>5. ASSUME NEW x \in Holders, NEW y \in Holders \ {x}
      PROVE  /\ Owned(x)' \cap Owned(y)' \subseteq strays'
             /\ {x, y} \subseteq listening' => Owned(x)' \cap Owned(y)' = {}
  <2>1. /\ Owned(x) \cap Owned(y) \subseteq strays
        /\ {x, y} \subseteq listening => Owned(x) \cap Owned(y) = {}
    BY DEF ExclusiveInv, ExclusiveOwnership, Holders
  <2>2. ~(t \in Owned(x)' /\ t \in Owned(y)')
    BY <1>2, <1>3, <1>4, <2>1
  <2>3. Owned(x)' \cap Owned(y)' \subseteq Owned(x) \cap Owned(y)
    BY <1>2, <1>3, <2>2
  <2> QED BY <1>2, <1>3, <2>1, <2>3
<1> QED BY <1>2, <1>5 DEF ExclusiveOwnership, Holders

LEMMA AttachStepExclusive ==
  ASSUME ExclusiveInv, NEW id \in Ids, AttachStep(id)
  PROVE  ExclusiveOwnership'
<1> USE DEF chromeVars, tableVars
<1>1. /\ TypeOK /\ Roster /\ ExclusiveOwnership
      /\ phase \in [Ids -> Phases] /\ pendingAttachments \subseteq Ids
  BY DEF ExclusiveInv, KnownInv, RosterInv, TypeInv, TypeOK
<1>2. CASE FindPage(id)
  <2>1. id \notin pendingAttachments
    BY <1>1, <1>2 DEF FindPage, Roster, HeldPhases
  <2> QED BY <1>1, <1>2, <2>1, ExclusiveElsewhere DEF FindPage, TypeOK
<1>3. CASE CreateController(id) \/ FailCreated(id)
  <2>1. id \notin pendingAttachments
    BY <1>1, <1>3 DEF CreateController, FailCreated, Roster, HeldPhases
  <2> QED BY <1>1, <1>3, <2>1, ExclusiveElsewhere DEF CreateController, FailCreated
<1>4. CASE LoseConflict(id) \/ FailBare(id)
  <2>1. id \notin pendingAttachments
    BY <1>1, <1>4 DEF LoseConflict, FailBare, Roster, HeldPhases
  <2>2. phase' = [phase EXCEPT ![id] = phase'[id]] /\ phase'[id] # "session"
    BY <1>1, <1>4 DEF LoseConflict, FailBare
  <2>3. /\ pendingAttachments' = pendingAttachments
        /\ strays' = strays /\ listening' \subseteq listening
        /\ \A other \in Ids \ {id} : root'[other] = root[other] /\ children'[other] = children[other]
    BY <1>1, <1>4 DEF LoseConflict, FailBare, TypeOK
  <2> QED BY <2>1, <2>2, <2>3, ExclusiveElsewhere
<1>5. CASE Claim(id)
  BY <1>5, ClaimExcludes
<1>6. CASE BindTarget(id) \/ FailClaimed(id) \/ Publish(id)
  <2>1. UNCHANGED <<root, children, pendingAttachments, listening, strays>>
    BY <1>6 DEF BindTarget, FailClaimed, Publish
  <2>2. id \in pendingAttachments /\ \A other \in Ids \ {id} : phase'[other] = phase[other]
    BY <1>1, <1>6 DEF BindTarget, FailClaimed, Publish, Roster
  <2>3. Holders' \subseteq Holders
    BY <2>1, <2>2 DEF Holders, Sessions
  <2> QED BY <1>1, <2>1, <2>3, StillExclusive DEF Owned
<1>7. CASE InitialisationEnds(id)
  <2>1. Holders' \subseteq Holders
    BY <1>1, <1>7 DEF InitialisationEnds, Holders, Sessions
  <2>2. /\ \A other \in Ids : Owned(other)' \subseteq Owned(other)
        /\ UNCHANGED <<listening, strays>>
    BY <1>1, <1>7 DEF InitialisationEnds, Owned, TypeOK
  <2> QED BY <1>1, <2>1, <2>2, StillExclusive DEF Holders, Sessions, InitialisationEnds
<1> QED BY <1>2, <1>3, <1>4, <1>5, <1>6, <1>7 DEF AttachStep

LEMMA CleanupStepExclusive ==
  ASSUME ExclusiveInv, NEW id \in Ids, CleanupStep(id)
  PROVE  ExclusiveOwnership'
<1> USE DEF chromeVars, tableVars
<1>1. /\ TypeOK /\ TypeInv /\ RosterInv /\ Roster /\ ExclusiveOwnership
      /\ phase \in [Ids -> Phases] /\ pendingAttachments \subseteq Ids
  BY DEF ExclusiveInv, KnownInv, RosterInv, TypeInv, TypeOK
<1>2. closing[id] # "no" /\ id \in Holders => phase[id] \in HeldPhases
  BY <1>1 DEF TypeInv, CleanupShape, Roster, Holders, Sessions, HeldPhases, CleanupPhases
<1>3. ASSUME NEW closed, ClosePages(id, closed), closed \subseteq Condemned(id),
             UNCHANGED <<root, listening, strays>>, closing[id] # "no", Holders' = Holders
      PROVE  ExclusiveOwnership'
  <2>1. \A other \in Holders :
          /\ Owned(other)' \subseteq Owned(other) \cup strays
          /\ other \in listening => Owned(other)' \subseteq Owned(other)
    BY <1>1, <1>2, <1>3, ClosePagesOwned, HeldCondemned DEF ExclusiveInv, Holders, Sessions
  <2> QED BY <1>1, <1>3, <2>1, StillExclusive
<1>4. CASE CloseTargets(id)
  <2>1. Holders' = Holders /\ UNCHANGED <<root, listening, strays>> /\ closing[id] # "no"
    BY <1>4 DEF CloseTargets, Holders, Sessions
  <2> QED BY <1>3, <1>4, <2>1 DEF CloseTargets
<1>5. ASSUME Retain(id)
      PROVE  Holders' = Holders /\ UNCHANGED <<root, listening, strays>>
  BY <1>1, <1>5 DEF Retain, Holders, Sessions
<1>6. CASE CloseRefused(id)
  <2>1. Holders' = Holders /\ UNCHANGED <<root, listening, strays>> /\ closing[id] # "no"
    BY <1>5, <1>6 DEF CloseRefused
  <2>2. CASE UNCHANGED <<pages, children, victims>>
    BY <1>1, <2>1, <2>2, StillExclusive DEF Owned
  <2> QED BY <1>3, <1>6, <2>1, <2>2 DEF CloseRefused
<1>7. CASE StorageCleanupFails(id)
  <2>1. Holders' = Holders /\ UNCHANGED <<root, children, listening, strays>>
    BY <1>5, <1>7 DEF StorageCleanupFails
  <2> QED BY <1>1, <2>1, StillExclusive DEF Owned
<1>8. CASE AbandonEnds(id) \/ CleanupEnds(id)
  <2>1. /\ pendingAttachments' \subseteq pendingAttachments /\ id \notin pendingAttachments'
        /\ phase' = [phase EXCEPT ![id] = phase'[id]] /\ phase'[id] # "session"
    BY <1>1, <1>8 DEF AbandonEnds, CleanupEnds, Roster, HeldPhases
  <2>2. /\ \A other \in Ids \ {id} : root'[other] = root[other] /\ children'[other] = children[other]
        /\ strays' = strays /\ listening' \subseteq listening
    BY <1>1, <1>8 DEF AbandonEnds, CleanupEnds, Forget, TypeOK
  <2> QED BY <2>1, <2>2, ExclusiveElsewhere
<1>9. CASE Dispose(id)
  <2>1. Holders' \subseteq Holders /\ Holders' \subseteq Ids
    BY <1>1, <1>9 DEF Dispose, Holders, Sessions
  <2>2. /\ \A other \in Ids : Owned(other)' \subseteq Owned(other)
        /\ strays' = strays /\ listening' \subseteq listening
    BY <1>1, <1>9 DEF Dispose, Forget, Owned, TypeOK
  <2> QED BY <1>1, <2>1, <2>2, StillExclusive
<1> QED BY <1>4, <1>6, <1>7, <1>8, <1>9 DEF CleanupStep

LEMMA NextExclusive ==
  ASSUME ExclusiveInv, [Next]_vars
  PROVE  ExclusiveInv'
<1> USE DEF chromeVars, tableVars
<1>1. KnownInv'
  BY NextKnown DEF ExclusiveInv
<1>2. /\ TypeOK /\ Roster /\ ExclusiveOwnership
      /\ phase \in [Ids -> Phases] /\ pendingAttachments \subseteq Ids
  BY DEF ExclusiveInv, KnownInv, RosterInv, TypeInv, TypeOK
<1>3. ASSUME NEW id \in Ids, NEW t \in Targets \cup {None}, Attach(id, t)
      PROVE  ExclusiveOwnership'
  <2>1. id \notin pendingAttachments
    BY <1>2, <1>3 DEF Attach, Roster, HeldPhases
  <2> QED BY <1>2, <1>3, <2>1, ExclusiveElsewhere DEF Attach
<1>4. ASSUME UNCHANGED <<phase, pendingAttachments, root, strays>>,
             listening' \subseteq listening,
             \A id \in Ids : children'[id] \subseteq children[id]
      PROVE  ExclusiveOwnership'
  <2>1. Holders' = Holders /\ Holders \subseteq Ids
    BY <1>2, <1>4 DEF Holders, Sessions
  <2>2. \A id \in Ids : Owned(id)' \subseteq Owned(id)
    BY <1>4 DEF Owned
  <2> QED BY <1>2, <1>4, <2>1, <2>2, StillExclusive
<1>5. ASSUME NEW id \in Ids, StartClose(id) \/ RetryCleanup(id)
      PROVE  ExclusiveOwnership'
  BY <1>4, <1>5 DEF StartClose, RetryCleanup
<1>6. ASSUME NEW id \in Ids, NEW t \in Targets, CloseChild(id, t)
      PROVE  ExclusiveOwnership'
  BY <1>4, <1>6 DEF CloseChild, WithoutPages
<1>7. ASSUME NEW t \in Targets, PageGoes(t)
      PROVE  ExclusiveOwnership'
  BY <1>4, <1>7 DEF PageGoes, WithoutPages
<1>8. ASSUME UNCHANGED vars
      PROVE  ExclusiveOwnership'
  BY <1>4, <1>8 DEF vars
<1>9. ASSUME NEW id \in Ids, LoseConnection(id)
      PROVE  ExclusiveOwnership'
  BY <1>4, <1>9 DEF LoseConnection
<1>10. ExclusiveOwnership'
  BY <1>3, <1>5, <1>6, <1>7, <1>8, <1>9, PopupExcludes, AttachStepExclusive,
     CleanupStepExclusive DEF Next
<1> QED BY <1>1, <1>10 DEF ExclusiveInv

LEMMA InitExclusive == Init => ExclusiveInv
  BY InitKnown DEF Init, ExclusiveInv, ExclusiveOwnership, Sessions

\* A page and its popups belong to one Session or pending attachment at a time;
\* what two may share was opened while one of them was disconnected, who still is
\* (both checks of attachSession).
THEOREM PagesOwnedOnce == Spec => []ExclusiveOwnership
  BY InitExclusive, NextExclusive, PTL DEF Spec, ExclusiveInv

-----------------------------------------------------------------------------
(* What a cleanup closes *)

\* An Embedder names pages it can know of: not one that another call is still
\* creating.
AdoptsKnownPages == \A t \in Adoptable : t \in Initial \/ Opener[t] # None

\* An attachment starts without children and without a controller.
StartsEmpty ==
  \A id \in Ids : phase[id] \in {"none", "connect", "disposed"} =>
    children[id] = {} /\ id \notin listening

\* A page being created is nobody else's, and has opened nothing.
CreatedApart ==
  \A id \in Ids : Creating(id) =>
    /\ children[id] = {}
    /\ root[id] \in born \ Initial /\ Opener[root[id]] = None
    /\ \A t \in born : Opener[t] # root[id]
    /\ \A other \in Ids \ {id} : root[other] # root[id]

CreatedInv ==
  /\ RosterInv /\ Lineage /\ StartsEmpty /\ CreatedApart
  /\ \A id \in Ids : adopt[id] \in Adoptable \cup {None}

\* Where no page is born, no page is found and no controller learns of one,
\* what is being created stays so.
LEMMA StillApart ==
  ASSUME CreatedApart, None \notin born, born' = born,
         \A id \in Ids : /\ root'[id] \in {root[id], None}
                         /\ Creating(id)' => /\ Creating(id) /\ root'[id] = root[id]
                                             /\ children'[id] = {}
  PROVE  CreatedApart'
<1> SUFFICES ASSUME NEW id \in Ids, Creating(id)'
             PROVE  /\ children'[id] = {}
                    /\ root'[id] \in born' \ Initial /\ Opener[root'[id]] = None
                    /\ \A t \in born' : Opener[t] # root'[id]
                    /\ \A other \in Ids \ {id} : root'[other] # root'[id]
  BY DEF CreatedApart
<1>1. Creating(id) /\ root'[id] = root[id] /\ children'[id] = {}
  OBVIOUS
<1> QED BY <1>1 DEF CreatedApart

\* attachTab creates a page nobody knows, or finds one that nobody is creating.
LEMMA FoundApart ==
  ASSUME AdoptsKnownPages, CreatedInv, NEW id \in Ids, FindPage(id)
  PROVE  CreatedApart'
<1>1. TypeOK /\ Roster /\ Lineage /\ StartsEmpty /\ CreatedApart
  BY DEF CreatedInv, RosterInv, TypeInv
<1>2. PICK t \in Targets :
        /\ IF adopt[id] = None
             THEN /\ t \notin born /\ Opener[t] = None
                  /\ pages' = pages \cup {t} /\ born' = born \cup {t}
             ELSE /\ t = adopt[id] /\ t \in pages
                  /\ UNCHANGED <<pages, born>>
        /\ root' = [root EXCEPT ![id] = t]
  BY DEF FindPage
<1>3. /\ root'[id] = t /\ children' = children /\ adopt' = adopt
      /\ \A other \in Ids \ {id} : root'[other] = root[other] /\ phase'[other] = phase[other]
      /\ phase[id] = "connect" /\ phase'[id] = "attach" /\ t # None
  BY <1>1, <1>2, AttachRegistryAssumption
     DEF FindPage, TypeOK, AttachRegistryAssumption
<1>4. \A other \in Ids \ {id} : Creating(other)' => Creating(other)
  BY <1>3 DEF Creating
<1>5. ASSUME NEW other \in Ids \ {id}, Creating(other)
      PROVE  root[other] # t /\ Opener[t] # root[other]
  <2>1. root[other] \in born \ Initial /\ Opener[root[other]] = None
        /\ \A u \in born : Opener[u] # root[other]
    BY <1>5 DEF CreatedInv, CreatedApart
  <2>2. root[other] # None
    BY <2>1, <1>1, AttachRegistryAssumption DEF AttachRegistryAssumption, TypeOK
  <2>3. CASE adopt[id] = None
    BY <1>2, <2>1, <2>2, <2>3
  <2>4. CASE adopt[id] # None
    <3>1. t \in Adoptable /\ t \in born
      BY <1>1, <1>2, <2>4 DEF CreatedInv, TypeOK
    <3> QED BY <2>1, <3>1 DEF AdoptsKnownPages
  <2> QED BY <2>3, <2>4
<1>6. ASSUME NEW other \in Ids \ {id}, Creating(other)'
      PROVE  /\ children'[other] = {}
             /\ root'[other] \in born' \ Initial /\ Opener[root'[other]] = None
             /\ \A u \in born' : Opener[u] # root'[other]
             /\ \A x \in Ids \ {other} : root'[x] # root'[other]
  <2>1. Creating(other) /\ born' \subseteq born \cup {t} /\ born \subseteq born'
    BY <1>2, <1>4, <1>6
  <2> QED BY <1>1, <1>3, <1>5, <2>1 DEF CreatedApart
<1>7. ASSUME Creating(id)'
      PROVE  /\ children'[id] = {}
             /\ root'[id] \in born' \ Initial /\ Opener[root'[id]] = None
             /\ \A u \in born' : Opener[u] # root'[id]
             /\ \A x \in Ids \ {id} : root'[x] # root'[id]
  <2>1. adopt[id] = None
    BY <1>3, <1>7 DEF Creating
  <2>2. t \notin born /\ Opener[t] = None /\ born' = born \cup {t}
    BY <1>2, <2>1
  <2>3. \A x \in Ids : root[x] # t
    BY <1>1, <1>3, <2>2 DEF Roster, Owned
  <2>4. children[id] = {}
    BY <1>1, <1>3 DEF StartsEmpty
  <2>5. t \notin Initial /\ \A u \in born' : Opener[u] # t
    BY <1>1, <1>3, <2>2 DEF Lineage
  <2> QED BY <1>3, <2>2, <2>3, <2>4, <2>5
<1> QED BY <1>6, <1>7 DEF CreatedApart

LEMMA AttachStepApart ==
  ASSUME AdoptsKnownPages, CreatedInv, NEW id \in Ids, AttachStep(id)
  PROVE  CreatedApart'
<1> USE DEF chromeVars, tableVars
<1>1. /\ TypeOK /\ Roster /\ Lineage /\ StartsEmpty /\ CreatedApart
      /\ None \notin born
  BY AttachRegistryAssumption
     DEF CreatedInv, RosterInv, TypeInv, TypeOK, AttachRegistryAssumption
<1>2. CASE FindPage(id)
  BY <1>2, FoundApart
<1>3. ASSUME CreateController(id) \/ Claim(id) \/ LoseConflict(id) \/ BindTarget(id) \/ Publish(id)
               \/ InitialisationEnds(id) \/ FailBare(id) \/ FailCreated(id) \/ FailClaimed(id)
      PROVE  CreatedApart'
  <2>1. born' = born
    BY <1>3 DEF CreateController, Claim, LoseConflict, BindTarget, Publish, InitialisationEnds,
       FailBare, FailCreated, FailClaimed
  <2>2. \A other \in Ids \ {id} : /\ phase'[other] = phase[other] /\ adopt'[other] = adopt[other]
                                  /\ root'[other] = root[other] /\ children'[other] = children[other]
    BY <1>1, <1>3 DEF CreateController, Claim, LoseConflict, BindTarget, Publish,
       InitialisationEnds, Return, FailBare, FailCreated, FailClaimed, TypeOK
  <2>3. root'[id] \in {root[id], None}
    BY <1>1, <1>3 DEF CreateController, Claim, LoseConflict, BindTarget, Publish,
       InitialisationEnds, FailBare, FailCreated, FailClaimed, TypeOK
  <2>4. ASSUME Creating(id)'
        PROVE  Creating(id) /\ root'[id] = root[id] /\ children'[id] \subseteq children[id]
    BY <1>1, <1>3, <2>4 DEF CreateController, Claim, LoseConflict, BindTarget, Publish,
       InitialisationEnds, FailBare, FailCreated, FailClaimed, TypeOK, Creating
  <2>5. Creating(id)' => children'[id] = {}
    BY <1>1, <2>4 DEF CreatedApart
  <2>6. \A other \in Ids \ {id} : Creating(other)' => Creating(other) /\ children'[other] = {}
    BY <1>1, <2>2 DEF Creating, CreatedApart
  <2> QED BY <1>1, <2>1, <2>2, <2>3, <2>4, <2>5, <2>6, StillApart
<1> QED BY <1>2, <1>3 DEF AttachStep

\* A page being created is all that its cleanup closes.
LEMMA CreatedCondemned ==
  ASSUME CreatedInv, NEW id \in Ids, Creating(id), closing[id] # "no"
  PROVE  Condemned(id) = {root[id]}
<1>1. TypeOK /\ CleanupShape /\ CreatedApart
  BY DEF CreatedInv, RosterInv, TypeInv
<1>2. children[id] = {} /\ root[id] \in born /\ \A t \in born : Opener[t] # root[id]
  BY <1>1 DEF CreatedApart
<1>3. root[id] # None /\ pages \subseteq born
  BY <1>1, <1>2, AttachRegistryAssumption DEF TypeOK, AttachRegistryAssumption
<1>4. Owned(id) = {root[id]}
  BY <1>2, <1>3 DEF Owned
<1>5. Descendants(Owned(id)) = {}
  BY <1>2, <1>3, <1>4, NoPopupsNoDescendants
<1>6. phase[id] \in {"abandon", "closeFailed", "closePage"}
  BY <1>1 DEF Creating, CleanupShape, CleanupPhases
<1> QED BY <1>4, <1>5, <1>6 DEF Condemned

LEMMA ClosePagesApart ==
  ASSUME CreatedInv, NEW id \in Ids, NEW closed, ClosePages(id, closed),
         closed \subseteq Condemned(id), closing[id] # "no", root' = root, born' = born,
         \A other \in Ids : Creating(other)' => Creating(other)
  PROVE  CreatedApart'
<1>1. TypeOK /\ CreatedApart /\ None \notin born
  BY AttachRegistryAssumption
     DEF CreatedInv, RosterInv, TypeInv, TypeOK, AttachRegistryAssumption
<1>2. \A other \in Ids \ {id} :
        children'[other] = IF other \in listening THEN children[other] \ closed
                           ELSE children[other]
  BY <1>1, ClosePagesFacts
<1>3. children'[id] = IF phase[id] \in {"closeNothing", "closePage"} THEN {}
                      ELSE ((children[id] \cup Condemned(id)) \ closed) \ {root[id]}
  BY <1>1, ClosePagesFacts
<1>4. Creating(id) => children'[id] = {}
  BY <1>1, <1>3, CreatedCondemned DEF CreatedApart
<1>5. \A other \in Ids : Creating(other) => children'[other] = {}
  BY <1>1, <1>2, <1>4 DEF CreatedApart
<1> QED BY <1>1, <1>5, StillApart

LEMMA CleanupStepApart ==
  ASSUME CreatedInv, NEW id \in Ids, CleanupStep(id)
  PROVE  CreatedApart'
<1> USE DEF chromeVars, tableVars
<1>1. TypeOK /\ CleanupShape /\ CreatedApart /\ None \notin born
  BY AttachRegistryAssumption
     DEF CreatedInv, RosterInv, TypeInv, TypeOK, AttachRegistryAssumption
<1>2. CASE CloseTargets(id)
  <2>1. \A other \in Ids : Creating(other)' => Creating(other)
    BY <1>2 DEF CloseTargets, Creating
  <2> QED BY <1>2, <2>1, ClosePagesApart DEF CloseTargets
<1>3. ASSUME Retain(id), closing[id] # "no"
      PROVE  root' = root /\ born' = born /\ \A other \in Ids : Creating(other)' => Creating(other)
  <2>1. \A other \in Ids \ {id} : phase'[other] = phase[other] /\ adopt'[other] = adopt[other]
    BY <1>1, <1>3 DEF Retain, Return, TypeOK
  <2>2. Creating(id)' => Creating(id)
    BY <1>1, <1>3 DEF Retain, Creating, TypeOK, CleanupShape, CleanupPhases
  <2> QED BY <1>3, <2>1, <2>2 DEF Retain, Creating
<1>4. CASE CloseRefused(id)
  <2>1. CASE UNCHANGED <<pages, children, victims>>
    BY <1>1, <1>3, <1>4, <2>1, StillApart DEF CloseRefused, CreatedApart
  <2>2. ASSUME NEW closed \in SUBSET (Condemned(id) \cap pages), ClosePages(id, closed)
        PROVE  CreatedApart'
    BY <1>3, <1>4, <2>2, ClosePagesApart DEF CloseRefused
  <2> QED BY <1>4, <2>1, <2>2 DEF CloseRefused
<1>5. CASE StorageCleanupFails(id)
  BY <1>1, <1>3, <1>5, StillApart DEF StorageCleanupFails, CreatedApart
<1>6. CASE AbandonEnds(id) \/ CleanupEnds(id) \/ Dispose(id)
  <2>1. /\ born' = born /\ root'[id] \in {root[id], None}
        /\ \A other \in Ids \ {id} : /\ phase'[other] = phase[other] /\ root'[other] = root[other]
                                     /\ children'[other] = children[other]
    BY <1>1, <1>6 DEF AbandonEnds, CleanupEnds, Dispose, Forget, TypeOK
  <2>2. \A other \in Ids \ {id} : adopt'[other] = adopt[other]
    BY <1>1, <1>6 DEF AbandonEnds, CleanupEnds, Dispose, Return, TypeOK
  <2>3. ~Creating(id)'
    BY <1>1, <1>6 DEF AbandonEnds, CleanupEnds, Dispose, TypeOK, Creating
  <2>4. \A other \in Ids \ {id} : Creating(other)' => Creating(other) /\ children'[other] = {}
    BY <1>1, <2>1, <2>2 DEF Creating, CreatedApart
  <2> QED BY <1>1, <2>1, <2>3, <2>4, StillApart
<1> QED BY <1>2, <1>4, <1>5, <1>6 DEF CleanupStep

\* about:blank opens nothing.
LEMMA PopupApart ==
  ASSUME CreatedInv, NEW t \in Targets, OpenPopup(t)
  PROVE  CreatedApart'
<1>1. TypeOK /\ CreatedApart
  BY DEF CreatedInv, RosterInv, TypeInv
<1>2. \A id \in Ids : Creating(id) => Opener[t] # root[id]
  BY <1>1 DEF OpenPopup, Blank
<1>3. UNCHANGED <<phase, adopt, root>> /\ born' = born \cup {t}
  BY DEF OpenPopup
<1>4. \A id \in Ids : Creating(id) => children'[id] = {}
  BY <1>1, <1>2 DEF OpenPopup, CreatedApart, Owned
<1> SUFFICES ASSUME NEW id \in Ids, Creating(id)'
             PROVE  /\ children'[id] = {}
                    /\ root'[id] \in born' \ Initial /\ Opener[root'[id]] = None
                    /\ \A u \in born' : Opener[u] # root'[id]
                    /\ \A other \in Ids \ {id} : root'[other] # root'[id]
  BY DEF CreatedApart
<1>5. Creating(id)
  BY <1>3 DEF Creating
<1> QED BY <1>1, <1>2, <1>3, <1>4, <1>5 DEF CreatedApart

LEMMA NextApart ==
  ASSUME AdoptsKnownPages, CreatedInv, [Next]_vars
  PROVE  CreatedApart'
<1> USE DEF chromeVars, tableVars
<1>1. TypeOK /\ CreatedApart /\ None \notin born
  BY AttachRegistryAssumption
     DEF CreatedInv, RosterInv, TypeInv, TypeOK, AttachRegistryAssumption
<1>2. ASSUME UNCHANGED <<born, root>>,
             \A id \in Ids : /\ Creating(id)' => Creating(id)
                             /\ children'[id] \subseteq children[id]
      PROVE  CreatedApart'
  <2>1. \A id \in Ids : Creating(id)' => children'[id] = {}
    BY <1>1, <1>2 DEF CreatedApart
  <2> QED BY <1>1, <1>2, <2>1, StillApart
<1>3. ASSUME NEW id \in Ids, NEW t \in Targets \cup {None}, Attach(id, t)
      PROVE  CreatedApart'
  <2>1. UNCHANGED <<born, root, children>>
    BY <1>3 DEF Attach
  <2>2. \A other \in Ids : Creating(other)' => Creating(other)
    BY <1>1, <1>3 DEF Attach, Creating, TypeOK
  <2> QED BY <1>2, <2>1, <2>2
<1>4. ASSUME \/ UNCHANGED vars
             \/ \E id \in Ids : \/ StartClose(id) \/ RetryCleanup(id) \/ LoseConnection(id)
                                \/ \E t \in Targets : CloseChild(id, t)
             \/ \E t \in Targets : PageGoes(t)
      PROVE  CreatedApart'
  <2>1. UNCHANGED <<born, root, phase, adopt>> /\ \A id \in Ids : children'[id] \subseteq children[id]
    BY <1>4 DEF vars, StartClose, RetryCleanup, LoseConnection, CloseChild, PageGoes, WithoutPages
  <2>2. \A id \in Ids : Creating(id)' => Creating(id)
    BY <2>1 DEF Creating
  <2> QED BY <1>2, <2>1, <2>2
<1> QED BY <1>3, <1>4, AttachStepApart, CleanupStepApart, PopupApart DEF Next

\* A step of one identity, at most, learns of pages, and it is not at its start.
LEMMA StillEmpty ==
  ASSUME StartsEmpty,
         \A id \in Ids : phase'[id] \in {"none", "connect", "disposed"} =>
           \/ children'[id] = {} /\ id \notin listening'
           \/ /\ phase[id] \in {"none", "connect", "disposed"}
              /\ children'[id] \subseteq children[id] /\ (id \in listening' => id \in listening)
  PROVE  StartsEmpty'
  BY DEF StartsEmpty

LEMMA NextStartsEmpty ==
  ASSUME CreatedInv, [Next]_vars
  PROVE  StartsEmpty'
<1> USE DEF chromeVars, tableVars
<1>1. TypeOK /\ CleanupShape /\ StartsEmpty
  BY DEF CreatedInv, RosterInv, TypeInv
<1>2. ASSUME NEW id \in Ids, NEW t \in Targets \cup {None}, Attach(id, t)
      PROVE  StartsEmpty'
  BY <1>1, <1>2 DEF Attach, StartsEmpty, TypeOK
<1>3. ASSUME NEW id \in Ids, AttachStep(id)
      PROVE  StartsEmpty'
  BY <1>1, <1>3 DEF AttachStep, FindPage, CreateController, Claim, LoseConflict, BindTarget,
     Publish, InitialisationEnds, FailBare, FailCreated, FailClaimed, StartsEmpty, TypeOK
<1>4. ASSUME NEW id \in Ids, NEW closed, ClosePages(id, closed), closed \subseteq Condemned(id),
             listening' = listening, phase'[id] \notin {"none", "connect", "disposed"},
             \A other \in Ids \ {id} : phase'[other] = phase[other]
      PROVE  StartsEmpty'
  <2>1. \A other \in Ids \ {id} :
          children'[other] = IF other \in listening THEN children[other] \ closed
                             ELSE children[other]
    BY <1>1, <1>4, ClosePagesFacts
  <2> QED BY <1>1, <1>4, <2>1 DEF StartsEmpty
<1>5. ASSUME NEW id \in Ids, CleanupStep(id)
      PROVE  StartsEmpty'
  <2>1. CASE CloseTargets(id)
    BY <1>1, <1>4, <2>1 DEF CloseTargets, CleanupShape, CleanupPhases
  <2>2. ASSUME Retain(id), closing[id] # "no"
        PROVE  /\ listening' = listening /\ phase'[id] \notin {"none", "connect", "disposed"}
               /\ \A other \in Ids \ {id} : phase'[other] = phase[other]
    BY <1>1, <2>2 DEF Retain, TypeOK, CleanupShape, CleanupPhases
  <2>3. CASE CloseRefused(id)
    <3>1. CASE UNCHANGED <<pages, children, victims>>
      BY <1>1, <2>2, <2>3, <3>1 DEF CloseRefused, StartsEmpty
    <3>2. ASSUME NEW closed \in SUBSET (Condemned(id) \cap pages), ClosePages(id, closed)
          PROVE  StartsEmpty'
      BY <1>4, <2>2, <2>3, <3>2 DEF CloseRefused
    <3> QED BY <2>3, <3>1, <3>2 DEF CloseRefused
  <2>4. CASE StorageCleanupFails(id)
    BY <1>1, <2>2, <2>4 DEF StorageCleanupFails, StartsEmpty
  <2>5. CASE AbandonEnds(id) \/ CleanupEnds(id) \/ Dispose(id)
    BY <1>1, <2>5 DEF AbandonEnds, CleanupEnds, Dispose, Forget, StartsEmpty, TypeOK
  <2> QED BY <1>5, <2>1, <2>3, <2>4, <2>5 DEF CleanupStep
<1>6. ASSUME NEW t \in Targets, OpenPopup(t)
      PROVE  StartsEmpty'
  BY <1>1, <1>6 DEF OpenPopup, StartsEmpty
<1>7. ASSUME \/ UNCHANGED vars
             \/ \E id \in Ids : \/ StartClose(id) \/ RetryCleanup(id) \/ LoseConnection(id)
                                \/ \E t \in Targets : CloseChild(id, t)
             \/ \E t \in Targets : PageGoes(t)
      PROVE  StartsEmpty'
  <2>1. /\ phase' = phase /\ \A id \in Ids : children'[id] \subseteq children[id]
        /\ \A id \in Ids : id \in listening' => id \in listening
    BY <1>7 DEF vars, StartClose, RetryCleanup, LoseConnection, CloseChild, PageGoes, WithoutPages
  <2> QED BY <1>1, <2>1, StillEmpty
<1> QED BY <1>2, <1>3, <1>5, <1>6, <1>7 DEF Next

LEMMA NextAdopts ==
  ASSUME CreatedInv, [Next]_vars
  PROVE  \A id \in Ids : adopt'[id] \in Adoptable \cup {None}
<1>1. adopt \in [Ids -> Adoptable \cup {None}]
  BY DEF CreatedInv, RosterInv, TypeInv, TypeOK
<1>2. ASSUME NEW id \in Ids, NEW t \in Targets \cup {None}, Attach(id, t)
      PROVE  \A x \in Ids : adopt'[x] \in Adoptable \cup {None}
  BY <1>1, <1>2 DEF Attach
<1>3. ASSUME adopt' = adopt \/ \E id \in Ids : Return(id)
      PROVE  \A x \in Ids : adopt'[x] \in Adoptable \cup {None}
  BY <1>1, <1>3 DEF Return
<1>4. ASSUME NEW id \in Ids, AttachStep(id) \/ CleanupStep(id)
      PROVE  adopt' = adopt \/ Return(id)
  BY <1>4 DEF AttachStep, FindPage, CreateController, Claim, LoseConflict, BindTarget, Publish,
     InitialisationEnds, FailBare, FailCreated, FailClaimed, CleanupStep, CloseTargets,
     CloseRefused, StorageCleanupFails, Retain, AbandonEnds, CleanupEnds, Dispose
<1>5. ASSUME \/ UNCHANGED vars
             \/ \E id \in Ids : \/ StartClose(id) \/ RetryCleanup(id) \/ LoseConnection(id)
                                \/ \E t \in Targets : CloseChild(id, t)
             \/ \E t \in Targets : OpenPopup(t) \/ PageGoes(t)
      PROVE  adopt' = adopt
  BY <1>5 DEF vars, StartClose, RetryCleanup, LoseConnection, CloseChild, OpenPopup, PageGoes
<1> QED BY <1>2, <1>3, <1>4, <1>5 DEF Next

LEMMA NextCreated ==
  ASSUME AdoptsKnownPages, CreatedInv, [Next]_vars
  PROVE  CreatedInv'
<1>1. TypeOK /\ Lineage /\ RosterInv
  BY DEF CreatedInv, RosterInv, TypeInv
<1> QED BY <1>1, NextRoster, NextLineage, NextApart, NextStartsEmpty, NextAdopts DEF CreatedInv

\* What a cleanup closes is held by nobody else, or is a stray.
LEMMA CondemnedUnheld ==
  ASSUME CreatedInv, ExclusiveInv, NEW id \in Ids, closing[id] # "no",
         NEW other \in Holders \ {id}
  PROVE  Condemned(id) \cap Owned(other) \subseteq strays
<1>1. TypeOK /\ CleanupShape /\ Roster /\ Lineage /\ CreatedApart /\ other \in Ids
  BY DEF CreatedInv, RosterInv, TypeInv, TypeOK, Holders, Sessions
<1>2. CASE Creating(id)
  <2>1. Condemned(id) = {root[id]} /\ root[other] # root[id] /\ Opener[root[id]] = None
    BY <1>1, <1>2, CreatedCondemned DEF CreatedApart
  <2>2. root[id] \notin children[other]
    BY <1>1, <2>1 DEF Lineage
  <2> QED BY <2>1, <2>2 DEF Owned
<1>3. CASE phase[id] = "closeNothing"
  BY <1>3 DEF Condemned
<1>4. CASE phase[id] \in {"session", "closeTree"}
  <2>1. id \in Holders
    BY <1>1, <1>4 DEF Roster, Holders, Sessions
  <2>2. Condemned(id) \subseteq Owned(id) \cup strays
    BY <1>4, HeldCondemned DEF ExclusiveInv, HeldPhases
  <2> QED BY <2>1, <2>2 DEF ExclusiveInv, ExclusiveOwnership, Holders
<1> QED BY <1>1, <1>2, <1>3, <1>4 DEF CleanupShape, CleanupPhases, Creating

ForeignInv == CreatedInv /\ ExclusiveInv /\ NoForeignClose

LEMMA ClosePagesUnheld ==
  ASSUME CreatedInv, ExclusiveInv, NEW id \in Ids, closing[id] # "no",
         NEW closed, closed \subseteq Condemned(id), ClosePages(id, closed)
  PROVE  victims' \subseteq victims \cup strays
<1>1. \A t \in closed : (\E other \in Holders \ {id} : t \in Owned(other)) => t \in strays
  BY CondemnedUnheld
<1> QED BY <1>1 DEF ClosePages, Holders

LEMMA NextForeign ==
  ASSUME AdoptsKnownPages, ForeignInv, [Next]_vars
  PROVE  ForeignInv'
<1> USE DEF chromeVars, tableVars
<1>1. CreatedInv /\ ExclusiveInv /\ ExclusiveOwnership /\ CreatedInv' /\ ExclusiveInv'
  BY NextCreated, NextExclusive DEF ForeignInv, ExclusiveInv
<1>2. ASSUME NEW id \in Ids, CleanupStep(id)
      PROVE  victims' \subseteq victims \cup strays
  <2>1. CASE CloseTargets(id)
    BY <1>1, <2>1, ClosePagesUnheld DEF CloseTargets
  <2>2. CASE CloseRefused(id)
    BY <1>1, <2>2, ClosePagesUnheld DEF CloseRefused
  <2> QED BY <1>2, <2>1, <2>2 DEF CleanupStep, StorageCleanupFails, AbandonEnds, CleanupEnds,
        Dispose, Forget
<1>3. ASSUME NEW id \in Ids, NEW t \in Targets, CloseChild(id, t)
      PROVE  victims' \subseteq victims \cup strays
  BY <1>1, <1>3 DEF CloseChild, ExclusiveOwnership, Owned
<1>4. ASSUME NEW id \in Ids, AttachStep(id)
      PROVE  victims' \subseteq victims \cup strays
  BY <1>4 DEF AttachStep, FindPage, CreateController, Claim, LoseConflict, BindTarget, Publish,
     InitialisationEnds, FailBare, FailCreated, FailClaimed
<1>5. ASSUME \/ UNCHANGED vars
             \/ \E id \in Ids : \/ StartClose(id) \/ RetryCleanup(id) \/ LoseConnection(id)
                                \/ \E t \in Targets \cup {None} : Attach(id, t)
             \/ \E t \in Targets : OpenPopup(t) \/ PageGoes(t)
      PROVE  victims' \subseteq victims \cup strays
  BY <1>5 DEF vars, StartClose, RetryCleanup, LoseConnection, Attach, OpenPopup, PageGoes
<1>6. victims' \subseteq victims \cup strays
  BY <1>2, <1>3, <1>4, <1>5 DEF Next
<1>7. strays \subseteq strays'
  BY DEF Next, AttachStep, CleanupStep, FindPage, CreateController, Claim, LoseConflict,
     BindTarget, Publish, InitialisationEnds, FailBare, FailCreated, FailClaimed, CloseTargets,
     CloseRefused, StorageCleanupFails, Retain, AbandonEnds, CleanupEnds, Dispose, Forget, vars,
     StartClose, RetryCleanup, LoseConnection, Attach, CloseChild, OpenPopup, PageGoes
<1> QED BY <1>1, <1>6, <1>7 DEF ForeignInv, NoForeignClose

LEMMA InitForeign == Init => ForeignInv
<1> SUFFICES ASSUME Init PROVE ForeignInv
  OBVIOUS
<1>1. ExclusiveInv /\ RosterInv /\ Lineage
  BY InitExclusive DEF ExclusiveInv, KnownInv
<1>2. StartsEmpty /\ CreatedApart /\ \A id \in Ids : adopt[id] \in Adoptable \cup {None}
  BY DEF Init, StartsEmpty, CreatedApart, Creating
<1> QED BY <1>1, <1>2 DEF ForeignInv, CreatedInv, NoForeignClose, Init

\* Unless the Embedder adopts a page that is just being created, no cleanup and no
\* Session closes a page of another one, strays excepted.
THEOREM NoPageClosedForAnother ==
  ASSUME AdoptsKnownPages
  PROVE  Spec => []NoForeignClose
  BY InitForeign, NextForeign, PTL DEF Spec, ForeignInv

-----------------------------------------------------------------------------
(* Nothing that Core has created is forgotten *)

\* The identity that will close a page Core has created.
Keeps(id) ==
  \/ phase[id] \in {"claimed", "owned", "session", "closeTree"}
  \/ Creating(id)

CreatedHasKeeper ==
  \A t \in pages \ Initial : Opener[t] = None => \E id \in Ids : root[id] = t /\ Keeps(id)

\* Where a cleanup has closed the pages, its root is gone for good.
ClosedIsGone ==
  \A id \in Ids : closing[id] = "closed" /\ phase[id] # "closeNothing" => root[id] \notin pages

KeptInv == RosterInv /\ CreatedHasKeeper /\ ClosedIsGone

\* A keeper keeps its page unless the page is gone.
LEMMA StillKept ==
  ASSUME CreatedHasKeeper, pages' \subseteq pages,
         \A id \in Ids : Keeps(id) => \/ root[id] \notin pages'
                                      \/ Keeps(id)' /\ root'[id] = root[id]
  PROVE  CreatedHasKeeper'
  BY DEF CreatedHasKeeper

\* Closed stays closed while no page opens and no cleanup ends.
LEMMA StillGone ==
  ASSUME ClosedIsGone, pages' \subseteq pages,
         \A id \in Ids : \/ root'[id] = root[id] /\ closing'[id] = closing[id] /\ phase'[id] = phase[id]
                         \/ closing'[id] # "closed" \/ root'[id] \notin pages'
  PROVE  ClosedIsGone'
  BY DEF ClosedIsGone

LEMMA RootCondemned ==
  ASSUME TypeInv, NEW id \in Ids, closing[id] # "no", phase[id] # "closeNothing", root[id] \in pages
  PROVE  root[id] \in Condemned(id)
<1>1. root[id] # None
  BY AttachRegistryAssumption DEF TypeInv, TypeOK, AttachRegistryAssumption
<1> QED BY <1>1 DEF Condemned, Owned, TypeInv, CleanupShape, CleanupPhases

LEMMA AttachStepKeeps ==
  ASSUME KeptInv, NEW id \in Ids, AttachStep(id)
  PROVE  CreatedHasKeeper' /\ ClosedIsGone'
<1> USE DEF chromeVars, tableVars
<1>1. TypeOK /\ CleanupShape /\ Roster /\ CreatedHasKeeper /\ ClosedIsGone /\ None \notin pages
  BY AttachRegistryAssumption DEF KeptInv, RosterInv, TypeInv, TypeOK, AttachRegistryAssumption
<1>2. CASE FindPage(id)
  <2>1. PICK t \in Targets :
          /\ IF adopt[id] = None
               THEN /\ t \notin born /\ Opener[t] = None
                    /\ pages' = pages \cup {t} /\ born' = born \cup {t}
               ELSE /\ t = adopt[id] /\ t \in pages
                    /\ UNCHANGED <<pages, born>>
          /\ root' = [root EXCEPT ![id] = t]
    BY <1>2 DEF FindPage
  <2>2. /\ root'[id] = t /\ phase[id] = "connect" /\ phase'[id] = "attach"
        /\ adopt' = adopt /\ closing' = closing
        /\ \A other \in Ids \ {id} : root'[other] = root[other] /\ phase'[other] = phase[other]
    BY <1>1, <1>2, <2>1 DEF FindPage, TypeOK
  <2>3. \A other \in Ids : Keeps(other) => Keeps(other)' /\ root'[other] = root[other]
    BY <2>2 DEF Keeps, Creating
  <2>4. adopt[id] = None => Keeps(id)'
    BY <2>2 DEF Keeps, Creating
  <2>5. CreatedHasKeeper'
    BY <1>1, <2>1, <2>2, <2>3, <2>4 DEF CreatedHasKeeper
  <2>6. closing[id] = "no" \/ closing[id] = "running"
    BY <1>1, <2>2 DEF CleanupShape, CleanupPhases
  <2>7. \A other \in Ids : root[other] \in born \cup {None}
    BY <1>1 DEF Roster, Owned
  <2>8. pages' \subseteq pages \cup {t} /\ (t \in born => pages' = pages) /\ t # None
    BY <1>1, <2>1, AttachRegistryAssumption DEF TypeOK, AttachRegistryAssumption
  <2>9. \A other \in Ids \ {id} : root[other] \notin pages => root[other] \notin pages'
    BY <1>1, <2>7, <2>8
  <2> QED BY <1>1, <2>2, <2>5, <2>6, <2>9 DEF ClosedIsGone
<1>3. ASSUME CreateController(id) \/ Claim(id) \/ LoseConflict(id) \/ BindTarget(id) \/ Publish(id)
               \/ InitialisationEnds(id) \/ FailBare(id) \/ FailCreated(id) \/ FailClaimed(id)
      PROVE  CreatedHasKeeper' /\ ClosedIsGone'
  <2>1. pages' = pages
    BY <1>3 DEF CreateController, Claim, LoseConflict, BindTarget, Publish, InitialisationEnds,
       FailBare, FailCreated, FailClaimed
  <2>2. \A other \in Ids \ {id} : /\ phase'[other] = phase[other] /\ adopt'[other] = adopt[other]
                                  /\ root'[other] = root[other] /\ closing'[other] = closing[other]
    BY <1>1, <1>3 DEF CreateController, Claim, LoseConflict, BindTarget, Publish,
       InitialisationEnds, Return, FailBare, FailCreated, FailClaimed, TypeOK
  <2>3. Keeps(id) => Keeps(id)' /\ root'[id] = root[id]
    BY <1>1, <1>3 DEF CreateController, Claim, LoseConflict, BindTarget, Publish,
       InitialisationEnds, FailBare, FailCreated, FailClaimed, TypeOK, Keeps, Creating
  <2>4. \A other \in Ids \ {id} : Keeps(other) => Keeps(other)'
    BY <2>2 DEF Keeps, Creating
  <2>5. CreatedHasKeeper'
    BY <1>1, <2>1, <2>2, <2>3, <2>4, StillKept
  <2>6. \/ root'[id] = root[id] /\ closing'[id] = closing[id] /\ phase'[id] = phase[id]
        \/ closing'[id] # "closed" \/ root'[id] \notin pages'
    BY <1>1, <1>3, <2>1 DEF CreateController, Claim, LoseConflict, BindTarget, Publish,
       InitialisationEnds, FailBare, FailCreated, FailClaimed, TypeOK, CleanupShape, CleanupPhases
  <2>7. ClosedIsGone'
    BY <1>1, <2>1, <2>2, <2>6, StillGone
  <2> QED BY <2>5, <2>7
<1> QED BY <1>2, <1>3 DEF AttachStep

LEMMA CleanupStepKeeps ==
  ASSUME KeptInv, NEW id \in Ids, CleanupStep(id)
  PROVE  CreatedHasKeeper' /\ ClosedIsGone'
<1> USE DEF chromeVars, tableVars
<1>1. /\ TypeInv /\ TypeOK /\ CleanupShape /\ CreatedHasKeeper /\ ClosedIsGone /\ None \notin pages
  BY AttachRegistryAssumption DEF KeptInv, RosterInv, TypeInv, TypeOK, AttachRegistryAssumption
<1>2. CASE CloseTargets(id)
  <2>1. pages' = pages \ Condemned(id) /\ UNCHANGED <<phase, adopt, root>>
        /\ closing[id] # "no" /\ \A other \in Ids \ {id} : closing'[other] = closing[other]
    BY <1>1, <1>2 DEF CloseTargets, ClosePages, TypeOK
  <2>2. \A other \in Ids : Keeps(other)' = Keeps(other)
    BY <2>1 DEF Keeps, Creating
  <2>3. phase[id] # "closeNothing" => root[id] \notin pages'
    BY <1>1, <2>1, RootCondemned
  <2>4. ClosedIsGone'
    BY <1>1, <2>1, <2>3 DEF ClosedIsGone
  <2> QED BY <1>1, <2>1, <2>2, <2>4, StillKept
<1>3. ASSUME Retain(id), pages' \subseteq pages, closing[id] # "no"
      PROVE  CreatedHasKeeper' /\ ClosedIsGone'
  <2>1. /\ root' = root /\ closing'[id] # "closed"
        /\ phase'[id] = IF phase[id] = "abandon" THEN "closeFailed" ELSE phase[id]
        /\ \A other \in Ids \ {id} : phase'[other] = phase[other] /\ closing'[other] = closing[other]
                                     /\ adopt'[other] = adopt[other]
    BY <1>1, <1>3 DEF Retain, Return, TypeOK
  <2>2. phase[id] \notin {"attach", "discover"}
    BY <1>1, <1>3 DEF CleanupShape, CleanupPhases
  <2>3. \A other \in Ids : Keeps(other) => Keeps(other)'
    BY <2>1, <2>2 DEF Keeps, Creating
  <2>4. CreatedHasKeeper'
    BY <1>1, <1>3, <2>1, <2>3, StillKept
  <2>5. ClosedIsGone'
    BY <1>1, <1>3, <2>1, StillGone
  <2> QED BY <2>4, <2>5
<1>4. CASE CloseRefused(id)
  <2>1. pages' \subseteq pages
    BY <1>4 DEF CloseRefused, ClosePages
  <2> QED BY <1>3, <1>4, <2>1 DEF CloseRefused
<1>5. CASE StorageCleanupFails(id)
  BY <1>3, <1>5 DEF StorageCleanupFails
<1>6. CASE AbandonEnds(id) \/ CleanupEnds(id) \/ Dispose(id)
  <2>1. pages' = pages /\ closing[id] = "closed"
    BY <1>6 DEF AbandonEnds, CleanupEnds, Dispose, Forget
  <2>2. \A other \in Ids \ {id} : /\ phase'[other] = phase[other] /\ closing'[other] = closing[other]
                                  /\ adopt'[other] = adopt[other] /\ root'[other] = root[other]
    BY <1>1, <1>6 DEF AbandonEnds, CleanupEnds, Dispose, Return, TypeOK
  <2>3. \A other \in Ids \ {id} : Keeps(other) => Keeps(other)'
    BY <2>2 DEF Keeps, Creating
  <2>4. Keeps(id) => root[id] \notin pages'
    BY <1>1, <2>1 DEF Keeps, Creating, ClosedIsGone
  <2>5. closing'[id] # "closed"
    BY <1>1, <1>6 DEF AbandonEnds, CleanupEnds, Dispose, TypeOK
  <2>6. CreatedHasKeeper'
    BY <1>1, <2>1, <2>2, <2>3, <2>4, StillKept
  <2>7. ClosedIsGone'
    BY <1>1, <2>1, <2>2, <2>5, StillGone
  <2> QED BY <2>6, <2>7
<1> QED BY <1>2, <1>4, <1>5, <1>6 DEF CleanupStep

LEMMA NextKeeps ==
  ASSUME KeptInv, [Next]_vars
  PROVE  KeptInv'
<1> USE DEF chromeVars, tableVars
<1>1. TypeOK /\ Roster /\ CreatedHasKeeper /\ ClosedIsGone /\ None \notin pages
  BY AttachRegistryAssumption DEF KeptInv, RosterInv, TypeInv, TypeOK, AttachRegistryAssumption
<1>2. ASSUME NEW id \in Ids, NEW t \in Targets \cup {None}, Attach(id, t)
      PROVE  CreatedHasKeeper' /\ ClosedIsGone'
  <2>1. UNCHANGED <<pages, root, closing>> /\ phase[id] = "none" /\ phase'[id] = "connect"
        /\ \A other \in Ids \ {id} : phase'[other] = phase[other] /\ adopt'[other] = adopt[other]
    BY <1>1, <1>2 DEF Attach, TypeOK
  <2>2. \A other \in Ids : Keeps(other) => Keeps(other)'
    BY <2>1 DEF Keeps, Creating
  <2>3. CreatedHasKeeper'
    BY <1>1, <2>1, <2>2, StillKept
  <2>4. closing[id] # "closed"
    BY <2>1 DEF KeptInv, RosterInv, TypeInv, CleanupShape, CleanupPhases
  <2> QED BY <1>1, <2>1, <2>3, <2>4, StillGone
<1>3. ASSUME UNCHANGED <<phase, adopt, root>>, pages' \subseteq pages,
             \A id \in Ids : closing'[id] = closing[id] \/ closing'[id] # "closed"
      PROVE  CreatedHasKeeper' /\ ClosedIsGone'
  <2>1. \A id \in Ids : Keeps(id)' = Keeps(id)
    BY <1>3 DEF Keeps, Creating
  <2> QED BY <1>1, <1>3, <2>1, StillKept, StillGone
<1>4. ASSUME \/ UNCHANGED vars
             \/ \E id \in Ids : \/ StartClose(id) \/ RetryCleanup(id) \/ LoseConnection(id)
                                \/ \E t \in Targets : CloseChild(id, t)
             \/ \E t \in Targets : PageGoes(t)
      PROVE  CreatedHasKeeper' /\ ClosedIsGone'
  <2>1. UNCHANGED <<phase, adopt, root>> /\ pages' \subseteq pages
    BY <1>4 DEF vars, StartClose, RetryCleanup, LoseConnection, CloseChild, PageGoes
  <2>2. \A id \in Ids : closing'[id] = closing[id] \/ closing'[id] # "closed"
    BY <1>1, <1>4 DEF vars, StartClose, RetryCleanup, LoseConnection, CloseChild, PageGoes, TypeOK
  <2> QED BY <1>3, <2>1, <2>2
<1>5. ASSUME NEW t \in Targets, OpenPopup(t)
      PROVE  CreatedHasKeeper' /\ ClosedIsGone'
  <2>1. /\ UNCHANGED <<phase, adopt, root, closing>> /\ pages' = pages \cup {t}
        /\ t \notin born /\ t # None /\ Opener[t] # None
    BY <1>1, <1>5, AttachRegistryAssumption DEF OpenPopup, AttachRegistryAssumption
  <2>2. \A id \in Ids : Keeps(id)' = Keeps(id)
    BY <2>1 DEF Keeps, Creating
  <2>3. CreatedHasKeeper'
    BY <1>1, <2>1, <2>2 DEF CreatedHasKeeper
  <2>4. \A id \in Ids : root[id] # t
    BY <1>1, <2>1 DEF Roster, Owned
  <2> QED BY <1>1, <2>1, <2>3, <2>4 DEF ClosedIsGone
<1>6. RosterInv'
  BY NextRoster DEF KeptInv
<1>7. CreatedHasKeeper' /\ ClosedIsGone'
  BY <1>2, <1>4, <1>5, AttachStepKeeps, CleanupStepKeeps DEF Next
<1> QED BY <1>6, <1>7 DEF KeptInv

LEMMA InitKept == Init => KeptInv
<1> SUFFICES ASSUME Init PROVE KeptInv
  OBVIOUS
<1>1. RosterInv
  BY InitRoster
<1>2. CreatedHasKeeper /\ ClosedIsGone
  BY DEF Init, CreatedHasKeeper, ClosedIsGone
<1> QED BY <1>1, <1>2 DEF KeptInv

\* Whatever fails, in whichever order attachments and cleanups end, a page that
\* Core has created is gone or has an identity that can still be closed.
THEOREM CreatedAlwaysKept == Spec => []CreatedKept
<1>1. KeptInv => CreatedKept
  BY DEF KeptInv, CreatedHasKeeper, CreatedKept, Keeps, Creating
<1> QED BY <1>1, InitKept, NextKeeps, PTL DEF Spec

-----------------------------------------------------------------------------
(* The routes to the Extension runtime *)

OwnedBound == \A id \in Ids : phase[id] \in {"owned", "session"} => bound[id] = root[id]

\* No two identities have the same root, and nobody has the page that another
\* call is to adopt.
RootsApart ==
  \A id \in Ids : \A other \in Ids \ {id} : root[id] # None => root[other] # root[id]
AdoptedApart ==
  \A id \in attaching : \A other \in Ids \ {id} : adopt[id] # None => root[other] # adopt[id]

\* Whoever has a page that can be adopted shows up in the first check of
\* attachSession: by its reservation, or as what it owns.
RootsAdopted ==
  \A id \in Ids : root[id] \in Adoptable =>
    \/ id \in attaching /\ adopt[id] = root[id]
    \/ id \notin attaching /\ phase[id] \in {"session", "closeTree"}

Routes == OwnedBound /\ RootsApart /\ AdoptedApart /\ RootsAdopted
BoundInv == CreatedInv /\ ReservationInv /\ Routes

LEMMA RootsStillApart ==
  ASSUME RootsApart, AdoptedApart,
         \A id \in Ids : root'[id] \in {root[id], None},
         \A id \in attaching' : id \in attaching /\ adopt'[id] = adopt[id]
  PROVE  RootsApart' /\ AdoptedApart'
  BY DEF RootsApart, AdoptedApart

\* releaseTarget of one identity's page is no other identity's business.
LEMMA ReleasedElsewhere ==
  ASSUME TypeInv, OwnedBound, RootsApart, NEW id \in Ids,
         ReleaseTarget(root[id]) \/ UNCHANGED bound,
         phase'[id] \notin {"owned", "session"},
         \A other \in Ids \ {id} : phase'[other] = phase[other] /\ root'[other] = root[other]
  PROVE  OwnedBound'
<1> SUFFICES ASSUME NEW other \in Ids, phase'[other] \in {"owned", "session"}
             PROVE  bound'[other] = root'[other]
  BY DEF OwnedBound
<1>1. other # id /\ bound[other] = root[other] /\ root[other] # None /\ root'[other] = root[other]
  BY DEF OwnedBound, TypeInv, CleanupShape
<1>2. root[other] # root[id]
  BY <1>1 DEF RootsApart
<1>3. CASE ReleaseTarget(root[id])
  BY <1>1, <1>2, <1>3 DEF ReleaseTarget
<1>4. CASE UNCHANGED bound
  BY <1>1, <1>4
<1> QED BY <1>3, <1>4

\* A page that Core creates is none that anybody adopts.
LEMMA CreatedNotAdoptable ==
  ASSUME AdoptsKnownPages, CreatedInv, NEW id \in Ids, Creating(id)
  PROVE  root[id] \notin Adoptable
  BY DEF AdoptsKnownPages, CreatedInv, CreatedApart

LEMMA AttachRoutes ==
  ASSUME BoundInv, NEW id \in Ids, NEW t \in Targets \cup {None}, Attach(id, t)
  PROVE  Routes'
<1>1. /\ TypeOK /\ Roster /\ ReservationsReturned
      /\ OwnedBound /\ RootsApart /\ AdoptedApart /\ RootsAdopted
  BY DEF BoundInv, CreatedInv, RosterInv, TypeInv, ReservationInv, Routes
<1>2. /\ UNCHANGED <<root, bound>> /\ phase[id] = "none" /\ phase'[id] = "connect" /\ id \notin attaching
      /\ attaching' = attaching \cup {id} /\ adopt'[id] = t
      /\ \A other \in Ids \ {id} : phase'[other] = phase[other] /\ adopt'[other] = adopt[other]
  BY <1>1 DEF Attach, TypeOK
<1>3. ASSUME t # None, NEW other \in Ids \ {id}, root[other] = t
      PROVE  FALSE
  <2>1. t \in Adoptable /\ t \notin reservations /\ ~ElsewhereOwned(t, id)
    BY <1>3 DEF Attach
  <2>2. other \notin attaching /\ phase[other] \in {"session", "closeTree"}
    BY <1>1, <1>3, <2>1 DEF RootsAdopted, ReservationsReturned
  <2>3. other \in Sessions \cup pendingAttachments
    BY <1>1, <2>2 DEF Roster, Sessions
  <2> QED BY <1>3, <2>1, <2>3 DEF ElsewhereOwned, Owned
<1>4. AdoptedApart'
  BY <1>1, <1>2, <1>3 DEF AdoptedApart, TypeOK
<1>5. RootsAdopted'
  BY <1>1, <1>2 DEF RootsAdopted
<1>6. OwnedBound' /\ RootsApart'
  BY <1>1, <1>2 DEF OwnedBound, RootsApart
<1> QED BY <1>4, <1>5, <1>6 DEF Routes

LEMMA FoundRoutes ==
  ASSUME AdoptsKnownPages, BoundInv, NEW id \in Ids, FindPage(id)
  PROVE  Routes'
<1>1. /\ TypeOK /\ Roster /\ Lineage /\ AdoptionsDistinct
      /\ OwnedBound /\ RootsApart /\ AdoptedApart /\ RootsAdopted
      /\ \A other \in Ids : adopt[other] \in Adoptable \cup {None}
  BY DEF BoundInv, CreatedInv, RosterInv, TypeInv, ReservationInv, Routes
<1>2. PICK t \in Targets :
        /\ IF adopt[id] = None
             THEN t \notin born /\ Opener[t] = None
             ELSE t = adopt[id]
        /\ root' = [root EXCEPT ![id] = t]
  BY DEF FindPage
<1>3. /\ UNCHANGED <<attaching, adopt, bound>> /\ phase'[id] = "attach" /\ id \in attaching
      /\ root'[id] = t /\ t # None
      /\ \A other \in Ids \ {id} : phase'[other] = phase[other] /\ root'[other] = root[other]
  BY <1>1, <1>2, AttachRegistryAssumption
     DEF FindPage, TypeOK, tableVars, Roster, AttachRegistryAssumption
<1>4. t \notin born /\ Opener[t] = None => t \notin Adoptable
  BY <1>1 DEF AdoptsKnownPages, Lineage
<1>5. \A other \in Ids \ {id} : root[other] # t
  BY <1>1, <1>2, <1>3 DEF Roster, Owned, AdoptedApart
<1>6. \A other \in attaching \ {id} : adopt[other] # t
  <2>1. CASE adopt[id] = None
    BY <1>1, <1>2, <1>3, <1>4, <2>1 DEF TypeOK
  <2>2. CASE adopt[id] # None
    BY <1>1, <1>2, <1>3, <2>2 DEF AdoptionsDistinct
  <2> QED BY <2>1, <2>2
<1>7. RootsApart'
  BY <1>1, <1>3, <1>5 DEF RootsApart
<1>8. AdoptedApart'
  BY <1>1, <1>3, <1>6 DEF AdoptedApart, TypeOK
<1>9. RootsAdopted'
  BY <1>1, <1>2, <1>3, <1>4 DEF RootsAdopted
<1>10. OwnedBound'
  BY <1>1, <1>3 DEF OwnedBound
<1> QED BY <1>7, <1>8, <1>9, <1>10 DEF Routes

LEMMA AttachStepRoutes ==
  ASSUME AdoptsKnownPages, BoundInv, NEW id \in Ids, AttachStep(id)
  PROVE  Routes'
<1> USE DEF chromeVars, tableVars
<1>1. /\ TypeInv /\ TypeOK /\ Roster
      /\ OwnedBound /\ RootsApart /\ AdoptedApart /\ RootsAdopted
      /\ None \notin Adoptable
  BY AttachRegistryAssumption
     DEF BoundInv, CreatedInv, RosterInv, TypeInv, Routes, AttachRegistryAssumption
<1>2. CASE FindPage(id)
  BY <1>2, FoundRoutes
<1>3. ASSUME CreateController(id) \/ Claim(id) \/ LoseConflict(id) \/ BindTarget(id) \/ Publish(id)
               \/ InitialisationEnds(id) \/ FailBare(id) \/ FailCreated(id) \/ FailClaimed(id)
      PROVE  Routes'
  <2>1. \A other \in Ids \ {id} :
          /\ phase'[other] = phase[other] /\ root'[other] = root[other] /\ adopt'[other] = adopt[other]
          /\ other \in attaching' <=> other \in attaching
    BY <1>1, <1>3 DEF CreateController, Claim, LoseConflict, BindTarget, Publish,
       InitialisationEnds, Return, FailBare, FailCreated, FailClaimed, TypeOK
  <2>2. root'[id] \in {root[id], None} /\ (id \in attaching' => id \in attaching /\ adopt'[id] = adopt[id])
    BY <1>1, <1>3 DEF CreateController, Claim, LoseConflict, BindTarget, Publish,
       InitialisationEnds, Return, FailBare, FailCreated, FailClaimed, TypeOK
  <2>3. attaching' \subseteq Ids
    BY <1>1, <1>3 DEF CreateController, Claim, LoseConflict, BindTarget, Publish,
       InitialisationEnds, Return, FailBare, FailCreated, FailClaimed, TypeOK
  <2>4. RootsApart' /\ AdoptedApart'
    BY <1>1, <2>1, <2>2, <2>3, RootsStillApart
  <2>5. root'[id] \in Adoptable =>
          \/ id \in attaching' /\ adopt'[id] = root'[id]
          \/ id \notin attaching' /\ phase'[id] \in {"session", "closeTree"}
    <3>1. CASE InitialisationEnds(id)
      BY <1>1, <3>1 DEF InitialisationEnds, Return, TypeOK
    <3>2. CASE ~InitialisationEnds(id)
      <4>1. attaching' = attaching /\ adopt' = adopt
        BY <1>3, <3>2 DEF CreateController, Claim, LoseConflict, BindTarget, Publish,
           FailBare, FailCreated, FailClaimed
      <4>2. id \in attaching
        BY <1>1, <1>3, <3>2 DEF CreateController, Claim, LoseConflict, BindTarget, Publish,
           FailBare, FailCreated, FailClaimed, Roster
      <4> QED BY <1>1, <2>2, <4>1, <4>2 DEF RootsAdopted
    <3> QED BY <3>1, <3>2
  <2>6. RootsAdopted'
    BY <1>1, <2>1, <2>5 DEF RootsAdopted
  <2>7. OwnedBound'
    <3>1. CASE FailBare(id)
      <4>1. ReleaseTarget(root[id]) \/ UNCHANGED bound
        BY <3>1 DEF FailBare
      <4>2. phase'[id] = "closeNothing"
        BY <1>1, <3>1 DEF FailBare, TypeOK
      <4> QED BY <1>1, <2>1, <4>1, <4>2, ReleasedElsewhere
    <3>2. CASE BindTarget(id)
      BY <1>1, <2>1, <3>2 DEF BindTarget, OwnedBound, TypeOK
    <3>3. CASE ~FailBare(id) /\ ~BindTarget(id)
      <4>1. bound' = bound
        BY <1>3, <3>3 DEF CreateController, Claim, LoseConflict, Publish, InitialisationEnds,
           FailCreated, FailClaimed
      <4>2. phase'[id] \in {"owned", "session"} =>
              phase[id] \in {"owned", "session"} /\ root'[id] = root[id]
        BY <1>1, <1>3, <3>3 DEF CreateController, Claim, LoseConflict, Publish, InitialisationEnds,
           FailCreated, FailClaimed, TypeOK
      <4> QED BY <1>1, <2>1, <4>1, <4>2 DEF OwnedBound
    <3> QED BY <3>1, <3>2, <3>3
  <2> QED BY <2>4, <2>6, <2>7 DEF Routes
<1> QED BY <1>2, <1>3 DEF AttachStep

LEMMA CleanupStepRoutes ==
  ASSUME AdoptsKnownPages, BoundInv, NEW id \in Ids, CleanupStep(id)
  PROVE  Routes'
<1> USE DEF chromeVars, tableVars
<1>1. /\ TypeInv /\ TypeOK /\ CleanupShape /\ CreatedInv
      /\ OwnedBound /\ RootsApart /\ AdoptedApart /\ RootsAdopted
      /\ None \notin Adoptable
  BY AttachRegistryAssumption
     DEF BoundInv, CreatedInv, RosterInv, TypeInv, Routes, AttachRegistryAssumption
<1>2. CASE CloseTargets(id)
  BY <1>1, <1>2 DEF CloseTargets, Routes, OwnedBound, RootsApart, AdoptedApart, RootsAdopted
<1>3. ASSUME Retain(id), closing[id] # "no", phase[id] # "closeNothing"
      PROVE  Routes'
  <2>1. /\ UNCHANGED <<root, bound>>
        /\ phase'[id] = IF phase[id] = "abandon" THEN "closeFailed" ELSE phase[id]
        /\ \A other \in Ids \ {id} :
             /\ phase'[other] = phase[other] /\ adopt'[other] = adopt[other]
             /\ other \in attaching' <=> other \in attaching
        /\ attaching' \subseteq attaching /\ (id \in attaching' => adopt'[id] = adopt[id])
    BY <1>1, <1>3 DEF Retain, Return, TypeOK
  <2>2. RootsApart' /\ AdoptedApart'
    BY <1>1, <2>1, RootsStillApart DEF TypeOK
  <2>3. Creating(id) => root[id] \notin Adoptable
    BY <1>1, CreatedNotAdoptable
  <2>4. ~Creating(id) => phase[id] \in {"session", "closeTree"}
    BY <1>1, <1>3 DEF CleanupShape, CleanupPhases, Creating
  <2>5. RootsAdopted'
    BY <1>1, <2>1, <2>3, <2>4 DEF RootsAdopted
  <2>6. OwnedBound'
    BY <1>1, <2>1 DEF OwnedBound
  <2> QED BY <2>2, <2>5, <2>6 DEF Routes
<1>4. CASE CloseRefused(id)
  BY <1>3, <1>4 DEF CloseRefused
<1>5. CASE StorageCleanupFails(id)
  BY <1>3, <1>5 DEF StorageCleanupFails
<1>6. CASE AbandonEnds(id) \/ CleanupEnds(id) \/ Dispose(id)
  <2>1. \A other \in Ids \ {id} :
          /\ phase'[other] = phase[other] /\ root'[other] = root[other] /\ adopt'[other] = adopt[other]
          /\ other \in attaching' <=> other \in attaching
    BY <1>1, <1>6 DEF AbandonEnds, CleanupEnds, Dispose, Return, TypeOK
  <2>2. /\ attaching' \subseteq attaching /\ (id \in attaching' => adopt'[id] = adopt[id])
        /\ phase'[id] \notin {"owned", "session"}
        /\ root'[id] = None \/ (root'[id] = root[id] /\ id \in attaching /\ UNCHANGED <<attaching, adopt>>)
    BY <1>1, <1>6 DEF AbandonEnds, CleanupEnds, Dispose, Return, TypeOK
  <2>3. RootsApart' /\ AdoptedApart'
    BY <1>1, <2>1, <2>2, RootsStillApart DEF TypeOK
  <2>4. RootsAdopted'
    BY <1>1, <2>1, <2>2 DEF RootsAdopted
  <2>5. CASE Dispose(id)
    <3>1. \A other \in Ids \ {id} : bound[other] # root[id] => bound'[other] = bound[other]
      BY <2>5 DEF Dispose
    <3>2. \A other \in Ids \ {id} : phase[other] \in {"owned", "session"} => root[other] # root[id]
      BY <1>1 DEF RootsApart, CleanupShape
    <3>3. OwnedBound'
      BY <1>1, <2>1, <2>2, <3>1, <3>2 DEF OwnedBound
    <3> QED BY <2>3, <2>4, <3>3 DEF Routes
  <2>6. CASE AbandonEnds(id) \/ CleanupEnds(id)
    <3>1. ReleaseTarget(root[id]) \/ UNCHANGED bound
      BY <2>6 DEF AbandonEnds, CleanupEnds
    <3>2. OwnedBound'
      BY <1>1, <2>1, <2>2, <3>1, ReleasedElsewhere
    <3> QED BY <2>3, <2>4, <3>2 DEF Routes
  <2> QED BY <1>6, <2>5, <2>6
<1> QED BY <1>2, <1>4, <1>5, <1>6 DEF CleanupStep

LEMMA NextBound ==
  ASSUME AdoptsKnownPages, BoundInv, [Next]_vars
  PROVE  BoundInv'
<1> USE DEF chromeVars, tableVars
<1>1. CreatedInv' /\ ReservationInv'
  BY NextCreated, NextReserves DEF BoundInv
<1>2. ASSUME \/ UNCHANGED vars
             \/ \E id \in Ids : \/ StartClose(id) \/ RetryCleanup(id) \/ LoseConnection(id)
                                \/ \E t \in Targets : CloseChild(id, t)
             \/ \E t \in Targets : OpenPopup(t) \/ PageGoes(t)
      PROVE  Routes'
  <2>1. UNCHANGED <<phase, attaching, adopt, root, bound>>
    BY <1>2 DEF vars, StartClose, RetryCleanup, LoseConnection, CloseChild, OpenPopup, PageGoes
  <2> QED BY <2>1 DEF BoundInv, Routes, OwnedBound, RootsApart, AdoptedApart, RootsAdopted
<1>3. Routes'
  BY <1>2, AttachRoutes, AttachStepRoutes, CleanupStepRoutes DEF Next
<1> QED BY <1>1, <1>3 DEF BoundInv

LEMMA InitBound == Init => BoundInv
<1> SUFFICES ASSUME Init PROVE BoundInv
  OBVIOUS
<1>1. CreatedInv
  BY InitForeign DEF ForeignInv
<1>2. ReservationInv
  BY InitType DEF Init, ReservationInv, ReservationsReturned, AdoptionsDistinct
<1>3. Routes
  BY AttachRegistryAssumption
     DEF AttachRegistryAssumption, Init, Routes, OwnedBound, RootsApart, AdoptedApart, RootsAdopted
<1> QED BY <1>1, <1>2, <1>3 DEF BoundInv

\* Unless the Embedder adopts a page that is just being created, no release of
\* another attachment takes a Session's route to the Extension runtime.
THEOREM SessionsAlwaysBound ==
  ASSUME AdoptsKnownPages
  PROVE  Spec => []SessionsBound
<1>1. BoundInv => SessionsBound
  BY DEF BoundInv, Routes, OwnedBound, SessionsBound, Sessions
<1> QED BY <1>1, InitBound, NextBound, PTL DEF Spec

\* What the tables of RemoteTabCore promise together, between any two awaits.
THEOREM RegistryConsistent ==
  ASSUME AdoptsKnownPages
  PROVE  Spec => []Consistent
<1>1. Spec => []SessionsBound
  BY SessionsAlwaysBound
<1>2. Spec => []PopupsKnown
  BY PopupsAlwaysKnown
<1> QED BY <1>1, <1>2, TypeCorrect, OwnersAlwaysAccounted, ReservationsAlwaysReturned,
           CreatedAlwaysKept, PTL DEF Consistent
=============================================================================
