----------------------- MODULE StandaloneDaemon_proofs -----------------------
(***************************************************************************)
(* Theorems about StandaloneDaemon, for any finite sets of Session IDs and *)
(* handles and every maxSessions, whenever a Session fails and whenever an *)
(* ID is given again.                                                      *)
(***************************************************************************)
EXTENDS StandaloneDaemon, FiniteSetTheorems, TLAPS

(* The inductive invariant. *)

TableTypes ==
  /\ records \in [Ids -> Handles \cup {None}]
  /\ attaching \in SUBSET Ids
  /\ phase \in {"up", "core", "failed", "storage", "unclean", "stopped"} /\ closing \in BOOLEAN
  /\ swept \in SUBSET Handles
  /\ id \in [Handles -> Ids \cup {None}]
  /\ create \in [Handles -> {"no", "attaching", "returned", "failed"}]
  /\ life \in [Handles -> Lives]
  /\ removing \in [Handles -> BOOLEAN]
  /\ unheard \in SUBSET Handles /\ hasty \in SUBSET Handles
  /\ deleting \in [Handles -> {"no", "tickets", "close"}]

TicketTypes ==
  /\ ahead \in [Handles -> Nat] /\ queue \in [Handles -> Nat]
  /\ ticket \in [Handles -> {"none", "issuing", "committed"}]
  /\ granted \in [Handles -> Nat] /\ committed \in [Handles -> Nat]

\* How far a handle has come: what its creation, its life and a DELETE of it say
\* of each other, that a Session handed out is in the record of its ID, and that
\* one which ends unannounced is remembered.
Staged(s) ==
  /\ life[s] = "none" <=> create[s] = "no"
  /\ life[s] = "none" <=> id[s] = None
  /\ life[s] = "opening" => create[s] = "attaching"
  /\ create[s] = "attaching" => id[s] \in attaching /\ (life[s] \in {"opening", "live"} \/ s \in unheard)
  /\ deleting[s] # "no" => create[s] = "returned"
  /\ create[s] = "returned" /\ Held(s) => records[id[s]] = s \/ s \in hasty
  /\ life[s] = "failed" => s \in unheard
  /\ life[s] = "failing" /\ ~removing[s] => s \in unheard

\* An attachment of it is under way, or Core has it.
Active(s) == create[s] = "attaching" \/ Held(s)

\* An ID has one of these, beside which no other Session is recorded, and none is
\* being deleted but one that it was created in haste to follow.
Unshared ==
  \A s, t \in Handles : s # t /\ id[s] = id[t] /\ Active(t) =>
    ~Active(s) /\ records[id[s]] # s /\ (deleting[s] = "no" \/ t \in hasty)

\* A record is of a Session that was handed out under its ID, and that Core has or
\* that ended unannounced.
Backed ==
  \A i \in Ids : records[i] # None =>
    /\ id[records[i]] = i /\ create[records[i]] = "returned"
    /\ Held(records[i]) \/ records[i] \in unheard

Tables == TableTypes /\ (\A s \in Handles : Staged(s)) /\ Unshared /\ Backed

\* A generation that Core has and the registry does not is of the ticket under way.
Tickets ==
  /\ TicketTypes
  /\ \A s \in Handles :
       /\ granted[s] <= committed[s] /\ committed[s] <= granted[s] + 1
       /\ ticket[s] = "committed" => committed[s] = granted[s] + 1

-----------------------------------------------------------------------------
(* Tickets. *)

LEMMA TicketsInit == Init => Tickets
  BY DEF Init, Tickets, TicketTypes

LEMMA TicketsStep ==
  ASSUME Tickets, [Next]_vars
  PROVE  Tickets'
<1>1. CASE UNCHANGED <<ahead, ticketVars>>
  BY <1>1 DEF ticketVars, Tickets, TicketTypes
<1>2. ASSUME NEW s \in Handles, DeleteRequested(s) PROVE Tickets'
  BY <1>2 DEF DeleteRequested, Operations, ticketVars, Tickets, TicketTypes
<1>3. ASSUME NEW s \in Handles, TicketRequested(s) PROVE Tickets'
  BY <1>3 DEF TicketRequested, Tickets, TicketTypes
<1>4. ASSUME NEW s \in Handles, TicketStarts(s) PROVE Tickets'
  <2>1. queue' = [queue EXCEPT ![s] = @ - 1] /\ queue[s] > 0
    BY <1>4 DEF TicketStarts, Dequeue
  <2>2. queue' \in [Handles -> Nat]
    BY <2>1 DEF Tickets, TicketTypes
  <2>3. CASE ticket' = [ticket EXCEPT ![s] = "issuing"] /\ UNCHANGED ahead
    BY <1>4, <2>2, <2>3 DEF TicketStarts, Tickets, TicketTypes
  <2>4. CASE Advance(s) /\ UNCHANGED ticket
    BY <1>4, <2>2, <2>4 DEF TicketStarts, Advance, Tickets, TicketTypes
  <2> QED BY <1>4, <2>3, <2>4 DEF TicketStarts
<1>5. ASSUME NEW s \in Handles, TicketCommits(s) PROVE Tickets'
  BY <1>5 DEF TicketCommits, Tickets, TicketTypes
<1>6. ASSUME NEW s \in Handles, TicketThrows(s) PROVE Tickets'
  BY <1>6 DEF TicketThrows, Advance, Tickets, TicketTypes
<1>7. ASSUME NEW s \in Handles, TicketIssued(s) PROVE Tickets'
  BY <1>7 DEF TicketIssued, Advance, Tickets, TicketTypes
<1>8. CASE UNCHANGED vars
  BY <1>1, <1>8 DEF vars
<1>9. ASSUME NEW s \in Handles,
             \/ \E i \in Ids : CreateSession(s, i)
             \/ AttachOpens(s) \/ AttachFails(s) \/ AttachReturns(s)
             \/ SessionFails(s) \/ DeleteCloses(s) \/ DeleteEnds(s)
             \/ Disposed(s) \/ CleanupFails(s)
      PROVE  Tickets'
  BY <1>1, <1>9 DEF CreateSession, AttachOpens, AttachFails, AttachReturns, SessionFails,
              DeleteCloses, DeleteEnds, Disposed, CleanupFails
<1>10. ASSUME \/ \E s \in Handles : CoreCloses(s)
              \/ ShutdownStarts \/ CoreCloseFails \/ CoreClosed \/ ShutdownEnds \/ Start
       PROVE  Tickets'
  BY <1>1, <1>10 DEF CoreCloses, ShutdownStarts, CoreCloseFails, CoreClosed, ShutdownEnds, Start
<1> QED BY <1>2, <1>3, <1>4, <1>5, <1>6, <1>7, <1>8, <1>9, <1>10, Zenon DEF Next

-----------------------------------------------------------------------------
(* Records, handles and attachments. *)

LEMMA TablesInit == Init => Tables
<1> SUFFICES ASSUME Init PROVE Tables
  OBVIOUS
<1>1. TableTypes
  BY DEF Init, TableTypes, Lives
<1>2. (\A s \in Handles : Staged(s)) /\ Unshared
  BY DEF Init, Staged, Unshared, Active, Held
<1>3. Backed
  BY DEF Init, Backed
<1> QED BY <1>1, <1>2, <1>3 DEF Tables

LEMMA CreationActions ==
  ASSUME Tables,
         \E s \in Handles :
           \/ \E i \in Ids : CreateSession(s, i)
           \/ AttachOpens(s) \/ AttachFails(s) \/ AttachReturns(s)
  PROVE  Tables'
<1>1. TableTypes /\ (\A s \in Handles : Staged(s)) /\ Unshared /\ Backed /\ None \notin Handles \cup Ids
  BY StandaloneDaemonAssumption DEF Tables, StandaloneDaemonAssumption
<1>2. ASSUME NEW s \in Handles, NEW i \in Ids, CreateSession(s, i) PROVE Tables'
  <2>1. TableTypes'
    BY <1>1, <1>2 DEF CreateSession, history, TableTypes, daemonVars, Lives
  <2>2. ASSUME NEW t \in Handles PROVE Staged(t)'
    BY <1>1, <1>2 DEF CreateSession, history, TableTypes, Staged, Held, Backed
  <2>3. Unshared'
    BY <1>1, <1>2 DEF CreateSession, history, TableTypes, Staged, Unshared, Active, Held
  <2>4. Backed'
    BY <1>1, <1>2 DEF CreateSession, history, TableTypes, Staged, Backed, Held
  <2> QED BY <2>1, <2>2, <2>3, <2>4 DEF Tables
<1>3. ASSUME NEW s \in Handles, AttachOpens(s) PROVE Tables'
  <2>1. TableTypes'
    BY <1>1, <1>3 DEF AttachOpens, history, TableTypes, daemonVars, Lives
  <2>2. ASSUME NEW t \in Handles PROVE Staged(t)'
    BY <1>1, <1>3 DEF AttachOpens, history, TableTypes, Staged, Held
  <2>3. Unshared'
    BY <1>1, <1>3 DEF AttachOpens, history, TableTypes, Unshared, Active, Held
  <2>4. Backed'
    BY <1>1, <1>3 DEF AttachOpens, history, TableTypes, Backed, Held
  <2> QED BY <2>1, <2>2, <2>3, <2>4 DEF Tables
<1>4. ASSUME NEW s \in Handles, AttachFails(s) PROVE Tables'
  <2>1. TableTypes'
    BY <1>1, <1>4 DEF AttachFails, history, TableTypes, daemonVars, Lives
  <2>2. ASSUME NEW t \in Handles PROVE Staged(t)'
    BY <1>1, <1>4 DEF AttachFails, history, TableTypes, Staged, Unshared, Active, Held
  <2>3. Unshared'
    BY <1>1, <1>4 DEF AttachFails, history, TableTypes, Staged, Unshared, Active, Held
  <2>4. Backed'
    BY <1>1, <1>4 DEF AttachFails, history, TableTypes, Backed, Held
  <2> QED BY <2>1, <2>2, <2>3, <2>4 DEF Tables
<1>5. ASSUME NEW s \in Handles, AttachReturns(s) PROVE Tables'
  <2>1. TableTypes'
    BY <1>1, <1>5 DEF AttachReturns, history, TableTypes, Staged, daemonVars, Lives
  <2>2. ASSUME NEW t \in Handles PROVE Staged(t)'
    BY <1>1, <1>5 DEF AttachReturns, history, TableTypes, Staged, Unshared, Active, Held
  <2>3. Unshared'
    BY <1>1, <1>5 DEF AttachReturns, history, TableTypes, Unshared, Active, Held
  <2>4. Backed'
    BY <1>1, <1>5 DEF AttachReturns, history, TableTypes, Staged, Backed, Held
  <2> QED BY <2>1, <2>2, <2>3, <2>4 DEF Tables
<1> QED BY <1>2, <1>3, <1>4, <1>5

LEMMA EndingActions ==
  ASSUME Tables,
         \E s \in Handles :
           \/ SessionFails(s) \/ DeleteRequested(s) \/ DeleteCloses(s) \/ DeleteEnds(s)
           \/ Disposed(s) \/ CleanupFails(s)
  PROVE  Tables'
<1>1. TableTypes /\ (\A s \in Handles : Staged(s)) /\ Unshared /\ Backed /\ None \notin Handles \cup Ids
  BY StandaloneDaemonAssumption DEF Tables, StandaloneDaemonAssumption
<1>2. ASSUME NEW s \in Handles, SessionFails(s) PROVE Tables'
  <2>1. TableTypes'
    BY <1>1, <1>2 DEF SessionFails, history, TableTypes, daemonVars, Lives, Current
  <2>2. ASSUME NEW t \in Handles PROVE Staged(t)'
    <3>1. Current(s) => create[s] # "attaching"
      BY <1>1 DEF TableTypes, Current, Backed
    <3> QED BY <1>1, <1>2, <3>1 DEF SessionFails, TableTypes, Staged, Held
  <2>3. Unshared'
    BY <1>1, <1>2 DEF SessionFails, history, TableTypes, Unshared, Active, Held
  <2>4. Backed'
    BY <1>1, <1>2 DEF SessionFails, history, TableTypes, Backed, Held
  <2> QED BY <2>1, <2>2, <2>3, <2>4 DEF Tables
<1>3. ASSUME NEW s \in Handles, DeleteRequested(s) PROVE Tables'
  <2>1. TableTypes'
    BY <1>1, <1>3 DEF DeleteRequested, history, TableTypes, daemonVars, Lives
  <2>0. id[s] \in Ids /\ records[id[s]] = s /\ create[s] = "returned"
    BY <1>1, <1>3 DEF DeleteRequested, history, TableTypes, Current, Backed
  <2>2. ASSUME NEW t \in Handles PROVE Staged(t)'
    BY <1>1, <1>3, <2>0 DEF DeleteRequested, history, TableTypes, Staged, Held
  <2>3. Unshared'
    BY <1>1, <1>3, <2>0 DEF DeleteRequested, history, TableTypes, Unshared, Active, Held
  <2>4. Backed'
    BY <1>1, <1>3 DEF DeleteRequested, history, TableTypes, Backed, Held
  <2> QED BY <2>1, <2>2, <2>3, <2>4 DEF Tables
<1>4. ASSUME NEW s \in Handles, DeleteCloses(s) PROVE Tables'
  <2>1. TableTypes'
    BY <1>1, <1>4 DEF DeleteCloses, Retried, history, TableTypes, daemonVars, Lives
  <2>2. ASSUME NEW t \in Handles PROVE Staged(t)'
    BY <1>1, <1>4 DEF DeleteCloses, Retried, history, TableTypes, Staged, Held
  <2>3. Unshared'
    BY <1>1, <1>4 DEF DeleteCloses, Retried, history, TableTypes, Unshared, Active, Held
  <2>4. Backed'
    BY <1>1, <1>4 DEF DeleteCloses, Retried, history, TableTypes, Backed, Held
  <2> QED BY <2>1, <2>2, <2>3, <2>4 DEF Tables
<1>5. ASSUME NEW s \in Handles, DeleteEnds(s) PROVE Tables'
  <2>0. id[s] \in Ids /\ ~Held(s) /\ create[s] = "returned"
        /\ \A t \in Handles : id[t] = id[s] /\ Held(t) => t \in hasty
    BY <1>1, <1>5 DEF DeleteEnds, history, TableTypes, Staged, Unshared, Active, Held
  <2>1. TableTypes'
    BY <1>1, <1>5, <2>0 DEF DeleteEnds, history, TableTypes, daemonVars, Lives, Removed
  <2>2. ASSUME NEW t \in Handles PROVE Staged(t)'
    BY <1>1, <1>5, <2>0 DEF DeleteEnds, history, TableTypes, Staged, Held, Removed
  <2>3. Unshared'
    BY <1>1, <1>5, <2>0 DEF DeleteEnds, history, TableTypes, Unshared, Active, Held, Removed
  <2>4. Backed'
    BY <1>1, <1>5, <2>0 DEF DeleteEnds, history, TableTypes, Backed, Held, Removed
  <2> QED BY <2>1, <2>2, <2>3, <2>4 DEF Tables
<1>6. ASSUME NEW s \in Handles, Disposed(s) PROVE Tables'
  <2>0. /\ id[s] \in Ids /\ Held(s) /\ life' = [life EXCEPT ![s] = "gone"]
        /\ \A t \in Handles : id[t] = id[s] /\ t # s => ~Active(t)
    BY <1>1, <1>6 DEF Disposed, history, TableTypes, Staged, Unshared, Active, Held
  <2>5. records' = records \/ records' = [records EXCEPT ![id[s]] = None]
    BY <1>6 DEF Disposed, history, Removed
  <2>6. records[id[s]] = s => s \in unheard \/ records' = [records EXCEPT ![id[s]] = None]
    BY <1>1, <1>6, <2>0 DEF Disposed, Removed, Current, Staged
  <2>1. TableTypes'
    BY <1>1, <1>6, <2>0, <2>5 DEF Disposed, history, TableTypes, daemonVars, Lives
  <2>2. ASSUME NEW t \in Handles PROVE Staged(t)'
    <3>1. UNCHANGED <<attaching, id, create, unheard, hasty>> /\ deleting' = [deleting EXCEPT ![s] = IF @ = "close" THEN "no" ELSE @]
          /\ removing' = [removing EXCEPT ![s] = FALSE]
      BY <1>6 DEF Disposed, history
    <3>2. CASE t = s
      <4>1. life'[s] = "gone" /\ ~Held(s)'
        BY <1>1, <2>0 DEF TableTypes, Held
      <4>2. Staged(s) /\ life[s] # "none" /\ life[s] # "opening"
        BY <1>1, <1>6 DEF Disposed
      <4>3. deleting'[s] # "no" => deleting[s] # "no"
        BY <1>1, <3>1 DEF TableTypes
      <4>4. create[s] = "attaching" => s \in unheard
        BY <1>6, <4>2 DEF Disposed, Staged
      <4> QED BY <3>1, <3>2, <4>1, <4>2, <4>3, <4>4 DEF Staged
    <3>3. CASE t # s
      <4>1. /\ life'[t] = life[t] /\ removing'[t] = removing[t] /\ deleting'[t] = deleting[t]
        BY <1>1, <2>0, <3>1, <3>3 DEF TableTypes
      <4>2. Held(t) => records'[id[t]] = records[id[t]]
        <5>1. Held(t) => id[t] # id[s]
          BY <2>0, <3>3 DEF Active
        <5>2. Held(t) => id[t] \in Ids
          BY <1>1 DEF TableTypes, Staged, Held
        <5> QED BY <1>1, <2>0, <2>5, <5>1, <5>2 DEF TableTypes
      <4>3. Staged(t)
        BY <1>1
      <4> QED BY <3>1, <4>1, <4>2, <4>3 DEF Staged, Held
    <3> QED BY <3>2, <3>3
  <2>3. Unshared'
    <3> SUFFICES ASSUME NEW r \in Handles, NEW t \in Handles, r # t, id'[r] = id'[t], Active(t)'
                 PROVE  ~Active(r)' /\ records'[id'[r]] # r /\ (deleting'[r] = "no" \/ t \in hasty')
      BY DEF Unshared
    <3>1. /\ UNCHANGED <<id, create, hasty>>
          /\ deleting' = [deleting EXCEPT ![s] = IF @ = "close" THEN "no" ELSE @]
      BY <1>6 DEF Disposed, history
    <3>2. ASSUME NEW u \in Handles, Active(u)' PROVE Active(u)
      BY <1>1, <2>0, <3>1, <3>2 DEF TableTypes, Active, Held
    <3>3. Active(t) /\ ~Active(r) /\ records[id[r]] # r /\ (deleting[r] = "no" \/ t \in hasty)
      BY <1>1, <3>1, <3>2 DEF Unshared
    <3>4. id[r] \in Ids
      BY <1>1, <3>1, <3>3 DEF TableTypes, Staged, Active, Held
    <3>5. records'[id[r]] # r
      BY <1>1, <2>0, <2>5, <3>3, <3>4 DEF TableTypes
    <3>6. deleting'[r] = "no" \/ t \in hasty
      BY <1>1, <3>1, <3>3 DEF TableTypes
    <3> QED BY <3>1, <3>2, <3>3, <3>5, <3>6
  <2>4. Backed'
    <3> SUFFICES ASSUME NEW i \in Ids, NEW r, r = records'[i], r # None
                 PROVE  id'[r] = i /\ create'[r] = "returned" /\ (Held(r)' \/ r \in unheard')
      BY DEF Backed
    <3>1. r = records[i] /\ r \in Handles
      BY <1>1, <2>0, <2>5 DEF TableTypes
    <3>2. id[r] = i /\ create[r] = "returned" /\ (Held(r) \/ r \in unheard)
      BY <1>1, <3>1 DEF Backed
    <3>3. r # s \/ r \in unheard
      BY <1>1, <2>0, <2>6, <3>1, <3>2 DEF TableTypes
    <3>4. life'[r] = life[r] \/ r \in unheard
      BY <1>1, <2>0, <3>1, <3>3 DEF TableTypes
    <3>5. UNCHANGED <<id, create, unheard>>
      BY <1>6 DEF Disposed, history
    <3> QED BY <3>2, <3>4, <3>5 DEF Held
  <2> QED BY <2>1, <2>2, <2>3, <2>4 DEF Tables
<1>7. ASSUME NEW s \in Handles, CleanupFails(s) PROVE Tables'
  <2>1. TableTypes'
    BY <1>1, <1>7 DEF CleanupFails, history, TableTypes, daemonVars, Lives
  <2>2. ASSUME NEW t \in Handles PROVE Staged(t)'
    BY <1>1, <1>7 DEF CleanupFails, history, TableTypes, Staged, Held
  <2>3. Unshared'
    BY <1>1, <1>7 DEF CleanupFails, history, TableTypes, Unshared, Active, Held
  <2>4. Backed'
    BY <1>1, <1>7 DEF CleanupFails, history, TableTypes, Backed, Held
  <2> QED BY <2>1, <2>2, <2>3, <2>4 DEF Tables
<1> QED BY <1>2, <1>3, <1>4, <1>5, <1>6, <1>7

LEMMA ShutdownActions ==
  ASSUME Tables,
         \/ \E s \in Handles : CoreCloses(s)
         \/ ShutdownStarts \/ CoreCloseFails \/ CoreClosed \/ ShutdownEnds \/ Start
  PROVE  Tables'
<1>1. TableTypes /\ (\A s \in Handles : Staged(s)) /\ Unshared /\ Backed
  BY DEF Tables
<1>2. ASSUME NEW s \in Handles, CoreCloses(s) PROVE Tables'
  <2>1. TableTypes'
    BY <1>1, <1>2 DEF CoreCloses, Retried, history, TableTypes, Lives
  <2>2. ASSUME NEW t \in Handles PROVE Staged(t)'
    BY <1>1, <1>2 DEF CoreCloses, Retried, history, TableTypes, Staged, Held
  <2>3. Unshared'
    BY <1>1, <1>2 DEF CoreCloses, Retried, history, TableTypes, Unshared, Active, Held
  <2>4. Backed'
    BY <1>1, <1>2 DEF CoreCloses, Retried, history, TableTypes, Backed, Held
  <2> QED BY <2>1, <2>2, <2>3, <2>4 DEF Tables
<1>3. CASE CoreClosed
  <2>1. TableTypes'
    BY <1>1, <1>3 DEF CoreClosed, history, TableTypes, Lives
  <2>2. ASSUME NEW t \in Handles PROVE Staged(t)'
    BY <1>1, <1>3 DEF CoreClosed, history, TableTypes, Staged, Held
  <2>3. Unshared'
    BY <1>1, <1>3 DEF CoreClosed, history, Unshared, Active, Held
  <2>4. Backed'
    BY <1>3 DEF CoreClosed, history, Backed
  <2> QED BY <2>1, <2>2, <2>3, <2>4 DEF Tables
<1>4. CASE ShutdownStarts \/ CoreCloseFails \/ ShutdownEnds \/ Start
  <2>1. UNCHANGED <<records, attaching, id, create, life, removing, unheard, hasty, deleting>>
    BY <1>4 DEF ShutdownStarts, CoreCloseFails, ShutdownEnds, Start, history
  <2>2. TableTypes'
    BY <1>1, <1>4 DEF ShutdownStarts, CoreCloseFails, ShutdownEnds, Start, history, TableTypes
  <2>3. (\A s \in Handles : Staged(s)') /\ Unshared' /\ Backed'
    BY <1>1, <2>1 DEF Staged, Unshared, Backed, Active, Held
  <2> QED BY <2>2, <2>3 DEF Tables
<1> QED BY <1>2, <1>3, <1>4

LEMMA TablesStep ==
  ASSUME Tables, [Next]_vars
  PROVE  Tables'
<1>1. ASSUME UNCHANGED <<records, attaching, daemonVars, id, create, life, removing, history, deleting>>
      PROVE  Tables'
  BY <1>1 DEF Tables, TableTypes, Staged, Unshared, Backed, Active, Held, daemonVars, history
<1>2. ASSUME NEW s \in Handles,
             \/ TicketRequested(s) \/ TicketStarts(s) \/ TicketCommits(s)
             \/ TicketThrows(s) \/ TicketIssued(s)
      PROVE  Tables'
  BY <1>1, <1>2 DEF TicketRequested, TicketStarts, TicketCommits, TicketThrows, TicketIssued
<1>3. CASE UNCHANGED vars
  BY <1>1, <1>3 DEF vars
<1> QED BY <1>2, <1>3, CreationActions, EndingActions, ShutdownActions, Zenon DEF Next

-----------------------------------------------------------------------------
(* Capacity. *)

Bounded == Cardinality(Recorded) + Cardinality(attaching) <= MaxSessions

LEMMA Counts ==
  ASSUME TableTypes
  PROVE  /\ IsFiniteSet(Recorded) /\ IsFiniteSet(attaching)
         /\ Cardinality(Recorded) \in Nat /\ Cardinality(attaching) \in Nat
<1>1. IsFiniteSet(Recorded) /\ IsFiniteSet(attaching)
  BY FS_Subset, StandaloneDaemonAssumption DEF StandaloneDaemonAssumption, TableTypes, Recorded
<1> QED BY <1>1, FS_CardinalityType

\* Only an attachment that finds room adds to the two tables, and its return
\* moves it from one to the other.
LEMMA BoundedStep ==
  ASSUME Tables, Tables', Bounded, [Next]_vars
  PROVE  Bounded'
<1>0. /\ TableTypes /\ TableTypes' /\ MaxSessions \in Nat
      /\ \A s \in Handles : Staged(s)
      /\ None \notin Handles /\ None \notin Ids
  BY StandaloneDaemonAssumption DEF Tables, StandaloneDaemonAssumption
<1>1. /\ IsFiniteSet(Recorded) /\ IsFiniteSet(attaching)
      /\ Cardinality(Recorded) \in Nat /\ Cardinality(attaching) \in Nat
      /\ IsFiniteSet(Recorded') /\ IsFiniteSet(attaching')
      /\ Cardinality(Recorded') \in Nat /\ Cardinality(attaching') \in Nat
  <2>1. /\ IsFiniteSet(Recorded') /\ IsFiniteSet(attaching')
    BY <1>0, FS_Subset, StandaloneDaemonAssumption
       DEF StandaloneDaemonAssumption, TableTypes, Recorded
  <2> QED BY <1>0, <2>1, Counts, FS_CardinalityType
<1>2. ASSUME Recorded' \subseteq Recorded, attaching' \subseteq attaching
      PROVE  Bounded'
  <2>1. Cardinality(Recorded') <= Cardinality(Recorded)
    BY <1>1, <1>2, FS_Subset
  <2>2. Cardinality(attaching') <= Cardinality(attaching)
    BY <1>1, <1>2, FS_Subset
  <2> QED BY <1>0, <1>1, <2>1, <2>2 DEF Bounded
<1>3. ASSUME NEW s \in Handles, NEW i \in Ids, CreateSession(s, i) PROVE Bounded'
  <2>1. Recorded' = Recorded /\ attaching' = attaching \cup {i} /\ i \notin attaching
    BY <1>3 DEF CreateSession, Recorded
  <2>2. Cardinality(attaching') = Cardinality(attaching) + 1
    BY <1>1, <2>1, FS_AddElement
  <2> QED BY <1>0, <1>1, <1>3, <2>1, <2>2 DEF CreateSession, Room, Bounded
<1>4. ASSUME NEW s \in Handles, AttachReturns(s) PROVE Bounded'
  <2>1. id[s] \in attaching /\ id[s] \in Ids
    BY <1>0, <1>4 DEF AttachReturns, Staged, TableTypes
  <2>2. Recorded' = Recorded \cup {id[s]} /\ attaching' = attaching \ {id[s]}
    BY <1>0, <1>4, <2>1 DEF AttachReturns, Recorded, TableTypes
  <2>3. Cardinality(Recorded') <= Cardinality(Recorded) + 1
    <3>1. Cardinality(Recorded \cup {id[s]}) \in {Cardinality(Recorded), Cardinality(Recorded) + 1}
      BY <1>1, FS_AddElement
    <3> QED BY <1>1, <2>2, <3>1
  <2>4. Cardinality(attaching') = Cardinality(attaching) - 1
    BY <1>1, <2>1, <2>2, FS_RemoveElement
  <2> QED BY <1>0, <1>1, <2>3, <2>4 DEF Bounded
<1>5. ASSUME NEW s \in Handles, DeleteEnds(s) \/ Disposed(s) PROVE Bounded'
  <2>1. attaching' = attaching /\ records' \in {records, Removed(s)}
    BY <1>5 DEF DeleteEnds, Disposed
  <2>2. Recorded' \subseteq Recorded
    BY <1>0, <2>1 DEF Recorded, Removed, TableTypes
  <2> QED BY <1>2, <2>1, <2>2
<1>6. CASE CoreClosed
  BY <1>2, <1>6 DEF CoreClosed, Recorded
<1>7. ASSUME NEW s \in Handles, AttachFails(s) PROVE Bounded'
  BY <1>2, <1>7 DEF AttachFails, Recorded
<1>8. ASSUME UNCHANGED <<records, attaching>> PROVE Bounded'
  BY <1>2, <1>8 DEF Recorded
<1>9. ASSUME NEW s \in Handles,
             \/ AttachOpens(s) \/ SessionFails(s) \/ DeleteRequested(s) \/ DeleteCloses(s)
             \/ CleanupFails(s) \/ CoreCloses(s)
      PROVE  Bounded'
  BY <1>8, <1>9 DEF AttachOpens, SessionFails, DeleteRequested, DeleteCloses, CleanupFails, CoreCloses
<1>10. ASSUME NEW s \in Handles,
              \/ TicketRequested(s) \/ TicketStarts(s) \/ TicketCommits(s)
              \/ TicketThrows(s) \/ TicketIssued(s)
       PROVE  Bounded'
  BY <1>8, <1>10 DEF TicketRequested, TicketStarts, TicketCommits, TicketThrows, TicketIssued
<1>11. CASE ShutdownStarts \/ CoreCloseFails \/ ShutdownEnds \/ Start
  BY <1>8, <1>11 DEF ShutdownStarts, CoreCloseFails, ShutdownEnds, Start
<1>12. CASE UNCHANGED vars
  BY <1>8, <1>12 DEF vars
<1> QED BY <1>3, <1>4, <1>5, <1>6, <1>7, <1>9, <1>10, <1>11, <1>12, Zenon DEF Next

\* Each Session that Core has and that was given to the daemon has its ID in one
\* of the two tables, unless it was created in haste.
LEMMA SessionsBounded ==
  ASSUME Tables, Bounded
  PROVE  Cardinality({s \in Handles : Held(s) /\ create[s] # "failed" /\ s \notin hasty}) <= MaxSessions
<1> DEFINE H == {s \in Handles : Held(s) /\ create[s] # "failed" /\ s \notin hasty}
           R == Recorded
           f == [s \in H |-> id[s]]
<1>1. TableTypes /\ (\A s \in Handles : Staged(s)) /\ Unshared /\ MaxSessions \in Nat /\ None \notin Handles
  BY StandaloneDaemonAssumption DEF Tables, StandaloneDaemonAssumption
<1>2. /\ IsFiniteSet(R) /\ IsFiniteSet(attaching)
      /\ Cardinality(R) \in Nat /\ Cardinality(attaching) \in Nat
  BY <1>1, Counts
<1>3. ASSUME NEW s \in H PROVE id[s] \in R \cup attaching
  <2>1. Staged(s) /\ Held(s) /\ create[s] \in {"attaching", "returned"} /\ id[s] \in Ids
        /\ s \notin hasty
    BY <1>1 DEF TableTypes, Staged, Held
  <2> QED BY <1>1, <2>1 DEF Staged, Recorded
<1>4. \A s, t \in H : id[s] = id[t] => s = t
  BY <1>1 DEF Unshared, Active
<1>5. IsFiniteSet(R \cup attaching) /\ Cardinality(R \cup attaching) <= Cardinality(R) + Cardinality(attaching)
  <2>1. /\ IsFiniteSet(R \cup attaching)
        /\ Cardinality(R \cup attaching)
             = Cardinality(R) + Cardinality(attaching) - Cardinality(R \cap attaching)
    BY <1>2, FS_Union
  <2>2. Cardinality(R \cap attaching) \in Nat
    BY <1>2, FS_Intersection, FS_CardinalityType
  <2> QED BY <1>2, <2>1, <2>2
<1>6. f \in Injection(H, R \cup attaching)
  BY <1>3, <1>4 DEF Injection, IsInjective
<1>7. Cardinality(H) <= Cardinality(R \cup attaching)
  BY <1>5, <1>6, FS_Injection
<1>8. IsFiniteSet(H)
  BY FS_Subset, StandaloneDaemonAssumption DEF StandaloneDaemonAssumption
<1>9. Cardinality(H) \in Nat /\ Cardinality(R \cup attaching) \in Nat
  BY <1>5, <1>8, FS_CardinalityType
<1> QED BY <1>1, <1>2, <1>5, <1>7, <1>9 DEF Bounded

-----------------------------------------------------------------------------
(* The theorems. *)

LEMMA AlwaysTickets == Spec => []Tickets
<1>1. Tickets /\ [Next]_vars => Tickets'
  BY TicketsStep
<1>2. Spec => Init /\ [][Next]_vars
  BY DEF Spec
<1> QED BY <1>1, <1>2, TicketsInit, PTL

LEMMA AlwaysTables == Spec => []Tables
<1>1. Tables /\ [Next]_vars => Tables'
  BY TablesStep
<1>2. Spec => Init /\ [][Next]_vars
  BY DEF Spec
<1> QED BY <1>1, <1>2, TablesInit, PTL

LEMMA AlwaysBounded == Spec => []Bounded
<1>1. Init => Bounded
  <2> SUFFICES ASSUME Init PROVE Bounded
    OBVIOUS
  <2>1. Recorded = {} /\ attaching = {}
    BY DEF Init, Recorded
  <2>2. Cardinality({}) = 0
    BY FS_EmptySet
  <2> QED BY <2>1, <2>2, StandaloneDaemonAssumption DEF Bounded, StandaloneDaemonAssumption
<1>2. Tables /\ Tables' /\ Bounded /\ [Next]_vars => Bounded'
  BY BoundedStep
<1>3. Spec => Init /\ [][Next]_vars
  BY DEF Spec
<1> QED BY <1>1, <1>2, <1>3, AlwaysTables, PTL

\* Once Core's part of close() has succeeded nothing makes a Session: creation
\* needs a daemon that is up.
LEMMA ShutdownStep ==
  ASSUME TableTypes, \A s \in Handles : Staged(s), NothingOutlivesShutdown, [Next]_vars
  PROVE  NothingOutlivesShutdown'
<1>1. ASSUME phase' = phase, \A s \in Handles : Held(s)' => Held(s)
      PROVE  NothingOutlivesShutdown'
  BY <1>1 DEF NothingOutlivesShutdown
<1>2. ASSUME phase' \notin {"storage", "unclean", "stopped"}
      PROVE  NothingOutlivesShutdown'
  BY <1>2 DEF NothingOutlivesShutdown
<1>3. ASSUME NEW s \in Handles, NEW i \in Ids, CreateSession(s, i) PROVE NothingOutlivesShutdown'
  BY <1>2, <1>3 DEF CreateSession, daemonVars
<1>4. ASSUME NEW s \in Handles,
             \/ AttachOpens(s) \/ AttachFails(s) \/ SessionFails(s) \/ DeleteCloses(s)
             \/ Disposed(s) \/ CleanupFails(s) \/ CoreCloses(s)
      PROVE  NothingOutlivesShutdown'
  <2>1. phase' = phase
    BY <1>4 DEF AttachOpens, AttachFails, SessionFails, DeleteCloses, Disposed, CleanupFails,
                CoreCloses, daemonVars
  <2>2. ASSUME NEW t \in Handles, Held(t)' PROVE Held(t)
    <3>1. CASE t # s
      <4>1. life'[t] = life[t]
        BY <1>4, <3>1 DEF AttachOpens, AttachFails, SessionFails, DeleteCloses, Disposed,
                          CleanupFails, CoreCloses, TableTypes
      <4> QED BY <2>2, <4>1 DEF Held
    <3>2. CASE t = s /\ (DeleteCloses(s) \/ CoreCloses(s))
      BY <2>2, <3>2 DEF DeleteCloses, CoreCloses, Retried, TableTypes, Held
    <3>3. CASE t = s /\ AttachFails(s)
      BY <2>2, <3>3 DEF AttachFails, TableTypes, Lives, Held, Staged
    <3>4. CASE t = s /\ (AttachOpens(s) \/ SessionFails(s) \/ Disposed(s) \/ CleanupFails(s))
      BY <3>4 DEF AttachOpens, SessionFails, Disposed, CleanupFails, Held
    <3> QED BY <1>4, <3>1, <3>2, <3>3, <3>4
  <2> QED BY <1>1, <2>1, <2>2
<1>5. ASSUME NEW s \in Handles,
             \/ AttachReturns(s) \/ DeleteRequested(s) \/ DeleteEnds(s)
             \/ TicketRequested(s) \/ TicketStarts(s) \/ TicketCommits(s)
             \/ TicketThrows(s) \/ TicketIssued(s)
      PROVE  NothingOutlivesShutdown'
  <2>1. phase' = phase /\ life' = life
    BY <1>5 DEF AttachReturns, DeleteRequested, DeleteEnds, TicketRequested, TicketStarts,
                TicketCommits, TicketThrows, TicketIssued, daemonVars
  <2> QED BY <1>1, <2>1 DEF Held
<1>6. CASE ShutdownStarts \/ CoreCloseFails \/ Start
  BY <1>2, <1>6 DEF ShutdownStarts, CoreCloseFails, Start
<1>7. CASE CoreClosed
  BY <1>7 DEF CoreClosed, NothingOutlivesShutdown, Held
<1>8. CASE ShutdownEnds
  BY <1>8 DEF ShutdownEnds, NothingOutlivesShutdown, Held
<1>9. CASE UNCHANGED vars
  BY <1>1, <1>9 DEF vars, daemonVars, Held
<1> QED BY <1>3, <1>4, <1>5, <1>6, <1>7, <1>8, <1>9, Zenon DEF Next

\* The registry is never ahead of the Session it issues tickets for, and never
\* more than the one generation behind that a ticket which was made and then
\* lost accounts for, whatever throws and whatever the Session does meanwhile.
THEOREM GenerationsAlwaysAgree == Spec => []GenerationsAgree
<1>1. Tickets => GenerationsAgree
  BY DEF Tickets, GenerationsAgree
<1> QED BY <1>1, AlwaysTickets, PTL

\* A record is of a Session created under its ID, and Core still has that Session
\* unless it failed with no callback left to wait for its end: neither a DELETE
\* nor the callback of a Session that ended leaves a record behind.
THEOREM RecordsAlwaysCurrent == Spec => []RecordsCurrent
<1>1. Tables => RecordsCurrent
  BY DEF Tables, Backed, RecordsCurrent, Recorded
<1> QED BY <1>1, AlwaysTables, PTL

\* A Session that was handed out can be reached through its record for as long
\* as Core has it, unless its ID was given again under a DELETE of an earlier
\* Session: no callback removes the record of another Session, and no DELETE of
\* a Session that had no such successor.
THEOREM LiveAlwaysListed == Spec => []LiveListed
<1>1. Tables => LiveListed
  BY DEF Tables, Staged, LiveListed, Current, Held
<1> QED BY <1>1, AlwaysTables, PTL

\* The tables and counters of the daemon agree with each other and with Core:
\* records and attachments stay within maxSessions, and so do the Sessions Core
\* has for them, those created under a DELETE of their ID apart; generations agree; and a close() that succeeded left nothing.
THEOREM AlwaysConsistent == Spec => []Consistent
<1>1. Init => NothingOutlivesShutdown
  BY DEF Init, NothingOutlivesShutdown
<1>2. Tables /\ NothingOutlivesShutdown /\ [Next]_vars => NothingOutlivesShutdown'
  BY ShutdownStep DEF Tables
<1>3. Tables /\ Tickets /\ Bounded /\ NothingOutlivesShutdown => Consistent
  <2> SUFFICES ASSUME Tables, Tickets, Bounded, NothingOutlivesShutdown PROVE Consistent
    OBVIOUS
  <2>1. TypeOK
    BY DEF Tables, Tickets, TableTypes, TicketTypes, TypeOK
  <2>2. CapacityHolds
    BY SessionsBounded DEF CapacityHolds, Bounded
  <2>3. GenerationsAgree
    BY DEF Tickets, GenerationsAgree
  <2> QED BY <2>1, <2>2, <2>3 DEF Consistent
<1>4. Spec => Init /\ [][Next]_vars
  BY DEF Spec
<1> QED BY <1>1, <1>2, <1>3, <1>4, AlwaysTables, AlwaysTickets, AlwaysBounded, PTL
=============================================================================
