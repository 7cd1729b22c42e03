--------------------------- MODULE StandaloneDaemon ---------------------------
(***************************************************************************)
(* The registry of the Standalone daemon (apps/standalone/src/server.ts):  *)
(* one record per Session, created by POST, removed by DELETE or by the    *)
(* callback of a Session that has ended, all cleared at shutdown.  A       *)
(* Session is a handle here, so that two Sessions of one ID differ.  What  *)
(* Core does with a handle is its life, as attachSession, close and        *)
(* createViewerTicket of session.ts present it.                            *)
(***************************************************************************)
EXTENDS Naturals, FiniteSets

CONSTANTS
  Ids,          \* Session IDs the Embedder uses
  Handles,      \* bound: Session objects created
  MaxSessions,  \* configuration.maxSessions
  MaxTickets,   \* bound: ticket requests of one Session
  None

ASSUME StandaloneDaemonAssumption ==
  /\ IsFiniteSet(Ids) /\ IsFiniteSet(Handles) /\ None \notin Ids \cup Handles
  /\ MaxSessions \in Nat \ {0} /\ MaxTickets \in Nat

VARIABLES
  records,    \* #sessions
  attaching,  \* #attaching
  phase,      \* of the daemon: "up", or how far close() is
  closing,    \* #closing
  swept,      \* the handles this close() of Core has told to close
  id,         \* the ID of each handle
  create,     \* its createSession call
  life,       \* what Core does with it
  removing,   \* its terminal callback waits to remove the record
  unheard,    \* history: Sessions that no callback waits for when they have cleaned up
  hasty,      \* history: Sessions created while a DELETE of their ID was under way
  deleting,   \* the DELETE request for it
  ahead,      \* ticket operations that DELETE waits for
  queue,      \* ticket operations waiting in the ticketQueue of its record
  ticket,     \* the one under way
  granted,    \* viewerGeneration of its record
  committed   \* #viewerGeneration of the Session

daemonVars == <<phase, closing, swept>>
ticketVars == <<queue, ticket, granted, committed>>
history == <<unheard, hasty>>
vars == <<records, attaching, daemonVars, id, create, life, removing, history, deleting, ahead,
          ticketVars>>

-----------------------------------------------------------------------------
\* "failing" and "closing" clean up in FAILED and in CLOSING; "failed" and
\* "pending" wait for a retry there.
Lives == {"none", "opening", "live", "failing", "failed", "closing", "pending", "gone"}

TypeOK ==
  /\ records \in [Ids -> Handles \cup {None}]
  /\ attaching \in SUBSET Ids
  /\ phase \in {"up", "core", "failed", "storage", "unclean", "stopped"} /\ closing \in BOOLEAN
  /\ swept \in SUBSET Handles
  /\ id \in [Handles -> Ids \cup {None}]
  /\ create \in [Handles -> {"no", "attaching", "returned", "failed"}]
  /\ life \in [Handles -> Lives]
  /\ removing \in [Handles -> BOOLEAN]
  /\ unheard \in SUBSET Handles /\ hasty \in SUBSET Handles
  /\ deleting \in [Handles -> {"no", "tickets", "close"}]
  /\ ahead \in [Handles -> Nat] /\ queue \in [Handles -> Nat]
  /\ ticket \in [Handles -> {"none", "issuing", "committed"}]
  /\ granted \in [Handles -> Nat] /\ committed \in [Handles -> Nat]

Init ==
  /\ records = [i \in Ids |-> None] /\ attaching = {}
  /\ phase = "up" /\ closing = FALSE /\ swept = {}
  /\ id = [s \in Handles |-> None] /\ create = [s \in Handles |-> "no"]
  /\ life = [s \in Handles |-> "none"]
  /\ unheard = {} /\ hasty = {}
  /\ removing = [s \in Handles |-> FALSE] /\ deleting = [s \in Handles |-> "no"]
  /\ ahead = [s \in Handles |-> 0] /\ queue = [s \in Handles |-> 0]
  /\ ticket = [s \in Handles |-> "none"]
  /\ granted = [s \in Handles |-> 0] /\ committed = [s \in Handles |-> 0]

-----------------------------------------------------------------------------
Held(s) == life[s] \in {"opening", "live", "failing", "failed", "closing", "pending"}
Retried(l) == CASE l \in {"live", "pending"} -> "closing" [] l = "failed" -> "failing" [] OTHER -> l
Recorded == {i \in Ids : records[i] # None}
Operations(s) == queue[s] + (IF ticket[s] = "none" THEN 0 ELSE 1)
Current(s) == id[s] # None /\ records[id[s]] = s
Removed(s) == [records EXCEPT ![id[s]] = None]

Room == Cardinality(Recorded) + Cardinality(attaching) < MaxSessions

\* #createSession, up to attachSession; Core refuses an ID it still has.
CreateSession(s, i) ==
  /\ phase = "up" /\ ~closing
  /\ records[i] = None /\ i \notin attaching /\ Room
  /\ life[s] = "none"
  /\ \A t \in Handles : id[t] = i => ~Held(t)
  /\ attaching' = attaching \cup {i}
  /\ id' = [id EXCEPT ![s] = i]
  /\ create' = [create EXCEPT ![s] = "attaching"]
  /\ life' = [life EXCEPT ![s] = "opening"]
  /\ hasty' = IF \E t \in Handles : id[t] = i /\ deleting[t] # "no" THEN hasty \cup {s} ELSE hasty
  /\ UNCHANGED <<records, daemonVars, removing, unheard, deleting, ahead, ticketVars>>

\* attachSession of Core has made the Session ...
AttachOpens(s) ==
  /\ life[s] = "opening"
  /\ life' = [life EXCEPT ![s] = "live"]
  /\ UNCHANGED <<records, attaching, daemonVars, id, create, removing, history, deleting, ahead,
                 ticketVars>>

\* ... or fails, once it has tried to clean up, and keeps what it could not.
AttachFails(s) ==
  /\ create[s] = "attaching" /\ life[s] # "failing"
  /\ \E kept \in {"gone", "pending"} : life' = [life EXCEPT ![s] = IF @ = "gone" THEN @ ELSE kept]
  /\ create' = [create EXCEPT ![s] = "failed"]
  /\ attaching' = attaching \ {id[s]}
  /\ UNCHANGED <<records, daemonVars, id, removing, history, deleting, ahead, ticketVars>>

\* It returns the Session, whatever became of it: the record is set.
AttachReturns(s) ==
  /\ create[s] = "attaching" /\ life[s] # "opening"
  /\ records' = [records EXCEPT ![id[s]] = s]
  /\ attaching' = attaching \ {id[s]}
  /\ create' = [create EXCEPT ![s] = "returned"]
  /\ UNCHANGED <<daemonVars, id, life, removing, history, deleting, ahead, ticketVars>>

\* The Session fails: its callback closes it again, to remove the record after,
\* if the record is there yet.
SessionFails(s) ==
  /\ life[s] = "live"
  /\ life' = [life EXCEPT ![s] = "failing"]
  /\ removing' = [removing EXCEPT ![s] = Current(s)]
  /\ unheard' = IF Current(s) THEN unheard ELSE unheard \cup {s}
  /\ UNCHANGED <<records, attaching, daemonVars, id, create, hasty, deleting, ahead, ticketVars>>

\* DELETE waits for the ticket operations queued so far, ...
DeleteRequested(s) ==
  /\ phase = "up" /\ Current(s) /\ deleting[s] = "no"
  /\ deleting' = [deleting EXCEPT ![s] = "tickets"]
  /\ ahead' = [ahead EXCEPT ![s] = Operations(s)]
  /\ UNCHANGED <<records, attaching, daemonVars, id, create, life, removing, history, ticketVars>>

\* ... closes the Session, ...
DeleteCloses(s) ==
  /\ deleting[s] = "tickets" /\ ahead[s] = 0 /\ life[s] # "gone"
  /\ deleting' = [deleting EXCEPT ![s] = "close"]
  /\ life' = [life EXCEPT ![s] = Retried(@)]
  /\ UNCHANGED <<records, attaching, daemonVars, id, create, removing, history, ahead, ticketVars>>

\* ... and removes the record of the ID, whichever Session it is for.
DeleteEnds(s) ==
  /\ deleting[s] = "tickets" /\ ahead[s] = 0 /\ life[s] = "gone"
  /\ deleting' = [deleting EXCEPT ![s] = "no"]
  /\ records' = Removed(s)
  /\ UNCHANGED <<attaching, daemonVars, id, create, life, removing, history, ahead, ticketVars>>

\* Mutant: only a DELETE removes the record.
DisposedByDelete(s) ==
  /\ life[s] \in {"failing", "closing"}
  /\ life' = [life EXCEPT ![s] = "gone"]
  /\ removing' = [removing EXCEPT ![s] = FALSE]
  /\ deleting' = [deleting EXCEPT ![s] = IF @ = "close" THEN "no" ELSE @]
  /\ records' = IF deleting[s] = "close" THEN Removed(s) ELSE records
  /\ UNCHANGED <<attaching, daemonVars, id, create, history, ahead, ticketVars>>

\* The Session has cleaned up: a DELETE that waited removes the record of the ID,
\* and the callback of FAILED or of CLOSED that of this Session only.  None runs
\* for a Session that was FAILED before.
Disposed(s) ==
  /\ life[s] \in {"failing", "closing"}
  /\ life' = [life EXCEPT ![s] = "gone"]
  /\ removing' = [removing EXCEPT ![s] = FALSE]
  /\ deleting' = [deleting EXCEPT ![s] = IF @ = "close" THEN "no" ELSE @]
  /\ records' = IF \/ deleting[s] = "close"
                   \/ Current(s) /\ (removing[s] \/ life[s] = "closing")
                  THEN Removed(s) ELSE records
  /\ UNCHANGED <<attaching, daemonVars, id, create, history, ahead, ticketVars>>

\* Mutant: the record is removed whether or not the Session could be closed.
CleanupFailsForgetting(s) ==
  /\ life[s] \in {"failing", "closing"}
  /\ life' = [life EXCEPT ![s] = IF @ = "failing" THEN "failed" ELSE "pending"]
  /\ unheard' = IF life[s] = "failing" THEN unheard \cup {s} ELSE unheard
  /\ removing' = [removing EXCEPT ![s] = FALSE]
  /\ deleting' = [deleting EXCEPT ![s] = IF @ = "close" THEN "no" ELSE @]
  /\ records' = Removed(s)
  /\ UNCHANGED <<attaching, daemonVars, id, create, hasty, ahead, ticketVars>>

\* Its cleanup fails: Core keeps it, and the record stays.
CleanupFails(s) ==
  /\ life[s] \in {"failing", "closing"}
  /\ life' = [life EXCEPT ![s] = IF @ = "failing" THEN "failed" ELSE "pending"]
  /\ unheard' = IF life[s] = "failing" THEN unheard \cup {s} ELSE unheard
  /\ removing' = [removing EXCEPT ![s] = FALSE]
  /\ deleting' = [deleting EXCEPT ![s] = IF @ = "close" THEN "no" ELSE @]
  /\ UNCHANGED <<records, attaching, daemonVars, id, create, hasty, ahead, ticketVars>>

-----------------------------------------------------------------------------
\* #issueViewerTicket
TicketRequested(s) ==
  /\ phase = "up" /\ Current(s)
  /\ granted[s] + Operations(s) < MaxTickets
  /\ queue' = [queue EXCEPT ![s] = @ + 1]
  /\ UNCHANGED <<records, attaching, daemonVars, id, create, life, removing, history, deleting,
                 ahead,
                 ticket, granted, committed>>

Dequeue(s) == queue' = [queue EXCEPT ![s] = @ - 1]
Advance(s) == ahead' = [ahead EXCEPT ![s] = IF @ = 0 THEN 0 ELSE @ - 1]

\* Core refuses a Session that is not live and a generation that is not new.
Issuable(s) == life[s] = "live" /\ granted[s] + 1 > committed[s]

TicketStarts(s) ==
  /\ queue[s] > 0 /\ ticket[s] = "none"
  /\ Dequeue(s)
  /\ \/ Issuable(s) /\ ticket' = [ticket EXCEPT ![s] = "issuing"] /\ UNCHANGED ahead
     \/ ~Issuable(s) /\ Advance(s) /\ UNCHANGED ticket
  /\ UNCHANGED <<records, attaching, daemonVars, id, create, life, removing, history, deleting,
                 granted, committed>>

\* createViewerTicket assigns the generation, and may throw before or after.
TicketCommits(s) ==
  /\ ticket[s] = "issuing"
  /\ ticket' = [ticket EXCEPT ![s] = "committed"]
  /\ committed' = [committed EXCEPT ![s] = granted[s] + 1]
  /\ UNCHANGED <<records, attaching, daemonVars, id, create, life, removing, history, deleting,
                 ahead, queue, granted>>

\* Mutant: the generation advances before the ticket has been made.
TicketThrowsAdvanced(s) ==
  /\ ticket[s] # "none"
  /\ ticket' = [ticket EXCEPT ![s] = "none"]
  /\ granted' = [granted EXCEPT ![s] = @ + 1]
  /\ Advance(s)
  /\ UNCHANGED <<records, attaching, daemonVars, id, create, life, removing, history, deleting,
                 queue, committed>>

\* Mutant: the queue does not go on after an operation that throws.
TicketThrowsSilently(s) ==
  /\ ticket[s] # "none"
  /\ ticket' = [ticket EXCEPT ![s] = "none"]
  /\ UNCHANGED <<records, attaching, daemonVars, id, create, life, removing, history, deleting,
                 ahead, queue, granted, committed>>

TicketThrows(s) ==
  /\ ticket[s] # "none"
  /\ ticket' = [ticket EXCEPT ![s] = "none"]
  /\ Advance(s)
  /\ UNCHANGED <<records, attaching, daemonVars, id, create, life, removing, history, deleting,
                 queue, granted, committed>>

TicketIssued(s) ==
  /\ ticket[s] = "committed" /\ life[s] = "live"
  /\ ticket' = [ticket EXCEPT ![s] = "none"]
  /\ granted' = [granted EXCEPT ![s] = @ + 1]
  /\ Advance(s)
  /\ UNCHANGED <<records, attaching, daemonVars, id, create, life, removing, history, deleting,
                 queue, committed>>

-----------------------------------------------------------------------------
\* close(): the server takes no request any more, Core closes what it has ...
ShutdownStarts ==
  /\ phase \in {"up", "failed", "unclean"} /\ ~closing
  /\ phase' = "core" /\ closing' = TRUE /\ swept' = {}
  /\ UNCHANGED <<records, attaching, id, create, life, removing, history, deleting, ahead,
                 ticketVars>>

CoreCloses(s) ==
  /\ phase = "core" /\ create[s] # "attaching" /\ Held(s) /\ s \notin swept
  /\ swept' = swept \cup {s}
  /\ life' = [life EXCEPT ![s] = Retried(@)]
  /\ UNCHANGED <<records, attaching, phase, closing, id, create, removing, history, deleting,
                 ahead, ticketVars>>

\* ... and may fail: everything is kept for another close().
CoreCloseFails ==
  /\ phase = "core" /\ \E s \in Handles : Held(s)
  /\ \A s \in Handles : Held(s) => s \in swept /\ life[s] \in {"pending", "failed"}
  /\ phase' = "failed" /\ closing' = FALSE /\ swept' = {}
  /\ UNCHANGED <<records, attaching, id, create, life, removing, history, deleting, ahead,
                 ticketVars>>

CoreClosed ==
  /\ phase = "core"
  /\ \A s \in Handles : create[s] # "attaching" /\ ~Held(s)
  /\ phase' = "storage" /\ records' = [i \in Ids |-> None] /\ attaching' = {} /\ swept' = {}
  /\ UNCHANGED <<closing, id, create, life, removing, history, deleting, ahead, ticketVars>>

\* The storage and the Extension are closed; either may fail.
ShutdownEnds ==
  /\ phase = "storage"
  /\ \/ phase' = "stopped" /\ UNCHANGED closing
     \/ phase' = "unclean" /\ closing' = FALSE
  /\ UNCHANGED <<swept, records, attaching, id, create, life, removing, history, deleting, ahead,
                 ticketVars>>

\* After a failed Core.close() the Extension still runs, and start() throws.
Start ==
  /\ phase \in {"stopped", "unclean"}
  /\ phase' = "up" /\ closing' = FALSE
  /\ UNCHANGED <<swept, records, attaching, id, create, life, removing, history, deleting, ahead,
                 ticketVars>>

Next ==
  \/ \E s \in Handles, i \in Ids : CreateSession(s, i)
  \/ \E s \in Handles :
       \/ AttachOpens(s) \/ AttachFails(s) \/ AttachReturns(s) \/ SessionFails(s)
       \/ DeleteRequested(s) \/ DeleteCloses(s) \/ DeleteEnds(s) \/ Disposed(s) \/ CleanupFails(s)
       \/ TicketRequested(s) \/ TicketStarts(s) \/ TicketCommits(s) \/ TicketThrows(s) \/ TicketIssued(s)
       \/ CoreCloses(s)
  \/ ShutdownStarts \/ CoreCloseFails \/ CoreClosed \/ ShutdownEnds \/ Start

\* Calls that Core, the storage and the Extension have taken settle.
Fairness ==
  /\ \A s \in Handles :
       /\ WF_vars(AttachOpens(s)) /\ WF_vars(AttachFails(s) \/ AttachReturns(s))
       /\ WF_vars(DeleteCloses(s) \/ DeleteEnds(s)) /\ WF_vars(Disposed(s) \/ CleanupFails(s))
       /\ WF_vars(TicketStarts(s) \/ TicketThrows(s) \/ TicketIssued(s))
       /\ WF_vars(CoreCloses(s))
  /\ WF_vars(CoreCloseFails \/ CoreClosed \/ ShutdownEnds)

Spec == Init /\ [][Next]_vars /\ Fairness

-----------------------------------------------------------------------------
\* A record is of the Session that was created under its ID, and that Core has:
\* a Session that has been disposed of occupies no capacity, unless no callback
\* was left to tell the daemon (onStateChanged, DELETE).
RecordsCurrent ==
  \A i \in Recorded : id[records[i]] = i /\ (Held(records[i]) \/ records[i] \in unheard)

\* A Session that was handed out can be reached through its record for as long as
\* Core has it: no callback and no request for another Session removes it, unless
\* its ID was given again before a DELETE was answered.
LiveListed ==
  \A s \in Handles : create[s] = "returned" /\ Held(s) => Current(s) \/ s \in hasty

\* Records and attachments under way stay within maxSessions, and so do the
\* Sessions that Core has and the daemon was given.
CapacityHolds ==
  /\ Cardinality(Recorded) + Cardinality(attaching) <= MaxSessions
  /\ Cardinality({s \in Handles : Held(s) /\ create[s] # "failed" /\ s \notin hasty}) <= MaxSessions

\* "Terminal cleanup releases the configured Session capacity without requiring a
\* redundant API DELETE": a record is of a Session that Core still has.
EndedEvicted == \A i \in Recorded : Held(records[i])

\* "The identity check is against the Session object, not only its ID": nothing
\* that ends an old Session removes the record of its successor.
SuccessorsListed == \A s \in Handles : create[s] = "returned" /\ Held(s) => Current(s)

\* The registry is never ahead of the Session, and at most one generation behind.
GenerationsAgree ==
  \A s \in Handles : granted[s] <= committed[s] /\ committed[s] <= granted[s] + 1

\* When close() has succeeded, Core has no Session left, attachments that were
\* under way included.
NothingOutlivesShutdown ==
  phase \in {"storage", "unclean", "stopped"} => \A s \in Handles : ~Held(s)

\* Every shutdown ends, and every DELETE, whatever fails on the way.
ShutdownSettles == phase = "core" ~> phase \in {"up", "failed", "unclean", "stopped"}
DeletesSettle == \A s \in Handles : deleting[s] # "no" ~> deleting[s] = "no"

\* The tables of the daemon, its counters and those of Core agree.
Consistent == TypeOK /\ CapacityHolds /\ GenerationsAgree /\ NothingOutlivesShutdown

\* No request of the Embedder hangs.
Settles == ShutdownSettles /\ DeletesSettle
=============================================================================
