-------------------------- MODULE SessionLifecycle --------------------------
(***************************************************************************)
(* What a Session promises its Embedder (state-machine.ts, contracts.ts):  *)
(* the state moves along LEGAL_TRANSITIONS only, and each Viewer           *)
(* generation is larger than the one before.  A takeover remembers the     *)
(* state before it retires the Viewer.  If the Session is still in that    *)
(* state when the generation is issued, it negotiates from there on; if it *)
(* was overtaken, it moves legally or stays.                               *)
(***************************************************************************)
EXTENDS Naturals

CONSTANT MaxGeneration   \* bound: Viewer generations the Embedder uses

VARIABLES state, generation,
  remembered   \* the state a takeover has read, "none" when there is no takeover

States == {"ATTACHING", "READY", "NEGOTIATING", "CONNECTED", "SUSPENDED",
           "RECONNECTING", "CLOSING", "CLOSED", "FAILED"}

LegalTransitions ==
  [s \in States |->
    CASE s = "ATTACHING" -> {"READY", "CLOSING", "FAILED"}
      [] s = "READY" -> {"NEGOTIATING", "CLOSING", "FAILED"}
      [] s = "NEGOTIATING" -> {"CONNECTED", "READY", "CLOSING", "FAILED"}
      [] s = "CONNECTED" -> {"SUSPENDED", "RECONNECTING", "CLOSING", "FAILED"}
      [] s = "SUSPENDED" -> {"CONNECTED", "RECONNECTING", "CLOSING", "FAILED"}
      [] s = "RECONNECTING" -> {"READY", "CONNECTED", "CLOSING", "FAILED"}
      [] s = "CLOSING" -> {"CLOSED", "FAILED"}
      [] OTHER -> {}]

CanTransition(from, to) == to \in LegalTransitions[from]

Move ==
  /\ CanTransition(state, state')
  /\ UNCHANGED <<generation, remembered>>

\* A takeover begins to retire the Viewer, and may give up.
Retire ==
  /\ remembered = "none" /\ generation # 0
  /\ remembered' = state
  /\ UNCHANGED <<state, generation>>

GiveUp ==
  /\ remembered # "none" /\ remembered' = "none"
  /\ UNCHANGED <<state, generation>>

\* The state a Session negotiates in follows from the state it was in.
NegotiatesIn(s) ==
  CASE s = "READY" -> "NEGOTIATING"
    [] s \in {"CONNECTED", "SUSPENDED"} -> "RECONNECTING"
    [] OTHER -> s

\* A generation is issued; the first one has nobody to retire.  A Session that was
\* closed while the ticket was under way takes it as well, and nothing comes of it.
Issue ==
  /\ remembered = IF generation = 0 THEN "none" ELSE state
  /\ generation' \in generation + 1 .. MaxGeneration
  /\ state' = NegotiatesIn(state)
  /\ remembered' = "none"

\* It is issued in another state than the one the takeover remembers.
IssueOvertaken ==
  /\ remembered \in States \ {state}
  /\ generation' \in generation + 1 .. MaxGeneration
  /\ \/ state' = state
     \/ state' = NegotiatesIn(remembered) /\ CanTransition(state, state')
  /\ remembered' = "none"

Init == state = "READY" /\ generation = 0 /\ remembered = "none"
Next == Move \/ Retire \/ GiveUp \/ Issue \/ IssueOvertaken
Spec == Init /\ [][Next]_<<state, generation, remembered>>
=============================================================================
