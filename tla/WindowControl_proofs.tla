------------------------ MODULE WindowControl_proofs ------------------------
(***************************************************************************)
(* Theorems about WindowControl, for any children and every number of      *)
(* commands and takeovers; and, in the last part, about the clipboard.     *)
(***************************************************************************)
EXTENDS WindowControl, SequenceTheorems, TLAPS

-----------------------------------------------------------------------------
(* Sequences. *)

LEMMA AppendFacts ==
  ASSUME NEW S, NEW q \in Seq(S), NEW c \in S
  PROVE  /\ Append(q, c) \in Seq(S) /\ Len(Append(q, c)) = Len(q) + 1
         /\ \A i \in 1 .. Len(q) : Append(q, c)[i] = q[i]
         /\ Append(q, c)[Len(q) + 1] = c
  OBVIOUS

LEMMA TailFacts ==
  ASSUME NEW S, NEW q \in Seq(S), q # <<>>
  PROVE  /\ Tail(q) \in Seq(S) /\ Len(Tail(q)) = Len(q) - 1 /\ Len(q) \in Nat \ {0}
         /\ \A i \in 1 .. Len(Tail(q)) : Tail(q)[i] = q[i + 1]
         /\ Head(q) = q[1] /\ Head(q) \in S
  OBVIOUS

LEMMA ReplacedFacts ==
  ASSUME NEW S, NEW q \in Seq(S), NEW i \in 1 .. Len(q), NEW x \in S
  PROVE  /\ [q EXCEPT ![i] = x] \in Seq(S) /\ Len([q EXCEPT ![i] = x]) = Len(q)
         /\ [q EXCEPT ![i] = x][i] = x
         /\ \A j \in 1 .. Len(q) : j # i => [q EXCEPT ![i] = x][j] = q[j]
  OBVIOUS

LEMMA LastFacts ==
  ASSUME NEW S, NEW q \in Seq(S), q # <<>>
  PROVE  Len(q) \in 1 .. Len(q) /\ Last(q) = q[Len(q)] /\ q[Len(q)] \in S
  BY DEF Last

-----------------------------------------------------------------------------
(* Types. *)

Entries == Inputs \cup Commands \cup Others
Takeovers == [step : {"no", "drain", "stop", "stopped"}, grant : BOOLEAN]
Hits == [at : Nat, aim : Windows \cup {None}, window : Windows, checked : BOOLEAN]

IsInput(c) == c.op \in {"button", "hover"}

\* Of the types, what says where things are, and what the queue holds.
PlaceTypes ==
  /\ state \in {"CONNECTED", "AWAY", "FAILED"}
  /\ generation \in Nat
  /\ takeover \in Takeovers
  /\ {capable, granted, switching, recovering} \subseteq BOOLEAN
  /\ active \in Windows /\ owned \subseteq Children
  /\ {revision, captured} \subseteq Nat /\ ended \in Nat \cup {None}
  /\ selection \in Selections \cup {None}
  /\ capture \in Captures \cup {None}
  /\ endings \in Seq(Nat) /\ shown \subseteq Views

QueueTypes ==
  /\ queue \in Seq(Entries) /\ arrived \in Nat /\ hit \in Hits

LEMMA TypesSplit == PlaceTypes /\ QueueTypes /\ generation \in 1 .. MaxGeneration => TypeOK
  BY DEF TypeOK, PlaceTypes, QueueTypes, Entries, Takeovers, Hits

\* What is put in the chain.
LEMMA EntryFacts ==
  ASSUME PlaceTypes, arrived \in Nat
  PROVE  /\ \A op \in {"button", "hover"}, v \in Views \cup {None} :
              /\ Input(op, v) \in Entries /\ IsInput(Input(op, v))
              /\ Input(op, v).at = arrived + 1 /\ Input(op, v).generation = generation
              /\ Input(op, v).view = v
         /\ \A op \in {"select", "close"}, v \in Views, w \in Windows :
              Command(op, v, w) \in Entries /\ ~IsInput(Command(op, v, w)) /\ Command(op, v, w).op = op
         /\ \A op \in {"hello", "recover", "return", "flush", "event"} :
              [op |-> op] \in Entries /\ ~IsInput([op |-> op])
<1>1. generation \in Nat
  BY DEF PlaceTypes
<1>2. ASSUME NEW op \in {"button", "hover"}, NEW v \in Views \cup {None}
      PROVE  /\ Input(op, v) \in Entries /\ IsInput(Input(op, v))
             /\ Input(op, v).at = arrived + 1 /\ Input(op, v).generation = generation
             /\ Input(op, v).view = v
  BY <1>1 DEF Input, Entries, Inputs, IsInput
<1>3. ASSUME NEW op \in {"select", "close"}, NEW v \in Views, NEW w \in Windows
      PROVE  Command(op, v, w) \in Entries /\ ~IsInput(Command(op, v, w)) /\ Command(op, v, w).op = op
  BY <1>1 DEF Command, Entries, Commands, IsInput
<1>4. ASSUME NEW op \in {"hello", "recover", "return", "flush", "event"}
      PROVE  [op |-> op] \in Entries /\ ~IsInput([op |-> op])
  BY DEF Entries, Others, IsInput
<1> QED BY <1>2, <1>3, <1>4

LEMMA InputFacts ==
  ASSUME NEW c \in Entries, IsInput(c)
  PROVE  c \in Inputs /\ c.at \in Nat /\ c.generation \in Nat /\ c.view \in Views \cup {None}
<1>1. c \in Inputs
  BY DEF Entries, Inputs, Commands, Others, IsInput
<1> QED BY <1>1 DEF Inputs

-----------------------------------------------------------------------------
(* What a step makes of the queue. *)

Stays == UNCHANGED <<queue, arrived, hit>>
Cleared == Fails /\ queue' = <<>> /\ UNCHANGED <<arrived, hit>>
Grows ==
  /\ \E c \in Entries :
       ~IsInput(c) /\ (c.op = "flush" => TakeoverBegins) /\ queue' = Append(queue, c)
  /\ arrived' \in {arrived, arrived + 1} /\ UNCHANGED hit
InputGrows ==
  /\ \E op \in {"button", "hover"}, v \in Stamps : queue' = Append(queue, Input(op, v))
  /\ arrived' = arrived + 1 /\ UNCHANGED hit
Merges ==
  /\ queue # <<>> /\ IsInput(Last(queue)) /\ Last(queue).generation = generation
  /\ \E v \in Stamps : Last(queue).view = v
  /\ queue' = [queue EXCEPT ![Len(queue)].at = arrived + 1]
  /\ arrived' = arrived + 1 /\ UNCHANGED hit
Shrinks ==
  /\ queue # <<>> /\ queue' = Tail(queue) /\ UNCHANGED <<arrived, hit>>
  /\ Head(queue).op = "recover" => ~recovering'
\* ... of which the last is the dispatch of an input.

LEMMA QueueSteps ==
  ASSUME PlaceTypes, QueueTypes, [Next]_vars
  PROVE  Stays \/ Cleared \/ Grows \/ InputGrows \/ Merges \/ Shrinks \/ Dispatches
<1> USE EntryFacts DEF QueueTypes
<1>1. ASSUME RecoversTo(queue) PROVE UNCHANGED queue \/ queue' = Append(queue, [op |-> "recover"])
  BY <1>1 DEF RecoversTo
<1>2. Fails => Cleared
  BY DEF Fails, Cleared
<1>3. ASSUME NEW w \in Children, ChildCloses(w) PROVE Stays \/ Grows
  BY <1>1, <1>3 DEF ChildCloses, Stays, Grows
<1>4. CaptureEnds => Stays
  BY DEF CaptureEnds, chainVars, Stays
<1>5. CaptureEnded => Stays \/ Grows \/ Cleared
  BY <1>1, <1>2 DEF CaptureEnded, Stays, Grows
<1>6. ButtonArrives => InputGrows
  BY DEF ButtonArrives, Queued, InputGrows
<1>7. HoverArrives => InputGrows \/ Merges
  BY DEF HoverArrives, Queued, InputGrows, Merges, IsInput
<1>8. SelectArrives => Grows
  BY DEF SelectArrives, Queued, Grows, PlaceTypes, Windows
<1>9. EventArrives => Grows
  BY DEF EventArrives, Queued, Grows
<1>10. Revoked => Grows \/ Stays
  BY DEF Revoked, Queued, Grows, Stays, chainVars
<1>11. Passes \/ ReturnBegins \/ Drained \/ AcceptsHello => Shrinks
  BY DEF Passes, ReturnBegins, Drained, AcceptsHello, Begins, Idle, Shrinks, Selects
<1>12. SelectionBegins => Shrinks
  BY DEF SelectionBegins, Begins, Idle, Shrinks, Selects
<1>13. RecoveryBegins => Shrinks \/ Cleared
  BY <1>2 DEF RecoveryBegins, Idle, Shrinks, Selects
<1>14. PreparationFails => Cleared \/ Stays \/ Grows
  BY <1>2 DEF PreparationFails, Stays, Grows
<1>15. Prepared \/ MediaReplaces => Stays
  BY DEF Prepared, MediaReplaces, Stays, chainVars
<1>16. ReplacementFails \/ SelectionCommits => Cleared \/ Stays
  BY <1>2 DEF ReplacementFails, SelectionCommits, Commits, Stays, chainVars
<1>17. TakeoverBegins \/ HelloArrives \/ ViewerLeaves => Grows
  BY DEF TakeoverBegins, HelloArrives, ViewerLeaves, Grows
<1>18. MediaStops \/ TakeoverCommits \/ MediaStarts => Stays
  BY DEF MediaStops, TakeoverCommits, MediaStarts, Stays, chainVars
<1>19. UNCHANGED vars => Stays
  BY DEF vars, chainVars, Stays
<1> QED BY <1>3, <1>4, <1>5, <1>6, <1>7, <1>8, <1>9, <1>10, <1>11, <1>12, <1>13, <1>14, <1>15,
           <1>16, <1>17, <1>18, <1>19, Zenon DEF Next, ChainStep

\* The commands keep the types of the queue.
LEMMA QueueTypesStep ==
  ASSUME PlaceTypes, QueueTypes, [Next]_vars
  PROVE  QueueTypes'
<1> USE DEF QueueTypes
<1>1. CASE Stays
  BY <1>1 DEF Stays
<1>2. CASE Cleared
  BY <1>2 DEF Cleared
<1>3. CASE Grows
  BY <1>3, AppendFacts DEF Grows
<1>4. CASE InputGrows
  BY <1>4, AppendFacts, EntryFacts DEF InputGrows, Stamps, PlaceTypes
<1>5. CASE Merges
  <2> DEFINE n == Len(queue)
             x == [queue[n] EXCEPT !.at = arrived + 1]
  <2>1. n \in 1 .. Len(queue) /\ Last(queue) = queue[n] /\ queue[n] \in Entries
    BY <1>5, LastFacts DEF Merges
  <2>2. queue[n] \in Inputs
    BY <1>5, <2>1, InputFacts DEF Merges
  <2>3. x \in Inputs
    BY <2>2 DEF Inputs
  <2>4. queue' = [queue EXCEPT ![n] = x]
    BY <1>5 DEF Merges
  <2> HIDE DEF n, x
  <2>5. queue' \in Seq(Entries)
    BY <2>1, <2>3, <2>4, ReplacedFacts DEF Entries
  <2> QED BY <1>5, <2>5 DEF Merges
<1>6. CASE Shrinks
  BY <1>6, TailFacts DEF Shrinks
<1>7. CASE Dispatches
  <2>1. /\ queue # <<>> /\ queue' = Tail(queue) /\ arrived' = arrived /\ IsInput(Head(queue))
    BY <1>7 DEF Dispatches, Begins, Idle, IsInput
  <2>2. queue' \in Seq(Entries) /\ Head(queue) \in Entries
    BY <2>1, TailFacts
  <2> DEFINE c == Head(queue)
  <2>3. c.at \in Nat /\ c.view \in Views \cup {None}
    BY <2>1, <2>2, InputFacts
  <2>4. c.view # None => c.view.window \in Windows
    BY <2>3 DEF Views
  <2>5. active \in Windows /\ granted \in BOOLEAN
    BY DEF PlaceTypes
  <2>6. hit' = IF Accepted(c) THEN [at |-> c.at, aim |-> IF c.view = None THEN None ELSE c.view.window,
                                   window |-> active, checked |-> granted]
               ELSE hit
    BY <1>7 DEF Dispatches
  <2> HIDE DEF c
  <2>7. hit' \in Hits
    BY <2>3, <2>4, <2>5, <2>6 DEF Hits
  <2> QED BY <2>1, <2>2, <2>7
<1> QED BY <1>1, <1>2, <1>3, <1>4, <1>5, <1>6, <1>7, QueueSteps

LEMMA TypesInit == Init => PlaceTypes /\ QueueTypes
<1> SUFFICES ASSUME Init PROVE PlaceTypes /\ QueueTypes
  OBVIOUS
<1>1. "main" \in Windows
  BY DEF Windows
<1>2. [revision |-> 0, window |-> "main"] \in Views
  BY <1>1 DEF Views
<1>3. <<>> \in Seq(Nat) /\ <<>> \in Seq(Entries)
  OBVIOUS
<1>4. takeover \in Takeovers /\ capture \in Captures
  BY <1>1 DEF Init, Takeovers, Captures
<1>6. shown \subseteq Views
  BY <1>2 DEF Init
<1>8. endings \in Seq(Nat) /\ active \in Windows /\ owned \subseteq Children
  BY <1>1, <1>3 DEF Init
<1>9. state \in {"CONNECTED", "AWAY", "FAILED"} /\ generation \in Nat
  BY DEF Init
<1>11. {capable, granted, switching, recovering} \subseteq BOOLEAN
  BY DEF Init
<1>12. {revision, captured} \subseteq Nat
  BY DEF Init
<1>10. selection = None /\ ended = None
  BY DEF Init
<1>7. PlaceTypes
  BY <1>4, <1>6, <1>8, <1>9, <1>10, <1>11, <1>12, Zenon DEF PlaceTypes
<1>5. QueueTypes
  BY <1>1, <1>3 DEF Init, QueueTypes, Hits
<1> QED BY <1>5, <1>7

LEMMA NextNat == ASSUME NEW n \in Nat PROVE n + 1 \in Nat
  OBVIOUS

LEMMA PlaceTypesStep ==
  ASSUME PlaceTypes, QueueTypes, [Next]_vars
  PROVE  PlaceTypes'
<1> USE DEF PlaceTypes, grantVars, windowVars, captureVars
<1>0. "main" \in Windows /\ Children \subseteq Windows
  BY DEF Windows
<1>1. ASSUME RecoversTo(queue) PROVE switching' \in BOOLEAN /\ recovering' \in BOOLEAN
  BY <1>1 DEF RecoversTo
<1>2. CASE Fails
  <2>1. takeover' \in Takeovers
    BY <1>2 DEF Fails, Takeovers
  <2>2. UNCHANGED <<generation, capable, granted, active, owned, revision, captured, ended, shown>>
    BY <1>2 DEF Fails
  <2>3. state' = "FAILED" /\ selection' = None /\ capture' = None /\ endings' = <<>>
        /\ switching' = FALSE /\ recovering' = FALSE
    BY <1>2 DEF Fails
  <2>4. <<>> \in Seq(Nat)
    OBVIOUS
  <2> QED BY <2>1, <2>2, <2>3, <2>4
<1>3. ASSUME NEW w \in Children, ChildCloses(w) PROVE PlaceTypes'
  <2>0. Closes(w)
    BY <1>3 DEF ChildCloses
  <2>1. owned' \subseteq Children /\ capture' \in Captures \cup {None} /\ endings' \in Seq(Nat)
    <3>1. CASE capture # None /\ capture.window = w /\ capture.live
      <4>1. capture \in Captures /\ capture.revision \in Nat
        BY <3>1 DEF Captures
      <4>2. capture' \in Captures
        BY <2>0, <3>1, <4>1 DEF Closes, Captures
      <4>3. endings' = Append(endings, capture.revision)
        BY <2>0, <3>1 DEF Closes
      <4>4. endings' \in Seq(Nat)
        BY <4>1, <4>3, AppendFacts
      <4> QED BY <2>0, <3>1, <4>2, <4>4 DEF Closes
    <3>2. CASE ~(capture # None /\ capture.window = w /\ capture.live)
      BY <2>0, <3>2 DEF Closes
    <3> QED BY <3>1, <3>2
  <2>2. switching' \in BOOLEAN /\ recovering' \in BOOLEAN
    BY <1>1, <1>3 DEF ChildCloses
  <2> QED BY <1>3, <2>1, <2>2 DEF ChildCloses
<1>4. CASE CaptureEnds
  BY <1>4, AppendFacts DEF CaptureEnds, Captures
<1>5. CASE CaptureEnded
  <2>1. CASE Fails
    BY <1>2, <2>1
  <2>2. CASE ~Fails
    <3>1. /\ ended' = Head(endings) /\ endings' = Tail(endings) /\ endings # <<>>
          /\ RecoversTo(queue) \/ UNCHANGED <<switching, recovering>>
          /\ UNCHANGED <<state, grantVars, owned, active, revision, shown, selection, captured, capture>>
      BY <1>5, <2>2 DEF CaptureEnded
    <3>2. ended' \in Nat /\ endings' \in Seq(Nat)
      BY <3>1, TailFacts
    <3>3. switching' \in BOOLEAN /\ recovering' \in BOOLEAN
      BY <1>1, <3>1
    <3> QED BY <3>1, <3>2, <3>3
  <2> QED BY <2>1, <2>2
<1>6. ASSUME UNCHANGED <<state, grantVars, windowVars, owned, selection, captureVars>>
      PROVE  PlaceTypes'
  BY <1>6
<1>7. CASE ButtonArrives \/ HoverArrives \/ SelectArrives \/ EventArrives \/ Dispatches \/ Passes
           \/ HelloArrives
  BY <1>6, <1>7 DEF ButtonArrives, HoverArrives, SelectArrives, EventArrives, Dispatches, Passes,
                    HelloArrives, Queued
<1>8. CASE Revoked
  BY <1>8 DEF Revoked, Queued
<1>9. ASSUME NEW op \in {"select", "close", "recover", "return"}, NEW w \in Windows, Selects(op, w),
             recovering' \in BOOLEAN
      PROVE  PlaceTypes'
  <2>1. generation \in Nat
    OBVIOUS
  <2>2. selection' \in Selections
    BY <1>9, <2>1 DEF Selects, Selections
  <2> QED BY <1>9, <2>2 DEF Selects
<1>10. CASE SelectionBegins
  <2>1. PICK op \in {"select", "close"} : Begins(op) /\
          LET c == Head(queue) IN
            \/ Selects(op, c.target) /\ UNCHANGED recovering
            \/ UNCHANGED <<state, grantVars, windowVars, owned, arrived, selection, captureVars, hit>>
    BY <1>10 DEF SelectionBegins
  <2>2. Head(queue) \in Entries /\ Head(queue).op \in {"select", "close"}
    BY <2>1, TailFacts DEF Begins, Idle, QueueTypes
  <2>3. Head(queue).target \in Windows
    BY <2>2 DEF Entries, Inputs, Commands, Others
  <2> QED BY <1>6, <1>9, <2>1, <2>3
<1>11. CASE RecoveryBegins
  BY <1>0, <1>2, <1>9, <1>11 DEF RecoveryBegins
<1>12. CASE ReturnBegins
  BY <1>0, <1>9, <1>12 DEF ReturnBegins, Withdraws
<1>13. CASE PreparationFails
  <2>1. CASE Fails
    BY <1>2, <2>1
  <2>2. CASE ~Fails
    <3>1. /\ selection' = None /\ shown' = shown \cup {[revision |-> revision, window |-> active]}
          /\ UNCHANGED <<state, grantVars, active, revision, owned, captureVars>>
      BY <1>13, <2>2 DEF PreparationFails
    <3>2. switching' \in BOOLEAN /\ recovering' \in BOOLEAN
      BY <1>13, <2>2 DEF PreparationFails
    <3>3. [revision |-> revision, window |-> active] \in Views
      BY DEF Views
    <3> QED BY <3>1, <3>2, <3>3
  <2> QED BY <2>1, <2>2
<1>14. CASE Prepared
  BY <1>14 DEF Prepared, Selections
<1>15. CASE MediaReplaces
  BY <1>15 DEF MediaReplaces, Selections, Captures
<1>16. CASE ReplacementFails
  BY <1>2, <1>16 DEF ReplacementFails
<1>17. CASE SelectionCommits
  <2>1. CASE Fails
    BY <1>2, <2>1
  <2>2. CASE Commits /\ selection # None
    <3>1. selection.target \in Windows
      BY <2>2 DEF Selections
    <3>2. [revision |-> revision, window |-> selection.target] \in Views
      BY <3>1 DEF Views
    <3>3. owned' \subseteq Children /\ capable' \in BOOLEAN /\ granted' \in BOOLEAN
      BY <2>2 DEF Commits, Withdraws
    <3> QED BY <2>2, <3>1, <3>2, <3>3 DEF Commits
  <2> QED BY <1>17, <2>1, <2>2 DEF SelectionCommits
<1>18. CASE TakeoverBegins \/ Drained \/ MediaStops
  BY <1>18 DEF TakeoverBegins, Drained, MediaStops, Takeovers
<1>19. CASE TakeoverCommits
  <2>1. takeover' \in Takeovers /\ granted' \in BOOLEAN
    BY <1>19 DEF TakeoverCommits, Takeovers
  <2>2. active' \in Windows /\ revision' \in Nat /\ switching' \in BOOLEAN
    <3>1. CASE takeover.grant \/ active = "main"
      BY <1>19, <3>1 DEF TakeoverCommits
    <3>2. CASE ~(takeover.grant \/ active = "main")
      <4>1. active' = "main" /\ revision' = revision + 1 /\ switching' = FALSE
        BY <1>19, <3>2, Zenon DEF TakeoverCommits
      <4>2. revision \in Nat
        OBVIOUS
      <4>3. revision + 1 \in Nat
        BY <4>2, NextNat
      <4> QED BY <1>0, <4>1, <4>3, Zenon
    <3> QED BY <3>1, <3>2
  <2> QED BY <1>19, <2>1, <2>2 DEF TakeoverCommits
<1>20. CASE MediaStarts
  BY <1>20 DEF MediaStarts, Captures
<1>21. CASE AcceptsHello
  BY <1>21 DEF AcceptsHello, Views
<1>22. CASE ViewerLeaves
  BY <1>22 DEF ViewerLeaves
<1>23. CASE UNCHANGED vars
  BY <1>6, <1>23 DEF vars
<1> HIDE DEF PlaceTypes
<1> QED BY <1>3, <1>4, <1>5, <1>7, <1>8, <1>10, <1>11, <1>12, <1>13, <1>14, <1>15,
           <1>16, <1>17, <1>18, <1>19, <1>20, <1>21, <1>22, <1>23, Zenon DEF Next, ChainStep

-----------------------------------------------------------------------------
(* Where the entries of the queue are after a step. *)

LEMMA Appended ==
  ASSUME QueueTypes, NEW c \in Entries, queue' = Append(queue, c)
  PROVE  /\ Len(queue) \in Nat /\ Len(queue') = Len(queue) + 1
         /\ \A i \in 1 .. Len(queue') :
              \/ i \in 1 .. Len(queue) /\ queue'[i] = queue[i]
              \/ i = Len(queue) + 1 /\ queue'[i] = c
         /\ \A i \in 1 .. Len(queue) : i \in 1 .. Len(queue') /\ queue'[i] = queue[i]
         /\ Len(queue) + 1 \in 1 .. Len(queue') /\ queue'[Len(queue) + 1] = c
<1>1. Len(queue) \in Nat /\ queue \in Seq(Entries)
  BY DEF QueueTypes
<1>2. /\ Len(queue') = Len(queue) + 1
      /\ \A i \in 1 .. Len(queue) : queue'[i] = queue[i]
      /\ queue'[Len(queue) + 1] = c
  BY <1>1, AppendFacts
<1> QED BY <1>1, <1>2

LEMMA Dropped ==
  ASSUME QueueTypes, queue # <<>>, queue' = Tail(queue)
  PROVE  /\ Len(queue) \in Nat /\ 1 \in 1 .. Len(queue) /\ Head(queue) = queue[1]
         /\ \A i \in 1 .. Len(queue') : i + 1 \in 1 .. Len(queue) /\ queue'[i] = queue[i + 1]
         /\ \A i \in 1 .. Len(queue) : i # 1 =>
              i - 1 \in 1 .. Len(queue') /\ queue'[i - 1] = queue[i]
<1>1. queue \in Seq(Entries)
  BY DEF QueueTypes
<1>2. /\ Len(queue') = Len(queue) - 1 /\ Len(queue) \in Nat \ {0}
      /\ \A i \in 1 .. Len(queue') : queue'[i] = queue[i + 1]
      /\ Head(queue) = queue[1]
  BY <1>1, TailFacts
<1>3. \A i \in 1 .. Len(queue) : i # 1 => i - 1 \in 1 .. Len(queue') /\ (i - 1) + 1 = i
  BY <1>2
<1> QED BY <1>2, <1>3

LEMMA Merged ==
  ASSUME QueueTypes, Merges
  PROVE  \E n \in 1 .. Len(queue) :
           /\ n = Len(queue) /\ Len(queue') = n
           /\ IsInput(queue[n]) /\ IsInput(queue'[n]) /\ queue'[n].at = arrived + 1
           /\ queue[n].at \in Nat
           /\ queue'[n].op = queue[n].op /\ queue'[n].view = queue[n].view
           /\ queue'[n].generation = queue[n].generation /\ queue[n].generation = generation
           /\ \A i \in 1 .. Len(queue) : i # n => queue'[i] = queue[i]
<1> DEFINE n == Len(queue)
           x == [queue[n] EXCEPT !.at = arrived + 1]
<1>1. n \in 1 .. Len(queue) /\ Last(queue) = queue[n] /\ queue[n] \in Entries
  BY LastFacts DEF Merges, QueueTypes
<1>2. queue[n] \in Inputs /\ IsInput(queue[n])
  BY <1>1, InputFacts DEF Merges
<1>3. /\ x \in Inputs /\ IsInput(x) /\ x.at = arrived + 1 /\ x.op = queue[n].op
      /\ x.view = queue[n].view /\ x.generation = queue[n].generation
  BY <1>2 DEF Inputs, IsInput, QueueTypes
<1>4. queue' = [queue EXCEPT ![n] = x]
  BY DEF Merges
<1>5. queue[n].at \in Nat /\ queue[n].generation = generation
  BY <1>1, <1>2 DEF Inputs, Merges
<1> HIDE DEF n, x
<1>6. x \in Entries
  BY <1>3 DEF Entries
<1>7. Len(queue') = Len(queue) /\ queue'[n] = x
      /\ \A j \in 1 .. Len(queue) : j # n => queue'[j] = queue[j]
  BY <1>1, <1>4, <1>6, ReplacedFacts DEF QueueTypes
<1>8. Len(queue) = n
  BY DEF n
<1> QED BY <1>1, <1>2, <1>3, <1>5, <1>7, <1>8

-----------------------------------------------------------------------------
(* Input is dispatched in the order in which it arrived: of what waits in the *)
(* chain, each input came later than the one before, and than the last hit.   *)

Ordered ==
  /\ hit.at <= arrived
  /\ \A i \in 1 .. Len(queue) : IsInput(queue[i]) => hit.at < queue[i].at /\ queue[i].at <= arrived
  /\ \A i, j \in 1 .. Len(queue) :
       i < j /\ IsInput(queue[i]) /\ IsInput(queue[j]) => queue[i].at < queue[j].at

LEMMA OrderedInit == Init => Ordered
  BY DEF Init, Ordered

LEMMA AtTypes ==
  ASSUME QueueTypes
  PROVE  /\ arrived \in Nat /\ hit.at \in Nat /\ Len(queue) \in Nat
         /\ \A i \in 1 .. Len(queue) : IsInput(queue[i]) => queue[i].at \in Nat
<1>1. hit.at \in Nat /\ arrived \in Nat
  BY DEF QueueTypes, Hits
<1>2. queue \in Seq(Entries)
  BY DEF QueueTypes
<1>3. \A i \in 1 .. Len(queue) : queue[i] \in Entries
  BY <1>2
<1> QED BY <1>1, <1>2, <1>3, InputFacts

LEMMA OrderedStep ==
  ASSUME PlaceTypes, QueueTypes, Ordered, [Next]_vars
  PROVE  Ordered'
<1>0. /\ arrived \in Nat /\ hit.at \in Nat /\ Len(queue) \in Nat
      /\ \A i \in 1 .. Len(queue) : IsInput(queue[i]) => queue[i].at \in Nat
  BY AtTypes
<1>1. CASE Stays
  BY <1>1 DEF Stays, Ordered, IsInput
<1>2. CASE Cleared
  BY <1>2 DEF Cleared, Ordered
<1>3. CASE Grows
  <2>1. PICK c \in Entries : ~IsInput(c) /\ queue' = Append(queue, c)
    BY <1>3 DEF Grows
  <2>2. \A i \in 1 .. Len(queue') : IsInput(queue'[i]) => i \in 1 .. Len(queue) /\ queue'[i] = queue[i]
    BY <2>1, Appended
  <2>3. arrived' \in {arrived, arrived + 1} /\ hit' = hit
    BY <1>3 DEF Grows
  <2> QED BY <1>0, <2>2, <2>3 DEF Ordered, IsInput
<1>4. CASE InputGrows
  <2>1. PICK op \in {"button", "hover"}, v \in Stamps : queue' = Append(queue, Input(op, v))
    BY <1>4 DEF InputGrows
  <2>2. v \in Views \cup {None}
    BY DEF Stamps, PlaceTypes
  <2> DEFINE c == Input(op, v)
  <2>3. c \in Entries /\ c.at = arrived + 1
    BY <2>2, EntryFacts DEF QueueTypes
  <2> HIDE DEF c
  <2>4. \A i \in 1 .. Len(queue') :
          \/ i \in 1 .. Len(queue) /\ queue'[i] = queue[i]
          \/ i = Len(queue) + 1 /\ queue'[i].at = arrived + 1
    BY <2>1, <2>3, Appended DEF c
  <2>5. arrived' = arrived + 1 /\ hit' = hit
    BY <1>4 DEF InputGrows
  <2>6. Len(queue') = Len(queue) + 1
    BY <2>1, <2>3, Appended DEF c
  <2>7. hit'.at <= arrived'
    BY <1>0, <2>5 DEF Ordered
  <2>8. \A i \in 1 .. Len(queue') : IsInput(queue'[i]) => hit'.at < queue'[i].at /\ queue'[i].at <= arrived'
    BY <1>0, <2>4, <2>5 DEF Ordered
  <2>9. \A i, j \in 1 .. Len(queue') :
          i < j /\ IsInput(queue'[i]) /\ IsInput(queue'[j]) => queue'[i].at < queue'[j].at
    BY <1>0, <2>4, <2>5, <2>6 DEF Ordered
  <2> QED BY <2>7, <2>8, <2>9 DEF Ordered, IsInput
<1>5. CASE Merges
  <2>1. PICK n \in 1 .. Len(queue) :
           /\ n = Len(queue) /\ Len(queue') = n
           /\ IsInput(queue[n]) /\ queue'[n].at = arrived + 1
           /\ \A i \in 1 .. Len(queue) : i # n => queue'[i] = queue[i]
    BY <1>5, Merged
  <2>2. arrived' = arrived + 1 /\ hit' = hit
    BY <1>5 DEF Merges
  <2>3. hit'.at <= arrived'
    BY <1>0, <2>2 DEF Ordered
  <2>4. \A i \in 1 .. Len(queue') : IsInput(queue'[i]) => hit'.at < queue'[i].at /\ queue'[i].at <= arrived'
    BY <1>0, <2>1, <2>2 DEF Ordered
  <2>5. \A i, j \in 1 .. Len(queue') :
          i < j /\ IsInput(queue'[i]) /\ IsInput(queue'[j]) => queue'[i].at < queue'[j].at
    BY <1>0, <2>1, <2>2 DEF Ordered
  <2> QED BY <2>3, <2>4, <2>5 DEF Ordered, IsInput
<1>6. ASSUME queue # <<>>, queue' = Tail(queue), arrived' = arrived,
             hit' = hit \/ (IsInput(queue[1]) /\ hit'.at = queue[1].at)
      PROVE  Ordered'
  <2>1. /\ 1 \in 1 .. Len(queue)
        /\ \A i \in 1 .. Len(queue') : i + 1 \in 1 .. Len(queue) /\ queue'[i] = queue[i + 1]
    BY <1>6, Dropped
  <2>2. hit'.at <= arrived'
    BY <1>0, <1>6, <2>1 DEF Ordered
  <2>3. \A i \in 1 .. Len(queue') : IsInput(queue'[i]) => hit'.at < queue'[i].at /\ queue'[i].at <= arrived'
    <3> TAKE i \in 1 .. Len(queue')
    <3>1. i + 1 \in 1 .. Len(queue) /\ queue'[i] = queue[i + 1] /\ i \in Nat /\ 1 < i + 1
      BY <2>1
    <3> QED BY <1>0, <1>6, <2>1, <3>1 DEF Ordered
  <2>4. \A i, j \in 1 .. Len(queue') :
          i < j /\ IsInput(queue'[i]) /\ IsInput(queue'[j]) => queue'[i].at < queue'[j].at
    <3> TAKE i, j \in 1 .. Len(queue')
    <3>1. /\ i + 1 \in 1 .. Len(queue) /\ queue'[i] = queue[i + 1]
          /\ j + 1 \in 1 .. Len(queue) /\ queue'[j] = queue[j + 1]
      BY <2>1
    <3>2. i < j => i + 1 < j + 1
      OBVIOUS
    <3> QED BY <3>1, <3>2 DEF Ordered
  <2> QED BY <2>2, <2>3, <2>4 DEF Ordered, IsInput
<1>7. CASE Shrinks
  BY <1>6, <1>7 DEF Shrinks
<1>8. CASE Dispatches
  <2>1. queue # <<>> /\ queue' = Tail(queue) /\ arrived' = arrived /\ IsInput(Head(queue))
    BY <1>8 DEF Dispatches, Begins, Idle, IsInput
  <2>2. Head(queue) = queue[1]
    BY <2>1, Dropped
  <2>3. hit' = hit \/ hit'.at = Head(queue).at
    BY <1>8 DEF Dispatches
  <2> QED BY <1>6, <2>1, <2>2, <2>3
<1> QED BY <1>1, <1>2, <1>3, <1>4, <1>5, <1>7, <1>8, QueueSteps

\* What is dispatched came later than what was dispatched before.
LEMMA OrderedHits ==
  ASSUME PlaceTypes, QueueTypes, Ordered, [Next]_vars
  PROVE  hit' # hit => hit'.at > hit.at
<1>1. CASE Dispatches
  <2>1. queue # <<>> /\ queue' = Tail(queue) /\ IsInput(Head(queue))
    BY <1>1 DEF Dispatches, Begins, Idle, IsInput
  <2>2. 1 \in 1 .. Len(queue) /\ Head(queue) = queue[1]
    BY <2>1, Dropped
  <2>3. hit' = hit \/ hit'.at = Head(queue).at
    BY <1>1 DEF Dispatches
  <2> QED BY <2>1, <2>2, <2>3, AtTypes DEF Ordered
<1>2. CASE ~Dispatches
  BY <1>2, QueueSteps DEF Stays, Cleared, Grows, InputGrows, Merges, Shrinks
<1> QED BY <1>1, <1>2

-----------------------------------------------------------------------------
(* Input reaches the window seen: a view of the current revision shows the   *)
(* active window, and no view has the revision of a selection under way.     *)

Fits(v) == v.revision <= revision /\ (v.revision = revision => v.window = active /\ selection = None)

Seen ==
  /\ \A v \in shown : Fits(v)
  /\ \A i \in 1 .. Len(queue) : IsInput(queue[i]) =>
       /\ queue[i].generation <= generation
       /\ queue[i].generation = generation /\ queue[i].view # None => Fits(queue[i].view)
  /\ InputHitsWindowSeen

LEMMA SeenInit == Init => Seen
  BY DEF Init, Seen, Fits, InputHitsWindowSeen

\* What a step does to the windows: they stay, a selection begins, it is
\* committed, or the next Viewer begins anew.
Keeps ==
  /\ UNCHANGED <<generation, revision, active>>
  /\ selection = None => selection' = None
  /\ \A v \in shown' : \/ v \in shown
                       \/ v = [revision |-> revision, window |-> active] /\ selection' = None
Turns == revision' = revision + 1 /\ UNCHANGED <<generation, shown>>
Moves ==
  /\ UNCHANGED <<generation, revision>> /\ selection # None /\ selection' = None
  /\ shown' = shown \cup {[revision |-> revision, window |-> active']}
Renews == generation' = generation + 1 /\ shown' = {} /\ UNCHANGED <<queue, arrived, hit>>

LEMMA WindowSteps ==
  ASSUME [Next]_vars
  PROVE  Keeps \/ Turns \/ Moves \/ Renews
<1> USE DEF grantVars, windowVars, captureVars, chainVars
<1>1. Fails => Keeps
  BY DEF Fails, Keeps
<1>2. ASSUME UNCHANGED <<generation, revision, active, selection, shown>> PROVE Keeps
  BY <1>2 DEF Keeps
<1>3. ASSUME NEW op, NEW w, Selects(op, w) PROVE Turns
  BY <1>3 DEF Selects, Turns
<1>4. (\E w \in Children : ChildCloses(w)) \/ CaptureEnds \/ ButtonArrives \/ HoverArrives
      \/ SelectArrives \/ EventArrives \/ Revoked => Keeps
  BY <1>2 DEF ChildCloses, CaptureEnds, ButtonArrives, HoverArrives, SelectArrives, EventArrives,
              Revoked, Queued
<1>5. CaptureEnded => Keeps
  BY <1>1, <1>2 DEF CaptureEnded
<1>6. Dispatches \/ Passes \/ Drained => Keeps
  BY <1>2 DEF Dispatches, Passes, Drained
<1>7. SelectionBegins => Keeps \/ Turns
  BY <1>2, <1>3 DEF SelectionBegins
<1>8. RecoveryBegins => Keeps \/ Turns
  BY <1>1, <1>3 DEF RecoveryBegins
<1>9. ReturnBegins => Keeps \/ Turns
  BY <1>2, <1>3 DEF ReturnBegins
<1>10. AcceptsHello => Keeps
  BY DEF AcceptsHello, Begins, Idle, Keeps
<1>11. PreparationFails => Keeps
  BY <1>1 DEF PreparationFails, Keeps
<1>12. Prepared \/ MediaReplaces => Keeps
  BY DEF Prepared, MediaReplaces, Keeps
<1>13. ReplacementFails => Keeps
  BY <1>1 DEF ReplacementFails
<1>14. SelectionCommits => Keeps \/ Moves
  BY <1>1 DEF SelectionCommits, Commits, Moves
<1>15. TakeoverBegins \/ MediaStops \/ MediaStarts \/ HelloArrives \/ ViewerLeaves => Keeps
  BY <1>2 DEF TakeoverBegins, MediaStops, MediaStarts, HelloArrives, ViewerLeaves
<1>16. TakeoverCommits => Renews
  BY DEF TakeoverCommits, Renews
<1>17. UNCHANGED vars => Keeps
  BY <1>2 DEF vars
<1> QED BY <1>4, <1>5, <1>6, <1>7, <1>8, <1>9, <1>10, <1>11, <1>12, <1>13, <1>14, <1>15, <1>16,
           <1>17, Zenon DEF Next, ChainStep

\* The inputs that wait after a step waited before it, or carry a view the Viewer was told of.
LEMMA InputsStep ==
  ASSUME PlaceTypes, QueueTypes, [Next]_vars, NEW i \in 1 .. Len(queue'), IsInput(queue'[i])
  PROVE  \/ \E j \in 1 .. Len(queue) :
              /\ IsInput(queue[j]) /\ queue'[i].generation = queue[j].generation
              /\ queue'[i].view = queue[j].view
         \/ queue'[i].generation = generation /\ queue'[i].view \in shown \cup {None}
<1>1. CASE Stays
  BY <1>1 DEF Stays
<1>2. CASE Cleared
  BY <1>2 DEF Cleared
<1>3. CASE Grows
  <2>1. PICK c \in Entries : ~IsInput(c) /\ queue' = Append(queue, c)
    BY <1>3 DEF Grows
  <2> QED BY <2>1, Appended
<1>4. CASE InputGrows
  <2>1. PICK op \in {"button", "hover"}, v \in Stamps : queue' = Append(queue, Input(op, v))
    BY <1>4 DEF InputGrows
  <2>2. v \in Views \cup {None} /\ v \in shown \cup {None}
    BY DEF Stamps, PlaceTypes
  <2> DEFINE c == Input(op, v)
  <2>3. c \in Entries /\ c.generation = generation /\ c.view = v
    BY <2>2, EntryFacts DEF QueueTypes
  <2> HIDE DEF c
  <2>4. \/ i \in 1 .. Len(queue) /\ queue'[i] = queue[i]
        \/ queue'[i] = c
    BY <2>1, <2>3, Appended DEF c
  <2> QED BY <2>2, <2>3, <2>4
<1>5. CASE Merges
  BY <1>5, Merged
<1>6. CASE queue # <<>> /\ queue' = Tail(queue)
  BY <1>6, Dropped
<1>7. CASE Dispatches \/ Shrinks
  BY <1>6, <1>7 DEF Dispatches, Shrinks, Begins, Idle
<1> QED BY <1>1, <1>2, <1>3, <1>4, <1>5, <1>7, QueueSteps

LEMMA HitsSeen ==
  ASSUME PlaceTypes, QueueTypes, Seen, [Next]_vars
  PROVE  InputHitsWindowSeen'
<1>1. CASE hit' = hit
  BY <1>1 DEF Seen, InputHitsWindowSeen
<1>2. CASE Dispatches /\ hit' # hit
  <2> DEFINE c == Head(queue)
  <2>1. queue # <<>> /\ queue' = Tail(queue) /\ IsInput(c)
    BY <1>2 DEF Dispatches, Begins, Idle, IsInput
  <2>2. 1 \in 1 .. Len(queue) /\ c = queue[1]
    BY <2>1, Dropped
  <2>3. Accepted(c) /\ hit' = [at |-> c.at, aim |-> IF c.view = None THEN None ELSE c.view.window,
                               window |-> active, checked |-> granted]
    BY <1>2 DEF Dispatches
  <2>4. CASE ~granted
    BY <2>3, <2>4 DEF InputHitsWindowSeen
  <2>5. CASE granted
    <3>1. c.view # None /\ c.view.revision = revision /\ c.generation = generation
      BY <2>3, <2>5 DEF Accepted
    <3>2. c.view.window = active
      BY <2>1, <2>2, <3>1 DEF Seen, Fits
    <3> QED BY <2>3, <3>1, <3>2 DEF InputHitsWindowSeen
  <2> QED BY <2>4, <2>5
<1>3. CASE ~Dispatches
  BY <1>1, <1>3, QueueSteps DEF Stays, Cleared, Grows, InputGrows, Merges, Shrinks
<1> QED BY <1>1, <1>2, <1>3

\* The same of the windows after the step.
FitsNext(v) ==
  v.revision <= revision' /\ (v.revision = revision' => v.window = active' /\ selection' = None)

LEMMA SeenStep ==
  ASSUME PlaceTypes, QueueTypes, Seen, [Next]_vars
  PROVE  Seen'
<1>0. generation \in Nat /\ revision \in Nat
  BY DEF PlaceTypes
<1>1. \A v \in shown : v \in Views
  BY DEF PlaceTypes
<1>2. \A i \in 1 .. Len(queue) : IsInput(queue[i]) =>
        queue[i].generation \in Nat /\ queue[i].view \in Views \cup {None}
  <2>1. \A i \in 1 .. Len(queue) : queue[i] \in Entries
    BY DEF QueueTypes
  <2> QED BY <2>1, InputFacts
<1>3. CASE Renews
  <2>1. generation' = generation + 1 /\ shown' = {} /\ queue' = queue
    BY <1>3 DEF Renews
  <2>2. \A i \in 1 .. Len(queue) : IsInput(queue[i]) =>
          queue[i].generation <= generation' /\ queue[i].generation # generation'
    BY <1>0, <1>2, <2>1 DEF Seen
  <2>3. InputHitsWindowSeen'
    BY HitsSeen
  <2> QED BY <2>1, <2>2, <2>3 DEF Seen, IsInput
<1>4. CASE Keeps \/ Turns \/ Moves
  <2>1. generation' = generation
    BY <1>4 DEF Keeps, Turns, Moves
  <2>2. ASSUME NEW v \in Views, Fits(v) PROVE FitsNext(v)
    <3>1. v.revision \in Nat
      BY DEF Views
    <3> QED BY <1>0, <1>4, <2>2, <3>1 DEF Fits, FitsNext, Keeps, Turns, Moves
  <2>3. ASSUME NEW v \in shown' PROVE FitsNext(v)
    <3>1. CASE v \in shown
      BY <1>1, <2>2, <3>1 DEF Seen
    <3>2. CASE v \notin shown
      BY <1>0, <1>4, <3>2 DEF Fits, FitsNext, Keeps, Turns, Moves
    <3> QED BY <3>1, <3>2
  <2>4. ASSUME NEW i \in 1 .. Len(queue'), IsInput(queue'[i])
        PROVE  /\ queue'[i].generation <= generation
               /\ queue'[i].generation = generation /\ queue'[i].view # None => FitsNext(queue'[i].view)
    <3>1. CASE \E j \in 1 .. Len(queue) :
                 /\ IsInput(queue[j]) /\ queue'[i].generation = queue[j].generation
                 /\ queue'[i].view = queue[j].view
      <4>1. PICK j \in 1 .. Len(queue) :
                 /\ IsInput(queue[j]) /\ queue'[i].generation = queue[j].generation
                 /\ queue'[i].view = queue[j].view
        BY <3>1
      <4>2. queue[j].view # None => queue[j].view \in Views
        BY <1>2, <4>1
      <4>3. queue[j].generation <= generation
        BY <4>1 DEF Seen
      <4>4. queue[j].generation = generation /\ queue[j].view # None => FitsNext(queue[j].view)
        BY <2>2, <4>1, <4>2 DEF Seen
      <4> QED BY <4>1, <4>3, <4>4
    <3>2. CASE queue'[i].generation = generation /\ queue'[i].view \in shown \cup {None}
      <4> DEFINE v == queue'[i].view
      <4>1. v # None => v \in shown /\ v \in Views
        BY <1>1, <3>2
      <4> HIDE DEF v
      <4>2. v # None => FitsNext(v)
        BY <2>2, <4>1 DEF Seen
      <4> QED BY <1>0, <3>2, <4>2 DEF v
    <3> QED BY <2>4, <3>1, <3>2, InputsStep
  <2>5. InputHitsWindowSeen'
    BY HitsSeen
  <2> QED BY <2>1, <2>3, <2>4, <2>5 DEF Seen, IsInput, Fits, FitsNext
<1> QED BY <1>3, <1>4, WindowSteps

-----------------------------------------------------------------------------
(* A takeover waits for one flush of the chain, and leaves a generation for it. *)

Flushes ==
  /\ generation \in 1 .. MaxGeneration
  /\ takeover.step # "no" => generation < MaxGeneration
  /\ \A i \in 1 .. Len(queue) : queue[i].op = "flush" =>
       takeover.step = "drain" /\ \A j \in 1 .. Len(queue) : queue[j].op = "flush" => i = j

LEMMA FlushesInit == Init => Flushes
  BY WindowControlAssumption DEF Init, Flushes, WindowControlAssumption

\* A step of the takeover, or none.
LEMMA TakeoverSteps ==
  ASSUME PlaceTypes, [Next]_vars
  PROVE  \/ Fails \/ TakeoverBegins \/ Drained \/ MediaStops \/ TakeoverCommits
         \/ UNCHANGED <<generation, takeover>>
<1> USE DEF grantVars, windowVars, captureVars, chainVars
<1>1. (\E w \in Children : ChildCloses(w)) \/ CaptureEnds \/ ButtonArrives \/ HoverArrives
      \/ SelectArrives \/ EventArrives \/ Revoked => UNCHANGED <<generation, takeover>>
  BY DEF ChildCloses, CaptureEnds, ButtonArrives, HoverArrives, SelectArrives, EventArrives,
         Revoked, Queued
<1>2. CaptureEnded \/ PreparationFails \/ ReplacementFails => Fails \/ UNCHANGED <<generation, takeover>>
  BY DEF CaptureEnded, PreparationFails, ReplacementFails
<1>3. Dispatches \/ Passes \/ AcceptsHello \/ Prepared \/ MediaReplaces \/ MediaStarts \/ HelloArrives
      \/ ViewerLeaves => UNCHANGED <<generation, takeover>>
  BY DEF Dispatches, Passes, AcceptsHello, Prepared, MediaReplaces, MediaStarts, HelloArrives,
         ViewerLeaves
<1>4. SelectionBegins \/ RecoveryBegins \/ ReturnBegins => Fails \/ UNCHANGED <<generation, takeover>>
  BY DEF SelectionBegins, RecoveryBegins, ReturnBegins, Selects
<1>5. SelectionCommits => Fails \/ UNCHANGED <<generation, takeover>>
  BY DEF SelectionCommits, Commits
<1>6. UNCHANGED vars => UNCHANGED <<generation, takeover>>
  BY DEF vars
<1> QED BY <1>1, <1>2, <1>3, <1>4, <1>5, <1>6, Zenon DEF Next, ChainStep

\* A chain with one flush keeps it or drops it.
OneFlush ==
  \A i, j \in 1 .. Len(queue) : queue[i].op = "flush" /\ queue[j].op = "flush" => i = j
HasFlush == \E i \in 1 .. Len(queue) : queue[i].op = "flush"

LEMMA FlushQueue ==
  ASSUME PlaceTypes, QueueTypes, OneFlush, ~TakeoverBegins, [Next]_vars
  PROVE  OneFlush' /\ (HasFlush' => HasFlush)
<1>1. CASE Stays
  BY <1>1 DEF Stays, OneFlush, HasFlush
<1>2. CASE Cleared
  BY <1>2 DEF Cleared, OneFlush, HasFlush
<1>3. ASSUME NEW c \in Entries, c.op # "flush", queue' = Append(queue, c)
      PROVE  OneFlush' /\ (HasFlush' => HasFlush)
  <2>1. \A i \in 1 .. Len(queue') : queue'[i].op = "flush" => i \in 1 .. Len(queue) /\ queue[i].op = "flush"
    BY <1>3, Appended
  <2> QED BY <2>1 DEF OneFlush, HasFlush
<1>4. CASE Grows
  BY <1>3, <1>4 DEF Grows
<1>5. CASE InputGrows
  <2>1. PICK op \in {"button", "hover"}, v \in Stamps : queue' = Append(queue, Input(op, v))
    BY <1>5 DEF InputGrows
  <2>2. v \in Views \cup {None}
    BY DEF Stamps, PlaceTypes
  <2>3. Input(op, v) \in Entries /\ IsInput(Input(op, v))
    BY <2>2, EntryFacts DEF QueueTypes
  <2> QED BY <1>3, <2>1, <2>3 DEF IsInput
<1>6. CASE Merges
  <2>1. Len(queue') = Len(queue) /\ \A i \in 1 .. Len(queue) : queue'[i].op = queue[i].op
    BY <1>6, Merged
  <2> QED BY <2>1 DEF OneFlush, HasFlush
<1>7. CASE queue # <<>> /\ queue' = Tail(queue)
  <2>1. \A i \in 1 .. Len(queue') : i + 1 \in 1 .. Len(queue) /\ queue'[i] = queue[i + 1]
    BY <1>7, Dropped
  <2>2. HasFlush' => HasFlush
    BY <2>1 DEF HasFlush
  <2>3. ASSUME NEW i \in 1 .. Len(queue'), NEW j \in 1 .. Len(queue'),
               queue'[i].op = "flush", queue'[j].op = "flush"
        PROVE  i = j
    <3>1. i + 1 = j + 1
      BY <2>1, <2>3 DEF OneFlush
    <3> QED BY <3>1
  <2> QED BY <2>2, <2>3 DEF OneFlush
<1>8. CASE Dispatches \/ Shrinks
  BY <1>7, <1>8 DEF Dispatches, Shrinks, Begins, Idle
<1> QED BY <1>1, <1>2, <1>4, <1>5, <1>6, <1>8, QueueSteps

\* A flush that begins was the only one, and a takeover waited for it.
LEMMA DrainedFacts ==
  ASSUME PlaceTypes, QueueTypes, Flushes, Drained
  PROVE  takeover.step = "drain" /\ takeover'.step = "stop" /\ ~HasFlush'
<1>1. queue # <<>> /\ queue' = Tail(queue) /\ Head(queue).op = "flush"
  BY DEF Drained, Begins, Idle
<1>2. /\ 1 \in 1 .. Len(queue) /\ Head(queue) = queue[1]
      /\ \A i \in 1 .. Len(queue') : i + 1 \in 1 .. Len(queue) /\ queue'[i] = queue[i + 1] /\ i + 1 # 1
  BY <1>1, Dropped
<1>3. takeover.step = "drain"
  BY <1>1, <1>2 DEF Flushes
<1>4. ~HasFlush'
  BY <1>1, <1>2 DEF Flushes, HasFlush
<1>5. takeover'.step = "stop"
  BY DEF Drained, PlaceTypes, Takeovers
<1> QED BY <1>3, <1>4, <1>5

LEMMA FlushesStep ==
  ASSUME PlaceTypes, QueueTypes, Flushes, [Next]_vars
  PROVE  Flushes'
<1>0. /\ generation \in Nat /\ takeover \in Takeovers /\ MaxGeneration \in Nat
      /\ OneFlush /\ (HasFlush => takeover.step = "drain")
  BY WindowControlAssumption DEF PlaceTypes, WindowControlAssumption, Flushes, OneFlush, HasFlush
<1>1. ASSUME OneFlush', HasFlush' => takeover'.step = "drain", generation' \in 1 .. MaxGeneration,
             takeover'.step # "no" => generation' < MaxGeneration
      PROVE  Flushes'
  BY <1>1 DEF Flushes, OneFlush, HasFlush
<1>2. CASE Fails
  <2>1. queue' = <<>> /\ generation' = generation /\ takeover'.step = "no"
    BY <1>0, <1>2 DEF Fails, Takeovers
  <2> QED BY <1>1, <2>1 DEF Flushes, OneFlush, HasFlush
<1>3. CASE TakeoverBegins
  <2>1. /\ takeover.step = "no" /\ generation < MaxGeneration /\ generation' = generation
        /\ takeover'.step = "drain" /\ queue' = Append(queue, [op |-> "flush"])
    BY <1>3 DEF TakeoverBegins
  <2>2. [op |-> "flush"] \in Entries
    BY EntryFacts DEF QueueTypes
  <2>3. \A i \in 1 .. Len(queue') : queue'[i].op = "flush" => i = Len(queue) + 1
    BY <1>0, <2>1, <2>2, Appended DEF HasFlush
  <2>4. OneFlush'
    BY <2>3 DEF OneFlush
  <2> QED BY <1>1, <2>1, <2>4 DEF Flushes
<1>4. CASE Drained
  <2>1. ~TakeoverBegins
    BY <1>4, DrainedFacts DEF TakeoverBegins
  <2>2. OneFlush'
    BY <1>0, <2>1, FlushQueue
  <2>3. generation' = generation
    BY <1>4 DEF Drained
  <2> QED BY <1>1, <1>4, <2>2, <2>3, DrainedFacts DEF Flushes
<1>5. CASE MediaStops
  <2>1. takeover.step = "stop" /\ takeover'.step = "stopped" /\ queue' = queue /\ generation' = generation
    BY <1>0, <1>5 DEF MediaStops, chainVars, Takeovers
  <2>2. OneFlush' /\ ~HasFlush'
    BY <1>0, <2>1 DEF OneFlush, HasFlush
  <2> QED BY <1>1, <2>1, <2>2 DEF Flushes
<1>6. CASE TakeoverCommits
  <2>1. /\ takeover.step = "stopped" /\ takeover'.step = "no" /\ queue' = queue
        /\ generation' = generation + 1
    BY <1>0, <1>6 DEF TakeoverCommits, chainVars, Takeovers
  <2>2. OneFlush' /\ ~HasFlush'
    BY <1>0, <2>1 DEF OneFlush, HasFlush
  <2>3. generation' \in 1 .. MaxGeneration
    BY <1>0, <2>1 DEF Flushes
  <2> QED BY <1>1, <2>1, <2>2, <2>3
<1>7. CASE UNCHANGED <<generation, takeover>> /\ ~TakeoverBegins
  <2>1. OneFlush' /\ (HasFlush' => HasFlush)
    BY <1>0, <1>7, FlushQueue
  <2> QED BY <1>0, <1>1, <1>7, <2>1 DEF Flushes
<1> QED BY <1>2, <1>3, <1>4, <1>5, <1>6, <1>7, TakeoverSteps

-----------------------------------------------------------------------------
(* A recovery that was asked for waits in the chain. *)

Awaited == recovering => \E i \in 1 .. Len(queue) : queue[i].op = "recover"

LEMMA AwaitedInit == Init => Awaited
  BY DEF Init, Awaited

LEMMA RecoveringSteps ==
  ASSUME [Next]_vars
  PROVE  ~recovering' \/ recovering' = recovering \/ queue' = Append(queue, [op |-> "recover"])
<1> USE DEF grantVars, windowVars, captureVars, chainVars
<1> DEFINE P == ~recovering' \/ recovering' = recovering \/ queue' = Append(queue, [op |-> "recover"])
<1>1. RecoversTo(queue) => P
  BY DEF RecoversTo
<1>2. Fails => P
  BY DEF Fails
<1>3. (\E w \in Children : ChildCloses(w)) \/ CaptureEnded => P
  BY <1>1, <1>2 DEF ChildCloses, CaptureEnded
<1>4. CaptureEnds \/ ButtonArrives \/ HoverArrives \/ SelectArrives \/ EventArrives \/ Revoked => P
  BY DEF CaptureEnds, ButtonArrives, HoverArrives, SelectArrives, EventArrives, Revoked, Queued
<1>5. PreparationFails => P
  BY <1>2 DEF PreparationFails
<1>6. Dispatches \/ Passes \/ AcceptsHello \/ Prepared \/ MediaReplaces \/ MediaStarts \/ HelloArrives
      \/ ViewerLeaves \/ TakeoverBegins \/ Drained \/ MediaStops => P
  BY DEF Dispatches, Passes, AcceptsHello, Prepared, MediaReplaces, MediaStarts, HelloArrives,
         ViewerLeaves, TakeoverBegins, Drained, MediaStops
<1>7. TakeoverCommits => P
  BY DEF TakeoverCommits
<1>8. SelectionBegins \/ RecoveryBegins \/ ReturnBegins => P
  BY <1>2 DEF SelectionBegins, RecoveryBegins, ReturnBegins
<1>9. SelectionCommits \/ ReplacementFails => P
  BY <1>2 DEF SelectionCommits, Commits, ReplacementFails
<1>10. UNCHANGED vars => P
  BY DEF vars
<1> HIDE DEF P
<1>11. P
  BY <1>3, <1>4, <1>5, <1>6, <1>7, <1>8, <1>9, <1>10, Zenon DEF Next, ChainStep
<1> QED BY <1>11 DEF P

LEMMA AwaitedStep ==
  ASSUME PlaceTypes, QueueTypes, Awaited, [Next]_vars
  PROVE  Awaited'
<1>1. CASE ~recovering'
  BY <1>1 DEF Awaited
<1>2. CASE queue' = Append(queue, [op |-> "recover"])
  <2>1. [op |-> "recover"] \in Entries
    BY EntryFacts DEF QueueTypes
  <2>2. Len(queue) + 1 \in 1 .. Len(queue') /\ queue'[Len(queue) + 1].op = "recover"
    BY <1>2, <2>1, Appended
  <2> QED BY <2>2 DEF Awaited
<1>3. CASE recovering' /\ recovering' = recovering
  <2>0. PICK i \in 1 .. Len(queue) : queue[i].op = "recover"
    BY <1>3 DEF Awaited
  <2>1. CASE Stays
    BY <2>0, <2>1 DEF Stays, Awaited
  <2>2. CASE Cleared
    BY <1>3, <2>2 DEF Cleared, Fails
  <2>3. ASSUME NEW c \in Entries, queue' = Append(queue, c) PROVE Awaited'
    BY <2>0, <2>3, Appended DEF Awaited
  <2>4. CASE Grows
    BY <2>3, <2>4 DEF Grows
  <2>5. CASE InputGrows
    <3>1. PICK op \in {"button", "hover"}, v \in Stamps : queue' = Append(queue, Input(op, v))
      BY <2>5 DEF InputGrows
    <3>2. v \in Views \cup {None}
      BY DEF Stamps, PlaceTypes
    <3>3. Input(op, v) \in Entries
      BY <3>2, EntryFacts DEF QueueTypes
    <3> QED BY <2>3, <3>1, <3>3
  <2>6. CASE Merges
    <3>1. Len(queue') = Len(queue) /\ \A j \in 1 .. Len(queue) : queue'[j].op = queue[j].op
      BY <2>6, Merged
    <3> QED BY <2>0, <3>1 DEF Awaited
  <2>7. ASSUME queue # <<>>, queue' = Tail(queue), Head(queue).op # "recover" PROVE Awaited'
    <3>1. Head(queue) = queue[1] /\ (i # 1 => i - 1 \in 1 .. Len(queue') /\ queue'[i - 1] = queue[i])
      BY <2>7, Dropped
    <3> QED BY <2>0, <2>7, <3>1 DEF Awaited
  <2>8. CASE Shrinks
    BY <1>3, <2>7, <2>8 DEF Shrinks
  <2>9. CASE Dispatches
    <3>1. queue # <<>> /\ queue' = Tail(queue) /\ Head(queue).op # "recover"
      BY <2>9 DEF Dispatches, Begins, Idle
    <3> QED BY <2>7, <3>1
  <2> QED BY <2>1, <2>2, <2>4, <2>5, <2>6, <2>8, <2>9, QueueSteps
<1> QED BY <1>1, <1>2, <1>3, RecoveringSteps

-----------------------------------------------------------------------------
(* The capture of the media runtime follows the selection. *)

UnderWay(step) == selection # None /\ selection.step = step

Follows ==
  /\ state = "FAILED" => takeover.step = "no"
  /\ takeover.step = "stopped" => capture = None
  /\ capture = None /\ takeover.step # "stopped" =>
       /\ state # "CONNECTED"
       /\ selection # None => selection.step = "prepare" /\ selection.generation < generation
  /\ capture # None /\ UnderWay("replaced") =>
       capture.window = selection.target /\ capture.revision = revision
  /\ capture # None /\ ~UnderWay("replaced") =>
       capture.window = active /\ capture.revision = captured
  /\ selection # None =>
       /\ selection.generation <= generation
       /\ selection.generation = generation => switching
       /\ selection.step # "prepare" => selection.generation = generation

LEMMA FollowsInit == Init => Follows
<1> SUFFICES ASSUME Init PROVE Follows
  OBVIOUS
<1>1. "main" \in Windows
  BY DEF Windows
<1>2. capture \in Captures
  BY <1>1 DEF Init, Captures
<1> QED BY <1>2, NoneAssumption DEF Init, Follows, UnderWay

FollowsVars == <<state, generation, takeover, active, switching, revision, captured, selection, capture>>

LEMMA FollowsStep ==
  ASSUME PlaceTypes, QueueTypes, Flushes, Follows, [Next]_vars
  PROVE  Follows'
<1> USE DEF grantVars, windowVars, captureVars, chainVars
<1>0. /\ generation \in Nat /\ revision \in Nat /\ takeover \in Takeovers
      /\ selection \in Selections \cup {None} /\ capture \in Captures \cup {None}
      /\ None \notin Selections /\ None \notin Captures
  BY NoneAssumption DEF PlaceTypes
<1>1. CASE UNCHANGED FollowsVars
  BY <1>1 DEF FollowsVars, Follows, UnderWay
<1>2. CASE Fails
  BY <1>0, <1>2 DEF Fails, Follows, UnderWay, Takeovers
<1>3. ASSUME UNCHANGED <<state, generation, takeover, active, revision, captured, selection>>,
             capture # None => capture' # None /\ capture'.window = capture.window
                                 /\ capture'.revision = capture.revision,
             capture = None => capture' = None,
             switching => switching'
      PROVE  Follows'
  BY <1>3 DEF Follows, UnderWay
<1>4. RecoversTo(queue) => (switching => switching')
  BY DEF RecoversTo
<1>5. ASSUME capture # None, capture' = [capture EXCEPT !.live = FALSE]
      PROVE  capture' # None /\ capture'.window = capture.window /\ capture'.revision = capture.revision
  BY <1>0, <1>5 DEF Captures
<1>6. ASSUME NEW w \in Children, ChildCloses(w) PROVE Follows'
  <2>1. Closes(w) /\ (switching => switching')
        /\ UNCHANGED <<state, generation, takeover, active, revision, captured, selection>>
    BY <1>4, <1>6 DEF ChildCloses
  <2>2. capture' = capture \/ (capture # None /\ capture' = [capture EXCEPT !.live = FALSE])
    BY <2>1 DEF Closes
  <2> QED BY <1>3, <1>5, <2>1, <2>2
<1>7. CASE CaptureEnds
  BY <1>3, <1>5, <1>7 DEF CaptureEnds
<1>8. CASE CaptureEnded
  <2>1. CASE ~Fails
    BY <1>3, <1>4, <1>8, <2>1 DEF CaptureEnded
  <2> QED BY <1>2, <2>1
<1>9. CASE ButtonArrives \/ HoverArrives \/ SelectArrives \/ EventArrives \/ Revoked \/ HelloArrives
           \/ Dispatches \/ Passes
  BY <1>1, <1>9 DEF ButtonArrives, HoverArrives, SelectArrives, EventArrives, Revoked, HelloArrives,
                    Dispatches, Passes, Queued, FollowsVars
<1>10. ASSUME NEW op, NEW w, Selects(op, w), selection = None, state = "CONNECTED"
       PROVE  Follows'
  <2>1. /\ switching' = TRUE /\ selection'.generation = generation /\ selection'.step = "prepare"
        /\ UNCHANGED <<state, generation, takeover, active, captured, capture>>
    BY <1>10 DEF Selects
  <2>2. ~UnderWay("replaced") /\ ~UnderWay("replaced")'
    BY <1>10, <2>1 DEF UnderWay
  <2> QED BY <1>0, <1>10, <2>1, <2>2 DEF Follows
<1>11. CASE SelectionBegins
  BY <1>1, <1>10, <1>11 DEF SelectionBegins, Accepted, Begins, Idle, FollowsVars
<1>12. CASE RecoveryBegins
  BY <1>2, <1>10, <1>12 DEF RecoveryBegins, Idle
<1>13. CASE ReturnBegins
  BY <1>1, <1>10, <1>13 DEF ReturnBegins, Begins, Idle, Withdraws, FollowsVars
<1>14. CASE PreparationFails
  <2>1. CASE ~Fails
    <3>1. /\ selection' = None /\ UnderWay("prepare")
          /\ UNCHANGED <<state, generation, takeover, active, revision, captured, capture>>
      BY <1>14, <2>1 DEF PreparationFails, UnderWay
    <3> QED BY <3>1 DEF Follows, UnderWay
  <2> QED BY <1>2, <2>1
<1>15. CASE Prepared
  <2>1. /\ selection # None /\ selection.step = "prepare" /\ selection.generation = generation
        /\ selection' \in Selections /\ selection'.step = "replace"
        /\ selection'.generation = selection.generation
    BY <1>0, <1>15 DEF Prepared, Selections
  <2>2. UNCHANGED <<state, generation, takeover, active, switching, revision, captured, capture>>
    BY <1>15 DEF Prepared
  <2> QED BY <1>0, <2>1, <2>2 DEF Follows, UnderWay
<1>16. CASE MediaReplaces
  <2>1. /\ selection # None /\ selection.step = "replace" /\ selection'.step = "replaced"
        /\ selection'.generation = selection.generation /\ selection'.target = selection.target
        /\ selection' \in Selections
    BY <1>0, <1>16 DEF MediaReplaces, Selections
  <2>2. capture # None /\ capture' \in Captures /\ capture'.window = selection.target
        /\ capture'.revision = revision
    BY <1>0, <1>16 DEF MediaReplaces, Captures, Selections
  <2>3. UNCHANGED <<state, generation, takeover, active, switching, revision, captured>>
    BY <1>16 DEF MediaReplaces
  <2> QED BY <1>0, <2>1, <2>2, <2>3 DEF Follows, UnderWay
<1>17. CASE ReplacementFails
  BY <1>2, <1>17 DEF ReplacementFails
<1>18. CASE SelectionCommits
  <2>1. CASE Commits /\ UnderWay("replaced")
    <3>1. /\ captured' = revision /\ active' = selection.target /\ selection' = None
          /\ UNCHANGED <<state, generation, takeover, revision, capture>>
      BY <2>1 DEF Commits
    <3> QED BY <2>1, <3>1 DEF Follows, UnderWay
  <2> QED BY <1>2, <1>18, <2>1 DEF SelectionCommits, UnderWay
<1>19. CASE TakeoverBegins
  <2>1. /\ takeover.step = "no" /\ takeover'.step = "drain" /\ state # "FAILED"
        /\ UNCHANGED <<state, generation, active, switching, revision, captured, selection, capture>>
    BY <1>19 DEF TakeoverBegins
  <2> QED BY <2>1 DEF Follows, UnderWay
<1>20. CASE Drained
  <2>1. /\ takeover.step = "drain" /\ takeover'.step = "stop"
        /\ UNCHANGED <<state, generation, active, switching, revision, captured, selection, capture>>
    BY <1>20, DrainedFacts DEF Drained
  <2> QED BY <2>1 DEF Follows, UnderWay
<1>21. CASE MediaStops
  <2>1. /\ takeover.step = "stop" /\ takeover'.step = "stopped" /\ capture' = None
        /\ UNCHANGED <<state, generation, active, switching, revision, captured, selection>>
    BY <1>0, <1>21 DEF MediaStops, Takeovers
  <2> QED BY <2>1 DEF Follows, UnderWay
<1>22. CASE TakeoverCommits
  <2>1. /\ takeover.step = "stopped" /\ takeover'.step = "no" /\ generation' = generation + 1
        /\ selection # None => selection.step = "prepare"
        /\ state' = "AWAY" /\ UNCHANGED <<selection, capture>>
    BY <1>0, <1>22 DEF TakeoverCommits, Takeovers
  <2>2. selection # None => selection.generation \in Nat
    BY <1>0 DEF Selections
  <2>3. capture = None
    BY <2>1 DEF Follows
  <2> QED BY <1>0, <2>1, <2>2, <2>3 DEF Follows, UnderWay
<1>23. CASE MediaStarts
  <2>1. /\ state = "AWAY" /\ takeover.step = "no" /\ capture = None
        /\ capture'.window = active /\ capture'.revision = revision /\ captured' = revision
        /\ capture' \in Captures
        /\ UNCHANGED <<state, generation, takeover, active, switching, revision, selection>>
    BY <1>0, <1>23 DEF MediaStarts, Captures, PlaceTypes
  <2>2. ~UnderWay("replaced") /\ ~UnderWay("replaced")'
    BY <2>1 DEF Follows, UnderWay
  <2> QED BY <1>0, <2>1, <2>2 DEF Follows
<1>24. CASE AcceptsHello
  BY <1>24 DEF AcceptsHello, Follows, UnderWay
<1>25. CASE ViewerLeaves
  BY <1>25 DEF ViewerLeaves, Follows, UnderWay
<1>26. CASE UNCHANGED vars
  BY <1>1, <1>26 DEF vars, FollowsVars
<1> QED BY <1>6, <1>7, <1>8, <1>9, <1>11, <1>12, <1>13, <1>14, <1>15, <1>16, <1>17, <1>18, <1>19,
           <1>20, <1>21, <1>22, <1>23, <1>24, <1>25, <1>26, Zenon DEF Next, ChainStep

-----------------------------------------------------------------------------
(* A capture that ended, or a window that is gone, has a recovery waiting. *)

Dead == capture # None /\ ~capture.live /\ endings = <<>>

Recovers ==
  /\ switching => recovering \/ selection # None
  /\ capture # None /\ ~capture.live =>
       \/ endings # <<>> /\ endings[Len(endings)] = capture.revision
       \/ endings = <<>> /\ ended = capture.revision
  /\ state # "FAILED" /\ selection = None => recovering \/ (Exists(active) /\ ~Dead)
  /\ selection # None /\ selection.op = "close" => selection.left # selection.target

LEMMA RecoversInit == Init => Recovers
<1> SUFFICES ASSUME Init PROVE Recovers
  OBVIOUS
<1>1. capture.live = TRUE /\ active = "main" /\ selection = None /\ switching = FALSE
  BY DEF Init
<1> QED BY <1>1 DEF Recovers, Dead, Exists

\* A capture ends, and its signal is under way.
LEMMA EndingFacts ==
  ASSUME PlaceTypes, capture # None, capture' = [capture EXCEPT !.live = FALSE],
         endings' = Append(endings, capture.revision)
  PROVE  /\ capture'.revision = capture.revision /\ endings' # <<>>
         /\ endings'[Len(endings')] = capture'.revision
<1>1. capture \in Captures /\ endings \in Seq(Nat)
  BY DEF PlaceTypes
<1>2. capture'.revision = capture.revision /\ capture.revision \in Nat
  BY <1>1 DEF Captures
<1> DEFINE r == capture.revision
<1>3. r \in Nat /\ endings' = Append(endings, r)
  BY <1>2
<1> HIDE DEF r
<1>4. Len(endings') = Len(endings) + 1 /\ endings'[Len(endings) + 1] = r /\ endings' # <<>>
  BY <1>1, <1>3, AppendFacts
<1> QED BY <1>2, <1>4 DEF r

RecoversVars == <<state, active, owned, switching, recovering, ended, selection, capture, endings>>

LEMMA RecoversStep ==
  ASSUME PlaceTypes, QueueTypes, Follows, Recovers, [Next]_vars
  PROVE  Recovers'
<1> USE DEF grantVars, windowVars, captureVars, chainVars
<1>0. /\ generation \in Nat /\ revision \in Nat
      /\ selection \in Selections \cup {None} /\ capture \in Captures \cup {None}
      /\ None \notin Selections /\ None \notin Captures
      /\ endings \in Seq(Nat) /\ active \in Windows /\ "main" \in Windows
  BY NoneAssumption DEF PlaceTypes, Windows
<1>1. CASE UNCHANGED RecoversVars
  BY <1>1 DEF RecoversVars, Recovers, Dead, Exists
<1>2. CASE Fails
  BY <1>2 DEF Fails, Recovers, Dead
<1>3. RecoversTo(queue) =>
        /\ switching' => switching \/ recovering'
        /\ recovering => recovering'
        /\ recovering' \/ switching \/ active = "main"
  BY DEF RecoversTo
<1>4. ASSUME NEW w \in Children, ChildCloses(w) PROVE Recovers'
  <2>1. /\ owned' = owned \ {w} /\ state # "FAILED" /\ Closes(w)
        /\ IF active = w THEN RecoversTo(queue) ELSE UNCHANGED <<queue, switching, recovering>>
        /\ UNCHANGED <<state, active, selection, ended>>
    BY <1>4 DEF ChildCloses, Closes
  <2>2. \/ UNCHANGED <<capture, endings>>
        \/ /\ capture # None /\ capture' = [capture EXCEPT !.live = FALSE]
           /\ endings' = Append(endings, capture.revision)
    BY <2>1 DEF Closes
  <2>3. (switching' => recovering' \/ selection' # None) /\ (recovering => recovering')
    BY <1>3, <2>1 DEF Recovers
  <2>4. capture' # None /\ ~capture'.live =>
          \/ endings' # <<>> /\ endings'[Len(endings')] = capture'.revision
          \/ endings' = <<>> /\ ended' = capture'.revision
    BY <2>1, <2>2, EndingFacts DEF Recovers
  <2>5. Dead' => Dead
    BY <2>2, EndingFacts DEF Dead
  <2>6. state # "FAILED" /\ selection = None => recovering' \/ (Exists(active)' /\ ~Dead')
    <3>1. CASE active = w
      <4>1. active # "main"
        BY <3>1, WindowControlAssumption DEF WindowControlAssumption
      <4> QED BY <1>3, <2>1, <2>3, <3>1, <4>1 DEF Recovers
    <3>2. CASE active # w
      BY <2>1, <2>3, <2>5, <3>2 DEF Recovers, Exists
    <3> QED BY <3>1, <3>2
  <2> QED BY <2>1, <2>3, <2>4, <2>6 DEF Recovers
<1>5. CASE CaptureEnds
  <2>1. /\ capture # None /\ capture' = [capture EXCEPT !.live = FALSE]
        /\ endings' = Append(endings, capture.revision)
        /\ UNCHANGED <<state, active, owned, switching, recovering, ended, selection>>
    BY <1>5 DEF CaptureEnds
  <2> QED BY <2>1, EndingFacts DEF Recovers, Dead, Exists
<1>6. CASE CaptureEnded
  <2>1. CASE ~Fails
    <3>1. /\ ended' = Head(endings) /\ endings' = Tail(endings) /\ endings # <<>>
          /\ Head(endings) = captured => RecoversTo(queue) /\ active # "main"
          /\ Head(endings) # captured => UNCHANGED <<switching, recovering>>
          /\ UNCHANGED <<state, owned, active, selection, captured, capture>>
      BY <1>6, <2>1 DEF CaptureEnded
    <3>2. (switching' => recovering' \/ selection' # None) /\ (recovering => recovering')
      BY <1>3, <3>1 DEF Recovers
    <3>3. /\ Len(endings) \in Nat \ {0} /\ Len(endings') = Len(endings) - 1 /\ Head(endings) = endings[1]
          /\ \A i \in 1 .. Len(endings') : endings'[i] = endings[i + 1]
          /\ endings' \in Seq(Nat)
      BY <1>0, <3>1, TailFacts
    <3>4. ASSUME capture # None, ~capture.live
          PROVE  \/ endings' # <<>> /\ endings'[Len(endings')] = capture.revision
                 \/ endings' = <<>> /\ ended' = capture.revision
      <4>1. endings[Len(endings)] = capture.revision
        BY <3>1, <3>4 DEF Recovers
      <4>2. CASE Len(endings) = 1
        BY <3>1, <3>3, <4>1, <4>2
      <4>3. CASE Len(endings) # 1
        <5>1. Len(endings') \in 1 .. Len(endings') /\ Len(endings') + 1 = Len(endings)
          BY <3>3, <4>3
        <5>2. endings'[Len(endings')] = endings[Len(endings)]
          BY <3>3, <5>1
        <5>3. endings' # <<>>
          BY <5>1
        <5> QED BY <4>1, <5>2, <5>3
      <4> QED BY <4>2, <4>3
    <3>5. ASSUME state # "FAILED", selection = None, ~recovering'
          PROVE  Exists(active)' /\ ~Dead'
      <4>1. Exists(active)' /\ ~recovering /\ ~switching
        BY <3>1, <3>2, <3>5 DEF Recovers, Exists
      <4>2. CASE Dead'
        <5>1. capture # None /\ ended' = capture.revision
          BY <3>1, <3>4, <4>2 DEF Dead
        <5>2. capture.revision = captured
          BY <3>5, <5>1 DEF Follows, UnderWay
        <5> QED BY <1>3, <3>1, <3>5, <4>1, <5>1, <5>2
      <4> QED BY <4>1, <4>2
    <3> QED BY <3>1, <3>2, <3>4, <3>5 DEF Recovers
  <2> QED BY <1>2, <2>1
<1>7. CASE ButtonArrives \/ HoverArrives \/ SelectArrives \/ EventArrives \/ Revoked \/ HelloArrives
           \/ Dispatches \/ Passes \/ TakeoverBegins \/ Drained
  BY <1>1, <1>7 DEF ButtonArrives, HoverArrives, SelectArrives, EventArrives, Revoked, HelloArrives,
                    Dispatches, Passes, TakeoverBegins, Drained, Queued, RecoversVars
<1>8. ASSUME NEW op \in {"select", "close", "recover", "return"}, NEW w \in Windows, Selects(op, w),
             op = "close" => w # active
      PROVE  Recovers'
  <2>1. /\ selection' = [op |-> op, target |-> w, left |-> active, generation |-> generation,
                         revision |-> revision + 1, step |-> "prepare"]
        /\ UNCHANGED <<captureVars, state>>
    BY <1>8 DEF Selects
  <2>2. selection' \in Selections
    BY <1>0, <2>1 DEF Selections
  <2>3. selection' # None /\ (selection'.op = "close" => selection'.left # selection'.target)
    BY <1>0, <1>8, <2>1, <2>2
  <2> QED BY <2>1, <2>3 DEF Recovers
<1>9. CASE SelectionBegins
  <2>1. PICK op \in {"select", "close"} : Begins(op) /\
          LET c == Head(queue) IN
            \/ Selects(op, c.target) /\ c.target # active
            \/ UNCHANGED <<state, grantVars, windowVars, owned, arrived, selection, captureVars, hit>>
    BY <1>9 DEF SelectionBegins
  <2>2. Head(queue) \in Entries /\ Head(queue).op \in {"select", "close"}
    BY <2>1, TailFacts DEF Begins, Idle, QueueTypes
  <2>3. Head(queue).target \in Windows
    BY <2>2 DEF Entries, Inputs, Commands, Others
  <2> QED BY <1>1, <1>8, <2>1, <2>3 DEF RecoversVars
<1>10. CASE RecoveryBegins
  BY <1>0, <1>2, <1>8, <1>10 DEF RecoveryBegins
<1>11. CASE ReturnBegins
  BY <1>0, <1>1, <1>8, <1>11 DEF ReturnBegins, Withdraws, RecoversVars
<1>12. CASE PreparationFails
  <2>1. CASE ~Fails
    <3>1. /\ selection # None /\ selection.step = "prepare" /\ selection' = None
          /\ IF Exists(active) /\ ended # captured
                 THEN switching' = FALSE /\ UNCHANGED recovering
                 ELSE recovering' = TRUE
          /\ UNCHANGED <<state, active, owned, captureVars>>
      BY <1>12, <2>1 DEF PreparationFails
    <3>2. ASSUME Exists(active), ended # captured PROVE ~Dead'
      <4>1. Dead' => Dead
        BY <3>1 DEF Dead
      <4>2. Dead => ended = capture.revision /\ capture.revision = captured
        BY <3>1 DEF Recovers, Dead, Follows, UnderWay
      <4> QED BY <3>2, <4>1, <4>2
    <3>3. CASE Exists(active) /\ ended # captured
      BY <3>1, <3>2, <3>3 DEF Recovers, Exists
    <3>4. CASE ~(Exists(active) /\ ended # captured)
      BY <3>1, <3>4 DEF Recovers
    <3> QED BY <3>3, <3>4
  <2> QED BY <1>2, <2>1
<1>13. CASE Prepared
  <2>1. /\ selection # None /\ selection' \in Selections /\ selection'.op = selection.op
        /\ selection'.left = selection.left /\ selection'.target = selection.target
    BY <1>0, <1>13 DEF Prepared, Selections
  <2>2. UNCHANGED <<state, active, owned, switching, recovering, captureVars>>
    BY <1>13 DEF Prepared
  <2> QED BY <1>0, <2>1, <2>2 DEF Recovers
<1>14. CASE MediaReplaces
  <2>1. /\ selection # None /\ selection' \in Selections /\ selection'.op = selection.op
        /\ selection'.left = selection.left /\ selection'.target = selection.target
    BY <1>0, <1>14 DEF MediaReplaces, Selections
  <2>2. capture'.live = TRUE
    BY <1>14 DEF MediaReplaces
  <2>3. UNCHANGED <<state, active, owned, switching, recovering>>
    BY <1>14 DEF MediaReplaces
  <2> QED BY <1>0, <2>1, <2>2, <2>3 DEF Recovers
<1>15. CASE ReplacementFails
  BY <1>2, <1>15 DEF ReplacementFails
<1>16. CASE SelectionCommits
  <2>1. CASE Commits /\ UnderWay("replaced") /\ ended # revision /\ Exists(selection.target)
    <3>1. /\ active' = selection.target /\ selection' = None /\ switching' = FALSE
          /\ UNCHANGED <<state, recovering, ended, capture, endings>>
      BY <2>1 DEF Commits
    <3>2. \/ owned' = owned
          \/ selection.op = "close" /\ owned' \in {owned, owned \ {selection.left}}
      BY <2>1 DEF Commits
    <3>3. Exists(active)'
      BY <2>1, <3>1, <3>2 DEF Exists, Recovers, UnderWay
    <3>4. ~Dead'
      <4>1. Dead' => Dead
        BY <3>1 DEF Dead
      <4>2. Dead => ended = capture.revision /\ capture.revision = revision
        BY <2>1 DEF Recovers, Dead, Follows
      <4> QED BY <2>1, <4>1, <4>2
    <3> QED BY <3>1, <3>3, <3>4 DEF Recovers
  <2> QED BY <1>2, <1>16, <2>1 DEF SelectionCommits, UnderWay
<1>17. CASE MediaStops
  <2>1. capture' = None /\ UNCHANGED <<state, active, owned, switching, recovering, selection>>
    BY <1>17 DEF MediaStops
  <2> QED BY <2>1 DEF Recovers, Dead, Exists
<1>18. CASE TakeoverCommits
  <2>1. /\ takeover.step = "stopped" /\ state # "FAILED" /\ state' # "FAILED"
        /\ UNCHANGED <<recovering, owned, selection, captureVars>>
        /\ (active' = active /\ switching' = switching) \/ (active' = "main" /\ switching' = FALSE)
    BY <1>18 DEF TakeoverCommits, Follows
  <2> QED BY <2>1 DEF Recovers, Dead, Exists, Follows
<1>19. CASE MediaStarts
  <2>1. /\ Exists(active) /\ capture' = [window |-> active, revision |-> revision, live |-> TRUE]
        /\ UNCHANGED <<state, active, owned, switching, recovering, selection>>
    BY <1>19 DEF MediaStarts
  <2>2. capture'.live = TRUE
    BY <2>1
  <2> QED BY <2>1, <2>2 DEF Recovers, Dead, Exists
<1>20. CASE AcceptsHello \/ ViewerLeaves
  <2>1. /\ state # "FAILED" /\ state' # "FAILED"
        /\ UNCHANGED <<active, owned, switching, recovering, ended, selection, capture, endings>>
    BY <1>20 DEF AcceptsHello, ViewerLeaves, Begins, Idle
  <2> QED BY <2>1 DEF Recovers, Dead, Exists
<1>21. CASE UNCHANGED vars
  BY <1>1, <1>21 DEF vars, RecoversVars
<1> QED BY <1>4, <1>5, <1>6, <1>7, <1>9, <1>10, <1>11, <1>12, <1>13, <1>14, <1>15, <1>16, <1>17, <1>18,
           <1>19, <1>20, <1>21, Zenon DEF Next, ChainStep

-----------------------------------------------------------------------------
(* Theorems. *)

IInv ==
  /\ PlaceTypes /\ QueueTypes /\ Ordered /\ Seen
  /\ Flushes /\ Awaited /\ Follows /\ Recovers

LEMMA IInvHolds == Spec => []IInv
<1>1. Init => IInv
  BY TypesInit, OrderedInit, SeenInit, FlushesInit, AwaitedInit, FollowsInit, RecoversInit DEF IInv
<1>2. IInv /\ [Next]_vars => IInv'
  BY QueueTypesStep, PlaceTypesStep, OrderedStep, SeenStep, FlushesStep, AwaitedStep, FollowsStep,
     RecoversStep DEF IInv
<1> QED BY <1>1, <1>2, PTL DEF Spec

\* What waits in the chain keeps the order in which the Viewer sent it, and is
\* dispatched in that order: merging hovers never lets one overtake a button.
THEOREM InputAlwaysInOrder == Spec => InputInOrder
<1>1. IInv /\ [Next]_vars => (hit' # hit => hit'.at > hit.at)
  BY OrderedHits DEF IInv
<1>2. IInv /\ [Next]_vars => [hit' # hit => hit'.at > hit.at]_vars
  BY <1>1
<1> QED BY <1>2, IInvHolds, PTL DEF Spec, InputInOrder

\* Input hits the window the Viewer saw, through selections, closed children,
\* recoveries and takeovers, while the windows are negotiated.
THEOREM InputAlwaysHitsWindowSeen == Spec => []InputHitsWindowSeen
<1>1. IInv => InputHitsWindowSeen
  BY DEF IInv, Seen
<1> QED BY <1>1, IInvHolds, PTL

\* The capture of a connected Session is the one of the active window, and lives
\* when nothing is under way: each end of it and each loss of the window has a
\* recovery in the chain.
THEOREM CaptureAlwaysConsistent == Spec => []Consistent
<1>1. ASSUME IInv PROVE Consistent
  <2>1. TypeOK
    BY <1>1, TypesSplit DEF IInv, Flushes
  <2>2. CaptureFollowsSelection
    <3> SUFFICES ASSUME state = "CONNECTED", ~switching, takeover.step = "no"
                 PROVE  capture # None /\ capture.window = active /\ capture.revision = captured
      BY DEF CaptureFollowsSelection
    <3>1. capture # None
      BY <1>1 DEF IInv, Follows
    <3>2. ~UnderWay("replaced")
      BY <1>1 DEF IInv, Follows, UnderWay
    <3> QED BY <1>1, <3>1, <3>2 DEF IInv, Follows
  <2>3. NoDeadCapture
    <3> SUFFICES ASSUME state = "CONNECTED", queue = <<>>, selection = None, endings = <<>>,
                        takeover.step = "no"
                 PROVE  capture.live /\ Exists(active)
      BY DEF NoDeadCapture
    <3>1. capture # None
      BY <1>1 DEF IInv, Follows
    <3>2. ~recovering
      BY <1>1 DEF IInv, Awaited
    <3> QED BY <1>1, <3>1, <3>2 DEF IInv, Recovers, Dead
  <2> QED BY <2>1, <2>2, <2>3 DEF Consistent
<1> QED BY <1>1, IInvHolds, PTL

-----------------------------------------------------------------------------
(***************************************************************************)
(* The clipboard of a Session, whose operations wait in the same chain:    *)
(* theorems about ClipboardTransfers.  For any number of operations and    *)
(* Viewers, what is pasted and what is reported belong to the Viewer that  *)
(* asked.                                                                  *)
(***************************************************************************)
CONSTANTS Writes, Reads, Chunks, MaxChain, MaxViewers, NoClipboard  \* MaxViewers bounds its generations

VARIABLES clipboardGeneration, clipboardTakeover, linked, clipboardGranted, closed, chain, step,
          writing, reading, stream, viewer, sender, down, asker, pasted, landed, outcome

C == INSTANCE ClipboardTransfers
       WITH MaxGeneration <- MaxViewers, None <- NoClipboard,
            generation <- clipboardGeneration, takeover <- clipboardTakeover,
            granted <- clipboardGranted

-----------------------------------------------------------------------------
(* The inductive invariant.                                                     *)

\* What a Viewer sends is of the operation's kind, and so is what Core answers.
Requests ==
  [type : {"offer", "chunk", "complete"}, id : Writes, n : 0..Chunks]
    \cup [type : {"request", "accept", "result"}, id : Reads, n : 0..Chunks] \cup C!Marks
Answers ==
  [type : {"writeAccept", "writeResult"}, id : Writes, n : 0..Chunks]
    \cup [type : {"readOffer", "readChunk", "readComplete", "readResult"},
          id : Reads, n : 0..Chunks]

\* Answers that are true when the writes of L are in the page.
Truths(L) == {m \in Answers : m.type = "writeResult" /\ m.n = 1 => m.id \in L}

SessionTypes ==
  /\ clipboardGeneration \in 1..MaxViewers /\ clipboardTakeover \in {"no", "queued", "drained"}
  /\ linked \in BOOLEAN /\ clipboardGranted \in BOOLEAN /\ closed \in BOOLEAN
  /\ asker \in [C!Ops -> 0..MaxViewers] /\ pasted \in [Writes -> 0..MaxViewers]
  /\ landed \in SUBSET Writes /\ outcome \in [C!Ops -> {"none", "done", "failed"}]

CoreTypes ==
  /\ writing \in [id : Writes \cup {NoClipboard}, got : 0..Chunks, timer : BOOLEAN]
  /\ reading \in [id : Reads \cup {NoClipboard}, generation : 0..MaxViewers, accepted : BOOLEAN]
  /\ stream \in [Reads -> 0..Chunks]

ViewerTypes ==
  /\ viewer \in [write : Writes \cup {NoClipboard}, accepted : BOOLEAN,
                 read : Reads \cup {NoClipboard}, offered : BOOLEAN, got : 0..Chunks]
  /\ sender \in [Writes -> 0..Chunks]

\* A head that awaits the paste or the clipboard is the message that asked for it.
ChainWellFormed ==
  /\ chain \in Seq(Requests) /\ step \in {"start", "paste", "read"}
  /\ step = "paste" => chain # <<>> /\ Head(chain).type = "complete"
  /\ step = "read" => chain # <<>> /\ Head(chain).type = "request"

\* A takeover that waits for the chain has its one drain there, and a generation left.
Drains == {i \in DOMAIN chain : chain[i].type = "drain"}
OneDrain ==
  /\ clipboardTakeover # "no" => clipboardGeneration < MaxViewers
  /\ Drains # {} => clipboardTakeover = "queued"
  /\ \A i, j \in Drains : i = j

ClipboardInv ==
  /\ SessionTypes /\ CoreTypes /\ ViewerTypes /\ ChainWellFormed /\ OneDrain
  /\ down \in Seq(Truths(landed))
  /\ C!PastesAreOwn /\ C!ReportsAreTrue

LEMMA ClipboardConstants ==
  ASSUME C!ClipboardAssumption
  PROVE  /\ Chunks \in Nat /\ Chunks > 0 /\ MaxViewers \in Nat /\ MaxViewers > 0
         /\ Writes \cap Reads = {} /\ NoClipboard \notin Writes /\ NoClipboard \notin Reads
  BY DEF C!ClipboardAssumption

LEMMA SomeRequests ==
  /\ \A t \in {"offer", "chunk", "complete"}, w \in Writes, n \in 0..Chunks :
       C!Message(t, w, n) \in Requests /\ C!Message(t, w, n).type # "drain"
  /\ \A t \in {"request", "accept", "result"}, r \in Reads, n \in 0..Chunks :
       C!Message(t, r, n) \in Requests /\ C!Message(t, r, n).type # "drain"
  /\ \A t \in {"select", "drain"} : [type |-> t, id |-> NoClipboard, n |-> 0] \in Requests
  BY DEF C!Message, Requests, C!Marks

LEMMA SomeAnswers ==
  ASSUME C!ClipboardAssumption, NEW L
  PROVE  /\ \A w \in Writes, n \in 0..Chunks : C!Message("writeAccept", w, n) \in Truths(L)
         /\ \A w \in Writes : C!Message("writeResult", w, 0) \in Truths(L)
         /\ \A w \in Writes \cap L : C!Message("writeResult", w, 1) \in Truths(L)
         /\ \A t \in {"readOffer", "readChunk", "readComplete", "readResult"},
               r \in Reads, n \in 0..Chunks : C!Message(t, r, n) \in Truths(L)
  BY ClipboardConstants DEF C!Message, Answers, Truths

\* The kinds of a request and of an answer tell what it is about.
LEMMA RequestKinds ==
  ASSUME C!ClipboardAssumption, NEW m \in Requests
  PROVE  /\ m.type \in {"offer", "chunk", "complete"} => m.id \in Writes /\ m.n \in 0..Chunks
         /\ m.type \in {"request", "accept", "result"} => m.id \in Reads
         /\ m.type \in {"select", "drain"} => m.id = NoClipboard
         /\ m.id # NoClipboard => m.type \notin {"select", "drain"}
  BY ClipboardConstants DEF Requests, C!Marks

LEMMA AnswerKinds ==
  ASSUME NEW L, NEW m \in Truths(L)
  PROVE  /\ m.type \in {"writeAccept", "writeResult"} => m.id \in Writes
         /\ m.type \in {"readOffer", "readChunk", "readComplete", "readResult"} => m.id \in Reads
         /\ m.type \in {"writeAccept", "writeResult", "readOffer", "readChunk", "readComplete",
                        "readResult"}
         /\ m.n \in 0..Chunks
         /\ m.type = "writeResult" /\ m.n = 1 => m.id \in L
  BY DEF Truths, Answers

LEMMA WiderSeq ==
  ASSUME NEW S, NEW T, S \subseteq T, NEW s \in Seq(S)
  PROVE  s \in Seq(T)
<1>1. Len(s) \in Nat /\ s \in [1..Len(s) -> S]
  OBVIOUS
<1>2. s \in [1..Len(s) -> T]
  BY <1>1
<1> QED BY <1>1, <1>2, SeqDef

-----------------------------------------------------------------------------
(* The chain and the channel.                                                   *)

\* The chain is well formed after a step, and its drains are those of before,
\* or those behind the head.
ChainMoves ==
  /\ ChainWellFormed'
  /\ (\A i \in Drains' : i \in Drains) \/ (\A i \in Drains' : i + 1 \in Drains)

LEMMA ChainStays ==
  ASSUME ChainWellFormed, UNCHANGED C!chainVars
  PROVE  ChainMoves
  BY DEF C!chainVars, ChainMoves, ChainWellFormed, Drains

LEMMA ChainGrows ==
  ASSUME ChainWellFormed, NEW ms \in Seq(Requests), C!Up(ms)
  PROVE  /\ ChainWellFormed'
         /\ \A i \in Drains' : i \in Drains \/ \E j \in DOMAIN ms : i = Len(chain) + j /\ ms[j].type = "drain"
<1>1. chain' = chain \o ms /\ step' = step /\ chain' \in Seq(Requests)
  BY DEF C!Up, ChainWellFormed
<1>2. chain # <<>> => chain' # <<>> /\ Head(chain') = Head(chain)
  BY <1>1 DEF ChainWellFormed
<1>3. \A i \in DOMAIN chain' :
        \/ i \in DOMAIN chain /\ chain'[i] = chain[i]
        \/ \E j \in DOMAIN ms : i = Len(chain) + j /\ chain'[i] = ms[j]
  <2> SUFFICES ASSUME NEW i \in DOMAIN chain'
               PROVE  \/ i \in DOMAIN chain /\ chain'[i] = chain[i]
                      \/ \E j \in DOMAIN ms : i = Len(chain) + j /\ chain'[i] = ms[j]
    OBVIOUS
  <2>1. i \in 1..Len(chain) + Len(ms) /\ Len(chain) \in Nat /\ Len(ms) \in Nat
    BY <1>1 DEF ChainWellFormed
  <2>2. CASE i <= Len(chain)
    BY <1>1, <2>1, <2>2 DEF ChainWellFormed
  <2>3. CASE i > Len(chain)
    <3>1. i - Len(chain) \in DOMAIN ms /\ i = Len(chain) + (i - Len(chain))
      BY <2>1, <2>3
    <3>2. chain'[i] = ms[i - Len(chain)]
      BY <1>1, <2>1, <2>3 DEF ChainWellFormed
    <3> QED BY <3>1, <3>2
  <2> QED BY <2>1, <2>2, <2>3
<1>4. ChainWellFormed'
  BY <1>1, <1>2 DEF ChainWellFormed
<1> QED BY <1>3, <1>4 DEF Drains

LEMMA ChainAppends ==
  ASSUME ChainWellFormed, NEW ms \in Seq(Requests), C!Up(ms),
         \A j \in DOMAIN ms : ms[j].type # "drain"
  PROVE  ChainMoves
  BY ChainGrows DEF ChainMoves

LEMMA ChainPops ==
  ASSUME ChainWellFormed, chain # <<>>, C!Pop
  PROVE  ChainMoves /\ \A i \in Drains' : i + 1 \in Drains
<1>1. chain' = Tail(chain) /\ step' = "start" /\ chain' \in Seq(Requests)
  BY DEF C!Pop, ChainWellFormed
<1>2. ChainWellFormed'
  BY <1>1 DEF ChainWellFormed
<1>3. \A i \in DOMAIN chain' : i + 1 \in DOMAIN chain /\ chain'[i] = chain[i + 1]
  BY <1>1 DEF ChainWellFormed
<1> QED BY <1>2, <1>3 DEF ChainMoves, Drains

LEMMA DrainsKept ==
  ASSUME OneDrain, ChainMoves, UNCHANGED <<clipboardGeneration, clipboardTakeover>>
  PROVE  OneDrain'
<1>1. Drains' # {} => Drains # {}
  BY DEF ChainMoves
<1>2. \A i, j \in Drains' : i = j
  <2>1. CASE \A i \in Drains' : i \in Drains
    BY <2>1 DEF OneDrain
  <2>2. CASE \A i \in Drains' : i + 1 \in Drains
    <3>1. \A i \in Drains' : i \in Int
      BY DEF Drains, ChainMoves, ChainWellFormed
    <3>2. \A i, j \in Drains' : i + 1 = j + 1
      BY <2>2 DEF OneDrain
    <3> QED BY <3>1, <3>2
  <2> QED BY <2>1, <2>2 DEF ChainMoves
<1> QED BY <1>1, <1>2 DEF OneDrain

\* What is sent is true, and stays true when more writes land.
LEMMA SendsTruth ==
  ASSUME SessionTypes, down \in Seq(Truths(landed)), NEW ms \in Seq(Truths(landed')),
         landed \subseteq landed', C!Send(ms)
  PROVE  down' \in Seq(Truths(landed'))
<1>1. Truths(landed) \subseteq Truths(landed')
  BY DEF Truths
<1>2. down \in Seq(Truths(landed'))
  BY <1>1, WiderSeq
<1> QED BY <1>2 DEF C!Send

LEMMA CancelsAreTrue ==
  ASSUME C!ClipboardAssumption, CoreTypes, NEW L
  PROVE  /\ C!WriteCancelled \in Seq(Truths(L)) /\ C!ReadCancelled \in Seq(Truths(L))
         /\ C!WriteCancelled \o C!ReadCancelled \in Seq(Truths(L))
<1>1. C!WriteCancelled \in Seq(Truths(L))
  BY SomeAnswers DEF C!WriteCancelled, C!Failure, CoreTypes
<1>2. C!ReadCancelled \in Seq(Truths(L))
  <2>1. CASE reading.id = NoClipboard
    BY <2>1 DEF C!ReadCancelled
  <2>2. CASE reading.id # NoClipboard
    <3>1. reading.id \in Reads /\ 0 \in 0..Chunks
      BY <2>2, ClipboardConstants DEF CoreTypes
    <3> QED BY <2>2, <3>1, SomeAnswers DEF C!ReadCancelled, C!Failure
  <2> QED BY <2>1, <2>2
<1> QED BY <1>1, <1>2

\* The parts of the invariant, joined again.
LEMMA Joined ==
  ASSUME ClipboardInv, ChainMoves, UNCHANGED <<clipboardGeneration, clipboardTakeover>>,
         SessionTypes', CoreTypes', ViewerTypes', down' \in Seq(Truths(landed')),
         C!PastesAreOwn', C!ReportsAreTrue'
  PROVE  ClipboardInv'
  BY DrainsKept DEF ClipboardInv, ChainMoves

LEMMA HistoriesStay ==
  ASSUME ClipboardInv, UNCHANGED C!historyVars
  PROVE  /\ C!PastesAreOwn' /\ C!ReportsAreTrue' /\ landed' = landed
         /\ asker' = asker /\ pasted' = pasted /\ outcome' = outcome
  BY DEF ClipboardInv, C!historyVars, C!PastesAreOwn, C!ReportsAreTrue

-----------------------------------------------------------------------------
(* The Viewer.                                                                  *)

\* A write or a read is told to its caller; only a write that landed was done.
LEMMA ToldTruth ==
  ASSUME C!ClipboardAssumption, ClipboardInv, NEW o \in C!Ops, NEW what \in {"done", "failed"},
         C!Told(o, what),
         what = "done" => o \in Reads \cup landed, UNCHANGED <<asker, pasted, landed>>
  PROVE  /\ outcome' \in [C!Ops -> {"none", "done", "failed"}]
         /\ C!PastesAreOwn' /\ C!ReportsAreTrue'
<1>1. outcome' = [outcome EXCEPT ![o] = what] /\ outcome \in [C!Ops -> {"none", "done", "failed"}]
  BY DEF C!Told, ClipboardInv, SessionTypes
<1>2. outcome' \in [C!Ops -> {"none", "done", "failed"}]
  BY <1>1
<1>3. C!PastesAreOwn'
  BY DEF ClipboardInv, C!PastesAreOwn
<1>4. ASSUME NEW w \in Writes, outcome'[w] = "done"  PROVE w \in landed
  <2>1. CASE w = o
    BY <1>1, <1>4, <2>1, ClipboardConstants DEF C!Ops
  <2>2. CASE w # o
    BY <1>1, <1>4, <2>2 DEF C!Ops, ClipboardInv, C!ReportsAreTrue
  <2> QED BY <2>1, <2>2
<1> QED BY <1>2, <1>3, <1>4 DEF C!ReportsAreTrue

LEMMA StartsInv ==
  ASSUME C!ClipboardAssumption, ClipboardInv, NEW o \in C!Ops,
         \/ o \in Writes /\ C!StartWrite(o)
         \/ o \in Reads /\ C!StartRead(o)
  PROVE  ClipboardInv'
<1>1. /\ asker[o] = 0 /\ asker' = [asker EXCEPT ![o] = clipboardGeneration]
      /\ UNCHANGED <<C!sessionVars, C!coreVars, sender, down, pasted, landed, outcome>>
  BY DEF C!StartWrite, C!StartRead
<1>2. ChainMoves
  <2>1. 0 \in 0..Chunks
    BY ClipboardConstants
  <2>2. CASE o \in Writes /\ C!StartWrite(o)
    <3>1. C!Up(<<C!Message("offer", o, 0)>>)
      BY <2>2 DEF C!StartWrite
    <3>2. C!Message("offer", o, 0) \in Requests /\ C!Message("offer", o, 0).type # "drain"
      BY <2>1, <2>2, SomeRequests
    <3>3. /\ <<C!Message("offer", o, 0)>> \in Seq(Requests)
          /\ \A j \in DOMAIN <<C!Message("offer", o, 0)>> : <<C!Message("offer", o, 0)>>[j].type # "drain"
      BY <3>2
    <3> QED BY <3>1, <3>3, ChainAppends DEF ClipboardInv
  <2>3. CASE o \in Reads /\ C!StartRead(o)
    <3>1. C!Up(<<C!Message("request", o, 0)>>)
      BY <2>3 DEF C!StartRead
    <3>2. C!Message("request", o, 0) \in Requests /\ C!Message("request", o, 0).type # "drain"
      BY <2>1, <2>3, SomeRequests
    <3>3. /\ <<C!Message("request", o, 0)>> \in Seq(Requests)
          /\ \A j \in DOMAIN <<C!Message("request", o, 0)>> : <<C!Message("request", o, 0)>>[j].type # "drain"
      BY <3>2
    <3> QED BY <3>1, <3>3, ChainAppends DEF ClipboardInv
  <2> QED BY <2>2, <2>3
<1>3. SessionTypes'
  BY <1>1, ClipboardConstants DEF ClipboardInv, SessionTypes, C!sessionVars
<1>4. CoreTypes'
  BY <1>1 DEF ClipboardInv, CoreTypes, C!coreVars
<1>5. ViewerTypes'
  <2>1. CASE o \in Writes /\ C!StartWrite(o)
    <3>1. viewer' = [viewer EXCEPT !.write = o, !.accepted = FALSE]
      BY <2>1 DEF C!StartWrite
    <3> QED BY <1>1, <2>1, <3>1 DEF ClipboardInv, ViewerTypes
  <2>2. CASE o \in Reads /\ C!StartRead(o)
    <3>1. viewer' = [viewer EXCEPT !.read = o, !.offered = FALSE, !.got = 0]
      BY <2>2 DEF C!StartRead
    <3>2. 0 \in 0..Chunks /\ ViewerTypes
      BY ClipboardConstants DEF ClipboardInv
    <3> QED BY <1>1, <2>2, <3>1, <3>2 DEF ViewerTypes
  <2> QED BY <2>1, <2>2
<1>6. C!PastesAreOwn' /\ C!ReportsAreTrue'
  <2>1. ASSUME NEW w \in Writes, pasted[w] # 0  PROVE pasted[w] = asker'[w]
    BY <1>1, <2>1 DEF ClipboardInv, C!PastesAreOwn, SessionTypes, C!Ops
  <2> QED BY <1>1, <2>1 DEF ClipboardInv, C!PastesAreOwn, C!ReportsAreTrue
<1> QED BY <1>1, <1>2, <1>3, <1>4, <1>5, <1>6, Joined DEF ClipboardInv, C!sessionVars

LEMMA SenderInv ==
  ASSUME C!ClipboardAssumption, ClipboardInv, NEW w \in Writes, C!SenderTurn(w)
  PROVE  ClipboardInv'
<1> DEFINE chunk == C!Message("chunk", w, sender[w])
           end == C!Message("complete", w, 0)
<1>1. /\ C!Up(<<chunk, end>>) \/ C!Up(<<chunk>>)
      /\ sender' = [sender EXCEPT ![w] = IF sender[w] = Chunks \/ viewer.write # w THEN 0 ELSE sender[w] + 1]
      /\ UNCHANGED <<C!sessionVars, C!coreVars, viewer, down, C!historyVars>>
  BY DEF C!SenderTurn
<1>2. sender[w] \in 0..Chunks /\ 0 \in 0..Chunks
  BY ClipboardConstants DEF ClipboardInv, ViewerTypes
<1>3. /\ chunk \in Requests /\ chunk.type # "drain"
      /\ end \in Requests /\ end.type # "drain"
  BY <1>2, SomeRequests
<1>4. ChainMoves
  <2> HIDE DEF chunk, end
  <2>1. /\ <<chunk, end>> \in Seq(Requests) /\ \A j \in DOMAIN <<chunk, end>> : <<chunk, end>>[j].type # "drain"
        /\ <<chunk>> \in Seq(Requests) /\ \A j \in DOMAIN <<chunk>> : <<chunk>>[j].type # "drain"
    BY <1>3
  <2> QED BY <1>1, <2>1, ChainAppends DEF ClipboardInv
<1>5. SessionTypes' /\ CoreTypes'
  BY <1>1 DEF ClipboardInv, SessionTypes, CoreTypes, C!coreVars, C!sessionVars, C!historyVars
<1>6. ViewerTypes'
  <2>1. sender[w] # Chunks => sender[w] + 1 \in 0..Chunks
    BY <1>2, ClipboardConstants
  <2> QED BY <1>1, <1>2, <2>1 DEF ClipboardInv, ViewerTypes
<1>7. C!PastesAreOwn' /\ C!ReportsAreTrue' /\ landed' = landed
  BY <1>1, HistoriesStay
<1> QED BY <1>1, <1>4, <1>5, <1>6, <1>7, Joined DEF ClipboardInv, C!sessionVars

\* The read fails; Core may be told of it.
LEMMA ReadFails ==
  ASSUME C!ClipboardAssumption, ClipboardInv, viewer.read # NoClipboard, NEW known \in BOOLEAN,
         C!FailRead(known)
  PROVE  /\ ChainMoves /\ viewer' = [viewer EXCEPT !.read = NoClipboard]
         /\ viewer.read \in C!Ops /\ C!Told(viewer.read, "failed")
<1>1. viewer.read \in Reads /\ viewer.read \in C!Ops
  BY DEF ClipboardInv, ViewerTypes, C!Ops
<1> DEFINE m == C!Message("result", viewer.read, 0)
<1>2. m \in Requests /\ m.type # "drain"
  BY <1>1, SomeRequests, ClipboardConstants
<1>3. ChainMoves
  <2>1. CASE ~known
    BY <2>1, ChainStays DEF C!FailRead, ClipboardInv
  <2>2. CASE known
    <3>1. C!Up(<<m>>)
      BY <2>2 DEF C!FailRead
    <3> HIDE DEF m
    <3>2. <<m>> \in Seq(Requests) /\ \A j \in DOMAIN <<m>> : <<m>>[j].type # "drain"
      BY <1>2
    <3> QED BY <3>1, <3>2, ChainAppends DEF ClipboardInv
  <2> QED BY <2>1, <2>2
<1> QED BY <1>1, <1>3 DEF C!FailRead

LEMMA ViewerTimeoutsInv ==
  ASSUME C!ClipboardAssumption, ClipboardInv, C!ViewerWriteTimeout \/ C!ViewerReadTimeout
  PROVE  ClipboardInv'
<1>1. /\ UNCHANGED <<C!sessionVars, C!coreVars, sender, down, asker, pasted, landed>>
      /\ viewer' = [viewer EXCEPT !.write = NoClipboard] \/ viewer' = [viewer EXCEPT !.read = NoClipboard]
      /\ \E o \in C!Ops : C!Told(o, "failed")
      /\ ChainMoves
  <2>1. CASE C!ViewerWriteTimeout
    <3>1. viewer.write \in C!Ops /\ C!Told(viewer.write, "failed")
      BY <2>1 DEF C!ViewerWriteTimeout, ClipboardInv, ViewerTypes, C!Ops
    <3>2. ChainMoves
      BY <2>1, ChainStays DEF C!ViewerWriteTimeout, ClipboardInv
    <3> QED BY <2>1, <3>1, <3>2 DEF C!ViewerWriteTimeout
  <2>2. CASE C!ViewerReadTimeout
    <3>1. viewer.offered \in BOOLEAN /\ viewer.read # NoClipboard /\ C!FailRead(viewer.offered)
      BY <2>2 DEF C!ViewerReadTimeout, ClipboardInv, ViewerTypes
    <3> QED BY <2>2, <3>1, ReadFails DEF C!ViewerReadTimeout
  <2> QED BY <2>1, <2>2
<1>2. PICK o \in C!Ops : C!Told(o, "failed")
  BY <1>1
<1>3. /\ outcome' \in [C!Ops -> {"none", "done", "failed"}] /\ C!PastesAreOwn' /\ C!ReportsAreTrue'
  BY <1>1, <1>2, ToldTruth
<1>4. SessionTypes' /\ CoreTypes'
  BY <1>1, <1>3 DEF ClipboardInv, SessionTypes, CoreTypes, C!coreVars, C!sessionVars
<1>5. ViewerTypes'
  BY <1>1 DEF ClipboardInv, ViewerTypes
<1> QED BY <1>1, <1>3, <1>4, <1>5, Joined DEF ClipboardInv, C!sessionVars

\* The channels are gone.
LEMMA UnlinkTruth ==
  ASSUME C!ClipboardAssumption, ClipboardInv, C!Unlink, UNCHANGED <<asker, pasted, landed>>
  PROVE  /\ ViewerTypes' /\ down' \in Seq(Truths(landed')) /\ linked' \in BOOLEAN
         /\ outcome' \in [C!Ops -> {"none", "done", "failed"}] /\ C!PastesAreOwn' /\ C!ReportsAreTrue'
<1>1. ViewerTypes'
  BY ClipboardConstants DEF C!Unlink, C!NoViewer, ViewerTypes
<1>2. outcome' \in [C!Ops -> {"none", "done", "failed"}]
  BY DEF C!Unlink, ClipboardInv, SessionTypes
<1>3. C!PastesAreOwn' /\ C!ReportsAreTrue'
  <2>1. C!PastesAreOwn'
    BY DEF ClipboardInv, C!PastesAreOwn
  <2>2. \A o \in C!Ops : outcome'[o] = "done" => outcome[o] = "done"
    BY DEF C!Unlink
  <2>3. C!ReportsAreTrue'
    BY <2>2 DEF ClipboardInv, C!ReportsAreTrue, C!Ops
  <2> QED BY <2>1, <2>3
<1>4. down' = <<>> /\ linked' = FALSE
  BY DEF C!Unlink
<1>5. down' \in Seq(Truths(landed'))
  BY <1>4
<1>6. linked' \in BOOLEAN
  BY <1>4
<1> QED BY <1>1, <1>2, <1>3, <1>5, <1>6

LEMMA ViewerGoesInv ==
  ASSUME C!ClipboardAssumption, ClipboardInv, C!Unlink,
         UNCHANGED <<clipboardGeneration, clipboardTakeover, clipboardGranted, closed, C!chainVars,
                     C!coreVars, asker, pasted, landed>>
  PROVE  ClipboardInv'
<1>1. ChainMoves
  BY ChainStays DEF ClipboardInv
<1>2. SessionTypes' /\ CoreTypes'
  BY UnlinkTruth DEF ClipboardInv, SessionTypes, CoreTypes, C!coreVars
<1> QED BY <1>1, <1>2, UnlinkTruth, Joined DEF ClipboardInv

\* The first message has been taken off the channel.
LEMMA TakenMessage ==
  ASSUME ClipboardInv, down # <<>>
  PROVE  Head(down) \in Truths(landed) /\ Tail(down) \in Seq(Truths(landed))
  BY DEF ClipboardInv

LEMMA WriteAnsweredInv ==
  ASSUME C!ClipboardAssumption, ClipboardInv, NEW m \in Truths(landed), C!Taken, down # <<>>,
         UNCHANGED <<C!sessionVars, C!coreVars, asker, pasted, landed>>,
         \/ m.type = "writeAccept" /\ C!WriteAccepted(m)
         \/ m.type = "writeResult" /\ C!WriteResult(m)
         \/ m.type = "readResult" /\ C!ReadResult(m)
  PROVE  ClipboardInv'
<1>1. /\ UNCHANGED C!chainVars /\ down' \in Seq(Truths(landed'))
      /\ m.id \in C!Ops /\ m.n \in 0..Chunks
      /\ m.type = "writeAccept" => m.id \in Writes
  BY TakenMessage, AnswerKinds DEF C!Taken, C!WriteAccepted, C!WriteResult, C!ReadResult, C!Ops
<1>2. /\ outcome' \in [C!Ops -> {"none", "done", "failed"}]
      /\ C!PastesAreOwn' /\ C!ReportsAreTrue'
  <2>1. CASE m.type = "writeAccept" /\ C!WriteAccepted(m)
    BY <2>1 DEF C!WriteAccepted, ClipboardInv, SessionTypes, C!PastesAreOwn, C!ReportsAreTrue
  <2>2. CASE m.type = "writeResult" /\ C!WriteResult(m)
    <3>1. CASE m.n = 1
      <4>1. C!Told(m.id, "done") /\ m.id \in landed
        BY <2>2, <3>1, AnswerKinds DEF C!WriteResult
      <4> QED BY <1>1, <4>1, ToldTruth
    <3>2. CASE m.n # 1
      <4>1. C!Told(m.id, "failed")
        BY <2>2, <3>2 DEF C!WriteResult
      <4> QED BY <1>1, <4>1, ToldTruth
    <3> QED BY <3>1, <3>2
  <2>3. CASE m.type = "readResult" /\ C!ReadResult(m)
    <3>1. C!Told(m.id, "failed")
      BY <2>3 DEF C!ReadResult
    <3> QED BY <1>1, <3>1, ToldTruth
  <2> QED BY <2>1, <2>2, <2>3
<1>3. SessionTypes' /\ CoreTypes'
  BY <1>2 DEF ClipboardInv, SessionTypes, CoreTypes, C!coreVars, C!sessionVars
<1>4. ViewerTypes'
  <2>1. ViewerTypes /\ 1 \in 0..Chunks
    BY ClipboardConstants DEF ClipboardInv
  <2>2. /\ \/ viewer' = [viewer EXCEPT !.accepted = TRUE]
           \/ viewer' = [viewer EXCEPT !.write = NoClipboard]
           \/ viewer' = [viewer EXCEPT !.read = NoClipboard]
        /\ sender' = sender \/ (m.id \in Writes /\ sender' = [sender EXCEPT ![m.id] = 1])
    BY <1>1 DEF C!WriteAccepted, C!WriteResult, C!ReadResult
  <2>3. sender' \in [Writes -> 0..Chunks]
    BY <2>1, <2>2 DEF ViewerTypes
  <2> QED BY <2>1, <2>2, <2>3 DEF ViewerTypes
<1>5. ChainMoves
  BY <1>1, ChainStays DEF ClipboardInv
<1> QED BY <1>1, <1>2, <1>3, <1>4, <1>5, Joined DEF ClipboardInv, C!sessionVars

\* #handleFileMessage for what belongs to a read
LEMMA ReadAnsweredInv ==
  ASSUME C!ClipboardAssumption, ClipboardInv, NEW m \in Truths(landed), C!Taken, down # <<>>,
         UNCHANGED <<C!sessionVars, C!coreVars, asker, pasted, landed>>,
         \/ m.type = "readOffer" /\ C!ReadOffer(m)
         \/ m.type = "readChunk" /\ C!ReadChunk(m)
         \/ m.type = "readComplete" /\ C!ReadComplete(m) /\ C!Matches(m)
  PROVE  ClipboardInv'
<1>1. /\ UNCHANGED sender /\ down' \in Seq(Truths(landed'))
      /\ m.id \in Reads /\ m.id \in C!Ops /\ m.n \in 0..Chunks
  BY TakenMessage, AnswerKinds DEF C!Taken, C!ReadOffer, C!ReadChunk, C!ReadComplete, C!Ops
<1>2. 0 \in 0..Chunks
  BY ClipboardConstants
<1> DEFINE Good == /\ ChainMoves /\ outcome' \in [C!Ops -> {"none", "done", "failed"}]
                   /\ C!PastesAreOwn' /\ C!ReportsAreTrue' /\ ViewerTypes'
<1>3. ASSUME UNCHANGED outcome
      PROVE  outcome' \in [C!Ops -> {"none", "done", "failed"}] /\ C!PastesAreOwn' /\ C!ReportsAreTrue'
  BY <1>3 DEF ClipboardInv, SessionTypes, C!PastesAreOwn, C!ReportsAreTrue
<1>4. ASSUME viewer.read # NoClipboard, C!FailRead(TRUE)  PROVE Good
  <2>1. /\ ChainMoves /\ viewer' = [viewer EXCEPT !.read = NoClipboard]
        /\ viewer.read \in C!Ops /\ C!Told(viewer.read, "failed")
    BY <1>4, ReadFails
  <2>2. outcome' \in [C!Ops -> {"none", "done", "failed"}] /\ C!PastesAreOwn' /\ C!ReportsAreTrue'
    BY <2>1, ToldTruth
  <2>3. ViewerTypes'
    BY <1>1, <2>1 DEF ClipboardInv, ViewerTypes
  <2> QED BY <2>1, <2>2, <2>3
<1>5. ASSUME NEW t \in {"accept", "result"}, NEW n \in {0, 1}, C!Up(<<C!Message(t, m.id, n)>>)
      PROVE  ChainMoves
  <2>1. n \in 0..Chunks
    BY ClipboardConstants
  <2> DEFINE r == C!Message(t, m.id, n)
  <2>2. r \in Requests /\ r.type # "drain"
    BY <1>1, <2>1, SomeRequests
  <2>3. C!Up(<<r>>)
    BY <1>5
  <2> HIDE DEF r
  <2>4. <<r>> \in Seq(Requests) /\ \A j \in DOMAIN <<r>> : <<r>>[j].type # "drain"
    BY <2>2
  <2> QED BY <2>3, <2>4, ChainAppends DEF ClipboardInv
<1>6. ASSUME m.type = "readOffer" /\ C!ReadOffer(m)  PROVE Good
  <2>1. viewer' = [viewer EXCEPT !.offered = TRUE] /\ UNCHANGED outcome /\ C!Up(<<C!Message("accept", m.id, 0)>>)
    BY <1>6 DEF C!ReadOffer
  <2>2. ViewerTypes'
    BY <1>1, <2>1 DEF ClipboardInv, ViewerTypes
  <2> QED BY <1>3, <1>5, <2>1, <2>2
<1>7. ASSUME m.type = "readChunk" /\ C!ReadChunk(m)  PROVE Good
  <2>1. CASE viewer.read = m.id /\ viewer.offered /\ m.n = viewer.got + 1
    <3>1. viewer' = [viewer EXCEPT !.got = m.n] /\ UNCHANGED <<C!chainVars, outcome>>
      BY <1>7, <2>1 DEF C!ReadChunk
    <3>2. ViewerTypes'
      BY <1>1, <3>1 DEF ClipboardInv, ViewerTypes
    <3> QED BY <1>3, <3>1, <3>2, ChainStays DEF ClipboardInv
  <2>2. CASE ~(viewer.read = m.id /\ viewer.offered /\ m.n = viewer.got + 1) /\ viewer.read # NoClipboard
    BY <1>4, <1>7, <2>2 DEF C!ReadChunk
  <2>3. CASE ~(viewer.read = m.id /\ viewer.offered /\ m.n = viewer.got + 1) /\ viewer.read = NoClipboard
    <3>1. UNCHANGED <<viewer, C!chainVars, outcome>>
      BY <1>7, <2>3 DEF C!ReadChunk
    <3>2. ViewerTypes'
      BY <1>1, <3>1 DEF ClipboardInv, ViewerTypes
    <3> QED BY <1>3, <3>1, <3>2, ChainStays DEF ClipboardInv
  <2> QED BY <2>1, <2>2, <2>3
<1>8. ASSUME m.type = "readComplete" /\ C!ReadComplete(m) /\ C!Matches(m)  PROVE Good
  <2>1. viewer.read = m.id /\ viewer.read # NoClipboard
    BY <1>1, <1>8, ClipboardConstants DEF C!Matches
  <2>2. CASE viewer.got = Chunks
    <3>1. /\ C!Told(m.id, "done") /\ viewer' = [viewer EXCEPT !.read = NoClipboard]
          /\ C!Up(<<C!Message("result", m.id, 1)>>)
      BY <1>8, <2>2 DEF C!ReadComplete
    <3>2. outcome' \in [C!Ops -> {"none", "done", "failed"}] /\ C!PastesAreOwn' /\ C!ReportsAreTrue'
      BY <1>1, <3>1, ToldTruth
    <3>3. ViewerTypes'
      BY <1>1, <3>1 DEF ClipboardInv, ViewerTypes
    <3> QED BY <1>5, <3>1, <3>2, <3>3
  <2>3. CASE viewer.got # Chunks
    BY <1>4, <1>8, <2>1, <2>3 DEF C!ReadComplete
  <2> QED BY <2>2, <2>3
<1>9. Good
  BY <1>6, <1>7, <1>8
<1>10. SessionTypes' /\ CoreTypes'
  BY <1>9 DEF ClipboardInv, SessionTypes, CoreTypes, C!coreVars, C!sessionVars
<1> QED BY <1>1, <1>9, <1>10, Joined DEF ClipboardInv, C!sessionVars

LEMMA ReceivesInv ==
  ASSUME C!ClipboardAssumption, ClipboardInv, down # <<>>, C!ViewerReceives(Head(down))
  PROVE  ClipboardInv'
<1> DEFINE m == Head(down)
<1>1. m \in Truths(landed) /\ UNCHANGED <<C!coreVars, asker, pasted, landed>>
  BY TakenMessage DEF C!ViewerReceives
<1>2. m.type \in {"writeAccept", "writeResult", "readOffer", "readChunk", "readComplete", "readResult"}
  BY <1>1, AnswerKinds
<1>3. CASE m.type = "readChunk" /\ C!ReadChunk(m) /\ C!Taken /\ UNCHANGED C!sessionVars
  BY <1>1, <1>3, ReadAnsweredInv
<1>4. CASE C!ViewerFails
  BY <1>1, <1>4, ViewerGoesInv DEF C!ViewerFails
<1>5. CASE /\ m.type # "readChunk" /\ C!Matches(m) /\ C!Taken /\ UNCHANGED C!sessionVars
           /\ CASE m.type = "writeAccept" -> C!WriteAccepted(m)
                [] m.type = "writeResult" -> C!WriteResult(m)
                [] m.type = "readOffer" -> C!ReadOffer(m)
                [] m.type = "readComplete" -> C!ReadComplete(m)
                [] m.type = "readResult" -> C!ReadResult(m)
  <2>1. CASE m.type \in {"writeAccept", "writeResult", "readResult"}
    <3>1. \/ m.type = "writeAccept" /\ C!WriteAccepted(m)
          \/ m.type = "writeResult" /\ C!WriteResult(m)
          \/ m.type = "readResult" /\ C!ReadResult(m)
      BY <1>5, <2>1
    <3> QED BY <1>1, <1>5, <3>1, WriteAnsweredInv
  <2>2. CASE m.type \in {"readOffer", "readComplete"}
    <3>1. \/ m.type = "readOffer" /\ C!ReadOffer(m)
          \/ m.type = "readComplete" /\ C!ReadComplete(m) /\ C!Matches(m)
      BY <1>5, <2>2
    <3> QED BY <1>1, <1>5, <3>1, ReadAnsweredInv
  <2> QED BY <1>2, <1>5, <2>1, <2>2
<1> QED BY <1>3, <1>4, <1>5 DEF C!ViewerReceives

-----------------------------------------------------------------------------
(* Core.                                                                        *)

\* What Core does leaves the Session, the Viewer and the histories alone, but
\* for the page; it sends what is true.
LEMMA CoreTurn ==
  ASSUME ClipboardInv, ChainMoves, CoreTypes', NEW ms \in Seq(Truths(landed')), C!Send(ms) \/ C!Quiet,
         UNCHANGED <<C!sessionVars, C!viewerVars, asker, outcome>>,
         landed \subseteq landed', landed' \in SUBSET Writes,
         pasted' \in [Writes -> 0..MaxViewers], C!PastesAreOwn'
  PROVE  ClipboardInv'
<1>1. SessionTypes'
  BY DEF ClipboardInv, SessionTypes, C!sessionVars
<1>2. ViewerTypes'
  BY DEF ClipboardInv, ViewerTypes, C!viewerVars
<1>3. down' \in Seq(Truths(landed'))
  <2>1. CASE C!Send(ms)
    BY <2>1, SendsTruth DEF ClipboardInv
  <2>2. CASE C!Quiet
    <3>1. Truths(landed) \subseteq Truths(landed')
      BY DEF Truths
    <3>2. down \in Seq(Truths(landed'))
      BY <3>1, WiderSeq DEF ClipboardInv
    <3> QED BY <2>2, <3>2 DEF C!Quiet
  <2> QED BY <2>1, <2>2
<1>4. C!ReportsAreTrue'
  BY DEF ClipboardInv, C!ReportsAreTrue
<1> QED BY <1>1, <1>2, <1>3, <1>4, Joined DEF C!sessionVars

\* The same for a turn that leaves the histories alone altogether.
LEMMA CoreTurnInv ==
  ASSUME ClipboardInv, ChainMoves, CoreTypes', NEW ms \in Seq(Truths(landed)), C!Send(ms) \/ C!Quiet,
         UNCHANGED <<C!sessionVars, C!viewerVars, C!historyVars>>
  PROVE  ClipboardInv'
<1>1. /\ C!PastesAreOwn' /\ C!ReportsAreTrue' /\ landed' = landed
      /\ asker' = asker /\ pasted' = pasted /\ outcome' = outcome
  BY HistoriesStay
<1>2. /\ landed \in SUBSET Writes /\ pasted \in [Writes -> 0..MaxViewers]
  BY DEF ClipboardInv, SessionTypes
<1> QED BY <1>1, <1>2, CoreTurn

\* The head of the chain, and what it is.
LEMMA AtHead ==
  ASSUME C!ClipboardAssumption, ClipboardInv, NEW s \in {"start", "paste", "read"}, C!At(s)
  PROVE  /\ chain # <<>> /\ C!Head1 \in Requests /\ ChainWellFormed /\ step = s
         /\ C!Pop => ChainMoves
         /\ s = "paste" => C!Head1.type = "complete" /\ C!Head1.id \in Writes
         /\ s = "read" => C!Head1.type = "request" /\ C!Head1.id \in Reads
<1>1. chain # <<>> /\ ChainWellFormed /\ step = s
  BY DEF C!At, ClipboardInv
<1>2. C!Head1 \in Requests
  BY <1>1 DEF C!Head1, ChainWellFormed
<1>3. C!Pop => ChainMoves
  BY <1>1, ChainPops
<1>4. /\ s = "paste" => C!Head1.type = "complete"
      /\ s = "read" => C!Head1.type = "request"
  BY <1>1 DEF ChainWellFormed, C!Head1
<1> QED BY <1>1, <1>2, <1>3, <1>4, RequestKinds

LEMMA WritesInv ==
  ASSUME C!ClipboardAssumption, ClipboardInv, C!WriteOffered \/ C!WriteChunk \/ C!WriteUnknown
  PROVE  ClipboardInv'
<1>1. C!At("start") /\ C!Pop /\ UNCHANGED <<C!sessionVars, C!viewerVars, C!historyVars>>
  BY DEF C!WriteOffered, C!WriteChunk, C!WriteUnknown, C!HeadIs, C!coreVars
<1>2. C!Head1 \in Requests /\ ChainMoves /\ CoreTypes
  BY <1>1, AtHead DEF ClipboardInv
<1>3. CASE C!WriteOffered
  <2>1. C!Head1.id \in Writes /\ 0 \in 0..Chunks
    BY <1>2, <1>3, RequestKinds, ClipboardConstants DEF C!WriteOffered, C!HeadIs
  <2>2. CoreTypes'
    <3>1. writing' = [id |-> C!Head1.id, got |-> 0, timer |-> TRUE] /\ UNCHANGED <<reading, stream>>
      BY <1>3 DEF C!WriteOffered
    <3> QED BY <1>2, <2>1, <3>1 DEF CoreTypes
  <2> DEFINE m == C!Message("writeAccept", C!Head1.id, 0)
  <2>3. m \in Truths(landed) /\ C!WriteCancelled \in Seq(Truths(landed))
    BY <1>2, <2>1, SomeAnswers, CancelsAreTrue
  <2>4. C!Send(Append(C!WriteCancelled, m))
    BY <1>3 DEF C!WriteOffered
  <2> HIDE DEF m
  <2>5. Append(C!WriteCancelled, m) \in Seq(Truths(landed))
    BY <2>3
  <2> QED BY <1>1, <1>2, <2>2, <2>4, <2>5, CoreTurnInv
<1>4. CASE C!WriteChunk
  <2>1. CoreTypes'
    <3>1. /\ \/ writing' = writing
             \/ writing' = [writing EXCEPT !.got = writing.got + 1, !.timer = TRUE] /\ C!Head1.n = writing.got + 1
          /\ UNCHANGED <<reading, stream>> /\ C!Head1.type = "chunk"
      BY <1>4 DEF C!WriteChunk, C!HeadIs
    <3>2. C!Head1.n \in 0..Chunks
      BY <1>2, <3>1, RequestKinds
    <3> QED BY <1>2, <3>1, <3>2 DEF CoreTypes
  <2>2. C!Quiet /\ <<>> \in Seq(Truths(landed))
    BY <1>4 DEF C!WriteChunk, C!Quiet
  <2> QED BY <1>1, <1>2, <2>1, <2>2, CoreTurnInv
<1>5. CASE C!WriteUnknown
  <2>1. CoreTypes' /\ C!Quiet /\ <<>> \in Seq(Truths(landed))
    BY <1>2, <1>5 DEF C!WriteUnknown, C!Quiet, C!coreVars, CoreTypes
  <2> QED BY <1>1, <1>2, <2>1, CoreTurnInv
<1> QED BY <1>3, <1>4, <1>5

LEMMA HeadRefusedInv ==
  ASSUME C!ClipboardAssumption, ClipboardInv, C!HeadRefused
  PROVE  ClipboardInv'
<1>1. C!At("start") /\ C!Pop /\ UNCHANGED <<C!sessionVars, C!coreVars, C!viewerVars, down,
                                            C!historyVars>>
  BY DEF C!HeadRefused
<1>2. ChainMoves
  BY <1>1, AtHead
<1>3. CoreTypes' /\ C!Quiet /\ <<>> \in Seq(Truths(landed))
  BY <1>1 DEF ClipboardInv, CoreTypes, C!coreVars, C!Quiet
<1> QED BY <1>1, <1>2, <1>3, CoreTurnInv

\* The paste starts for the generation that asked for it.
LEMMA PasteStartsInv ==
  ASSUME C!ClipboardAssumption, ClipboardInv, C!PasteStarts
  PROVE  ClipboardInv'
<1>1. C!At("start") /\ C!Head1 \in Requests /\ chain # <<>> /\ C!Head1.type = "complete"
  BY AtHead DEF C!PasteStarts, C!HeadIs
<1>2. /\ C!Head1.id \in Writes /\ asker[C!Head1.id] = clipboardGeneration /\ clipboardGeneration \in 0..MaxViewers
  BY <1>1, RequestKinds DEF C!PasteStarts, C!MayServe, ClipboardInv, SessionTypes
<1>3. /\ pasted' = [pasted EXCEPT ![C!Head1.id] = clipboardGeneration]
      /\ writing' = [writing EXCEPT !.timer = FALSE]
      /\ chain' = chain /\ step' = "paste"
      /\ UNCHANGED <<C!sessionVars, reading, stream, C!viewerVars, down, asker, landed, outcome>>
  BY DEF C!PasteStarts, C!Await
<1>4. ChainMoves
  <2>1. ChainWellFormed'
    BY <1>1, <1>3 DEF ClipboardInv, ChainWellFormed, C!Head1
  <2> QED BY <1>3, <2>1 DEF ChainMoves, Drains
<1>5. CoreTypes'
  BY <1>3 DEF ClipboardInv, CoreTypes
<1>6. pasted' \in [Writes -> 0..MaxViewers] /\ C!PastesAreOwn'
  <2>1. pasted \in [Writes -> 0..MaxViewers]
    BY DEF ClipboardInv, SessionTypes
  <2>2. \A w \in Writes : pasted'[w] # 0 => pasted'[w] = asker'[w]
    BY <1>2, <1>3, <2>1 DEF ClipboardInv, C!PastesAreOwn
  <2> QED BY <1>2, <1>3, <2>1, <2>2 DEF C!PastesAreOwn
<1>7. C!Quiet /\ <<>> \in Seq(Truths(landed')) /\ landed' \in SUBSET Writes
  BY <1>3 DEF C!Quiet, ClipboardInv, SessionTypes
<1> QED BY <1>3, <1>4, <1>5, <1>6, <1>7, CoreTurn

LEMMA PasteEndsInv ==
  ASSUME C!ClipboardAssumption, ClipboardInv, NEW ok \in BOOLEAN, C!PasteEnds(ok)
  PROVE  ClipboardInv'
<1>1. C!At("paste") /\ C!Pop /\ UNCHANGED <<C!sessionVars, reading, stream, C!viewerVars, asker,
                                            pasted, outcome>>
  BY DEF C!PasteEnds
<1>2. ChainMoves /\ C!Head1.id \in Writes
  BY <1>1, AtHead
<1>3. /\ landed' = IF ok THEN landed \cup {C!Head1.id} ELSE landed
      /\ landed \subseteq landed' /\ landed' \in SUBSET Writes
      /\ ok => C!Head1.id \in landed'
  BY <1>2 DEF C!PasteEnds, ClipboardInv, SessionTypes
<1>4. writing' = C!NoWrite \/ writing' = writing
  BY DEF C!PasteEnds
<1>5. CoreTypes'
  <2>1. CoreTypes /\ C!NoWrite \in [id : Writes \cup {NoClipboard}, got : 0..Chunks, timer : BOOLEAN]
    BY ClipboardConstants DEF ClipboardInv, C!NoWrite
  <2> QED BY <1>1, <1>4, <2>1 DEF CoreTypes
<1>6. pasted' \in [Writes -> 0..MaxViewers] /\ C!PastesAreOwn'
  BY <1>1 DEF ClipboardInv, SessionTypes, C!PastesAreOwn
<1>7. PICK ms \in Seq(Truths(landed')) : C!Send(ms) \/ C!Quiet
  <2>1. CASE writing.id = C!Head1.id
    <3> DEFINE m == C!Message("writeResult", C!Head1.id, IF ok THEN 1 ELSE 0)
    <3>1. m \in Truths(landed')
      <4>1. CASE ok
        <5>1. C!Head1.id \in Writes \cap landed'
          BY <1>2, <1>3, <4>1
        <5> QED BY <4>1, <5>1, SomeAnswers
      <4>2. CASE ~ok
        BY <1>2, <4>2, SomeAnswers
      <4> QED BY <4>1, <4>2
    <3>2. C!Send(<<m>>)
      BY <2>1 DEF C!PasteEnds
    <3> HIDE DEF m
    <3>3. <<m>> \in Seq(Truths(landed'))
      BY <3>1
    <3> QED BY <3>2, <3>3
  <2>2. CASE writing.id # C!Head1.id
    <3>1. C!Quiet /\ <<>> \in Seq(Truths(landed'))
      BY <2>2 DEF C!PasteEnds, C!Quiet
    <3> QED BY <3>1
  <2> QED BY <2>1, <2>2
<1> QED BY <1>1, <1>2, <1>3, <1>5, <1>6, <1>7, CoreTurn

LEMMA ReadsInv ==
  ASSUME C!ClipboardAssumption, ClipboardInv,
         C!ReadRequested \/ C!ReadObtained \/ C!ReadUnobtained \/ C!ReadAccepted \/ C!ReadFinished
  PROVE  ClipboardInv'
<1>1. UNCHANGED <<C!sessionVars, writing, C!viewerVars, C!historyVars>>
  BY DEF C!ReadRequested, C!ReadObtained, C!ReadUnobtained, C!ReadAccepted, C!ReadFinished, C!coreVars
<1>2. /\ CoreTypes /\ 0 \in 0..Chunks /\ 1 \in 0..Chunks /\ clipboardGeneration \in 0..MaxViewers
      /\ C!NoRead \in [id : Reads \cup {NoClipboard}, generation : 0..MaxViewers, accepted : BOOLEAN]
  BY ClipboardConstants DEF ClipboardInv, SessionTypes, C!NoRead
<1>3. CASE C!ReadRequested
  <2>1. C!At("start") /\ C!Head1.type = "request" /\ chain' = chain /\ step' = "read"
    BY <1>3 DEF C!ReadRequested, C!HeadIs, C!Await
  <2>2. ChainMoves
    <3>1. ChainWellFormed'
      BY <2>1, AtHead DEF ChainWellFormed, C!Head1
    <3> QED BY <2>1, <3>1 DEF ChainMoves, Drains
  <2>3. CoreTypes' /\ C!Send(C!ReadCancelled)
    BY <1>1, <1>2, <1>3 DEF C!ReadRequested, CoreTypes
  <2>4. C!ReadCancelled \in Seq(Truths(landed))
    BY <1>2, CancelsAreTrue
  <2> QED BY <1>1, <2>2, <2>3, <2>4, CoreTurnInv
<1>4. CASE C!ReadObtained \/ C!ReadUnobtained
  <2>1. C!At("read") /\ C!Pop
    BY <1>4 DEF C!ReadObtained, C!ReadUnobtained
  <2>2. ChainMoves /\ C!Head1.id \in Reads
    BY <2>1, AtHead
  <2>3. CoreTypes'
    <3>1. /\ stream' = stream
          /\ \/ reading' = reading
             \/ reading' = [id |-> C!Head1.id, generation |-> clipboardGeneration, accepted |-> FALSE]
      BY <1>4 DEF C!ReadObtained, C!ReadUnobtained, C!coreVars
    <3>2. reading' \in [id : Reads \cup {NoClipboard}, generation : 0..MaxViewers, accepted : BOOLEAN]
      <4>1. [id |-> C!Head1.id, generation |-> clipboardGeneration, accepted |-> FALSE]
              \in [id : Reads \cup {NoClipboard}, generation : 0..MaxViewers, accepted : BOOLEAN]
        BY <1>2, <2>2
      <4> QED BY <1>2, <3>1, <4>1 DEF CoreTypes
    <3> QED BY <1>1, <1>2, <3>1, <3>2 DEF CoreTypes
  <2>4. PICK t \in {"readOffer", "readResult"} : C!Send(<<C!Message(t, C!Head1.id, 0)>>)
    BY <1>4 DEF C!ReadObtained, C!ReadUnobtained, C!Failure
  <2> DEFINE m == C!Message(t, C!Head1.id, 0)
  <2>5. m \in Truths(landed) /\ C!Send(<<m>>)
    BY <1>2, <2>2, <2>4, SomeAnswers
  <2> HIDE DEF m
  <2>6. <<m>> \in Seq(Truths(landed))
    BY <2>5
  <2> QED BY <1>1, <2>2, <2>3, <2>5, <2>6, CoreTurnInv
<1>5. CASE C!ReadAccepted
  <2>1. C!HeadIs("accept") /\ C!At("start") /\ C!Pop
    BY <1>5 DEF C!ReadAccepted, C!HeadIs
  <2>2. ChainMoves /\ C!Head1.id \in Reads
    BY <2>1, AtHead, RequestKinds DEF C!HeadIs
  <2>3. CASE C!ReadActive /\ ~reading.accepted
    <3>1. /\ reading' = [reading EXCEPT !.accepted = TRUE] /\ stream' = [stream EXCEPT ![C!Head1.id] = 1]
          /\ C!Send(<<C!Message("readChunk", C!Head1.id, 1)>>)
      BY <1>5, <2>3 DEF C!ReadAccepted
    <3>2. CoreTypes'
      BY <1>1, <1>2, <2>2, <3>1 DEF CoreTypes
    <3> DEFINE m == C!Message("readChunk", C!Head1.id, 1)
    <3>3. m \in Truths(landed) /\ C!Send(<<m>>)
      BY <1>2, <2>2, <3>1, SomeAnswers
    <3> HIDE DEF m
    <3>4. <<m>> \in Seq(Truths(landed))
      BY <3>3
    <3> QED BY <1>1, <2>2, <3>2, <3>3, <3>4, CoreTurnInv
  <2>4. CASE ~(C!ReadActive /\ ~reading.accepted)
    <3>1. CoreTypes' /\ C!Quiet /\ <<>> \in Seq(Truths(landed))
      BY <1>1, <1>2, <1>5, <2>4 DEF C!ReadAccepted, CoreTypes, C!Quiet
    <3> QED BY <1>1, <2>2, <3>1, CoreTurnInv
  <2> QED BY <2>3, <2>4
<1>6. CASE C!ReadFinished
  <2>1. C!At("start") /\ C!Pop
    BY <1>6 DEF C!ReadFinished, C!HeadIs
  <2>2. ChainMoves
    BY <2>1, AtHead
  <2>3. CoreTypes' /\ C!Quiet /\ <<>> \in Seq(Truths(landed))
    BY <1>1, <1>2, <1>6 DEF C!ReadFinished, CoreTypes, C!Quiet
  <2> QED BY <1>1, <2>2, <2>3, CoreTurnInv
<1> QED BY <1>3, <1>4, <1>5, <1>6

-----------------------------------------------------------------------------
(* Beside the chain.                                                            *)

LEMMA NothingHeld ==
  ASSUME C!ClipboardAssumption, CoreTypes, writing' = C!NoWrite \/ writing' = writing,
         reading' = C!NoRead \/ reading' = reading, UNCHANGED stream
  PROVE  CoreTypes'
<1>1. /\ C!NoWrite \in [id : Writes \cup {NoClipboard}, got : 0..Chunks, timer : BOOLEAN]
      /\ C!NoRead \in [id : Reads \cup {NoClipboard}, generation : 0..MaxViewers, accepted : BOOLEAN]
  BY ClipboardConstants DEF C!NoWrite, C!NoRead
<1> QED BY <1>1 DEF CoreTypes

\* A selection of a window, and the time-outs
LEMMA CancelsInv ==
  ASSUME C!ClipboardAssumption, ClipboardInv,
         C!WindowSelected \/ C!CoreWriteTimeout \/ C!CoreReadTimeout
  PROVE  ClipboardInv'
<1>1. /\ UNCHANGED <<C!sessionVars, stream, C!viewerVars, C!historyVars>>
      /\ writing' = C!NoWrite \/ writing' = writing
      /\ reading' = C!NoRead \/ reading' = reading
      /\ \E ms \in {C!WriteCancelled, C!ReadCancelled, C!WriteCancelled \o C!ReadCancelled} : C!Send(ms)
  BY DEF C!WindowSelected, C!CoreWriteTimeout, C!CoreReadTimeout
<1>2. CoreTypes'
  BY <1>1, NothingHeld DEF ClipboardInv
<1>3. ChainMoves
  <2>1. CASE C!WindowSelected
    BY <2>1, AtHead DEF C!WindowSelected, C!HeadIs
  <2>2. CASE C!CoreWriteTimeout \/ C!CoreReadTimeout
    BY <2>2, ChainStays DEF C!CoreWriteTimeout, C!CoreReadTimeout, ClipboardInv
  <2> QED BY <2>1, <2>2
<1>4. PICK ms \in Seq(Truths(landed)) : C!Send(ms)
  BY <1>1, CancelsAreTrue DEF ClipboardInv
<1> QED BY <1>1, <1>2, <1>3, <1>4, CoreTurnInv

LEMMA StreamsInv ==
  ASSUME C!ClipboardAssumption, ClipboardInv, NEW r \in Reads, C!StreamTurn(r) \/ C!StreamFails(r)
  PROVE  ClipboardInv'
<1>1. UNCHANGED <<C!sessionVars, C!chainVars, writing, C!viewerVars, C!historyVars>>
  BY DEF C!StreamTurn, C!StreamFails
<1>2. ChainMoves
  BY <1>1, ChainStays DEF ClipboardInv
<1>3. CoreTypes /\ stream[r] \in 0..Chunks /\ 0 \in 0..Chunks /\ Chunks \in Nat
  BY ClipboardConstants DEF ClipboardInv, CoreTypes
<1>4. CASE C!StreamTurn(r)
  <2>1. /\ stream' = [stream EXCEPT ![r] = IF stream[r] = Chunks \/ reading.id # r THEN 0 ELSE stream[r] + 1]
        /\ reading' = reading
    BY <1>4 DEF C!StreamTurn
  <2>2. stream[r] # Chunks => stream[r] + 1 \in 0..Chunks
    BY <1>3
  <2>3. CoreTypes'
    BY <1>1, <1>3, <2>1, <2>2 DEF CoreTypes
  <2> DEFINE done == C!Message("readComplete", r, 0)
             next == C!Message("readChunk", r, stream[r] + 1)
  <2>4. done \in Truths(landed) /\ (stream[r] # Chunks => next \in Truths(landed))
    BY <1>3, <2>2, SomeAnswers
  <2>5. C!Send(<<>>) \/ C!Send(<<done>>) \/ (stream[r] # Chunks /\ C!Send(<<next>>))
    BY <1>4 DEF C!StreamTurn
  <2> HIDE DEF done, next
  <2>6. PICK ms \in Seq(Truths(landed)) : C!Send(ms)
    <3>1. <<>> \in Seq(Truths(landed)) /\ <<done>> \in Seq(Truths(landed))
      BY <2>4
    <3>2. stream[r] # Chunks => <<next>> \in Seq(Truths(landed))
      BY <2>4
    <3> QED BY <2>5, <3>1, <3>2
  <2> QED BY <1>1, <1>2, <2>3, <2>6, CoreTurnInv
<1>5. CASE C!StreamFails(r)
  <2>1. CoreTypes'
    <3>1. /\ C!NoRead \in [id : Reads \cup {NoClipboard}, generation : 0..MaxViewers, accepted : BOOLEAN]
          /\ reading' = C!NoRead \/ reading' = reading
          /\ stream' = [stream EXCEPT ![r] = 0]
      BY <1>5, ClipboardConstants DEF C!StreamFails, C!NoRead
    <3> QED BY <1>1, <1>3, <3>1 DEF CoreTypes
  <2>2. CASE reading.id = r
    <3> DEFINE m == C!Failure("readResult", r)
    <3>1. C!Send(<<m>>) /\ m \in Truths(landed)
      BY <1>3, <1>5, <2>2, SomeAnswers DEF C!StreamFails, C!Failure
    <3> HIDE DEF m
    <3>2. <<m>> \in Seq(Truths(landed))
      BY <3>1
    <3> QED BY <1>1, <1>2, <2>1, <3>1, <3>2, CoreTurnInv
  <2>3. CASE reading.id # r
    <3>1. C!Quiet /\ <<>> \in Seq(Truths(landed))
      BY <1>5, <2>3 DEF C!StreamFails, C!Quiet
    <3> QED BY <1>1, <1>2, <2>1, <3>1, CoreTurnInv
  <2> QED BY <2>2, <2>3
<1> QED BY <1>4, <1>5

LEMMA SelectInv ==
  ASSUME ClipboardInv, C!SelectWindow
  PROVE  ClipboardInv'
<1> DEFINE m == [type |-> "select", id |-> NoClipboard, n |-> 0]
<1>1. /\ C!Up(<<m>>) /\ UNCHANGED <<C!sessionVars, C!coreVars, C!viewerVars, down, C!historyVars>>
      /\ m \in Requests /\ m.type # "drain"
  BY SomeRequests DEF C!SelectWindow
<1> HIDE DEF m
<1>2. <<m>> \in Seq(Requests) /\ \A j \in DOMAIN <<m>> : <<m>>[j].type # "drain"
  BY <1>1
<1>3. ChainMoves
  BY <1>1, <1>2, ChainAppends DEF ClipboardInv
<1>4. CoreTypes' /\ C!Quiet /\ <<>> \in Seq(Truths(landed))
  BY <1>1 DEF ClipboardInv, CoreTypes, C!coreVars, C!Quiet
<1> QED BY <1>1, <1>3, <1>4, CoreTurnInv

LEMMA RevokeInv ==
  ASSUME C!ClipboardAssumption, ClipboardInv, C!RevokeClipboard
  PROVE  ClipboardInv'
<1>1. /\ clipboardGranted' = FALSE /\ UNCHANGED <<clipboardGeneration, clipboardTakeover, linked,
                                                  closed, C!chainVars, stream, C!viewerVars, C!historyVars>>
      /\ writing' = C!NoWrite /\ reading' = C!NoRead /\ C!Send(C!WriteCancelled \o C!ReadCancelled)
  BY DEF C!RevokeClipboard
<1>2. /\ C!PastesAreOwn' /\ C!ReportsAreTrue' /\ landed' = landed
      /\ asker' = asker /\ pasted' = pasted /\ outcome' = outcome
  BY <1>1, HistoriesStay
<1>3. ChainMoves
  BY <1>1, ChainStays DEF ClipboardInv
<1>4. SessionTypes' /\ ViewerTypes'
  BY <1>1, <1>2 DEF ClipboardInv, SessionTypes, ViewerTypes, C!viewerVars
<1>5. CoreTypes'
  BY <1>1, NothingHeld DEF ClipboardInv
<1>6. down' \in Seq(Truths(landed'))
  <2>1. C!WriteCancelled \o C!ReadCancelled \in Seq(Truths(landed'))
    BY CancelsAreTrue DEF ClipboardInv
  <2> QED BY <1>1, <1>2, <2>1, SendsTruth DEF ClipboardInv
<1> QED BY <1>1, <1>2, <1>3, <1>4, <1>5, <1>6, Joined

\* The drain enters the chain once, while a generation is left.
LEMMA TakeoverStartsInv ==
  ASSUME C!ClipboardAssumption, ClipboardInv, C!TakeoverStarts
  PROVE  ClipboardInv'
<1> DEFINE m == [type |-> "drain", id |-> NoClipboard, n |-> 0]
<1>1. /\ clipboardTakeover = "no" /\ clipboardGeneration < MaxViewers /\ clipboardTakeover' = "queued"
      /\ writing' = C!NoWrite /\ reading' = C!NoRead /\ C!Up(<<m>>)
      /\ UNCHANGED <<clipboardGeneration, linked, clipboardGranted, closed, stream, C!viewerVars,
                     down, C!historyVars>>
      /\ m \in Requests
  BY SomeRequests DEF C!TakeoverStarts
<1> HIDE DEF m
<1>2. /\ C!PastesAreOwn' /\ C!ReportsAreTrue' /\ landed' = landed
      /\ asker' = asker /\ pasted' = pasted /\ outcome' = outcome
  BY <1>1, HistoriesStay
<1>3. Drains = {} /\ ChainWellFormed
  BY <1>1 DEF ClipboardInv, OneDrain
<1>4. ChainWellFormed' /\ \A i \in Drains' : i = Len(chain) + 1
  <2>1. <<m>> \in Seq(Requests) /\ DOMAIN <<m>> = {1}
    BY <1>1
  <2> QED BY <1>1, <1>3, <2>1, ChainGrows
<1>5. OneDrain'
  BY <1>1, <1>4 DEF OneDrain
<1>6. SessionTypes' /\ ViewerTypes'
  BY <1>1, <1>2 DEF ClipboardInv, SessionTypes, ViewerTypes, C!viewerVars
<1>7. CoreTypes'
  BY <1>1, NothingHeld DEF ClipboardInv
<1> QED BY <1>1, <1>2, <1>4, <1>5, <1>6, <1>7 DEF ClipboardInv

LEMMA DrainedInv ==
  ASSUME C!ClipboardAssumption, ClipboardInv, C!Drained
  PROVE  ClipboardInv'
<1>1. /\ C!At("start") /\ C!Head1.type = "drain" /\ clipboardTakeover' = "drained" /\ C!Pop
      /\ UNCHANGED <<clipboardGeneration, linked, clipboardGranted, closed, C!coreVars,
                     C!viewerVars, down, C!historyVars>>
  BY DEF C!Drained, C!HeadIs
<1>2. /\ C!PastesAreOwn' /\ C!ReportsAreTrue' /\ landed' = landed
      /\ asker' = asker /\ pasted' = pasted /\ outcome' = outcome
  BY <1>1, HistoriesStay
<1>3. chain # <<>> /\ ChainWellFormed
  BY <1>1, AtHead
<1>4. ChainWellFormed' /\ \A i \in Drains' : i + 1 \in Drains
  BY <1>1, <1>3, ChainPops DEF ChainMoves
<1>5. 1 \in Drains
  BY <1>1, <1>3 DEF Drains, C!Head1, ChainWellFormed
<1>6. Drains' = {}
  <2>1. \A i \in Drains' : i + 1 = 1 /\ i \in Nat /\ i > 0
    BY <1>4, <1>5 DEF ClipboardInv, OneDrain, Drains, ChainWellFormed
  <2> QED BY <2>1
<1>7. OneDrain'
  BY <1>1, <1>5, <1>6 DEF ClipboardInv, OneDrain
<1>8. SessionTypes' /\ ViewerTypes' /\ CoreTypes'
  BY <1>1, <1>2 DEF ClipboardInv, SessionTypes, ViewerTypes, CoreTypes, C!viewerVars, C!coreVars
<1> QED BY <1>1, <1>2, <1>4, <1>7, <1>8 DEF ClipboardInv

LEMMA ViewerReplacedInv ==
  ASSUME C!ClipboardAssumption, ClipboardInv, C!ViewerReplaced
  PROVE  ClipboardInv'
<1>1. /\ clipboardTakeover = "drained" /\ clipboardTakeover' = "no" /\ C!Unlink
      /\ clipboardGeneration' = clipboardGeneration + 1
      /\ UNCHANGED <<clipboardGranted, closed, C!chainVars, C!coreVars, asker, pasted, landed>>
  BY DEF C!ViewerReplaced
<1>2. /\ ViewerTypes' /\ down' \in Seq(Truths(landed')) /\ linked' \in BOOLEAN
      /\ outcome' \in [C!Ops -> {"none", "done", "failed"}] /\ C!PastesAreOwn' /\ C!ReportsAreTrue'
  BY <1>1, UnlinkTruth
<1>3. clipboardGeneration' \in 1..MaxViewers
  BY <1>1, ClipboardConstants DEF ClipboardInv, OneDrain, SessionTypes
<1>4. SessionTypes' /\ CoreTypes'
  BY <1>1, <1>2, <1>3 DEF ClipboardInv, SessionTypes, CoreTypes, C!coreVars
<1>5. ChainMoves /\ chain' = chain
  BY <1>1, ChainStays DEF ClipboardInv, C!chainVars
<1>6. OneDrain'
  BY <1>1, <1>5 DEF ClipboardInv, OneDrain, Drains
<1> QED BY <1>2, <1>4, <1>5, <1>6 DEF ClipboardInv, ChainMoves

LEMMA ViewerConnectsInv ==
  ASSUME ClipboardInv, C!ViewerConnects
  PROVE  ClipboardInv'
<1>1. /\ linked' = TRUE
      /\ UNCHANGED <<clipboardGeneration, clipboardTakeover, clipboardGranted, closed, C!chainVars,
                     C!coreVars, C!viewerVars, down, C!historyVars>>
  BY DEF C!ViewerConnects
<1>2. /\ C!PastesAreOwn' /\ C!ReportsAreTrue' /\ landed' = landed
      /\ asker' = asker /\ pasted' = pasted /\ outcome' = outcome
  BY <1>1, HistoriesStay
<1>3. SessionTypes' /\ CoreTypes' /\ ViewerTypes'
  BY <1>1, <1>2 DEF ClipboardInv, SessionTypes, CoreTypes, ViewerTypes, C!coreVars, C!viewerVars
<1>4. ChainMoves
  BY <1>1, ChainStays DEF ClipboardInv
<1> QED BY <1>1, <1>2, <1>3, <1>4, Joined DEF ClipboardInv

LEMMA CloseInv ==
  ASSUME C!ClipboardAssumption, ClipboardInv, C!Close
  PROVE  ClipboardInv'
<1>1. /\ closed' = TRUE /\ writing' = C!NoWrite /\ reading' = C!NoRead /\ C!Unlink
      /\ UNCHANGED <<clipboardGeneration, clipboardTakeover, clipboardGranted, C!chainVars, stream,
                     asker, pasted, landed>>
  BY DEF C!Close
<1>2. /\ ViewerTypes' /\ down' \in Seq(Truths(landed')) /\ linked' \in BOOLEAN
      /\ outcome' \in [C!Ops -> {"none", "done", "failed"}] /\ C!PastesAreOwn' /\ C!ReportsAreTrue'
  BY <1>1, UnlinkTruth
<1>3. SessionTypes'
  BY <1>1, <1>2 DEF ClipboardInv, SessionTypes
<1>4. CoreTypes'
  BY <1>1, NothingHeld DEF ClipboardInv
<1>5. ChainMoves
  BY <1>1, ChainStays DEF ClipboardInv
<1> QED BY <1>1, <1>2, <1>3, <1>4, <1>5, Joined

-----------------------------------------------------------------------------
LEMMA ClipboardStart ==
  ASSUME C!ClipboardAssumption
  PROVE  C!Init => ClipboardInv
<1> SUFFICES ASSUME C!Init  PROVE ClipboardInv
  OBVIOUS
<1>1. SessionTypes
  <2>1. 1 \in 1..MaxViewers /\ 0 \in 0..MaxViewers
    BY ClipboardConstants
  <2>2. asker \in [C!Ops -> 0..MaxViewers] /\ pasted \in [Writes -> 0..MaxViewers]
    BY <2>1 DEF C!Init
  <2>3. outcome \in [C!Ops -> {"none", "done", "failed"}] /\ landed \in SUBSET Writes
    BY DEF C!Init
  <2> QED BY <2>1, <2>2, <2>3 DEF C!Init, SessionTypes
<1>2. CoreTypes
  BY ClipboardConstants DEF C!Init, CoreTypes, C!NoWrite, C!NoRead
<1>3. ViewerTypes
  BY ClipboardConstants DEF C!Init, ViewerTypes, C!NoViewer
<1>4. ChainWellFormed /\ Drains = {} /\ down \in Seq(Truths(landed))
  BY DEF C!Init, ChainWellFormed, Drains
<1>5. OneDrain /\ C!PastesAreOwn /\ C!ReportsAreTrue
  BY <1>4 DEF C!Init, OneDrain, C!PastesAreOwn, C!ReportsAreTrue, C!Ops
<1> QED BY <1>1, <1>2, <1>3, <1>4, <1>5 DEF ClipboardInv

LEMMA ClipboardStep ==
  ASSUME C!ClipboardAssumption
  PROVE  ClipboardInv /\ [C!Next]_(C!vars) => ClipboardInv'
<1> SUFFICES ASSUME ClipboardInv, [C!Next]_(C!vars)  PROVE ClipboardInv'
  OBVIOUS
<1>1. CASE UNCHANGED C!vars
  <2>1. UNCHANGED <<C!sessionVars, C!chainVars, C!coreVars, C!viewerVars, down, C!historyVars>>
    BY <1>1 DEF C!vars
  <2>2. ChainMoves /\ CoreTypes' /\ C!Quiet /\ <<>> \in Seq(Truths(landed))
    BY <2>1, ChainStays DEF ClipboardInv, CoreTypes, C!coreVars, C!Quiet
  <2> QED BY <2>1, <2>2, CoreTurnInv
<1>2. CASE \E w \in Writes : C!StartWrite(w) \/ C!SenderTurn(w)
  BY <1>2, StartsInv, SenderInv DEF C!Ops
<1>3. CASE \E r \in Reads : C!StartRead(r) \/ C!StreamTurn(r) \/ C!StreamFails(r)
  BY <1>3, StartsInv, StreamsInv DEF C!Ops
<1>4. CASE C!ViewerWriteTimeout \/ C!ViewerReadTimeout
  BY <1>4, ViewerTimeoutsInv
<1>5. CASE down # <<>> /\ C!ViewerReceives(Head(down))
  BY <1>5, ReceivesInv
<1>6. CASE C!Chain
  BY <1>6, HeadRefusedInv, WritesInv, PasteStartsInv, PasteEndsInv, ReadsInv, CancelsInv, DrainedInv
     DEF C!Chain
<1>7. CASE C!CoreWriteTimeout \/ C!CoreReadTimeout
  BY <1>7, CancelsInv
<1>8. CASE C!SelectWindow \/ C!RevokeClipboard \/ C!TakeoverStarts \/ C!ViewerReplaced
  BY <1>8, SelectInv, RevokeInv, TakeoverStartsInv, ViewerReplacedInv
<1>9. CASE C!ViewerConnects \/ C!ViewerLeaves \/ C!Close
  BY <1>9, ViewerConnectsInv, ViewerGoesInv, CloseInv DEF C!ViewerLeaves
<1> QED BY <1>1, <1>2, <1>3, <1>4, <1>5, <1>6, <1>7, <1>8, <1>9 DEF C!Next

\* Everything keeps its type.
LEMMA ClipboardTypes == ClipboardInv => C!TypeOK
<1> SUFFICES ASSUME ClipboardInv  PROVE C!TypeOK
  OBVIOUS
<1>1. Requests \subseteq C!Upward \cup C!Marks /\ Truths(landed) \subseteq C!Downward
  BY DEF Requests, C!Upward, Truths, Answers, C!Downward, C!Ops
<1>2. chain \in Seq(C!Upward \cup C!Marks) /\ down \in Seq(C!Downward)
  <2>1. chain \in Seq(Requests) /\ down \in Seq(Truths(landed))
    BY DEF ClipboardInv, ChainWellFormed
  <2> QED BY <1>1, <2>1, WiderSeq
<1> QED BY <1>2 DEF ClipboardInv, SessionTypes, CoreTypes, ViewerTypes, ChainWellFormed, C!TypeOK

\* For any number of operations, chunks and Viewers: what is pasted was asked for
\* by the Viewer in charge when the paste starts, and a caller that is told its
\* write succeeded is told the truth, however pastes, time-outs, replaced writes,
\* takeovers and a lost channel interleave (#handleControl, #cancelClipboardWrite).
THEOREM ClipboardTruth ==
  ASSUME C!ClipboardAssumption
  PROVE  C!Spec => []C!Consistent
<1>1. ClipboardInv => C!Consistent
  BY ClipboardTypes DEF ClipboardInv, C!Consistent
<1> QED BY <1>1, ClipboardStart, ClipboardStep, PTL DEF C!Spec

=============================================================================
