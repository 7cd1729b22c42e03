-------------------------- MODULE MediaRuntime_proofs --------------------------
(***************************************************************************)
(* Theorems about MediaRuntime: what the tab is captured for, and what the *)
(* acknowledgements of the media runtime mean, however its requests cross  *)
(* acquisitions, timeouts and the loss of the socket.                      *)
(***************************************************************************)
EXTENDS MediaRuntime, SequenceTheorems, TLAPS

-----------------------------------------------------------------------------
(* Types *)

CoreTypes ==
  /\ session \in {"open", "over"} /\ generation \in 1 .. MaxGeneration
  /\ client \in {"no", "paired", "started"} /\ greeted \in BOOLEAN
  /\ takeover \in Ids \cup {None} /\ revision \in Nat /\ requests \in 0 .. MaxRequests
  /\ pending \subseteq Requests /\ resolved \subseteq Requests /\ bound \in BOOLEAN

WireTypes ==
  /\ toExtension \in Seq(ToExtension) /\ toCore \in Seq(ToCore)
  /\ losses \in 0 .. MaxLosses /\ socket \in BOOLEAN

ExtensionTypes ==
  /\ ready \in BOOLEAN /\ attempt \in Ids \cup {None}
  /\ starts \subseteq Starts /\ publisher \in Publishers \cup {None}
  /\ replacements \subseteq Replacements /\ stops \subseteq Stops /\ live \subseteq Ids

\* A takeover waits for its stop only while there is a generation left for it.
TakeoverBelow == takeover # None => generation < MaxGeneration

TypeInv == CoreTypes /\ WireTypes /\ ExtensionTypes /\ TakeoverBelow

LEMMA TypeParts == TypeOK <=> CoreTypes /\ WireTypes /\ ExtensionTypes
  BY DEF TypeOK, CoreTypes, WireTypes, ExtensionTypes

LEMMA Constants ==
  /\ MaxRequests \in Nat /\ MaxLosses \in Nat /\ MaxInFlight \in Nat
  /\ MaxGeneration \in Nat /\ MaxGeneration > 0 /\ None \notin Nat
  BY MediaRuntimeAssumption DEF MediaRuntimeAssumption

LEMMA IdsAreNumbers == Ids \subseteq Nat /\ None \notin Ids
  BY Constants DEF Ids

\* What Core sends has the fields of its kind, and so has what it hears.
LEMMA Downward ==
  ASSUME NEW m \in ToExtension
  PROVE  /\ m.op \in {"start", "replace"} =>
              m.id \in Ids /\ m.generation \in Nat /\ m.revision \in Nat
         /\ m.op \in {"stop", "suspend", "resume", "restart_ice"} =>
              m.id \in Ids /\ m \in [op : {"stop", "suspend", "resume", "restart_ice"}, id : Ids]
  BY DEF ToExtension

LEMMA Upward ==
  ASSUME NEW m \in ToCore
  PROVE  /\ m.op \in {"stopped", "replaced", "replace_failed"} => m.id \in Ids
         /\ m.op = "hello" => m.generation \in Nat
  BY DEF ToCore

LEMMA AskTypes ==
  ASSUME toExtension \in Seq(ToExtension), NEW m \in ToExtension, Ask(m)
  PROVE  toExtension' \in Seq(ToExtension)
  BY AppendProperties DEF Ask

LEMMA TellTypes ==
  ASSUME toCore \in Seq(ToCore), NEW m \in ToCore, Tell(m)
  PROVE  toCore' \in Seq(ToCore)
  BY AppendProperties DEF Tell

LEMMA Heard ==
  ASSUME WireTypes, NEW op, Hears(op)
  PROVE  /\ Head(toExtension) \in ToExtension /\ Head(toExtension).op = op
         /\ toExtension' = Tail(toExtension) /\ toExtension' \in Seq(ToExtension)
  BY HeadTailProperties DEF WireTypes, Hears

LEMMA CoreHeard ==
  ASSUME WireTypes, NEW op, CoreHears(op)
  PROVE  /\ Head(toCore) \in ToCore /\ Head(toCore).op = op
         /\ toCore' = Tail(toCore) /\ toCore' \in Seq(ToCore)
  BY HeadTailProperties DEF WireTypes, CoreHears

LEMMA RequestTypes ==
  ASSUME CoreTypes, requests < MaxRequests, NEW op
  PROVE  /\ requests + 1 \in Ids /\ requests + 1 \in 0 .. MaxRequests
         /\ Request(op).id = requests + 1 /\ Request(op).op = op
         /\ op \in {"stop", "replace"} => Request(op) \in Requests
         /\ op \in {"stop", "suspend", "resume", "restart_ice"} => Request(op) \in ToExtension
  BY Constants DEF CoreTypes, Ids, Request, Requests, ToExtension

LEMMA OverTypes ==
  ASSUME TypeInv, NEW left \in SUBSET Requests, Over(left)
  PROVE  /\ session' \in {"open", "over"} /\ client' \in {"no", "paired", "started"}
         /\ greeted' \in BOOLEAN /\ takeover' = None /\ requests' \in 0 .. MaxRequests
         /\ pending' \subseteq Requests /\ toExtension' \in Seq(ToExtension)
         /\ UNCHANGED <<generation, revision>>
<1>1. CoreTypes /\ WireTypes
  BY DEF TypeInv
<1>2. CASE bound /\ requests < MaxRequests
  <2>1. /\ requests' = requests + 1 /\ pending' = left \cup {Request("stop")}
        /\ Ask(Request("stop"))
    BY <1>2 DEF Over
  <2>2. Request("stop") \in Requests /\ Request("stop") \in ToExtension
        /\ requests + 1 \in 0 .. MaxRequests
    BY <1>1, <1>2, RequestTypes
  <2>3. toExtension' \in Seq(ToExtension)
    BY <1>1, <2>1, <2>2, AskTypes DEF WireTypes
  <2> QED BY <2>1, <2>2, <2>3 DEF Over
<1>3. CASE ~(bound /\ requests < MaxRequests)
  BY <1>1, <1>3 DEF Over, CoreTypes, WireTypes
<1> QED BY <1>2, <1>3

LEMMA OverCore ==
  ASSUME TypeInv, NEW left \in SUBSET Requests, Over(left), UNCHANGED <<resolved, bound>>
  PROVE  CoreTypes' /\ TakeoverBelow' /\ toExtension' \in Seq(ToExtension)
<1>1. CoreTypes
  BY DEF TypeInv
<1>2. /\ session' \in {"open", "over"} /\ client' \in {"no", "paired", "started"}
      /\ greeted' \in BOOLEAN /\ takeover' = None /\ requests' \in 0 .. MaxRequests
      /\ pending' \subseteq Requests /\ toExtension' \in Seq(ToExtension)
      /\ UNCHANGED <<generation, revision>>
  BY OverTypes
<1> QED BY <1>1, <1>2 DEF CoreTypes, TakeoverBelow

LEMMA CoreStepTypes ==
  ASSUME TypeInv, CoreStep
  PROVE  CoreTypes' /\ TakeoverBelow' /\ WireTypes'
<1>1. CoreTypes /\ WireTypes /\ TakeoverBelow /\ pending \in SUBSET Requests
  BY DEF TypeInv, CoreTypes
<1> USE DEF CoreTypes, TakeoverBelow, WireTypes
<1>2. CASE PeerReady
  <2>1. CASE bound
    <3>1. [op |-> "peer_ready"] \in ToExtension
      BY DEF ToExtension
    <3>2. Ask([op |-> "peer_ready"])
      BY <1>2, <2>1 DEF PeerReady
    <3>3. toExtension' \in Seq(ToExtension)
      BY <1>1, <3>1, <3>2, AskTypes
    <3> QED BY <1>1, <1>2, <2>1, <3>3 DEF PeerReady
  <2>2. CASE ~bound
    <3>1. Over(pending) /\ UNCHANGED <<resolved, bound, toCore, losses, socket>>
      BY <1>2, <2>2 DEF PeerReady
    <3>2. CoreTypes' /\ TakeoverBelow' /\ toExtension' \in Seq(ToExtension)
      BY <1>1, <3>1, OverCore
    <3> QED BY <1>1, <3>1, <3>2
  <2> QED BY <2>1, <2>2
<1>3. CASE StartMedia
  <2>1. [op |-> "start", id |-> requests + 1, generation |-> generation, revision |-> revision]
          \in ToExtension
    BY <1>1, <1>3, RequestTypes, Constants DEF StartMedia, Asks, ToExtension
  <2>2. toExtension' \in Seq(ToExtension)
    BY <1>1, <1>3, <2>1, AskTypes DEF StartMedia
  <2> QED BY <1>1, <1>3, <2>2, RequestTypes DEF StartMedia, Asks
<1>4. CASE PeerLeaves
  <2>1. CASE bound
    <3>1. [op |-> "peer_left"] \in ToExtension
      BY DEF ToExtension
    <3>2. Ask([op |-> "peer_left"])
      BY <1>4, <2>1 DEF PeerLeaves
    <3>3. toExtension' \in Seq(ToExtension)
      BY <1>1, <3>1, <3>2, AskTypes
    <3> QED BY <1>1, <1>4, <2>1, <3>3 DEF PeerLeaves
  <2>2. CASE ~bound
    <3>1. Over(pending) /\ UNCHANGED <<resolved, bound, toCore, losses, socket>>
      BY <1>4, <2>2 DEF PeerLeaves
    <3>2. CoreTypes' /\ TakeoverBelow' /\ toExtension' \in Seq(ToExtension)
      BY <1>1, <3>1, OverCore
    <3> QED BY <1>1, <3>1, <3>2
  <2> QED BY <2>1, <2>2
<1>5. CASE ReplaceMediaCapture
  <2>1. [op |-> "replace", id |-> requests + 1, generation |-> generation,
         revision |-> revision + 1] \in ToExtension
    BY <1>1, <1>5, RequestTypes, Constants DEF ReplaceMediaCapture, Asks, ToExtension
  <2>2. toExtension' \in Seq(ToExtension)
    BY <1>1, <1>5, <2>1, AskTypes DEF ReplaceMediaCapture
  <2>3. Request("replace") \in Requests /\ requests + 1 \in 0 .. MaxRequests
    BY <1>1, <1>5, RequestTypes DEF ReplaceMediaCapture, Asks
  <2> QED BY <1>1, <1>5, <2>2, <2>3 DEF ReplaceMediaCapture, Asks
<1>6. ASSUME NEW op \in {"suspend", "resume", "restart_ice"}, Forwards(op)
      PROVE  CoreTypes' /\ TakeoverBelow' /\ WireTypes'
  <2>1. Request(op) \in ToExtension /\ requests + 1 \in 0 .. MaxRequests
    BY <1>1, <1>6, RequestTypes DEF Forwards, Asks
  <2>2. toExtension' \in Seq(ToExtension)
    BY <1>1, <1>6, <2>1, AskTypes DEF Forwards
  <2> QED BY <1>1, <1>6, <2>1, <2>2 DEF Forwards, Asks
<1>7. CASE TakeoverStops
  <2>1. Request("stop") \in ToExtension /\ Request("stop") \in Requests
        /\ requests + 1 \in 0 .. MaxRequests /\ requests + 1 \in Ids
    BY <1>1, <1>7, RequestTypes DEF TakeoverStops, Asks
  <2>2. toExtension' \in Seq(ToExtension)
    BY <1>1, <1>7, <2>1, AskTypes DEF TakeoverStops
  <2> QED BY <1>1, <1>7, <2>1, <2>2 DEF TakeoverStops, Asks
<1>8. CASE Closes
  <2>1. CoreTypes' /\ TakeoverBelow' /\ toExtension' \in Seq(ToExtension)
    BY <1>1, <1>8, OverCore DEF Closes
  <2> QED BY <1>1, <1>8, <2>1 DEF Closes
<1>9. ASSUME NEW r \in pending, StopTimesOut(r)
      PROVE  CoreTypes' /\ TakeoverBelow' /\ WireTypes'
  BY <1>1, <1>9 DEF StopTimesOut, wireVars
<1>10. ASSUME NEW r \in pending, ReplacementTimesOut(r)
       PROVE  CoreTypes' /\ TakeoverBelow' /\ WireTypes'
  <2>1. pending \ {r} \in SUBSET Requests /\ Over(pending \ {r})
        /\ UNCHANGED <<resolved, bound, toCore, losses, socket>>
    BY <1>1, <1>10 DEF ReplacementTimesOut
  <2>2. CoreTypes' /\ TakeoverBelow' /\ toExtension' \in Seq(ToExtension)
    BY <2>1, OverCore
  <2> QED BY <1>1, <2>1, <2>2
<1> QED BY <1>2, <1>3, <1>4, <1>5, <1>6, <1>7, <1>8, <1>9, <1>10 DEF CoreStep

LEMMA CoreReceivesTypes ==
  ASSUME TypeInv, CoreReceives
  PROVE  CoreTypes' /\ TakeoverBelow' /\ WireTypes'
<1>1. CoreTypes /\ WireTypes /\ TakeoverBelow
  BY DEF TypeInv
<1> USE DEF CoreTypes, TakeoverBelow, WireTypes
<1>2. \A m : Answered(m) \subseteq pending
  BY DEF Answered
<1>3. CASE StoppedArrives
  <2>1. toCore' \in Seq(ToCore)
    BY <1>1, <1>3, CoreHeard DEF StoppedArrives
  <2>2. /\ pending' \subseteq Requests /\ resolved' \subseteq Requests
        /\ UNCHANGED <<session, revision, requests, bound, toExtension, losses, socket>>
    BY <1>1, <1>2, <1>3 DEF StoppedArrives
  <2>3. CASE UNCHANGED <<generation, takeover, client, greeted>>
    BY <1>1, <2>1, <2>2, <2>3
  <2>4. ASSUME NEW r \in pending, r.id = takeover, generation' = generation + 1, takeover' = None,
               client' = "no", greeted' = FALSE
        PROVE  CoreTypes' /\ TakeoverBelow' /\ WireTypes'
    <3>1. takeover # None
      BY <1>1, <2>4, IdsAreNumbers DEF Requests
    <3>2. generation' \in 1 .. MaxGeneration
      BY <1>1, <2>4, <3>1, Constants
    <3> QED BY <1>1, <2>1, <2>2, <2>4, <3>2
  <2> QED BY <1>3, <2>3, <2>4 DEF StoppedArrives, Answered
<1>4. CASE ReplacedArrives
  <2>1. toCore' \in Seq(ToCore)
    BY <1>1, <1>4, CoreHeard DEF ReplacedArrives
  <2> QED BY <1>1, <1>2, <1>4, <2>1 DEF ReplacedArrives
<1>5. CASE ReplaceFailedArrives
  <2>1. toCore' \in Seq(ToCore) /\ UNCHANGED <<resolved, bound, losses, socket>>
    BY <1>1, <1>5, CoreHeard DEF ReplaceFailedArrives
  <2>2. pending \ Answered(Head(toCore)) \in SUBSET Requests
    BY <1>1
  <2>3. CASE Over(pending \ Answered(Head(toCore)))
    <3>1. CoreTypes' /\ TakeoverBelow' /\ toExtension' \in Seq(ToExtension)
      BY <2>1, <2>2, <2>3, OverCore
    <3> QED BY <1>1, <2>1, <3>1
  <2>4. CASE /\ pending' = pending \ Answered(Head(toCore))
             /\ UNCHANGED <<session, generation, client, greeted, takeover, revision, requests, toExtension>>
    BY <1>1, <2>1, <2>4
  <2> QED BY <1>5, <2>3, <2>4 DEF ReplaceFailedArrives
<1>6. CASE StartFailedArrives
  <2>1. toCore' \in Seq(ToCore) /\ UNCHANGED <<resolved, bound, losses, socket>>
    BY <1>1, <1>6, CoreHeard DEF StartFailedArrives
  <2>2. CASE Over(pending)
    <3>1. CoreTypes' /\ TakeoverBelow' /\ toExtension' \in Seq(ToExtension)
      BY <1>1, <2>1, <2>2, OverCore
    <3> QED BY <1>1, <2>1, <3>1
  <2>3. CASE UNCHANGED <<session, generation, client, greeted, takeover, revision, requests,
                         pending, toExtension>>
    BY <1>1, <2>1, <2>3
  <2> QED BY <1>6, <2>2, <2>3 DEF StartFailedArrives
<1>7. CASE HelloArrives
  <2>1. toCore' \in Seq(ToCore)
    BY <1>1, <1>7, CoreHeard DEF HelloArrives
  <2> QED BY <1>1, <1>7, <2>1 DEF HelloArrives
<1> QED BY <1>3, <1>4, <1>5, <1>6, <1>7 DEF CoreReceives

\* What publishes now, and what a stop leaves of it.
LEMMA StoppedTypes ==
  ASSUME ExtensionTypes, NEW captures \in SUBSET Ids, Stopped(captures)
  PROVE  /\ ready' \in BOOLEAN /\ attempt' = None /\ publisher' = None /\ live' \subseteq captures
  BY DEF ExtensionTypes, Stopped

LEMMA PublisherTypes ==
  ASSUME ExtensionTypes, publisher # None
  PROVE  /\ publisher \in Publishers
         /\ publisher.id \in Ids /\ publisher.stream \in Ids
         /\ publisher.operations \in Seq([op : {"suspend", "resume", "replace"}, id : Ids])
         /\ Tail(publisher.operations) \in Seq([op : {"suspend", "resume", "replace"}, id : Ids])
              \/ publisher.operations = <<>>
  BY HeadTailProperties DEF ExtensionTypes, Publishers

LEMMA ExtensionReceivesTypes ==
  ASSUME TypeInv, ExtensionReceives
  PROVE  ExtensionTypes' /\ WireTypes'
<1>1. WireTypes /\ ExtensionTypes /\ live \in SUBSET Ids
  BY DEF TypeInv, ExtensionTypes
<1>2. ASSUME NEW op, Hears(op), UNCHANGED <<toCore, losses, socket>>
      PROVE  WireTypes'
  BY <1>1, <1>2, Heard DEF WireTypes
<1>3. CASE ReadyArrives
  <2>1. publisher' \in Publishers \cup {None}
    <3>1. CASE publisher = None
      BY <1>3, <3>1 DEF ReadyArrives
    <3>2. CASE publisher # None
      <4>1. publisher' = [publisher EXCEPT !.ready = TRUE, !.offer = IF @ = "no" THEN "making" ELSE @]
        BY <1>3, <3>2 DEF ReadyArrives
      <4> QED BY <1>1, <3>2, <4>1, PublisherTypes DEF Publishers
    <3> QED BY <3>1, <3>2
  <2> QED BY <1>1, <1>2, <1>3, <2>1 DEF ReadyArrives, ExtensionTypes
<1>4. CASE LeftArrives
  BY <1>1, <1>2, <1>4, StoppedTypes DEF LeftArrives, ExtensionTypes
<1>5. CASE StartArrives
  <2>1. Head(toExtension) \in ToExtension /\ Head(toExtension).op = "start"
    BY <1>1, <1>5, Heard DEF StartArrives
  <2>2. /\ Head(toExtension).id \in Ids /\ Head(toExtension).generation \in Nat
        /\ Head(toExtension).revision \in Nat
    BY <2>1, Downward
  <2>3. Kept \in BOOLEAN
    BY <1>1 DEF Kept, ExtensionTypes
  <2>4. [id |-> Head(toExtension).id, generation |-> Head(toExtension).generation,
         revision |-> Head(toExtension).revision, ready |-> Kept, step |-> "acquiring"] \in Starts
    BY <2>2, <2>3 DEF Starts
  <2>5. starts' \subseteq Starts /\ live' \subseteq Ids
    BY <1>1, <1>5, <2>4 DEF StartArrives, ExtensionTypes
  <2> QED BY <1>1, <1>2, <1>5, <2>2, <2>5 DEF StartArrives, ExtensionTypes
<1>6. CASE StopArrives
  <2>1. Head(toExtension) \in ToExtension /\ Head(toExtension).op = "stop"
    BY <1>1, <1>6, Heard DEF StopArrives
  <2>2. Head(toExtension).id \in Ids
    BY <2>1, Downward
  <2>3. ({attempt} \ {None}) \cup {r.id : r \in {x \in replacements : Current(x)}} \subseteq Ids
    BY <1>1 DEF ExtensionTypes, Replacements
  <2>4. stops' \subseteq Stops
    BY <1>1, <1>6, <2>2, <2>3 DEF StopArrives, ExtensionTypes, Stops
  <2> QED BY <1>1, <1>2, <1>6, <2>4, StoppedTypes DEF StopArrives, ExtensionTypes
<1>7. CASE SuspensionArrives
  <2>1. PICK op \in {"suspend", "resume"} : Hears(op)
    BY <1>7 DEF SuspensionArrives
  <2>2. Head(toExtension) \in ToExtension /\ Head(toExtension).op = op
    BY <1>1, <2>1, Heard
  <2>3. Head(toExtension) \in [op : {"suspend", "resume", "replace"}, id : Ids]
    BY <2>2, Downward
  <2>4. publisher' \in Publishers \cup {None}
    <3>1. CASE publisher = None
      BY <1>7, <3>1 DEF SuspensionArrives
    <3>2. CASE publisher # None
      <4>1. publisher' = [publisher EXCEPT !.operations = Append(@, Head(toExtension))]
        BY <1>7, <3>2 DEF SuspensionArrives
      <4>2. Append(publisher.operations, Head(toExtension))
              \in Seq([op : {"suspend", "resume", "replace"}, id : Ids])
        BY <1>1, <2>3, <3>2, PublisherTypes, AppendProperties
      <4> QED BY <1>1, <3>2, <4>1, <4>2, PublisherTypes DEF Publishers
    <3> QED BY <3>1, <3>2
  <2> QED BY <1>1, <1>2, <1>7, <2>1, <2>4 DEF SuspensionArrives, ExtensionTypes
<1>8. CASE ReplaceArrives
  <2>1. Head(toExtension) \in ToExtension /\ Head(toExtension).op = "replace"
        /\ toExtension' \in Seq(ToExtension)
    BY <1>1, <1>8, Heard DEF ReplaceArrives
  <2>2. /\ Head(toExtension).id \in Ids /\ Head(toExtension).generation \in Nat
        /\ Head(toExtension).revision \in Nat
    BY <2>1, Downward
  <2>3. CASE Replaceable(Head(toExtension))
    <3>1. publisher # None /\ publisher.id \in Ids
      BY <1>1, <2>3, PublisherTypes DEF Replaceable
    <3>2. /\ replacements' = replacements \cup
               {[id |-> Head(toExtension).id, publisher |-> publisher.id,
                 generation |-> Head(toExtension).generation,
                 revision |-> Head(toExtension).revision, step |-> "queued"]}
          /\ publisher' = [publisher EXCEPT !.operations =
                             Append(@, [op |-> "replace", id |-> Head(toExtension).id])]
          /\ UNCHANGED toCore
      BY <1>8, <2>3 DEF ReplaceArrives
    <3>3. replacements' \subseteq Replacements
      BY <1>1, <2>2, <3>1, <3>2 DEF ExtensionTypes, Replacements
    <3>4. Append(publisher.operations, [op |-> "replace", id |-> Head(toExtension).id])
            \in Seq([op : {"suspend", "resume", "replace"}, id : Ids])
      BY <1>1, <2>2, <3>1, PublisherTypes, AppendProperties
    <3>5. publisher' \in Publishers
      BY <1>1, <3>1, <3>2, <3>4, PublisherTypes DEF Publishers
    <3> QED BY <1>1, <1>8, <2>1, <3>2, <3>3, <3>5 DEF ReplaceArrives, ExtensionTypes, WireTypes
  <2>4. CASE ~Replaceable(Head(toExtension))
    <3>1. [op |-> "replace_failed", id |-> Head(toExtension).id] \in ToCore
      BY <2>2 DEF ToCore
    <3>2. toCore' \in Seq(ToCore)
      BY <1>1, <1>8, <2>4, <3>1, TellTypes DEF ReplaceArrives, WireTypes
    <3> QED BY <1>1, <1>8, <2>1, <2>4, <3>2 DEF ReplaceArrives, ExtensionTypes, WireTypes
  <2> QED BY <2>3, <2>4
<1>9. CASE RestartArrives
  <2>1. publisher' \in Publishers \cup {None}
    <3>1. CASE publisher # None /\ publisher' = [publisher EXCEPT !.ice = "restarting"]
      BY <1>1, <3>1, PublisherTypes DEF Publishers
    <3>2. CASE publisher' = publisher
      BY <1>1, <3>2 DEF ExtensionTypes
    <3> QED BY <1>9, <3>1, <3>2 DEF RestartArrives
  <2> QED BY <1>1, <1>2, <1>9, <2>1 DEF RestartArrives, ExtensionTypes
<1> QED BY <1>3, <1>4, <1>5, <1>6, <1>7, <1>8, <1>9 DEF ExtensionReceives

LEMMA CaptureStepTypes ==
  ASSUME TypeInv, CaptureStep
  PROVE  ExtensionTypes' /\ WireTypes'
<1>1. WireTypes /\ ExtensionTypes /\ live \in SUBSET Ids
  BY DEF TypeInv, ExtensionTypes
<1>2. ASSUME NEW s \in starts, Acquired(s)
      PROVE  ExtensionTypes' /\ WireTypes'
  <2>1. s \in Starts /\ s.id \in Ids
    BY <1>1 DEF ExtensionTypes, Starts
  <2>2. PublisherOf(s) \in Publishers
    <3>1. <<>> \in Seq([op : {"suspend", "resume", "replace"}, id : Ids])
      OBVIOUS
    <3> QED BY <2>1, <3>1 DEF PublisherOf, Publishers, Starts
  <2>3. [s EXCEPT !.step = "offering"] \in Starts
    BY <2>1 DEF Starts
  <2>4. starts' \subseteq Starts
    BY <1>1, <1>2, <2>3 DEF Acquired, ExtensionTypes
  <2>5. publisher' \in Publishers \cup {None} /\ live' \subseteq Ids /\ attempt' \in Ids \cup {None}
    BY <1>1, <1>2, <2>1, <2>2 DEF Acquired, ExtensionTypes
  <2> QED BY <1>1, <1>2, <2>4, <2>5 DEF Acquired, ExtensionTypes, WireTypes, wireVars
<1>3. ASSUME NEW s \in starts, StartFails(s)
      PROVE  ExtensionTypes' /\ WireTypes'
  <2>1. [op |-> "start_failed"] \in ToCore
    BY DEF ToCore
  <2>2. CASE attempt = s.id
    <3>1. Stopped(live \ {s.id}) /\ Tell([op |-> "start_failed"])
      BY <1>3, <2>2 DEF StartFails
    <3>2. toCore' \in Seq(ToCore)
      BY <1>1, <2>1, <3>1, TellTypes DEF WireTypes
    <3>3. live \ {s.id} \in SUBSET Ids
      BY <1>1
    <3> QED BY <1>1, <1>3, <3>1, <3>2, <3>3, StoppedTypes DEF StartFails, ExtensionTypes, WireTypes
  <2>3. CASE attempt # s.id
    BY <1>1, <1>3, <2>3 DEF StartFails, ExtensionTypes, WireTypes
  <2> QED BY <2>2, <2>3
<1>4. CASE OfferMade
  <2>1. publisher' \in Publishers
    BY <1>1, <1>4, PublisherTypes DEF OfferMade, Publishers
  <2> QED BY <1>1, <1>4, <2>1 DEF OfferMade, ExtensionTypes, WireTypes, wireVars
<1>5. ASSUME NEW x \in starts \cup replacements, CaptureGranted(x)
      PROVE  ExtensionTypes' /\ WireTypes'
  <2>1. x.id \in Ids
    BY <1>1 DEF ExtensionTypes, Starts, Replacements
  <2>2. live' \subseteq Ids
    BY <1>1, <1>5, <2>1 DEF CaptureGranted
  <2> QED BY <1>1, <1>5, <2>2 DEF CaptureGranted, ExtensionTypes, WireTypes, wireVars
<1> QED BY <1>2, <1>3, <1>4, <1>5 DEF CaptureStep

\* What a replacement does at its end.
LEMMA EndTypes ==
  ASSUME TypeInv, NEW r \in replacements
  PROVE  /\ replacements \ {r} \subseteq Replacements
         /\ r \in Replacements /\ r.id \in Ids /\ r.revision \in Nat
         /\ [op |-> "replaced", id |-> r.id] \in ToCore
         /\ [op |-> "replace_failed", id |-> r.id] \in ToCore
         /\ live \cup {r.id} \in SUBSET Ids /\ live \ {r.id} \in SUBSET Ids
  BY DEF TypeInv, ExtensionTypes, Replacements, ToCore

LEMMA DoneTypes ==
  ASSUME ExtensionTypes, publisher # None, publisher.operations # <<>>
  PROVE  Done \in Publishers
<1>1. Tail(publisher.operations) \in Seq([op : {"suspend", "resume", "replace"}, id : Ids])
  BY PublisherTypes
<1>2. Done = [publisher EXCEPT !.operations = Tail(publisher.operations)]
  BY DEF Done
<1> QED BY <1>1, <1>2, PublisherTypes DEF Publishers

\* A replacement that has begun is at the head of its Publisher's operations.
Turns ==
  \A r \in replacements : Current(r) /\ r.step # "queued" =>
    publisher.operations # <<>> /\ Head(publisher.operations).op = "replace"

LEMMA ReplacementStepTypes ==
  ASSUME TypeInv, Turns, ReplacementStep
  PROVE  ExtensionTypes' /\ WireTypes'
<1>1. WireTypes /\ ExtensionTypes /\ live \in SUBSET Ids
  BY DEF TypeInv, ExtensionTypes
<1>2. ASSUME NEW r \in replacements, ReplacementBegins(r)
      PROVE  ExtensionTypes' /\ WireTypes'
  <2>1. [r EXCEPT !.step = "acquiring"] \in Replacements
    BY EndTypes DEF Replacements
  <2>2. replacements' \subseteq Replacements
    BY <1>1, <1>2, <2>1, EndTypes DEF ReplacementBegins, Ends, ExtensionTypes
  <2> QED BY <1>1, <1>2, <2>2 DEF ReplacementBegins, ExtensionTypes, WireTypes, wireVars
<1>3. ASSUME NEW r \in replacements, ReplacementAcquired(r)
      PROVE  ExtensionTypes' /\ WireTypes'
  <2>1. [r EXCEPT !.step = "swapping"] \in Replacements
    BY EndTypes DEF Replacements
  <2>2. replacements' \subseteq Replacements /\ live' \subseteq Ids
    BY <1>1, <1>3, <2>1, EndTypes DEF ReplacementAcquired, Ends, ExtensionTypes
  <2>3. toCore' \in Seq(ToCore)
    BY <1>1, <1>3, EndTypes, TellTypes DEF ReplacementAcquired, WireTypes
  <2> QED BY <1>1, <1>3, <2>2, <2>3 DEF ReplacementAcquired, ExtensionTypes, WireTypes
<1>4. ASSUME NEW r \in replacements, ReplacementCommits(r)
      PROVE  ExtensionTypes' /\ WireTypes'
  <2>1. publisher # None /\ publisher.operations # <<>>
    BY <1>4 DEF Turns, ReplacementCommits, Current
  <2>2. Done \in Publishers
    BY <1>1, <2>1, DoneTypes
  <2>3. publisher.suspended \in BOOLEAN
    BY <1>1, <2>1 DEF ExtensionTypes, Publishers
  <2>4. publisher' \in Publishers
    BY <1>4, <2>2, <2>3, EndTypes DEF ReplacementCommits, Publishers
  <2>5. toCore' \in Seq(ToCore) /\ replacements' \subseteq Replacements
    BY <1>1, <1>4, EndTypes, TellTypes DEF ReplacementCommits, WireTypes, Ends
  <2> QED BY <1>1, <1>4, <2>4, <2>5 DEF ReplacementCommits, ExtensionTypes, WireTypes
<1>5. ASSUME NEW r \in replacements, ReplacementFails(r)
      PROVE  ExtensionTypes' /\ WireTypes'
  <2>1. toCore' \in Seq(ToCore) /\ replacements' \subseteq Replacements
        /\ UNCHANGED <<toExtension, losses, socket, starts, stops>>
    BY <1>1, <1>5, EndTypes, TellTypes DEF ReplacementFails, WireTypes, Ends
  <2>2. live \ {r.id} \in SUBSET Ids
    BY EndTypes
  <2>3. CASE Stopped(live \ {r.id})
    BY <1>1, <2>1, <2>2, <2>3, StoppedTypes DEF ExtensionTypes, WireTypes
  <2>4. CASE live' = live \ {r.id} /\ UNCHANGED <<ready, attempt, publisher>>
    BY <1>1, <2>1, <2>2, <2>4 DEF ExtensionTypes, WireTypes
  <2>5. CASE Current(r) /\ publisher' = Done /\ live' = live \ {r.id} /\ UNCHANGED <<ready, attempt>>
    <3>1. publisher # None /\ publisher.operations # <<>>
      BY <1>5, <2>5 DEF Turns, ReplacementFails, Current
    <3>2. Done \in Publishers
      BY <1>1, <3>1, DoneTypes
    <3> QED BY <1>1, <2>1, <2>2, <2>5, <3>2 DEF ExtensionTypes, WireTypes
  <2> QED BY <1>5, <2>3, <2>4, <2>5 DEF ReplacementFails
<1>6. CASE SuspensionApplied
  <2>1. publisher # None /\ publisher.operations # <<>>
        /\ UNCHANGED <<toExtension, toCore, losses, socket, starts, replacements, stops>>
    BY <1>6 DEF SuspensionApplied, Operates, wireVars
  <2>2. CASE Stopped(live)
    BY <1>1, <2>1, <2>2, StoppedTypes DEF ExtensionTypes, WireTypes
  <2>3. CASE ~Stopped(live)
    <3> DEFINE suspended == Head(publisher.operations).op = "suspend"
    <3>1. /\ publisher' = [publisher EXCEPT !.suspended = suspended, !.enabled = ~suspended,
                                            !.operations = Tail(@)]
          /\ UNCHANGED <<ready, attempt, live>>
      BY <1>6, <2>3 DEF SuspensionApplied
    <3>2. suspended \in BOOLEAN /\ (~suspended) \in BOOLEAN
      OBVIOUS
    <3>3. Tail(publisher.operations) \in Seq([op : {"suspend", "resume", "replace"}, id : Ids])
      BY <1>1, <2>1, PublisherTypes
    <3> HIDE DEF suspended
    <3>4. publisher' \in Publishers
      BY <1>1, <2>1, <3>1, <3>2, <3>3, PublisherTypes DEF Publishers
    <3> QED BY <1>1, <2>1, <3>1, <3>4 DEF ExtensionTypes, WireTypes
  <2> QED BY <2>2, <2>3
<1> QED BY <1>2, <1>3, <1>4, <1>5, <1>6 DEF ReplacementStep

LEMMA PeerStepTypes ==
  ASSUME TypeInv, PeerStep
  PROVE  ExtensionTypes' /\ WireTypes'
<1>1. WireTypes /\ ExtensionTypes /\ live \in SUBSET Ids
  BY DEF TypeInv, ExtensionTypes
<1>2. CASE Connects
  <2>1. publisher' \in Publishers
    BY <1>1, <1>2, PublisherTypes DEF Connects, Publishers
  <2>2. [op |-> "hello", generation |-> publisher.generation] \in ToCore
    BY <1>1, <1>2, PublisherTypes DEF Connects, Publishers, ToCore
  <2>3. toCore' \in Seq(ToCore)
    BY <1>1, <1>2, <2>2, TellTypes DEF Connects, WireTypes
  <2> QED BY <1>1, <1>2, <2>1, <2>3 DEF Connects, ExtensionTypes, WireTypes
<1>3. CASE IceFails
  <2>1. publisher' \in Publishers
    BY <1>1, <1>3, PublisherTypes DEF IceFails, Publishers
  <2> QED BY <1>1, <1>3, <2>1 DEF IceFails, ExtensionTypes, WireTypes, wireVars
<1>4. CASE FailureTimer
  BY <1>1, <1>4, StoppedTypes DEF FailureTimer, ExtensionTypes, WireTypes, wireVars
<1> QED BY <1>2, <1>3, <1>4 DEF PeerStep

LEMMA AcknowledgesTypes ==
  ASSUME TypeInv, Acknowledges
  PROVE  ExtensionTypes' /\ WireTypes'
<1>1. WireTypes /\ ExtensionTypes
  BY DEF TypeInv
<1>2. PICK t \in stops : StopAcknowledged(t)
  BY DEF Acknowledges
<1>3. [op |-> "stopped", id |-> t.id] \in ToCore
  BY <1>1 DEF ExtensionTypes, Stops, ToCore
<1>4. toCore' \in Seq(ToCore)
  BY <1>1, <1>2, <1>3, TellTypes DEF StopAcknowledged, WireTypes
<1> QED BY <1>1, <1>2, <1>4 DEF StopAcknowledged, ExtensionTypes, WireTypes, captureVars

LEMMA SocketStepTypes ==
  ASSUME TypeInv, SocketStep
  PROVE  TypeInv'
<1>1. WireTypes /\ ExtensionTypes /\ CoreTypes /\ TakeoverBelow /\ live \in SUBSET Ids
  BY DEF TypeInv, ExtensionTypes
<1>2. <<>> \in Seq(ToCore) /\ <<>> \in Seq(ToExtension)
  OBVIOUS
<1>3. CASE CoreLosesSocket
  <2>1. losses' \in 0 .. MaxLosses
    BY <1>1, <1>3, Constants DEF CoreLosesSocket, WireTypes
  <2>2. ExtensionTypes'
    BY <1>1, <1>3 DEF CoreLosesSocket, extensionVars, captureVars, ExtensionTypes
  <2>3. WireTypes'
    BY <1>1, <1>2, <1>3, <2>1 DEF CoreLosesSocket, Lost, WireTypes
  <2>4. CoreTypes' /\ TakeoverBelow'
    BY <1>1, <1>3 DEF CoreLosesSocket, CoreTypes, TakeoverBelow
  <2> QED BY <2>2, <2>3, <2>4 DEF TypeInv
<1>4. CASE ExtensionLosesSocket
  <2>1. losses' \in 0 .. MaxLosses
    BY <1>1, <1>4, Constants DEF ExtensionLosesSocket, WireTypes
  <2>2. ExtensionTypes'
    BY <1>1, <1>4, StoppedTypes DEF ExtensionLosesSocket, ExtensionTypes
  <2>3. WireTypes'
    BY <1>1, <1>2, <1>4, <2>1 DEF ExtensionLosesSocket, Lost, WireTypes
  <2>4. CoreTypes' /\ TakeoverBelow'
    BY <1>1, <1>4 DEF ExtensionLosesSocket, coreVars, CoreTypes, TakeoverBelow
  <2> QED BY <2>2, <2>3, <2>4 DEF TypeInv
<1>5. CASE Rebinds
  <2>1. ExtensionTypes'
    BY <1>1, <1>5 DEF Rebinds, extensionVars, captureVars, ExtensionTypes
  <2>2. WireTypes' /\ CoreTypes' /\ TakeoverBelow'
    BY <1>1, <1>5 DEF Rebinds, WireTypes, CoreTypes, TakeoverBelow
  <2> QED BY <2>1, <2>2 DEF TypeInv
<1> QED BY <1>3, <1>4, <1>5 DEF SocketStep

LEMMA CoreLeavesExtension ==
  ASSUME CoreStep \/ CoreReceives
  PROVE  UNCHANGED extensionVars
<1>1. CASE CoreStep
  BY <1>1 DEF CoreStep, PeerReady, StartMedia, PeerLeaves, ReplaceMediaCapture, Forwards,
     TakeoverStops, Closes, StopTimesOut, ReplacementTimesOut
<1>2. CASE CoreReceives
  BY <1>2 DEF CoreReceives, StoppedArrives, ReplacedArrives, ReplaceFailedArrives,
     StartFailedArrives, HelloArrives
<1> QED BY <1>1, <1>2

LEMMA ExtensionLeavesCore ==
  ASSUME \/ ExtensionReceives \/ CaptureStep \/ ReplacementStep \/ PeerStep \/ Acknowledges
  PROVE  UNCHANGED coreVars
<1>1. CASE ExtensionReceives
  BY <1>1 DEF ExtensionReceives, ReadyArrives, LeftArrives, StartArrives, StopArrives,
     SuspensionArrives, ReplaceArrives, RestartArrives
<1>2. CASE CaptureStep
  BY <1>2 DEF CaptureStep, CaptureGranted, Acquired, StartFails, OfferMade
<1>3. CASE ReplacementStep
  BY <1>3 DEF ReplacementStep, ReplacementBegins, ReplacementAcquired, ReplacementCommits,
     ReplacementFails, SuspensionApplied
<1>4. CASE PeerStep \/ Acknowledges
  BY <1>4 DEF PeerStep, Connects, IceFails, FailureTimer, Acknowledges, StopAcknowledged
<1> QED BY <1>1, <1>2, <1>3, <1>4

LEMMA NextTypes ==
  ASSUME TypeInv, Turns, [Next]_vars
  PROVE  TypeInv'
<1>1. CoreTypes /\ WireTypes /\ ExtensionTypes /\ TakeoverBelow
  BY DEF TypeInv
<1>2. CASE CoreStep \/ CoreReceives
  <2>1. ExtensionTypes'
    BY <1>1, <1>2, CoreLeavesExtension DEF extensionVars, captureVars, ExtensionTypes
  <2> QED BY <1>2, <2>1, CoreStepTypes, CoreReceivesTypes DEF TypeInv
<1>3. CASE \/ ExtensionReceives \/ CaptureStep \/ ReplacementStep \/ PeerStep \/ Acknowledges
  <2>1. CoreTypes' /\ TakeoverBelow'
    BY <1>1, <1>3, ExtensionLeavesCore DEF coreVars, CoreTypes, TakeoverBelow
  <2> QED BY <1>3, <2>1, ExtensionReceivesTypes, CaptureStepTypes, ReplacementStepTypes,
             PeerStepTypes, AcknowledgesTypes DEF TypeInv
<1>4. CASE UNCHANGED vars
  <2>1. CoreTypes' /\ TakeoverBelow' /\ WireTypes'
    BY <1>1, <1>4 DEF vars, coreVars, wireVars, CoreTypes, TakeoverBelow, WireTypes
  <2>2. ExtensionTypes'
    BY <1>1, <1>4 DEF vars, extensionVars, captureVars, ExtensionTypes
  <2> QED BY <2>1, <2>2 DEF TypeInv
<1> QED BY <1>2, <1>3, <1>4, SocketStepTypes DEF Next

LEMMA InitTypes == Init => TypeInv
<1> SUFFICES ASSUME Init PROVE TypeInv
  OBVIOUS
<1>1. CoreTypes /\ TakeoverBelow
  <2>1. 1 \in 1 .. MaxGeneration /\ 0 \in 0 .. MaxRequests
    BY Constants
  <2> QED BY <2>1 DEF Init, CoreTypes, TakeoverBelow
<1>2. WireTypes
  BY Constants DEF Init, WireTypes
<1>3. ExtensionTypes
  BY DEF Init, ExtensionTypes
<1> QED BY <1>1, <1>2, <1>3 DEF TypeInv

-----------------------------------------------------------------------------
(* The order of requests *)

\* The messages under way, in each direction.
OnWay == {toExtension[i] : i \in 1 .. Len(toExtension)}
Back == {toCore[i] : i \in 1 .. Len(toCore)}

LEMMA AskedOnWay ==
  ASSUME WireTypes, NEW m \in ToExtension, Ask(m)
  PROVE  OnWay' \subseteq OnWay \cup {m}
<1>1. CASE toExtension' = Append(toExtension, m)
  <2>1. \A i \in 1 .. Len(toExtension') :
          toExtension'[i] = IF i <= Len(toExtension) THEN toExtension[i] ELSE m
    BY <1>1, AppendProperties DEF WireTypes
  <2>2. Len(toExtension) \in Nat /\ Len(toExtension') = Len(toExtension) + 1
    BY <1>1, LenProperties, AppendProperties DEF WireTypes
  <2> QED BY <2>1, <2>2 DEF OnWay
<1>2. CASE toExtension' = toExtension
  BY <1>2 DEF OnWay
<1> QED BY <1>1, <1>2 DEF Ask

LEMMA HeardOnWay ==
  ASSUME WireTypes, NEW op, Hears(op)
  PROVE  Head(toExtension) \in OnWay /\ OnWay' \subseteq OnWay
<1>1. toExtension # <<>> /\ toExtension' = Tail(toExtension)
  BY DEF Hears
<1>2. /\ Len(toExtension) \in Nat /\ Len(toExtension) >= 1 /\ Head(toExtension) = toExtension[1]
      /\ Len(toExtension') = Len(toExtension) - 1
      /\ \A i \in 1 .. Len(toExtension') : toExtension'[i] = toExtension[i + 1]
  BY <1>1, HeadTailProperties, LenProperties, EmptySeq DEF WireTypes
<1> QED BY <1>2 DEF OnWay

LEMMA ToldBack ==
  ASSUME WireTypes, NEW m \in ToCore, Tell(m)
  PROVE  Back' \subseteq Back \cup {m}
<1>1. CASE toCore' = Append(toCore, m)
  <2>1. \A i \in 1 .. Len(toCore') : toCore'[i] = IF i <= Len(toCore) THEN toCore[i] ELSE m
    BY <1>1, AppendProperties DEF WireTypes
  <2>2. Len(toCore) \in Nat /\ Len(toCore') = Len(toCore) + 1
    BY <1>1, LenProperties, AppendProperties DEF WireTypes
  <2> QED BY <2>1, <2>2 DEF Back
<1>2. CASE toCore' = toCore
  BY <1>2 DEF Back
<1> QED BY <1>1, <1>2 DEF Tell

LEMMA HeardBack ==
  ASSUME WireTypes, NEW op, CoreHears(op)
  PROVE  Head(toCore) \in Back /\ Back' \subseteq Back
<1>1. toCore # <<>> /\ toCore' = Tail(toCore)
  BY DEF CoreHears
<1>2. /\ Len(toCore) \in Nat /\ Len(toCore) >= 1 /\ Head(toCore) = toCore[1]
      /\ Len(toCore') = Len(toCore) - 1
      /\ \A i \in 1 .. Len(toCore') : toCore'[i] = toCore[i + 1]
  BY <1>1, HeadTailProperties, LenProperties, EmptySeq DEF WireTypes
<1> QED BY <1>2 DEF Back

LEMMA LostAll == Lost => OnWay' = {} /\ Back' = {}
  BY DEF Lost, OnWay, Back

LEMMA UnderWay ==
  ASSUME WireTypes
  PROVE  OnWay \subseteq ToExtension /\ Back \subseteq ToCore
  BY ElementOfSeq DEF WireTypes, OnWay, Back

\* Peer messages alone carry no request.
HasId(m) == m.op \notin {"peer_ready", "peer_left"}

LEMMA IdOf == \A m \in ToExtension : HasId(m) => m.id \in Ids
  BY DEF HasId, ToExtension

\* The requests that the Extension has read and that still mean something.
Seen(k) ==
  \/ \E s \in starts : s.id = k
  \/ \E r \in replacements : k \in {r.id, r.publisher}
  \/ publisher # None /\ k \in {publisher.id, publisher.stream}
  \/ attempt = k
  \/ \E t \in stops : t.id = k
  \/ \E m \in Back : m.op \in {"stopped", "replaced"} /\ m.id = k
  \/ \E r \in resolved : r.id = k

Increasing ==
  \A i, j \in 1 .. Len(toExtension) :
    i < j /\ HasId(toExtension[i]) /\ HasId(toExtension[j]) => toExtension[i].id < toExtension[j].id

\* Requests are numbered as they are sent, and read in that order.
Numbered ==
  /\ \A k \in Ids : Seen(k) => k <= requests
  /\ \A r \in pending : r.id <= requests
  /\ \A m \in OnWay : HasId(m) => m.id <= requests /\ \A k \in Ids : Seen(k) => k < m.id
  /\ Increasing

\* A step that sends at most one new request, and reads none.
LEMMA NumberedOn ==
  ASSUME TypeInv, Numbered, requests' \in Nat, requests <= requests',
         \A k \in Ids : Seen(k)' => Seen(k),
         \A r \in pending' : r \in pending \/ r.id <= requests',
         \/ toExtension' = toExtension
         \/ toExtension' = <<>>
         \/ \E m \in ToExtension : /\ Ask(m)
                                   /\ HasId(m) => m.id = requests + 1 /\ requests' = requests + 1
  PROVE  Numbered'
<1>1. WireTypes /\ requests \in Nat /\ pending \subseteq Requests
  BY DEF TypeInv, CoreTypes
<1>2. /\ \A k \in Ids : Seen(k)' => k <= requests
      /\ \A k \in Ids : Seen(k)' => k <= requests'
  BY <1>1, IdsAreNumbers DEF Numbered
<1>3. \A r \in pending' : r.id <= requests'
  <2>1. \A r \in pending : r.id \in Nat
    BY <1>1, IdsAreNumbers DEF Requests
  <2> QED BY <1>1, <2>1 DEF Numbered
<1>7. \A m \in OnWay : HasId(m) => m.id \in Nat
  BY <1>1, UnderWay, IdOf, IdsAreNumbers
<1>4. CASE toExtension' = toExtension
  <2>1. \A m \in OnWay : HasId(m) => m.id <= requests' /\ \A k \in Ids : Seen(k)' => k < m.id
    BY <1>1, <1>7 DEF Numbered
  <2>2. OnWay' = OnWay /\ Increasing'
    BY <1>4 DEF Numbered, Increasing, OnWay, HasId
  <2> QED BY <1>2, <1>3, <2>1, <2>2 DEF Numbered, HasId
<1>5. CASE toExtension' = <<>>
  <2>1. OnWay' = {} /\ Increasing'
    BY <1>5 DEF OnWay, Increasing
  <2> QED BY <1>2, <1>3, <2>1 DEF Numbered
<1>6. ASSUME NEW m \in ToExtension, toExtension' = Append(toExtension, m),
             HasId(m) => m.id = requests + 1 /\ requests' = requests + 1
      PROVE  Numbered'
  <2>1. OnWay' \subseteq OnWay \cup {m}
    BY <1>1, <1>6, AskedOnWay DEF Ask, OnWay
  <2>2. \A x \in OnWay' : HasId(x) => x.id <= requests' /\ \A k \in Ids : Seen(k)' => k < x.id
    BY <1>1, <1>2, <1>6, <1>7, <2>1, IdsAreNumbers DEF Numbered
  <2>3. /\ Len(toExtension) \in Nat /\ Len(toExtension') = Len(toExtension) + 1
        /\ \A i \in 1 .. Len(toExtension) : toExtension'[i] = toExtension[i] /\ toExtension[i] \in OnWay
        /\ toExtension'[Len(toExtension) + 1] = m
    BY <1>1, <1>6, LenProperties, AppendProperties DEF WireTypes, OnWay
  <2>4. \A i \in 1 .. Len(toExtension) : HasId(toExtension[i]) => toExtension[i].id <= requests
    BY <2>3 DEF Numbered
  <2>5. \A i \in 1 .. Len(toExtension) : HasId(toExtension[i]) => toExtension[i].id \in Nat
    BY <1>1, <2>3, UnderWay, IdOf, IdsAreNumbers
  <2>6. Increasing'
    BY <1>1, <1>6, <2>3, <2>4, <2>5 DEF Numbered, Increasing, HasId
  <2> QED BY <1>2, <1>3, <2>2, <2>6 DEF Numbered, HasId
<1> QED BY <1>4, <1>5, <1>6 DEF Ask

\* The Extension reads the oldest request, and no newer one.
LEMMA NumberedRead ==
  ASSUME TypeInv, Numbered, NEW op, Hears(op), UNCHANGED <<requests, pending>>,
         \A k \in Ids : Seen(k)' => Seen(k) \/ (HasId(Head(toExtension)) /\ k = Head(toExtension).id)
  PROVE  Numbered'
<1>1. WireTypes /\ requests \in Nat
  BY DEF TypeInv, CoreTypes
<1>2. Head(toExtension) \in OnWay /\ OnWay' \subseteq OnWay /\ toExtension # <<>>
  BY <1>1, HeardOnWay DEF Hears
<1>3. /\ Len(toExtension) \in Nat /\ Len(toExtension) >= 1 /\ Head(toExtension) = toExtension[1]
      /\ Len(toExtension') = Len(toExtension) - 1
      /\ \A i \in 1 .. Len(toExtension') : toExtension'[i] = toExtension[i + 1]
  BY <1>1, <1>2, HeadTailProperties, LenProperties, EmptySeq DEF WireTypes, Hears
<1>4. Increasing'
  <2>1. \A i, j \in 1 .. Len(toExtension') :
          i < j => /\ i + 1 \in 1 .. Len(toExtension) /\ j + 1 \in 1 .. Len(toExtension) /\ i + 1 < j + 1
                   /\ toExtension'[i] = toExtension[i + 1] /\ toExtension'[j] = toExtension[j + 1]
    BY <1>3
  <2>2. \A i, j \in 1 .. Len(toExtension) :
          i < j /\ HasId(toExtension[i]) /\ HasId(toExtension[j]) => toExtension[i].id < toExtension[j].id
    BY DEF Numbered, Increasing
  <2> QED BY <2>1, <2>2 DEF Increasing, HasId
<1>5. \A m \in OnWay' : HasId(m) /\ HasId(Head(toExtension)) => Head(toExtension).id < m.id
  <2>1. \A j \in 1 .. Len(toExtension) :
          1 < j /\ HasId(toExtension[1]) /\ HasId(toExtension[j]) => toExtension[1].id < toExtension[j].id
    BY <1>3 DEF Numbered, Increasing
  <2>2. ASSUME NEW m \in OnWay'
        PROVE  \E j \in 1 .. Len(toExtension) : 1 < j /\ m = toExtension[j]
    BY <1>3 DEF OnWay
  <2> QED BY <1>3, <2>1, <2>2
<1>6. \A k \in Ids : Seen(k)' => k <= requests
  BY <1>2 DEF Numbered
<1>7. \A m \in OnWay' : HasId(m) => m.id <= requests /\ \A k \in Ids : Seen(k)' => k < m.id
  BY <1>2, <1>5 DEF Numbered
<1> QED BY <1>4, <1>6, <1>7 DEF Numbered, HasId

\* What the Session asks for at its end is the newest request.
LEMMA OverNumbers ==
  ASSUME TypeInv, NEW left \in SUBSET pending, Over(left)
  PROVE  /\ requests' \in Nat /\ requests <= requests'
         /\ \A r \in pending' : r \in pending \/ r.id <= requests'
         /\ \/ toExtension' = toExtension
            \/ \E m \in ToExtension : /\ Ask(m)
                                      /\ HasId(m) => m.id = requests + 1 /\ requests' = requests + 1
<1>1. CoreTypes /\ requests \in Nat
  BY DEF TypeInv, CoreTypes
<1>2. CASE bound /\ requests < MaxRequests
  <2>1. /\ requests' = requests + 1 /\ pending' = left \cup {Request("stop")}
        /\ Ask(Request("stop"))
    BY <1>2 DEF Over
  <2>2. Request("stop") \in ToExtension /\ Request("stop").id = requests + 1
    BY <1>1, <1>2, RequestTypes
  <2> QED BY <1>1, <2>1, <2>2
<1>3. CASE ~(bound /\ requests < MaxRequests)
  BY <1>1, <1>3 DEF Over
<1> QED BY <1>2, <1>3

LEMMA CoreStepNumbered ==
  ASSUME TypeInv, Numbered, CoreStep
  PROVE  Numbered'
<1>1. CoreTypes /\ requests \in Nat /\ pending \in SUBSET Requests
  BY DEF TypeInv, CoreTypes
<1>2. UNCHANGED extensionVars
  BY CoreLeavesExtension
<1>3. UNCHANGED <<toCore, resolved>>
  BY DEF CoreStep, PeerReady, StartMedia, PeerLeaves, ReplaceMediaCapture, Forwards,
     TakeoverStops, Closes, StopTimesOut, ReplacementTimesOut, wireVars
<1>4. \A k \in Ids : Seen(k)' => Seen(k)
  BY <1>2, <1>3 DEF Seen, Back, extensionVars, captureVars
<1>5. ASSUME NEW left \in SUBSET pending, Over(left)
      PROVE  Numbered'
  BY <1>4, <1>5, OverNumbers, NumberedOn
<1>6. ASSUME UNCHANGED requests, pending' \subseteq pending,
             \/ toExtension' = toExtension
             \/ \E m \in ToExtension : Ask(m) /\ ~HasId(m)
      PROVE  Numbered'
  BY <1>1, <1>4, <1>6, NumberedOn
<1>7. ASSUME requests' = requests + 1,
             \A r \in pending' : r \in pending \/ r.id = requests + 1,
             \E m \in ToExtension : Ask(m) /\ m.id = requests + 1
      PROVE  Numbered'
  BY <1>1, <1>4, <1>7, NumberedOn
<1>8. CASE PeerReady
  <2>1. [op |-> "peer_ready"] \in ToExtension /\ ~HasId([op |-> "peer_ready"])
    BY DEF ToExtension, HasId
  <2> QED BY <1>5, <1>6, <1>8, <2>1 DEF PeerReady
<1>9. CASE PeerLeaves
  <2>1. [op |-> "peer_left"] \in ToExtension /\ ~HasId([op |-> "peer_left"])
    BY DEF ToExtension, HasId
  <2> QED BY <1>5, <1>6, <1>9, <2>1 DEF PeerLeaves
<1>10. CASE StartMedia
  <2> DEFINE m == [op |-> "start", id |-> requests + 1, generation |-> generation, revision |-> revision]
  <2>1. m \in ToExtension /\ m.id = requests + 1
    BY <1>1, <1>10, RequestTypes, Constants DEF StartMedia, Asks, ToExtension, CoreTypes
  <2>2. Ask(m) /\ requests' = requests + 1 /\ pending' = pending
    BY <1>10 DEF StartMedia, Asks
  <2> HIDE DEF m
  <2> QED BY <1>7, <2>1, <2>2
<1>11. CASE ReplaceMediaCapture
  <2> DEFINE m == [op |-> "replace", id |-> requests + 1, generation |-> generation,
                   revision |-> revision + 1]
  <2>1. m \in ToExtension /\ m.id = requests + 1
    BY <1>1, <1>11, RequestTypes, Constants DEF ReplaceMediaCapture, Asks, ToExtension, CoreTypes
  <2>2. /\ Ask(m) /\ requests' = requests + 1 /\ pending' = pending \cup {Request("replace")}
        /\ Request("replace").id = requests + 1
    BY <1>11 DEF ReplaceMediaCapture, Asks, Request
  <2> HIDE DEF m
  <2> QED BY <1>7, <2>1, <2>2
<1>12. ASSUME NEW op \in {"suspend", "resume", "restart_ice"}, Forwards(op)
       PROVE  Numbered'
  <2>1. Request(op) \in ToExtension /\ Request(op).id = requests + 1
    BY <1>1, <1>12, RequestTypes DEF Forwards, Asks
  <2> QED BY <1>7, <1>12, <2>1 DEF Forwards, Asks
<1>13. CASE TakeoverStops
  <2>1. Request("stop") \in ToExtension /\ Request("stop").id = requests + 1
    BY <1>1, <1>13, RequestTypes DEF TakeoverStops, Asks
  <2> QED BY <1>7, <1>13, <2>1 DEF TakeoverStops, Asks
<1>14. CASE Closes
  BY <1>5, <1>14 DEF Closes
<1>15. ASSUME NEW r \in pending, StopTimesOut(r)
       PROVE  Numbered'
  BY <1>6, <1>15 DEF StopTimesOut, wireVars
<1>16. ASSUME NEW r \in pending, ReplacementTimesOut(r)
       PROVE  Numbered'
  BY <1>5, <1>16 DEF ReplacementTimesOut
<1> QED BY <1>8, <1>9, <1>10, <1>11, <1>12, <1>13, <1>14, <1>15, <1>16 DEF CoreStep

\* What Core resolves was answered.
LEMMA AnsweredSeen ==
  ASSUME TypeInv, NEW op \in {"stopped", "replaced"}, CoreHears(op), UNCHANGED extensionVars,
         resolved' = resolved \cup Answered(Head(toCore))
  PROVE  \A k \in Ids : Seen(k)' => Seen(k)
<1>1. WireTypes
  BY DEF TypeInv
<1>2. Head(toCore) \in Back /\ Back' \subseteq Back /\ Head(toCore).op \in {"stopped", "replaced"}
  BY <1>1, HeardBack DEF CoreHears
<1>3. \A r \in Answered(Head(toCore)) : r.id = Head(toCore).id
  BY DEF Answered
<1> QED BY <1>2, <1>3 DEF Seen, extensionVars, captureVars

LEMMA CoreReceivesNumbered ==
  ASSUME TypeInv, Numbered, CoreReceives
  PROVE  Numbered'
<1>1. WireTypes /\ requests \in Nat
  BY DEF TypeInv, CoreTypes
<1>2. UNCHANGED extensionVars
  BY CoreLeavesExtension
<1>3. ASSUME NEW op, CoreHears(op), UNCHANGED resolved
      PROVE  \A k \in Ids : Seen(k)' => Seen(k)
  BY <1>1, <1>2, <1>3, HeardBack DEF Seen, extensionVars, captureVars
<1>4. ASSUME \A k \in Ids : Seen(k)' => Seen(k), UNCHANGED <<requests, toExtension>>,
             pending' \subseteq pending
      PROVE  Numbered'
  BY <1>1, <1>4, NumberedOn
<1>5. CASE StoppedArrives
  <2>1. /\ CoreHears("stopped") /\ resolved' = resolved \cup Answered(Head(toCore))
        /\ UNCHANGED <<requests, toExtension>> /\ pending' \subseteq pending
    BY <1>5 DEF StoppedArrives
  <2> QED BY <1>2, <1>4, <2>1, AnsweredSeen
<1>6. CASE ReplacedArrives
  <2>1. /\ CoreHears("replaced") /\ resolved' = resolved \cup Answered(Head(toCore))
        /\ UNCHANGED <<requests, toExtension>> /\ pending' \subseteq pending
    BY <1>6 DEF ReplacedArrives
  <2> QED BY <1>2, <1>4, <2>1, AnsweredSeen
<1>7. ASSUME NEW left \in SUBSET pending, Over(left), \A k \in Ids : Seen(k)' => Seen(k)
      PROVE  Numbered'
  BY <1>7, OverNumbers, NumberedOn
<1>8. CASE ReplaceFailedArrives
  <2>1. \A k \in Ids : Seen(k)' => Seen(k)
    BY <1>3, <1>8 DEF ReplaceFailedArrives
  <2>2. pending \ Answered(Head(toCore)) \in SUBSET pending
    OBVIOUS
  <2> QED BY <1>4, <1>7, <1>8, <2>1, <2>2 DEF ReplaceFailedArrives
<1>9. CASE StartFailedArrives
  <2>1. \A k \in Ids : Seen(k)' => Seen(k)
    BY <1>3, <1>9 DEF StartFailedArrives
  <2> QED BY <1>4, <1>7, <1>9, <2>1 DEF StartFailedArrives
<1>10. CASE HelloArrives
  <2>1. \A k \in Ids : Seen(k)' => Seen(k)
    BY <1>3, <1>10 DEF HelloArrives
  <2> QED BY <1>4, <1>10, <2>1 DEF HelloArrives
<1> QED BY <1>5, <1>6, <1>8, <1>9, <1>10 DEF CoreReceives

\* An operation on the Publisher leaves it what it is.
LEMMA SamePublisher ==
  ASSUME ExtensionTypes, publisher # None
  PROVE  /\ [publisher EXCEPT !.ready = TRUE, !.offer = IF @ = "no" THEN "making" ELSE @].id = publisher.id
         /\ [publisher EXCEPT !.ready = TRUE, !.offer = IF @ = "no" THEN "making" ELSE @].stream
              = publisher.stream
         /\ \A x : /\ [publisher EXCEPT !.operations = Append(@, x)].id = publisher.id
                   /\ [publisher EXCEPT !.operations = Append(@, x)].stream = publisher.stream
                   /\ [publisher EXCEPT !.ice = x].id = publisher.id
                   /\ [publisher EXCEPT !.ice = x].stream = publisher.stream
                   /\ [publisher EXCEPT !.offer = x].id = publisher.id
                   /\ [publisher EXCEPT !.offer = x].stream = publisher.stream
         /\ Done.id = publisher.id /\ Done.stream = publisher.stream
  BY PublisherTypes DEF Publishers, Done

LEMMA Committed ==
  ASSUME ExtensionTypes, publisher # None, NEW x, NEW y, NEW z
  PROVE  /\ [Done EXCEPT !.stream = x, !.revision = y, !.enabled = z].id = publisher.id
         /\ [Done EXCEPT !.stream = x, !.revision = y, !.enabled = z].stream = x
         /\ [Done EXCEPT !.stream = x, !.revision = y, !.enabled = z].operations
              = Tail(publisher.operations)
         /\ [Done EXCEPT !.stream = x, !.revision = y, !.enabled = z].enabled = z
         /\ [Done EXCEPT !.stream = x, !.revision = y, !.enabled = z].suspended = publisher.suspended
  BY PublisherTypes DEF Publishers, Done

LEMMA ExtensionReceivesNumbered ==
  ASSUME TypeInv, Numbered, ExtensionReceives
  PROVE  Numbered'
<1>1. WireTypes /\ ExtensionTypes /\ UNCHANGED <<requests, pending, resolved>>
  BY ExtensionLeavesCore DEF TypeInv, coreVars
<1>2. ASSUME NEW op, Hears(op), UNCHANGED <<starts, replacements, attempt, stops, toCore>>,
             publisher' # None => /\ publisher # None /\ publisher'.id = publisher.id
                                  /\ publisher'.stream = publisher.stream
      PROVE  Numbered'
  <2>1. \A k \in Ids : Seen(k)' => Seen(k)
    BY <1>1, <1>2 DEF Seen, Back
  <2> QED BY <1>1, <1>2, <2>1, NumberedRead
<1>3. CASE ReadyArrives
  BY <1>1, <1>2, <1>3, SamePublisher DEF ReadyArrives
<1>4. CASE SuspensionArrives
  BY <1>1, <1>2, <1>4, SamePublisher DEF SuspensionArrives
<1>5. CASE RestartArrives
  BY <1>1, <1>2, <1>5, SamePublisher DEF RestartArrives
<1>6. CASE LeftArrives
  <2>1. \A k \in Ids : Seen(k)' => Seen(k)
    BY <1>1, <1>6, IdsAreNumbers DEF Seen, Back, LeftArrives, Stopped
  <2> QED BY <1>1, <1>6, <2>1, NumberedRead DEF LeftArrives
<1>7. CASE StartArrives
  <2>1. Head(toExtension).op = "start" /\ Hears("start")
    BY <1>1, <1>7, Heard DEF StartArrives
  <2>2. /\ attempt' = Head(toExtension).id /\ publisher' = None
        /\ \A s \in starts' : s \in starts \/ s.id = Head(toExtension).id
        /\ UNCHANGED <<toCore, replacements, stops>>
    BY <1>7 DEF StartArrives
  <2>3. \A k \in Ids : Seen(k)' => Seen(k) \/ (HasId(Head(toExtension)) /\ k = Head(toExtension).id)
    BY <1>1, <2>1, <2>2 DEF Seen, Back, HasId
  <2> QED BY <1>1, <2>1, <2>3, NumberedRead
<1>8. CASE StopArrives
  <2>1. Head(toExtension).op = "stop" /\ Hears("stop")
    BY <1>1, <1>8, Heard DEF StopArrives
  <2>2. /\ attempt' = None /\ publisher' = None
        /\ \A t \in stops' : t \in stops \/ t.id = Head(toExtension).id
        /\ UNCHANGED <<toCore, replacements, starts>>
    BY <1>8 DEF StopArrives, Stopped
  <2>3. \A k \in Ids : Seen(k)' => Seen(k) \/ (HasId(Head(toExtension)) /\ k = Head(toExtension).id)
    BY <1>1, <2>1, <2>2, IdsAreNumbers DEF Seen, Back, HasId
  <2> QED BY <1>1, <2>1, <2>3, NumberedRead
<1>9. CASE ReplaceArrives
  <2>1. Head(toExtension).op = "replace" /\ Hears("replace") /\ Head(toExtension) \in ToExtension
    BY <1>1, <1>9, Heard DEF ReplaceArrives
  <2>2. Head(toExtension).id \in Ids
    BY <2>1, Downward
  <2>3. UNCHANGED <<attempt, starts, stops>>
    BY <1>9 DEF ReplaceArrives
  <2>4. CASE Replaceable(Head(toExtension))
    <3> DEFINE x == [op |-> "replace", id |-> Head(toExtension).id]
    <3>4. /\ publisher # None /\ toCore' = toCore
          /\ publisher' = [publisher EXCEPT !.operations = Append(@, x)]
      BY <1>9, <2>4 DEF ReplaceArrives, Replaceable
    <3> HIDE DEF x
    <3>1. /\ publisher # None /\ publisher'.id = publisher.id /\ publisher'.stream = publisher.stream
          /\ toCore' = toCore
      BY <1>1, <3>4, SamePublisher
    <3>2. \A r \in replacements' : \/ r \in replacements
                                   \/ r.id = Head(toExtension).id /\ r.publisher = publisher.id
      BY <1>9, <2>4 DEF ReplaceArrives
    <3>3. \A k \in Ids : Seen(k)' => Seen(k) \/ (HasId(Head(toExtension)) /\ k = Head(toExtension).id)
      BY <1>1, <2>1, <2>3, <3>1, <3>2 DEF Seen, Back, HasId
    <3> QED BY <1>1, <2>1, <3>3, NumberedRead
  <2>5. CASE ~Replaceable(Head(toExtension))
    <3>1. UNCHANGED <<publisher, replacements>>
          /\ Tell([op |-> "replace_failed", id |-> Head(toExtension).id])
      BY <1>9, <2>5 DEF ReplaceArrives
    <3>2. [op |-> "replace_failed", id |-> Head(toExtension).id] \in ToCore
      BY <2>2 DEF ToCore
    <3>3. Back' \subseteq Back \cup {[op |-> "replace_failed", id |-> Head(toExtension).id]}
      BY <1>1, <3>1, <3>2, ToldBack
    <3>4. \A k \in Ids : Seen(k)' => Seen(k)
      BY <1>1, <2>3, <3>1, <3>3 DEF Seen
    <3> QED BY <1>1, <2>1, <3>4, NumberedRead
  <2> QED BY <2>4, <2>5
<1> QED BY <1>3, <1>4, <1>5, <1>6, <1>7, <1>8, <1>9 DEF ExtensionReceives

LEMMA CaptureStepSeen ==
  ASSUME TypeInv, CaptureStep
  PROVE  \A k \in Ids : Seen(k)' => Seen(k)
<1>1. WireTypes /\ ExtensionTypes /\ UNCHANGED resolved
  BY ExtensionLeavesCore DEF TypeInv, coreVars
<1>2. ASSUME NEW s \in starts, Acquired(s)
      PROVE  \A k \in Ids : Seen(k)' => Seen(k)
  <2>1. [s EXCEPT !.step = "offering"].id = s.id
    BY <1>1 DEF ExtensionTypes, Starts
  <2>2. \A x \in starts' : x \in starts \/ x.id = s.id
    BY <1>2, <2>1 DEF Acquired
  <2>3. publisher' = publisher \/ (publisher'.id = s.id /\ publisher'.stream = s.id)
    BY <1>2 DEF Acquired, PublisherOf
  <2>4. UNCHANGED <<replacements, stops, toCore>> /\ attempt' \in {attempt, None}
    BY <1>2 DEF Acquired, wireVars
  <2> QED BY <1>1, <2>2, <2>3, <2>4, IdsAreNumbers DEF Seen, Back
<1>3. ASSUME NEW s \in starts, StartFails(s)
      PROVE  \A k \in Ids : Seen(k)' => Seen(k)
  <2>1. [op |-> "start_failed"] \in ToCore
    BY DEF ToCore
  <2>2. toCore' = toCore \/ Tell([op |-> "start_failed"])
    BY <1>3 DEF StartFails
  <2>3. \A m \in Back' : m \in Back \/ m.op = "start_failed"
    <3>1. CASE toCore' = toCore
      BY <3>1 DEF Back
    <3>2. CASE Tell([op |-> "start_failed"])
      BY <1>1, <2>1, <3>2, ToldBack
    <3> QED BY <2>2, <3>1, <3>2
  <2>4. /\ UNCHANGED <<replacements, stops>> /\ starts' \subseteq starts
        /\ attempt' \in {attempt, None} /\ publisher' \in {publisher, None}
    BY <1>3 DEF StartFails, Stopped
  <2> QED BY <1>1, <2>3, <2>4, IdsAreNumbers DEF Seen
<1>4. CASE OfferMade
  <2>1. /\ UNCHANGED <<replacements, stops, toCore>> /\ starts' \subseteq starts
        /\ attempt' \in {attempt, None} /\ publisher # None
        /\ publisher'.id = publisher.id /\ publisher'.stream = publisher.stream
    BY <1>1, <1>4, SamePublisher DEF OfferMade, wireVars
  <2> QED BY <1>1, <2>1, IdsAreNumbers DEF Seen, Back
<1>5. ASSUME NEW x \in starts \cup replacements, CaptureGranted(x)
      PROVE  \A k \in Ids : Seen(k)' => Seen(k)
  BY <1>1, <1>5 DEF CaptureGranted, wireVars, Seen, Back
<1> QED BY <1>2, <1>3, <1>4, <1>5 DEF CaptureStep

LEMMA ReplacementStepSeen ==
  ASSUME TypeInv, ReplacementStep
  PROVE  \A k \in Ids : Seen(k)' => Seen(k)
<1>1. WireTypes /\ ExtensionTypes /\ UNCHANGED resolved
  BY ExtensionLeavesCore DEF TypeInv, coreVars
<1>2. UNCHANGED <<starts, stops>>
  BY DEF ReplacementStep, ReplacementBegins, ReplacementAcquired, ReplacementCommits,
     ReplacementFails, SuspensionApplied
<1>3. ASSUME NEW r \in replacements, \/ ReplacementBegins(r) \/ ReplacementAcquired(r)
                                     \/ ReplacementCommits(r) \/ ReplacementFails(r)
      PROVE  \A k \in Ids : Seen(k)' => Seen(k)
  <2>1. \A x : [r EXCEPT !.step = x].id = r.id /\ [r EXCEPT !.step = x].publisher = r.publisher
    BY EndTypes DEF Replacements
  <2>2. \A x \in replacements' : x \in replacements \/ (x.id = r.id /\ x.publisher = r.publisher)
    BY <1>3, <2>1 DEF ReplacementBegins, ReplacementAcquired, ReplacementCommits,
       ReplacementFails, Ends
  <2>3. \/ toCore' = toCore \/ Tell([op |-> "replaced", id |-> r.id])
        \/ Tell([op |-> "replace_failed", id |-> r.id])
    BY <1>3 DEF ReplacementBegins, ReplacementAcquired, ReplacementCommits,
       ReplacementFails, wireVars
  <2>4. Back' \subseteq Back \cup {[op |-> "replaced", id |-> r.id], [op |-> "replace_failed", id |-> r.id]}
    BY <1>1, <2>3, EndTypes, ToldBack DEF Back
  <2>5. /\ attempt' \in {attempt, None}
        /\ publisher' # None => /\ publisher # None /\ publisher'.id = publisher.id
                                /\ publisher'.stream \in {publisher.stream, r.id}
    <3>1. CASE ReplacementCommits(r)
      BY <1>1, <3>1, Committed DEF ReplacementCommits, Current
    <3>2. CASE ReplacementBegins(r) \/ ReplacementAcquired(r)
      BY <3>2 DEF ReplacementBegins, ReplacementAcquired
    <3>3. CASE ReplacementFails(r)
      BY <1>1, <3>3, SamePublisher DEF ReplacementFails, Stopped, Current
    <3> QED BY <1>3, <3>1, <3>2, <3>3
  <2> QED BY <1>1, <1>2, <2>2, <2>4, <2>5, IdsAreNumbers DEF Seen
<1>4. CASE SuspensionApplied
  <2>1. /\ attempt' \in {attempt, None} /\ UNCHANGED <<replacements, toCore>>
        /\ publisher' # None => /\ publisher # None /\ publisher'.id = publisher.id
                                /\ publisher'.stream = publisher.stream
    BY <1>1, <1>4, PublisherTypes DEF SuspensionApplied, Operates, Stopped, Publishers, wireVars
  <2> QED BY <1>1, <1>2, <2>1, IdsAreNumbers DEF Seen, Back
<1> QED BY <1>3, <1>4 DEF ReplacementStep

LEMMA PeerStepSeen ==
  ASSUME TypeInv, PeerStep
  PROVE  \A k \in Ids : Seen(k)' => Seen(k)
<1>1. WireTypes /\ ExtensionTypes /\ UNCHANGED resolved
  BY ExtensionLeavesCore DEF TypeInv, coreVars
<1>2. CASE Connects
  <2> DEFINE m == [op |-> "hello", generation |-> publisher.generation]
  <2>1. m \in ToCore /\ m.op = "hello"
    BY <1>1, <1>2, PublisherTypes DEF Connects, Publishers, ToCore
  <2>2. toCore' = toCore \/ Tell(m)
    BY <1>2 DEF Connects
  <2> HIDE DEF m
  <2>3. \A x \in Back' : x \in Back \/ x.op = "hello"
    <3>1. CASE toCore' = toCore
      BY <3>1 DEF Back
    <3>2. CASE Tell(m)
      BY <1>1, <2>1, <3>2, ToldBack
    <3> QED BY <2>2, <3>1, <3>2
  <2>4. /\ UNCHANGED <<replacements, stops, starts, attempt>> /\ publisher # None
        /\ publisher'.id = publisher.id /\ publisher'.stream = publisher.stream
    BY <1>1, <1>2, SamePublisher DEF Connects
  <2> QED BY <1>1, <2>3, <2>4 DEF Seen
<1>3. CASE IceFails
  <2>1. /\ UNCHANGED <<replacements, stops, starts, attempt, toCore>> /\ publisher # None
        /\ publisher'.id = publisher.id /\ publisher'.stream = publisher.stream
    BY <1>1, <1>3, SamePublisher DEF IceFails, wireVars
  <2> QED BY <1>1, <2>1 DEF Seen, Back
<1>4. CASE FailureTimer
  BY <1>1, <1>4, IdsAreNumbers DEF FailureTimer, Stopped, wireVars, Seen, Back
<1> QED BY <1>2, <1>3, <1>4 DEF PeerStep

LEMMA AcknowledgesSeen ==
  ASSUME TypeInv, Acknowledges
  PROVE  \A k \in Ids : Seen(k)' => Seen(k)
<1>1. WireTypes /\ ExtensionTypes /\ UNCHANGED resolved
  BY ExtensionLeavesCore DEF TypeInv, coreVars
<1>2. PICK t \in stops : StopAcknowledged(t)
  BY DEF Acknowledges
<1>3. [op |-> "stopped", id |-> t.id] \in ToCore
  BY <1>1 DEF ExtensionTypes, Stops, ToCore
<1>4. Back' \subseteq Back \cup {[op |-> "stopped", id |-> t.id]}
  BY <1>1, <1>2, <1>3, ToldBack DEF StopAcknowledged
<1>5. stops' \subseteq stops /\ UNCHANGED <<starts, replacements, attempt, publisher>>
  BY <1>2 DEF StopAcknowledged, captureVars
<1> QED BY <1>1, <1>4, <1>5 DEF Seen

LEMMA SocketStepNumbered ==
  ASSUME TypeInv, Numbered, SocketStep
  PROVE  Numbered'
<1>1. requests' = requests /\ requests \in Nat /\ pending' \subseteq pending
  BY DEF SocketStep, CoreLosesSocket, ExtensionLosesSocket, Rebinds, coreVars, TypeInv, CoreTypes
<1>2. UNCHANGED <<starts, replacements, stops, resolved>>
  BY DEF SocketStep, CoreLosesSocket, ExtensionLosesSocket, Rebinds, coreVars, extensionVars,
     captureVars
<1>3. attempt' \in {attempt, None} /\ publisher' \in {publisher, None}
  BY DEF SocketStep, CoreLosesSocket, ExtensionLosesSocket, Rebinds, extensionVars, captureVars,
     Stopped
<1>4. (toExtension' = <<>> /\ toCore' = <<>>) \/ UNCHANGED <<toExtension, toCore>>
  BY DEF SocketStep, CoreLosesSocket, ExtensionLosesSocket, Rebinds, Lost
<1>5. Back' \subseteq Back
  BY <1>4 DEF Back
<1>6. \A k \in Ids : Seen(k)' => Seen(k)
  BY <1>2, <1>3, <1>5, IdsAreNumbers DEF Seen
<1> QED BY <1>1, <1>4, <1>6, NumberedOn

\* A step of the Extension that reads nothing.
LEMMA NextNumbered ==
  ASSUME TypeInv, Numbered, [Next]_vars
  PROVE  Numbered'
<1>1. requests \in Nat
  BY DEF TypeInv, CoreTypes
<1>2. CASE CaptureStep \/ ReplacementStep \/ PeerStep \/ Acknowledges
  <2>1. UNCHANGED <<requests, pending>>
    BY <1>2, ExtensionLeavesCore DEF coreVars
  <2>2. toExtension' = toExtension
    BY <1>2 DEF CaptureStep, CaptureGranted, Acquired, StartFails, OfferMade,
       ReplacementStep, ReplacementBegins,
       ReplacementAcquired, ReplacementCommits, ReplacementFails, SuspensionApplied, PeerStep,
       Connects, IceFails, FailureTimer, Acknowledges, StopAcknowledged, wireVars
  <2>3. \A k \in Ids : Seen(k)' => Seen(k)
    BY <1>2, CaptureStepSeen, ReplacementStepSeen, PeerStepSeen, AcknowledgesSeen
  <2> QED BY <1>1, <2>1, <2>2, <2>3, NumberedOn
<1>3. CASE UNCHANGED vars
  <2>1. \A k \in Ids : Seen(k)' => Seen(k)
    BY <1>3 DEF vars, coreVars, wireVars, extensionVars, captureVars, Seen, Back
  <2> QED BY <1>1, <1>3, <2>1, NumberedOn DEF vars, coreVars, wireVars
<1> QED BY <1>2, <1>3, CoreStepNumbered, CoreReceivesNumbered, ExtensionReceivesNumbered,
           SocketStepNumbered DEF Next

-----------------------------------------------------------------------------
(* Who captures the tab *)

\* Captures, attempts and Publishers are not confused with each other, an
\* attempt that still acquires has stopped the Publisher before it, and only the
\* current attempt goes on with a Publisher.
Apart ==
  /\ \A r \in replacements : publisher # None => r.id # publisher.stream
  /\ \A r \in replacements, s \in starts : r.id # s.id
  /\ \A r, q \in replacements : r.id = q.id \/ r.publisher = q.publisher => r = q
  /\ \A s, z \in starts : s.id = z.id => s = z
  /\ \A s \in starts : s.step = "acquiring" =>
       /\ attempt = s.id => publisher = None
       /\ publisher # None => publisher.id # s.id
       /\ \A r \in replacements : r.publisher # s.id
  /\ \A s \in starts : publisher # None /\ publisher.stream = s.id => attempt = s.id

CaptureInv == TypeInv /\ Numbered /\ Apart /\ Turns /\ CapturesAccounted /\ SuspensionHolds

\* Nothing on either side of the capture changes.
LEMMA SameCaptures ==
  ASSUME CaptureInv, UNCHANGED <<attempt, starts, publisher, replacements, live>>
  PROVE  Apart' /\ Turns' /\ CapturesAccounted' /\ SuspensionHolds'
  BY DEF CaptureInv, Apart, Turns, Current, CapturesAccounted, Serving, Awaited, SuspensionHolds

\* A stop lets go of the Publisher's capture alone.
LEMMA StoppedCaptures ==
  ASSUME CaptureInv, Stopped(live), UNCHANGED <<starts, replacements>>
  PROVE  Apart' /\ Turns' /\ CapturesAccounted' /\ SuspensionHolds'
<1>1. Apart /\ CapturesAccounted /\ starts \subseteq Starts
  BY DEF CaptureInv, TypeInv, ExtensionTypes
<1>2. publisher' = None /\ attempt' = None
      /\ live' = IF publisher = None THEN live ELSE live \ {publisher.stream}
  BY DEF Stopped
<1>3. Apart'
  BY <1>1, <1>2, IdsAreNumbers DEF Apart, Starts
<1>4. CapturesAccounted'
  BY <1>1, <1>2 DEF Apart, CapturesAccounted, Serving, Awaited
<1> QED BY <1>2, <1>3, <1>4 DEF Turns, Current, SuspensionHolds

\* What an operation keeps of the Publisher, of which a new one is asked last.
Alike(p) ==
  /\ p \in Publishers /\ p.id = publisher.id /\ p.stream = publisher.stream
  /\ p.enabled = publisher.enabled /\ p.suspended = publisher.suspended
  /\ p.operations = publisher.operations \/ \E x : p.operations = Append(publisher.operations, x)

LEMMA Operated ==
  ASSUME ExtensionTypes, publisher # None
  PROVE  /\ Alike(publisher)
         /\ Alike([publisher EXCEPT !.ready = TRUE, !.offer = IF @ = "no" THEN "making" ELSE @])
         /\ Alike([publisher EXCEPT !.offer = "sent"])
         /\ \A x \in {"connected", "failed", "restarting"} : Alike([publisher EXCEPT !.ice = x])
<1>1. publisher \in Publishers
  BY PublisherTypes
<1>2. \A x \in {"connected", "failed", "restarting"} : Alike([publisher EXCEPT !.ice = x])
  BY <1>1 DEF Alike, Publishers
<1>3. Alike([publisher EXCEPT !.offer = "sent"])
  BY <1>1 DEF Alike, Publishers
<1>4. Alike([publisher EXCEPT !.ready = TRUE, !.offer = IF @ = "no" THEN "making" ELSE @])
  BY <1>1 DEF Alike, Publishers
<1> QED BY <1>1, <1>2, <1>3, <1>4 DEF Alike

LEMMA Queued ==
  ASSUME ExtensionTypes, publisher # None, NEW x \in [op : {"suspend", "resume", "replace"}, id : Ids]
  PROVE  Alike([publisher EXCEPT !.operations = Append(@, x)])
<1>1. publisher \in Publishers
  BY PublisherTypes
<1>2. Append(publisher.operations, x) \in Seq([op : {"suspend", "resume", "replace"}, id : Ids])
  BY PublisherTypes, AppendProperties
<1>3. [publisher EXCEPT !.operations = Append(@, x)]
        = [publisher EXCEPT !.operations = Append(publisher.operations, x)]
  OBVIOUS
<1> QED BY <1>1, <1>2, <1>3 DEF Alike, Publishers

\* What is asked last does not overtake what is under way.
LEMMA TurnKept ==
  ASSUME ExtensionTypes, publisher # None, Alike(publisher'), publisher.operations # <<>>
  PROVE  publisher'.operations # <<>> /\ Head(publisher'.operations) = Head(publisher.operations)
<1> DEFINE S == [op : {"suspend", "resume", "replace"}, id : Ids]
<1>1. publisher.operations \in Seq(S) /\ publisher' \in Publishers
  BY PublisherTypes DEF Alike
<1>2. publisher'.operations \in Seq(S)
  BY <1>1 DEF Publishers
<1> HIDE DEF S
<1>3. Len(publisher.operations) \in Nat /\ Len(publisher.operations) >= 1
  BY <1>1, LenProperties, EmptySeq
<1>4. ASSUME NEW x, publisher'.operations = Append(publisher.operations, x)
      PROVE  publisher'.operations # <<>> /\ Head(publisher'.operations) = Head(publisher.operations)
  <2>1. publisher.operations \in Seq(S \cup {x}) /\ x \in S \cup {x}
    BY <1>1
  <2>2. /\ Len(publisher'.operations) = Len(publisher.operations) + 1
        /\ publisher'.operations[1] = publisher.operations[1]
    BY <1>3, <1>4, <2>1, AppendProperties
  <2> QED BY <1>1, <1>2, <1>3, <2>2, EmptySeq
<1> QED BY <1>4 DEF Alike

\* The Publisher is operated on: its capture stays, and so do the captures awaited.
LEMMA OperatedCaptures ==
  ASSUME CaptureInv, publisher # None, Alike(publisher'),
         starts' = starts \/ starts' = {s \in starts : s.id # publisher.id},
         \A s \in starts' : attempt = s.id => attempt' = s.id,
         attempt' \in {attempt, None}, UNCHANGED <<replacements, live>>
  PROVE  Apart' /\ Turns' /\ CapturesAccounted' /\ SuspensionHolds'
<1>1. /\ Apart /\ Turns /\ CapturesAccounted /\ SuspensionHolds
      /\ starts \subseteq Starts /\ ExtensionTypes
  BY DEF CaptureInv, TypeInv, ExtensionTypes
<1>2. /\ publisher' # None /\ publisher'.id = publisher.id /\ publisher'.stream = publisher.stream
      /\ publisher'.enabled = publisher.enabled /\ publisher'.suspended = publisher.suspended
  BY NoPublisherAssumption DEF Alike
<1>3. \A r \in replacements : Current(r)' => Current(r)
  BY <1>2 DEF Current
<1>4. Apart'
  BY <1>1, <1>2, IdsAreNumbers DEF Apart, Starts
<1>5. Turns'
  BY <1>1, <1>3, TurnKept DEF Turns
<1>6. Serving' = Serving
  BY <1>2 DEF Serving
<1>7. Awaited' = Awaited
  <2>1. \A s \in starts : s.step = "acquiring" => s \in starts'
    BY <1>1 DEF Apart
  <2>2. starts' \subseteq starts
    OBVIOUS
  <2> QED BY <2>1, <2>2 DEF Awaited
<1> QED BY <1>1, <1>2, <1>4, <1>5, <1>6, <1>7 DEF CapturesAccounted, SuspensionHolds

LEMMA ExtensionReceivesCaptures ==
  ASSUME CaptureInv, ExtensionReceives
  PROVE  Apart' /\ Turns' /\ CapturesAccounted' /\ SuspensionHolds'
<1>1. /\ WireTypes /\ ExtensionTypes /\ Numbered /\ Apart /\ Turns /\ CapturesAccounted
      /\ SuspensionHolds /\ starts \subseteq Starts /\ replacements \subseteq Replacements
  BY DEF CaptureInv, TypeInv, ExtensionTypes
<1>2. ASSUME publisher' = None \/ (publisher # None /\ Alike(publisher')), publisher = None <=> publisher' = None,
             UNCHANGED <<attempt, starts, replacements, live>>
      PROVE  Apart' /\ Turns' /\ CapturesAccounted' /\ SuspensionHolds'
  <2>1. CASE publisher = None
    BY <1>2, <2>1, SameCaptures
  <2>2. CASE publisher # None
    BY <1>2, <2>2, OperatedCaptures
  <2> QED BY <2>1, <2>2
<1>3. ASSUME Alike(publisher'), publisher # None
      PROVE  publisher' # None
  BY <1>3, NoPublisherAssumption DEF Alike
<1>4. CASE ReadyArrives
  BY <1>1, <1>2, <1>3, <1>4, Operated DEF ReadyArrives
<1>5. CASE RestartArrives
  BY <1>1, <1>2, <1>3, <1>5, Operated DEF RestartArrives
<1>6. CASE SuspensionArrives
  <2>1. PICK op \in {"suspend", "resume"} : Hears(op)
    BY <1>6 DEF SuspensionArrives
  <2>2. Head(toExtension) \in [op : {"suspend", "resume", "replace"}, id : Ids]
    <3>1. Head(toExtension) \in ToExtension /\ Head(toExtension).op = op
      BY <1>1, <2>1, Heard
    <3> QED BY <3>1, Downward
  <2>3. publisher # None => Alike(publisher')
    BY <1>1, <1>6, <2>2, Queued DEF SuspensionArrives
  <2> QED BY <1>2, <1>3, <1>6, <2>3 DEF SuspensionArrives
<1>7. CASE LeftArrives \/ StopArrives
  BY <1>7, StoppedCaptures DEF LeftArrives, StopArrives
<1>8. CASE StartArrives
  <2> DEFINE m == Head(toExtension)
             s0 == [id |-> m.id, generation |-> m.generation, revision |-> m.revision,
                    ready |-> Kept, step |-> "acquiring"]
  <2>1. m \in ToExtension /\ m.op = "start" /\ m \in OnWay
    BY <1>1, <1>8, Heard, HeardOnWay DEF StartArrives
  <2>2. m.id \in Ids /\ \A k \in Ids : Seen(k) => k < m.id
    BY <1>1, <2>1, Downward DEF Numbered, HasId
  <2>3. ~Seen(m.id)
    <3> HIDE DEF m
    <3>1. m.id \in Nat
      BY <2>2, IdsAreNumbers
    <3>2. ~(m.id < m.id)
      BY <3>1
    <3> QED BY <2>2, <3>2, Zenon
  <2>4. /\ \A s \in starts : s.id # m.id
        /\ \A r \in replacements : m.id \notin {r.id, r.publisher}
    BY <2>3 DEF Seen
  <2>5. /\ publisher' = None /\ attempt' = m.id /\ starts' = starts \cup {s0} /\ s0.id = m.id
        /\ live' = (IF publisher = None THEN live ELSE live \ {publisher.stream})
        /\ UNCHANGED replacements
    BY <1>8 DEF StartArrives
  <2> HIDE DEF m, s0
  <2>6. Apart'
    BY <1>1, <2>4, <2>5 DEF Apart
  <2>7. CapturesAccounted'
    BY <1>1, <2>5 DEF Apart, CapturesAccounted, Serving, Awaited
  <2> QED BY <2>5, <2>6, <2>7 DEF Turns, Current, SuspensionHolds
<1>9. CASE ReplaceArrives
  <2>1. CASE ~Replaceable(Head(toExtension))
    BY <1>9, <2>1, SameCaptures DEF ReplaceArrives
  <2>2. CASE Replaceable(Head(toExtension))
    <3> DEFINE m == Head(toExtension)
               x == [op |-> "replace", id |-> m.id]
               q == [id |-> m.id, publisher |-> publisher.id, generation |-> m.generation,
                     revision |-> m.revision, step |-> "queued"]
    <3>1. m \in ToExtension /\ m.op = "replace" /\ m \in OnWay
      BY <1>1, <1>9, Heard, HeardOnWay DEF ReplaceArrives
    <3>2. m.id \in Ids /\ \A k \in Ids : Seen(k) => k < m.id
      BY <1>1, <3>1, Downward DEF Numbered, HasId
    <3>3. ~Seen(m.id)
      <4> HIDE DEF m
      <4>1. m.id \in Nat
        BY <3>2, IdsAreNumbers
      <4>2. ~(m.id < m.id)
        BY <4>1
      <4> QED BY <3>2, <4>2, Zenon
    <3>4. /\ publisher # None /\ \A r \in replacements : r.publisher # publisher.id
      BY <2>2 DEF Replaceable
    <3>5. /\ \A s \in starts : s.id # m.id
          /\ \A r \in replacements : m.id # r.id
          /\ m.id # publisher.stream
      BY <3>3, <3>4 DEF Seen
    <3>6. x \in [op : {"suspend", "resume", "replace"}, id : Ids]
      BY <3>2
    <3>7. /\ publisher' = [publisher EXCEPT !.operations = Append(@, x)]
          /\ replacements' = replacements \cup {q}
          /\ q.id = m.id /\ q.publisher = publisher.id /\ q.step = "queued"
          /\ UNCHANGED <<attempt, starts, live>>
      BY <1>9, <2>2 DEF ReplaceArrives
    <3> HIDE DEF m, x, q
    <3>8. Alike(publisher')
      BY <1>1, <3>4, <3>6, <3>7, Queued
    <3>9. /\ publisher' # None /\ publisher'.id = publisher.id /\ publisher'.stream = publisher.stream
          /\ publisher'.enabled = publisher.enabled /\ publisher'.suspended = publisher.suspended
      BY <3>8, NoPublisherAssumption DEF Alike
    <3>10. Apart'
      BY <1>1, <3>4, <3>5, <3>7, <3>9 DEF Apart
    <3>11. Turns'
      BY <1>1, <3>4, <3>7, <3>8, <3>9, TurnKept DEF Turns, Current
    <3>12. CapturesAccounted' /\ SuspensionHolds'
      BY <1>1, <3>4, <3>7, <3>9 DEF CapturesAccounted, Serving, Awaited, SuspensionHolds
    <3> QED BY <3>10, <3>11, <3>12
  <2> QED BY <2>1, <2>2
<1> QED BY <1>4, <1>5, <1>6, <1>7, <1>8, <1>9 DEF ExtensionReceives

LEMMA CaptureStepCaptures ==
  ASSUME CaptureInv, CaptureStep
  PROVE  Apart' /\ Turns' /\ CapturesAccounted' /\ SuspensionHolds'
<1>1. /\ ExtensionTypes /\ Apart /\ Turns /\ CapturesAccounted /\ SuspensionHolds
      /\ starts \subseteq Starts
  BY DEF CaptureInv, TypeInv, ExtensionTypes
<1>2. ASSUME NEW s \in starts, Acquired(s), Wanted(s)
      PROVE  Apart' /\ Turns' /\ CapturesAccounted' /\ SuspensionHolds'
  <2> DEFINE z == [s EXCEPT !.step = "offering"]
  <2>1. /\ s.step = "acquiring" /\ attempt = s.id /\ publisher = None
        /\ \A r \in replacements : r.publisher # s.id /\ r.id # s.id
    BY <1>1, <1>2 DEF Acquired, Wanted, Apart
  <2>2. z.id = s.id /\ z.step = "offering"
    BY <1>1 DEF Starts
  <2>3. /\ publisher' = PublisherOf(s) /\ live' = live \cup {s.id} /\ UNCHANGED replacements
        /\ attempt' \in {attempt, None}
        /\ \/ starts' = (starts \ {s}) \cup {z}
           \/ starts' = starts \ {s}
    BY <1>2 DEF Acquired
  <2> HIDE DEF z
  <2>4. /\ publisher'.id = s.id /\ publisher'.stream = s.id
        /\ publisher'.enabled = ~publisher'.suspended
    BY <2>3 DEF PublisherOf
  <2>5. publisher' # None
    <3>1. s \in Starts /\ <<>> \in Seq([op : {"suspend", "resume", "replace"}, id : Ids])
      BY <1>1
    <3>2. PublisherOf(s) \in Publishers
      BY <3>1 DEF PublisherOf, Publishers, Starts
    <3> QED BY <2>3, <3>2, NoPublisherAssumption
  <2>6. \A y \in starts' : \/ y \in starts /\ y # s
                           \/ y = z
    BY <2>3
  <2>7. Apart'
    <3>1. \A y, q \in starts' : y.id = q.id => y = q
      BY <1>1, <2>1, <2>2, <2>3, <2>6 DEF Apart
    <3>2. \A y \in starts' : publisher' # None /\ publisher'.stream = y.id => attempt' = y.id
      <4>1. CASE starts' = (starts \ {s}) \cup {z}
        <5>1. z \notin starts
          BY <1>1, <2>1, <2>2 DEF Apart
        <5>2. starts' # starts \ {s}
          BY <4>1, <5>1
        <5>3. UNCHANGED attempt
          BY <1>2, <5>2 DEF Acquired
        <5> QED BY <2>1, <2>4, <5>3
      <4>2. CASE starts' = starts \ {s}
        BY <1>1, <2>4, <4>2 DEF Apart
      <4> QED BY <2>3, <4>1, <4>2
    <3>3. \A y \in starts' : y.step = "acquiring" =>
            /\ attempt' # y.id /\ publisher'.id # y.id
            /\ \A r \in replacements' : r.publisher # y.id
      BY <1>1, <2>1, <2>2, <2>3, <2>4, <2>6, IdsAreNumbers DEF Apart, Starts
    <3>4. \A r \in replacements', y \in starts' : r.id # y.id
      BY <1>1, <2>1, <2>2, <2>3, <2>6 DEF Apart
    <3>5. \A r, q \in replacements' : r.id = q.id \/ r.publisher = q.publisher => r = q
      BY <1>1, <2>3 DEF Apart
    <3>6. \A r \in replacements' : r.id # publisher'.stream
      BY <2>1, <2>3, <2>4
    <3> QED BY <3>1, <3>2, <3>3, <3>4, <3>5, <3>6 DEF Apart
  <2>8. Turns' /\ SuspensionHolds'
    BY <2>1, <2>3, <2>4, <2>5 DEF Turns, Current, SuspensionHolds
  <2>9. CapturesAccounted'
    <3>1. Serving' = Serving \cup {s.id}
      BY <2>1, <2>3, <2>4, <2>5 DEF Serving
    <3>2. Awaited \subseteq Awaited' \cup {s.id}
      BY <2>3 DEF Awaited
    <3> QED BY <1>1, <2>3, <3>1, <3>2 DEF CapturesAccounted
  <2> QED BY <2>7, <2>8, <2>9
<1>3. ASSUME NEW s \in starts, starts' = starts \ {s}, live' = live \ {s.id}, attempt # s.id,
             UNCHANGED <<attempt, publisher, replacements>>
      PROVE  Apart' /\ Turns' /\ CapturesAccounted' /\ SuspensionHolds'
  <2>1. Apart' /\ Turns' /\ SuspensionHolds'
    BY <1>1, <1>3 DEF Apart, Turns, Current, SuspensionHolds
  <2>2. Serving' = Serving
    BY <1>3 DEF Serving
  <2>3. s.id \notin Serving
    BY <1>1, <1>3 DEF Apart, Serving
  <2>4. Awaited \subseteq Awaited' \cup {s.id}
    BY <1>3 DEF Awaited
  <2> QED BY <1>1, <1>3, <2>1, <2>2, <2>3, <2>4 DEF CapturesAccounted
<1>4. ASSUME NEW s \in starts, Acquired(s), ~Wanted(s)
      PROVE  Apart' /\ Turns' /\ CapturesAccounted' /\ SuspensionHolds'
  BY <1>3, <1>4 DEF Acquired, Wanted
<1>5. ASSUME NEW s \in starts, StartFails(s)
      PROVE  Apart' /\ Turns' /\ CapturesAccounted' /\ SuspensionHolds'
  <2>1. CASE attempt # s.id
    BY <1>3, <1>5, <2>1 DEF StartFails
  <2>2. CASE attempt = s.id
    <3>1. /\ publisher' = None /\ attempt' = None /\ starts' = starts \ {s} /\ UNCHANGED replacements
          /\ live' = IF publisher = None THEN live \ {s.id} ELSE (live \ {s.id}) \ {publisher.stream}
      BY <1>5, <2>2 DEF StartFails, Stopped
    <3>2. Apart'
      BY <1>1, <3>1, IdsAreNumbers DEF Apart, Starts
    <3>3. CapturesAccounted'
      BY <1>1, <3>1 DEF Apart, CapturesAccounted, Serving, Awaited
    <3> QED BY <3>1, <3>2, <3>3 DEF Turns, Current, SuspensionHolds
  <2> QED BY <2>1, <2>2
<1>6. CASE OfferMade
  <2>1. publisher' = [publisher EXCEPT !.offer = "sent"] /\ publisher # None
        /\ starts' = {s \in starts : s.id # publisher.id} /\ UNCHANGED <<replacements, live>>
        /\ attempt' = IF attempt = publisher.id THEN None ELSE attempt
    BY <1>6 DEF OfferMade
  <2>2. Alike(publisher')
    BY <1>1, <2>1, Operated
  <2> QED BY <1>1, <2>1, <2>2, OperatedCaptures
<1>7. ASSUME NEW x \in starts \cup replacements, CaptureGranted(x)
      PROVE  Apart' /\ Turns' /\ CapturesAccounted' /\ SuspensionHolds'
  <2>1. /\ x.id \in Awaited /\ live' = live \cup {x.id}
        /\ UNCHANGED <<attempt, starts, publisher, replacements>>
    BY <1>7 DEF CaptureGranted, Awaited
  <2>2. Serving' = Serving /\ Awaited' = Awaited
    BY <2>1 DEF Serving, Awaited
  <2>3. Apart' /\ Turns' /\ SuspensionHolds'
    BY <1>1, <2>1 DEF Apart, Turns, Current, SuspensionHolds
  <2> QED BY <1>1, <2>1, <2>2, <2>3 DEF CapturesAccounted
<1> QED BY <1>2, <1>4, <1>5, <1>6, <1>7 DEF CaptureStep

LEMMA PeerStepCaptures ==
  ASSUME CaptureInv, PeerStep
  PROVE  Apart' /\ Turns' /\ CapturesAccounted' /\ SuspensionHolds'
<1>1. ExtensionTypes
  BY DEF CaptureInv, TypeInv
<1>2. CASE Connects \/ IceFails
  BY <1>1, <1>2, Operated, OperatedCaptures DEF Connects, IceFails
<1>3. CASE FailureTimer
  BY <1>3, StoppedCaptures DEF FailureTimer
<1> QED BY <1>2, <1>3 DEF PeerStep

\* A replacement that swaps ends, or the Publisher with it.
LEMMA ReplacementStepCaptures ==
  ASSUME CaptureInv, ReplacementStep
  PROVE  Apart' /\ Turns' /\ CapturesAccounted' /\ SuspensionHolds'
<1>1. /\ TypeInv /\ ExtensionTypes /\ Apart /\ Turns /\ CapturesAccounted /\ SuspensionHolds
      /\ replacements \subseteq Replacements
  BY DEF CaptureInv, TypeInv, ExtensionTypes
<1>2. ASSUME NEW r \in replacements, NEW step,
             replacements' = (replacements \ {r}) \cup {[r EXCEPT !.step = step]},
             UNCHANGED <<attempt, starts, publisher>>
      PROVE  /\ [r EXCEPT !.step = step].id = r.id /\ [r EXCEPT !.step = step].publisher = r.publisher
             /\ [r EXCEPT !.step = step].step = step
             /\ Apart'
  <2> DEFINE z == [r EXCEPT !.step = step]
  <2>1. r \in Replacements /\ z.id = r.id /\ z.publisher = r.publisher /\ z.step = step
    BY EndTypes, <1>1 DEF Replacements
  <2> HIDE DEF z
  <2>2. \A q \in replacements' : (q \in replacements /\ q # r) \/ q = z
    BY <1>2 DEF z
  <2>3. Apart'
    BY <1>1, <1>2, <2>1, <2>2 DEF Apart
  <2> QED BY <2>1, <2>3 DEF z
<1>3. ASSUME NEW r \in replacements, Ends(r), UNCHANGED <<attempt, starts, publisher>>
      PROVE  Apart' /\ Turns'
  BY <1>1, <1>3 DEF Apart, Turns, Ends, Current
<1>4. ASSUME NEW r \in replacements, ReplacementBegins(r)
      PROVE  Apart' /\ Turns' /\ CapturesAccounted' /\ SuspensionHolds'
  <2>1. r.step = "queued" /\ UNCHANGED <<attempt, starts, publisher, live>>
    BY <1>4 DEF ReplacementBegins
  <2>2. CASE Current(r)
    <3>1. /\ Operates("replace")
          /\ replacements' = (replacements \ {r}) \cup {[r EXCEPT !.step = "acquiring"]}
      BY <1>4, <2>2 DEF ReplacementBegins
    <3>2. Apart' /\ [r EXCEPT !.step = "acquiring"].id = r.id
          /\ [r EXCEPT !.step = "acquiring"].step = "acquiring"
      BY <1>2, <2>1, <3>1
    <3>3. Turns'
      BY <1>1, <2>1, <3>1 DEF Turns, Current, Operates
    <3>4. CapturesAccounted'
      <4>1. Serving' = Serving
        BY <2>1, <3>1, <3>2 DEF Serving
      <4>2. Awaited \subseteq Awaited'
        BY <2>1, <3>1 DEF Awaited
      <4> QED BY <1>1, <2>1, <4>1, <4>2 DEF CapturesAccounted
    <3> QED BY <1>1, <2>1, <3>2, <3>3, <3>4 DEF SuspensionHolds
  <2>3. CASE ~Current(r)
    <3>1. Ends(r)
      BY <1>4, <2>3 DEF ReplacementBegins
    <3> QED BY <1>1, <1>3, <2>1, <3>1 DEF CapturesAccounted, Serving, Awaited, SuspensionHolds, Ends
  <2> QED BY <2>2, <2>3
<1>5. ASSUME NEW r \in replacements, ReplacementAcquired(r)
      PROVE  Apart' /\ Turns' /\ CapturesAccounted' /\ SuspensionHolds'
  <2>1. r.step = "acquiring" /\ UNCHANGED <<attempt, starts, publisher>>
    BY <1>5 DEF ReplacementAcquired
  <2>2. CASE Current(r)
    <3>1. /\ live' = live \cup {r.id}
          /\ replacements' = (replacements \ {r}) \cup {[r EXCEPT !.step = "swapping"]}
      BY <1>5, <2>2 DEF ReplacementAcquired
    <3>2. /\ Apart' /\ [r EXCEPT !.step = "swapping"].id = r.id
          /\ [r EXCEPT !.step = "swapping"].publisher = r.publisher
          /\ [r EXCEPT !.step = "swapping"].step = "swapping"
      BY <1>2, <2>1, <3>1
    <3>3. Turns'
      BY <1>1, <2>1, <2>2, <3>1, <3>2 DEF Turns, Current
    <3>4. CapturesAccounted'
      <4>1. Serving' = Serving \cup {r.id}
        BY <2>1, <3>1, <3>2 DEF Serving
      <4>2. Awaited \subseteq Awaited' \cup {r.id}
        BY <2>1, <3>1, <3>2 DEF Awaited
      <4> QED BY <1>1, <3>1, <4>1, <4>2 DEF CapturesAccounted
    <3> QED BY <1>1, <2>1, <3>2, <3>3, <3>4 DEF SuspensionHolds
  <2>3. CASE ~Current(r)
    <3>1. Ends(r) /\ live' = live \ {r.id}
      BY <1>5, <2>3 DEF ReplacementAcquired
    <3>2. CapturesAccounted'
      BY <1>1, <2>1, <3>1 DEF CapturesAccounted, Serving, Awaited, Ends, Apart
    <3> QED BY <1>1, <1>3, <2>1, <3>1, <3>2 DEF SuspensionHolds
  <2> QED BY <2>2, <2>3
<1>6. ASSUME NEW r \in replacements, Current(r), r.step # "queued"
      PROVE  /\ publisher # None /\ publisher.operations # <<>>
             /\ \A q \in replacements : q # r => ~Current(q)
  BY <1>1, <1>6 DEF Turns, Current, Apart
<1>7. ASSUME NEW r \in replacements, ReplacementCommits(r)
      PROVE  Apart' /\ Turns' /\ CapturesAccounted' /\ SuspensionHolds'
  <2>1. /\ r.step = "swapping" /\ Current(r) /\ Ends(r) /\ UNCHANGED <<attempt, starts>>
        /\ live' = live \ {publisher.stream}
        /\ publisher' = [Done EXCEPT !.stream = r.id, !.revision = r.revision,
                                     !.enabled = ~publisher.suspended]
    BY <1>7 DEF ReplacementCommits
  <2>2. /\ publisher # None /\ publisher.operations # <<>>
        /\ \A q \in replacements : q # r => ~Current(q)
    BY <1>6, <2>1
  <2>3. /\ publisher'.id = publisher.id /\ publisher'.stream = r.id
        /\ publisher'.enabled = ~publisher.suspended /\ publisher'.suspended = publisher.suspended
    BY <1>1, <2>1, <2>2, Committed
  <2>4. publisher' # None
    <3>1. Done \in Publishers /\ publisher.suspended \in BOOLEAN
      BY <1>1, <2>2, DoneTypes, PublisherTypes DEF Publishers
    <3>2. publisher' \in Publishers
      BY <1>1, <2>1, <3>1, EndTypes DEF Publishers
    <3> QED BY <3>2, NoPublisherAssumption
  <2>5. Apart'
    BY <1>1, <2>1, <2>2, <2>3, <2>4 DEF Apart, Ends
  <2>6. Turns'
    BY <2>1, <2>2, <2>3 DEF Turns, Current, Ends
  <2>7. CapturesAccounted'
    BY <1>1, <2>1, <2>2, <2>3, <2>4 DEF CapturesAccounted, Serving, Awaited, Ends, Apart
  <2> QED BY <2>3, <2>5, <2>6, <2>7 DEF SuspensionHolds
<1>8. ASSUME NEW r \in replacements, ReplacementFails(r)
      PROVE  Apart' /\ Turns' /\ CapturesAccounted' /\ SuspensionHolds'
  <2>1. r.step # "queued" /\ Ends(r) /\ UNCHANGED starts
    BY <1>8 DEF ReplacementFails
  <2>2. CASE live' = live \ {r.id} /\ UNCHANGED <<ready, attempt, publisher>>
    <3>1. CapturesAccounted'
      BY <1>1, <2>1, <2>2 DEF CapturesAccounted, Serving, Awaited, Ends, Apart
    <3> QED BY <1>1, <1>3, <2>1, <2>2, <3>1 DEF SuspensionHolds
  <2>3. CASE Current(r) /\ publisher' = Done /\ live' = live \ {r.id} /\ UNCHANGED <<ready, attempt>>
    <3>1. /\ publisher # None /\ publisher.operations # <<>>
          /\ \A q \in replacements : q # r => ~Current(q)
      BY <1>6, <2>1, <2>3
    <3>2. Done \in Publishers
      BY <1>1, <3>1, DoneTypes
    <3>3. /\ publisher'.id = publisher.id /\ publisher'.stream = publisher.stream
          /\ publisher'.enabled = publisher.enabled /\ publisher'.suspended = publisher.suspended
          /\ publisher' # None
      BY <1>1, <2>3, <3>1, <3>2, PublisherTypes, NoPublisherAssumption DEF Done, Publishers
    <3>4. Apart'
      BY <1>1, <2>1, <2>3, <3>1, <3>3 DEF Apart, Ends
    <3>5. Turns'
      BY <2>1, <3>1, <3>3 DEF Turns, Current, Ends
    <3>6. CapturesAccounted'
      BY <1>1, <2>1, <2>3, <3>1, <3>3 DEF CapturesAccounted, Serving, Awaited, Ends, Apart
    <3> QED BY <1>1, <3>1, <3>3, <3>4, <3>5, <3>6 DEF SuspensionHolds
  <2>4. CASE Stopped(live \ {r.id})
    <3>1. /\ publisher' = None /\ attempt' = None
          /\ live' = IF publisher = None THEN live \ {r.id} ELSE (live \ {r.id}) \ {publisher.stream}
      BY <2>4 DEF Stopped
    <3>2. Apart'
      BY <1>1, <2>1, <3>1, IdsAreNumbers DEF Apart, Ends, ExtensionTypes, Starts
    <3>3. CapturesAccounted'
      BY <1>1, <2>1, <3>1 DEF CapturesAccounted, Serving, Awaited, Ends, Apart
    <3> QED BY <3>1, <3>2, <3>3 DEF Turns, Current, SuspensionHolds
  <2> QED BY <1>8, <2>2, <2>3, <2>4 DEF ReplacementFails
<1>9. CASE SuspensionApplied
  <2>1. /\ publisher # None /\ publisher.operations # <<>> /\ UNCHANGED <<starts, replacements>>
        /\ Head(publisher.operations).op # "replace"
    BY <1>9 DEF SuspensionApplied, Operates
  <2>2. CASE Stopped(live)
    BY <2>1, <2>2, StoppedCaptures
  <2>3. CASE ~Stopped(live)
    <3> DEFINE suspended == Head(publisher.operations).op = "suspend"
    <3>1. /\ publisher' = [publisher EXCEPT !.suspended = suspended, !.enabled = ~suspended,
                                            !.operations = Tail(@)]
          /\ UNCHANGED <<attempt, live>>
      BY <1>9, <2>3 DEF SuspensionApplied
    <3>2. suspended \in BOOLEAN /\ (~suspended) \in BOOLEAN
      OBVIOUS
    <3>3. Tail(publisher.operations) \in Seq([op : {"suspend", "resume", "replace"}, id : Ids])
      BY <1>1, <2>1, PublisherTypes
    <3> HIDE DEF suspended
    <3>4. publisher' \in Publishers /\ publisher'.id = publisher.id
          /\ publisher'.stream = publisher.stream /\ publisher'.suspended = suspended
          /\ publisher'.enabled = ~suspended
      BY <1>1, <2>1, <3>1, <3>2, <3>3, PublisherTypes DEF Publishers
    <3>5. publisher' # None
      BY <3>4, NoPublisherAssumption
    <3>6. Apart'
      BY <1>1, <2>1, <3>1, <3>4, <3>5 DEF Apart
    <3>7. Turns'
      BY <1>1, <2>1, <3>4 DEF Turns, Current
    <3> QED BY <1>1, <2>1, <3>1, <3>4, <3>5, <3>6, <3>7 DEF CapturesAccounted, Serving, Awaited, SuspensionHolds
  <2> QED BY <2>2, <2>3
<1> QED BY <1>4, <1>5, <1>7, <1>8, <1>9 DEF ReplacementStep

LEMMA NextCaptures ==
  ASSUME CaptureInv, [Next]_vars
  PROVE  CaptureInv'
<1>1. TypeInv /\ Numbered /\ Turns
  BY DEF CaptureInv
<1>2. TypeInv' /\ Numbered'
  BY <1>1, NextTypes, NextNumbered
<1>3. Apart' /\ Turns' /\ CapturesAccounted' /\ SuspensionHolds'
  <2>1. CASE CoreStep \/ CoreReceives \/ UNCHANGED vars
    BY <2>1, CoreLeavesExtension, SameCaptures DEF vars, extensionVars, captureVars
  <2>2. CASE Acknowledges
    BY <2>2, SameCaptures DEF Acknowledges, StopAcknowledged, captureVars
  <2>3. CASE CoreLosesSocket \/ Rebinds
    BY <2>3, SameCaptures DEF CoreLosesSocket, Rebinds, extensionVars, captureVars
  <2>4. CASE ExtensionLosesSocket
    BY <2>4, SameCaptures, StoppedCaptures DEF ExtensionLosesSocket
  <2> QED BY <2>1, <2>2, <2>3, <2>4, ExtensionReceivesCaptures, CaptureStepCaptures,
             ReplacementStepCaptures, PeerStepCaptures DEF Next, SocketStep
<1> QED BY <1>2, <1>3 DEF CaptureInv

LEMMA InitCaptures == Init => CaptureInv
<1> SUFFICES ASSUME Init PROVE CaptureInv
  OBVIOUS
<1>1. TypeInv
  BY InitTypes
<1>2. Numbered
  <2>1. OnWay = {} /\ Back = {}
    BY DEF Init, OnWay, Back
  <2>2. \A k \in Ids : ~Seen(k)
    BY <2>1, IdsAreNumbers DEF Init, Seen
  <2> QED BY <2>1, <2>2 DEF Init, Numbered, Increasing
<1> QED BY <1>1, <1>2 DEF Init, CaptureInv, Apart, Turns, CapturesAccounted, Serving, Awaited, SuspensionHolds

\* The tab is captured for the Publisher and for the replacement that swaps it,
\* beside them only for those who still await their capture, and dark while the
\* Viewer suspended it: however late a capture is acquired.
THEOREM MediaConsistent == Spec => []Consistent
<1>1. Init => CaptureInv
  BY InitCaptures
<1>2. CaptureInv /\ [Next]_vars => CaptureInv'
  BY NextCaptures
<1>3. CaptureInv => Consistent
  BY TypeParts DEF CaptureInv, TypeInv, Consistent
<1> QED BY <1>1, <1>2, <1>3, PTL DEF Spec

-----------------------------------------------------------------------------
(* What an answer means *)

OnItsWay(k) == \E m \in OnWay : HasId(m) /\ m.id = k

\* No step goes back behind a request that was read: what publishes, starts or
\* replaces afterwards did so before, or was asked for later.
Moves ==
  /\ publisher' # None =>
       \/ /\ publisher # None /\ publisher'.id = publisher.id
          /\ \/ publisher'.stream = publisher.stream
             \/ \E r \in replacements : Current(r) /\ publisher'.stream = r.id
       \/ \E s \in starts : s.step = "acquiring" /\ attempt = s.id /\ publisher'.id = s.id
  /\ attempt' \in {attempt, None} \/ OnItsWay(attempt')
  /\ \A s \in starts' : s.step = "acquiring" => s \in starts \/ OnItsWay(s.id)
  /\ \A r \in replacements' :
       OnItsWay(r.id) \/ \E q \in replacements : q.id = r.id /\ q.publisher = r.publisher

LEMMA NothingMoves ==
  ASSUME attempt' \in {attempt, None}, publisher' \in {publisher, None},
         starts' \subseteq starts, replacements' \subseteq replacements
  PROVE  Moves
  BY DEF Moves

LEMMA OperationMoves ==
  ASSUME publisher # None, publisher'.id = publisher.id, publisher'.stream = publisher.stream,
         attempt' \in {attempt, None}, starts' \subseteq starts, replacements' \subseteq replacements
  PROVE  Moves
  BY DEF Moves

LEMMA ExtensionReceivesMoves ==
  ASSUME TypeInv, ExtensionReceives
  PROVE  Moves
<1>1. WireTypes /\ ExtensionTypes
  BY DEF TypeInv
<1>2. CASE ReadyArrives \/ RestartArrives \/ SuspensionArrives
  <2>1. UNCHANGED <<attempt, starts, replacements>>
    BY <1>2 DEF ReadyArrives, RestartArrives, SuspensionArrives
  <2>2. CASE publisher = None
    <3>1. publisher' = publisher
      BY <1>2, <2>2 DEF ReadyArrives, RestartArrives, SuspensionArrives
    <3> QED BY <2>1, <3>1, NothingMoves
  <2>3. CASE publisher # None
    <3>1. CASE ReadyArrives
      BY <1>1, <2>1, <2>3, <3>1, SamePublisher, OperationMoves DEF ReadyArrives
    <3>2. CASE RestartArrives
      BY <1>1, <2>1, <2>3, <3>2, SamePublisher, OperationMoves DEF RestartArrives
    <3>3. CASE SuspensionArrives
      BY <1>1, <2>1, <2>3, <3>3, SamePublisher, OperationMoves DEF SuspensionArrives
    <3> QED BY <1>2, <3>1, <3>2, <3>3
  <2> QED BY <2>2, <2>3
<1>3. CASE LeftArrives \/ StopArrives
  BY <1>3, NothingMoves DEF LeftArrives, StopArrives, Stopped
<1>4. CASE StartArrives
  <2>1. Head(toExtension).op = "start" /\ Head(toExtension) \in OnWay
    BY <1>1, <1>4, Heard, HeardOnWay DEF StartArrives
  <2>2. OnItsWay(Head(toExtension).id)
    BY <2>1 DEF OnItsWay, HasId
  <2>3. /\ attempt' = Head(toExtension).id /\ publisher' = None /\ UNCHANGED replacements
        /\ \A s \in starts' : s \in starts \/ s.id = Head(toExtension).id
    BY <1>4 DEF StartArrives
  <2> QED BY <2>2, <2>3 DEF Moves
<1>5. CASE ReplaceArrives
  <2>1. Head(toExtension).op = "replace" /\ Head(toExtension) \in OnWay
    BY <1>1, <1>5, Heard, HeardOnWay DEF ReplaceArrives
  <2>2. OnItsWay(Head(toExtension).id)
    BY <2>1 DEF OnItsWay, HasId
  <2>3. UNCHANGED <<attempt, starts>>
    BY <1>5 DEF ReplaceArrives
  <2>4. CASE Replaceable(Head(toExtension))
    <3>1. \A r \in replacements' : r \in replacements \/ r.id = Head(toExtension).id
      BY <1>5, <2>4 DEF ReplaceArrives
    <3> DEFINE x == [op |-> "replace", id |-> Head(toExtension).id]
    <3>2. publisher # None /\ publisher' = [publisher EXCEPT !.operations = Append(@, x)]
      BY <1>5, <2>4 DEF ReplaceArrives, Replaceable
    <3> HIDE DEF x
    <3>3. publisher'.id = publisher.id /\ publisher'.stream = publisher.stream
      BY <1>1, <3>2, SamePublisher
    <3> QED BY <2>2, <2>3, <3>1, <3>2, <3>3 DEF Moves
  <2>5. CASE ~Replaceable(Head(toExtension))
    BY <1>5, <2>3, <2>5, NothingMoves DEF ReplaceArrives
  <2> QED BY <2>4, <2>5
<1> QED BY <1>2, <1>3, <1>4, <1>5 DEF ExtensionReceives

LEMMA CaptureStepMoves ==
  ASSUME TypeInv, CaptureStep
  PROVE  Moves
<1>1. ExtensionTypes /\ starts \subseteq Starts
  BY DEF TypeInv, ExtensionTypes
<1>2. ASSUME NEW s \in starts, Acquired(s)
      PROVE  Moves
  <2>1. CASE Wanted(s)
    <3> DEFINE z == [s EXCEPT !.step = "offering"]
    <3>1. z.step = "offering"
      BY <1>1 DEF Starts
    <3>3. starts' \subseteq starts \cup {z}
      BY <1>2, <2>1 DEF Acquired
    <3> HIDE DEF z
    <3>2. /\ s.step = "acquiring" /\ attempt = s.id /\ publisher'.id = s.id
          /\ UNCHANGED replacements /\ attempt' \in {attempt, None}
      BY <1>2, <2>1 DEF Acquired, Wanted, PublisherOf
    <3> QED BY <3>1, <3>2, <3>3 DEF Moves
  <2>2. CASE ~Wanted(s)
    BY <1>2, <2>2, NothingMoves DEF Acquired
  <2> QED BY <2>1, <2>2
<1>3. ASSUME NEW s \in starts, StartFails(s)
      PROVE  Moves
  BY <1>3, NothingMoves DEF StartFails, Stopped
<1>4. CASE OfferMade
  <2>1. publisher'.id = publisher.id /\ publisher'.stream = publisher.stream
    BY <1>1, <1>4, SamePublisher DEF OfferMade
  <2> QED BY <1>4, <2>1, OperationMoves DEF OfferMade
<1>5. ASSUME NEW x \in starts \cup replacements, CaptureGranted(x)
      PROVE  Moves
  BY <1>5, NothingMoves DEF CaptureGranted
<1> QED BY <1>2, <1>3, <1>4, <1>5 DEF CaptureStep

LEMMA ReplacementStepMoves ==
  ASSUME TypeInv, ReplacementStep
  PROVE  Moves
<1>1. ExtensionTypes
  BY DEF TypeInv
<1>2. ASSUME NEW r \in replacements, \/ ReplacementBegins(r) \/ ReplacementAcquired(r)
                                     \/ ReplacementCommits(r) \/ ReplacementFails(r)
      PROVE  Moves
  <2>1. \A x : [r EXCEPT !.step = x].id = r.id /\ [r EXCEPT !.step = x].publisher = r.publisher
    BY EndTypes DEF Replacements
  <2>2. \A x \in replacements' : \E q \in replacements : q.id = x.id /\ q.publisher = x.publisher
    <3>1. \/ \E x : replacements' = (replacements \ {r}) \cup {[r EXCEPT !.step = x]}
          \/ replacements' = replacements \ {r}
      <4>1. CASE ReplacementBegins(r)
        BY <4>1 DEF ReplacementBegins, Ends
      <4>2. CASE ReplacementAcquired(r)
        BY <4>2 DEF ReplacementAcquired, Ends
      <4>3. CASE ReplacementCommits(r) \/ ReplacementFails(r)
        BY <4>3 DEF ReplacementCommits, ReplacementFails, Ends
      <4> QED BY <1>2, <4>1, <4>2, <4>3
    <3> TAKE x \in replacements'
    <3>2. x \in replacements \/ \E y : x = [r EXCEPT !.step = y]
      BY <3>1
    <3> QED BY <2>1, <3>2
  <2>3. attempt' \in {attempt, None} /\ UNCHANGED starts
    BY <1>2 DEF ReplacementBegins, ReplacementAcquired, ReplacementCommits, ReplacementFails, Stopped
  <2>4. publisher' # None =>
          /\ publisher # None /\ publisher'.id = publisher.id
          /\ publisher'.stream = publisher.stream \/ (Current(r) /\ publisher'.stream = r.id)
    <3>1. CASE ReplacementCommits(r)
      BY <1>1, <3>1, Committed DEF ReplacementCommits, Current
    <3>2. CASE ReplacementBegins(r) \/ ReplacementAcquired(r)
      BY <3>2 DEF ReplacementBegins, ReplacementAcquired
    <3>3. CASE ReplacementFails(r)
      BY <1>1, <3>3, SamePublisher DEF ReplacementFails, Stopped, Current
    <3> QED BY <1>2, <3>1, <3>2, <3>3
  <2> QED BY <2>2, <2>3, <2>4 DEF Moves
<1>3. CASE SuspensionApplied
  <2>1. /\ attempt' \in {attempt, None} /\ UNCHANGED <<starts, replacements>> /\ publisher # None
        /\ publisher' # None => /\ publisher'.id = publisher.id
                                /\ publisher'.stream = publisher.stream
    BY <1>1, <1>3, PublisherTypes DEF SuspensionApplied, Operates, Stopped, Publishers
  <2> QED BY <2>1 DEF Moves
<1> QED BY <1>2, <1>3 DEF ReplacementStep

LEMMA NextMoves ==
  ASSUME TypeInv, [Next]_vars
  PROVE  Moves
<1>1. ExtensionTypes
  BY DEF TypeInv
<1>2. CASE CoreStep \/ CoreReceives \/ UNCHANGED vars
  BY <1>2, CoreLeavesExtension, NothingMoves DEF vars, extensionVars, captureVars
<1>3. CASE Acknowledges \/ SocketStep
  BY <1>3, NothingMoves DEF Acknowledges, StopAcknowledged, captureVars, SocketStep,
     CoreLosesSocket, Rebinds, extensionVars, ExtensionLosesSocket, Stopped
<1>4. CASE Connects \/ IceFails
  <2>1. CASE Connects
    BY <1>1, <2>1, SamePublisher, OperationMoves DEF Connects
  <2>2. CASE IceFails
    BY <1>1, <2>2, SamePublisher, OperationMoves DEF IceFails
  <2> QED BY <1>4, <2>1, <2>2
<1>5. CASE FailureTimer
  BY <1>5, NothingMoves DEF FailureTimer, Stopped
<1> QED BY <1>2, <1>3, <1>4, <1>5, ExtensionReceivesMoves, CaptureStepMoves, ReplacementStepMoves
        DEF Next, PeerStep

\* Nothing asked for before request k publishes or is being started.
Retired(k) ==
  /\ publisher = None \/ publisher.id > k
  /\ attempt = None \/ attempt > k

\* What publishes shows the capture of request k or a later one, and nothing
\* that would show an older one is under way.
Shown(k) ==
  /\ publisher = None \/ publisher.id > k \/ publisher.stream >= k
  /\ \A s \in starts : s.step = "acquiring" /\ attempt = s.id => s.id > k
  /\ \A r \in replacements : Current(r) => r.id > k \/ publisher.id > k

\* A request under way is newer than what the Extension has read.
LEMMA NewerOnWay ==
  ASSUME CaptureInv, NEW k \in Ids, Seen(k), NEW i, OnItsWay(i)
  PROVE  i > k /\ i \in Ids
<1>1. PICK m \in OnWay : HasId(m) /\ m.id = i
  BY DEF OnItsWay
<1>2. WireTypes /\ Numbered
  BY DEF CaptureInv, TypeInv
<1>3. i \in Ids
  BY <1>1, <1>2, UnderWay, IdOf
<1>4. k < m.id
  BY <1>1, <1>2, Zenon DEF Numbered
<1> QED BY <1>1, <1>3, <1>4, IdsAreNumbers

LEMMA RetiredStays ==
  ASSUME CaptureInv, [Next]_vars, NEW k \in Ids, Seen(k), Retired(k)
  PROVE  Retired(k)'
<1>1. Moves
  BY NextMoves DEF CaptureInv
<1>2. attempt' = None \/ attempt' > k
  BY <1>1, NewerOnWay DEF Moves, Retired
<1>3. publisher' = None \/ publisher'.id > k
  <2>1. starts \subseteq Starts
    BY DEF CaptureInv, TypeInv, ExtensionTypes
  <2>2. \A s \in starts : s.id # None
    BY <2>1, IdsAreNumbers DEF Starts
  <2> QED BY <1>1, <2>2 DEF Moves, Retired
<1> QED BY <1>2, <1>3 DEF Retired

LEMMA ShownStays ==
  ASSUME CaptureInv, [Next]_vars, NEW k \in Ids, Seen(k), Shown(k)
  PROVE  Shown(k)'
<1>1. /\ Moves /\ starts \subseteq Starts /\ replacements \subseteq Replacements
      /\ TypeInv'
  BY NextMoves, NextTypes DEF CaptureInv, TypeInv, ExtensionTypes
<1>2. k \in Nat /\ \A i : OnItsWay(i) => i > k
  BY NewerOnWay, IdsAreNumbers
<1>3. publisher' # None =>
        \/ publisher'.id > k
        \/ publisher # None /\ publisher'.id = publisher.id
  BY <1>1 DEF Moves, Shown
<1>4. publisher' = None \/ publisher'.id > k \/ publisher'.stream >= k
  <2>1. \A r \in replacements : r.id \in Nat
    BY <1>1, IdsAreNumbers DEF Replacements
  <2> QED BY <1>1, <1>2, <1>3, <2>1 DEF Moves, Shown
<1>5. ASSUME NEW s \in starts', s.step = "acquiring", attempt' = s.id
      PROVE  s.id > k
  <2>1. s.id # None
    BY <1>1, IdsAreNumbers DEF TypeInv, ExtensionTypes, Starts
  <2> QED BY <1>1, <1>2, <1>5, <2>1 DEF Moves, Shown
<1>6. ASSUME NEW r \in replacements', Current(r)'
      PROVE  r.id > k \/ publisher'.id > k
  BY <1>1, <1>2, <1>3, <1>6 DEF Moves, Shown, Current
<1> QED BY <1>4, <1>5, <1>6 DEF Shown

\* What the Extension does and answers goes back to what it was asked.
Traces ==
  /\ \A t \in stops' : t \in stops \/ (Retired(t.id)' /\ \E m \in OnWay : m.op = "stop" /\ m.id = t.id)
  /\ \A r \in replacements' : \/ \E q \in replacements : q.id = r.id
                              \/ \E m \in OnWay : m.op = "replace" /\ m.id = r.id
  /\ \A m \in Back' :
       \/ m \in Back
       \/ m.op \notin {"stopped", "replaced"}
       \/ m.op = "stopped" /\ \E t \in stops : t.id = m.id
       \/ m.op = "replaced" /\ Shown(m.id)' /\ \E r \in replacements : r.id = m.id

LEMMA NothingTraced ==
  ASSUME WireTypes, stops' \subseteq stops,
         \A r \in replacements' : \E q \in replacements : q.id = r.id,
         \/ Back' \subseteq Back
         \/ \E m \in ToCore : m.op \notin {"stopped", "replaced"} /\ Tell(m)
  PROVE  Traces
<1>1. \A m \in Back' : m \in Back \/ m.op \notin {"stopped", "replaced"}
  BY ToldBack
<1> QED BY <1>1 DEF Traces

LEMMA ExtensionReceivesTraces ==
  ASSUME CaptureInv, ExtensionReceives
  PROVE  Traces
<1>1. WireTypes /\ ExtensionTypes
  BY DEF CaptureInv, TypeInv
<1>2. CASE \/ ReadyArrives \/ RestartArrives \/ SuspensionArrives \/ LeftArrives \/ StartArrives
  <2>1. UNCHANGED <<stops, replacements, toCore>>
    BY <1>2 DEF ReadyArrives, RestartArrives, SuspensionArrives, LeftArrives, StartArrives
  <2> QED BY <1>1, <2>1, NothingTraced DEF Back
<1>3. CASE StopArrives
  <2>1. Head(toExtension).op = "stop" /\ Head(toExtension) \in OnWay
    BY <1>1, <1>3, Heard, HeardOnWay DEF StopArrives
  <2>2. /\ attempt' = None /\ publisher' = None /\ UNCHANGED <<toCore, replacements>>
        /\ \A t \in stops' : t \in stops \/ t.id = Head(toExtension).id
    BY <1>3 DEF StopArrives, Stopped
  <2>3. \A k : Retired(k)'
    BY <2>2 DEF Retired
  <2>4. Back' = Back
    BY <2>2 DEF Back
  <2> QED BY <2>1, <2>2, <2>3, <2>4 DEF Traces
<1>4. CASE ReplaceArrives
  <2>1. /\ Head(toExtension).op = "replace" /\ Head(toExtension) \in OnWay
        /\ Head(toExtension) \in ToExtension
    BY <1>1, <1>4, Heard, HeardOnWay DEF ReplaceArrives
  <2>2. stops' = stops
    BY <1>4 DEF ReplaceArrives
  <2>3. CASE Replaceable(Head(toExtension))
    <3>1. toCore' = toCore /\ \A r \in replacements' : r \in replacements \/ r.id = Head(toExtension).id
      BY <1>4, <2>3 DEF ReplaceArrives
    <3>2. Back' = Back
      BY <3>1 DEF Back
    <3> QED BY <2>1, <2>2, <3>1, <3>2 DEF Traces
  <2>4. CASE ~Replaceable(Head(toExtension))
    <3> DEFINE m == [op |-> "replace_failed", id |-> Head(toExtension).id]
    <3>1. replacements' = replacements /\ Tell(m)
      BY <1>4, <2>4 DEF ReplaceArrives
    <3>2. m \in ToCore /\ m.op = "replace_failed"
      BY <2>1, Downward DEF ToCore
    <3> HIDE DEF m
    <3> QED BY <1>1, <2>2, <3>1, <3>2, NothingTraced
  <2> QED BY <2>3, <2>4
<1> QED BY <1>2, <1>3, <1>4 DEF ExtensionReceives

\* A committed replacement shows its own capture, and no older one is under way.
LEMMA CommitShows ==
  ASSUME CaptureInv, NEW r \in replacements, ReplacementCommits(r)
  PROVE  Shown(r.id)'
<1>1. ExtensionTypes /\ Apart /\ Turns
  BY DEF CaptureInv, TypeInv
<1>2. /\ r.step = "swapping" /\ Current(r) /\ Ends(r) /\ UNCHANGED <<attempt, starts>>
      /\ publisher # None
      /\ publisher' = [Done EXCEPT !.stream = r.id, !.revision = r.revision,
                                   !.enabled = ~publisher.suspended]
  BY DEF ReplacementCommits, Current
<1>3. publisher'.id = publisher.id /\ publisher'.stream = r.id
  BY <1>1, <1>2, Committed
<1>4. r.id \in Nat
  BY EndTypes, IdsAreNumbers DEF CaptureInv
<1>5. \A s \in starts' : s.step = "acquiring" => attempt' # s.id
  BY <1>1, <1>2 DEF Apart
<1>6. \A q \in replacements' : ~Current(q)'
  BY <1>1, <1>2, <1>3 DEF Apart, Current, Ends
<1> QED BY <1>3, <1>4, <1>5, <1>6 DEF Shown

LEMMA ReplacementStepTraces ==
  ASSUME CaptureInv, ReplacementStep
  PROVE  Traces
<1>1. WireTypes /\ ExtensionTypes /\ TypeInv
  BY DEF CaptureInv, TypeInv
<1>2. UNCHANGED stops
  BY DEF ReplacementStep, ReplacementBegins, ReplacementAcquired, ReplacementCommits,
     ReplacementFails, SuspensionApplied
<1>3. ASSUME NEW r \in replacements, \/ ReplacementBegins(r) \/ ReplacementAcquired(r)
                                     \/ ReplacementCommits(r) \/ ReplacementFails(r)
      PROVE  Traces
  <2>1. \A x : [r EXCEPT !.step = x].id = r.id
    BY <1>1, EndTypes DEF Replacements
  <2>2. \A x \in replacements' : \E q \in replacements : q.id = x.id
    <3>1. \/ \E x : replacements' = (replacements \ {r}) \cup {[r EXCEPT !.step = x]}
          \/ replacements' = replacements \ {r}
      <4>1. CASE ReplacementBegins(r)
        BY <4>1 DEF ReplacementBegins, Ends
      <4>2. CASE ReplacementAcquired(r)
        BY <4>2 DEF ReplacementAcquired, Ends
      <4>3. CASE ReplacementCommits(r) \/ ReplacementFails(r)
        BY <4>3 DEF ReplacementCommits, ReplacementFails, Ends
      <4> QED BY <1>3, <4>1, <4>2, <4>3
    <3> TAKE x \in replacements'
    <3>2. x \in replacements \/ \E y : x = [r EXCEPT !.step = y]
      BY <3>1
    <3> QED BY <2>1, <3>2
  <2> DEFINE failed == [op |-> "replace_failed", id |-> r.id]
             done == [op |-> "replaced", id |-> r.id]
  <2>3. /\ failed \in ToCore /\ failed.op = "replace_failed"
        /\ done \in ToCore /\ done.op = "replaced" /\ done.id = r.id
    BY <1>1, EndTypes
  <2>4. CASE ReplacementCommits(r)
    <3>1. Tell(done)
      BY <2>4 DEF ReplacementCommits
    <3>2. Shown(r.id)'
      BY <2>4, CommitShows
    <3> HIDE DEF done
    <3>3. Back' \subseteq Back \cup {done}
      BY <1>1, <2>3, <3>1, ToldBack
    <3>4. \A m \in Back' : m \in Back \/ (m.op = "replaced" /\ Shown(m.id)' /\ m.id = r.id)
      <4> TAKE m \in Back'
      <4>1. CASE m = done
        BY <2>3, <3>2, <4>1 DEF Shown, Current
      <4> QED BY <3>3, <4>1
    <3> QED BY <1>2, <2>2, <3>4 DEF Traces
  <2>5. CASE ~ReplacementCommits(r)
    <3>1. toCore' = toCore \/ Tell(failed)
      BY <1>3, <2>5 DEF ReplacementBegins, ReplacementAcquired, ReplacementFails, wireVars
    <3> HIDE DEF failed
    <3> QED BY <1>1, <1>2, <2>2, <2>3, <3>1, NothingTraced DEF Back
  <2> QED BY <2>4, <2>5
<1>4. CASE SuspensionApplied
  BY <1>1, <1>2, <1>4, NothingTraced DEF SuspensionApplied, wireVars, Back
<1> QED BY <1>3, <1>4 DEF ReplacementStep

LEMMA NextTraces ==
  ASSUME CaptureInv, [Next]_vars
  PROVE  Traces
<1>1. WireTypes /\ ExtensionTypes
  BY DEF CaptureInv, TypeInv
<1>2. ASSUME UNCHANGED <<stops, replacements>>, Back' \subseteq Back
      PROVE  Traces
  BY <1>1, <1>2, NothingTraced
<1>3. CASE CoreStep \/ CoreReceives
  <2>1. UNCHANGED <<stops, replacements>>
    BY <1>3, CoreLeavesExtension DEF extensionVars, captureVars
  <2>2. Back' \subseteq Back
    <3>1. CASE CoreStep
      BY <3>1 DEF CoreStep, PeerReady, StartMedia, PeerLeaves, ReplaceMediaCapture, Forwards,
         TakeoverStops, Closes, StopTimesOut, ReplacementTimesOut, wireVars, Back
    <3>2. CASE CoreReceives
      <4>1. PICK op : CoreHears(op)
        BY <3>2 DEF CoreReceives, StoppedArrives, ReplacedArrives, ReplaceFailedArrives,
           StartFailedArrives, HelloArrives
      <4> QED BY <1>1, <4>1, HeardBack
    <3> QED BY <1>3, <3>1, <3>2
  <2> QED BY <1>2, <2>1, <2>2
<1>4. CASE UNCHANGED vars \/ SocketStep
  <2>1. UNCHANGED <<stops, replacements>>
    BY <1>4 DEF SocketStep, CoreLosesSocket, ExtensionLosesSocket, Rebinds, vars, extensionVars, captureVars
  <2>2. toCore' = toCore \/ toCore' = <<>>
    BY <1>4 DEF SocketStep, CoreLosesSocket, ExtensionLosesSocket, Rebinds, Lost, vars, wireVars
  <2> QED BY <1>2, <2>1, <2>2 DEF Back
<1>5. CASE CaptureStep
  <2>1. UNCHANGED <<stops, replacements>>
    BY <1>5 DEF CaptureStep, CaptureGranted, Acquired, StartFails, OfferMade
  <2>2. toCore' = toCore \/ Tell([op |-> "start_failed"])
    BY <1>5 DEF CaptureStep, CaptureGranted, Acquired, StartFails, OfferMade, wireVars
  <2>3. [op |-> "start_failed"] \in ToCore
    BY DEF ToCore
  <2> QED BY <1>1, <2>1, <2>2, <2>3, NothingTraced DEF Back
<1>6. CASE PeerStep
  <2>1. UNCHANGED <<stops, replacements>>
    BY <1>6 DEF PeerStep, Connects, IceFails, FailureTimer
  <2> DEFINE m == [op |-> "hello", generation |-> publisher.generation]
  <2>2. toCore' = toCore \/ (publisher # None /\ Tell(m))
    BY <1>6 DEF PeerStep, Connects, IceFails, FailureTimer, wireVars
  <2>3. publisher # None => m \in ToCore /\ m.op = "hello"
    BY <1>1, PublisherTypes DEF Publishers, ToCore
  <2> HIDE DEF m
  <2> QED BY <1>1, <2>1, <2>2, <2>3, NothingTraced DEF Back
<1>7. CASE Acknowledges
  <2>1. PICK t \in stops : StopAcknowledged(t)
    BY <1>7 DEF Acknowledges
  <2>2. [op |-> "stopped", id |-> t.id] \in ToCore
    BY <1>1 DEF ExtensionTypes, Stops, ToCore
  <2>3. Back' \subseteq Back \cup {[op |-> "stopped", id |-> t.id]}
    BY <1>1, <2>1, <2>2, ToldBack DEF StopAcknowledged
  <2>4. stops' \subseteq stops /\ replacements' = replacements
    BY <2>1 DEF StopAcknowledged, captureVars
  <2> QED BY <2>3, <2>4 DEF Traces
<1> QED BY <1>3, <1>4, <1>5, <1>6, <1>7, ExtensionReceivesTraces, ReplacementStepTraces DEF Next

-----------------------------------------------------------------------------
(* A stop is answered as a stop *)

StopAt(k) ==
  \/ \E m \in OnWay : m.op = "stop" /\ m.id = k
  \/ \E t \in stops : t.id = k
  \/ \E m \in Back : m.op = "stopped" /\ m.id = k

ReplaceAt(k) ==
  \/ \E m \in OnWay : m.op = "replace" /\ m.id = k
  \/ \E r \in replacements : r.id = k
  \/ \E m \in Back : m.op = "replaced" /\ m.id = k

\* What Core waits for is not mistaken for the other kind of request.
Kinds ==
  \A r \in pending : /\ r.op = "stop" => ~ReplaceAt(r.id)
                     /\ r.op = "replace" => ~StopAt(r.id)

LEMMA KindsKept ==
  ASSUME Kinds, Traces, pending' \subseteq pending, OnWay' \subseteq OnWay
  PROVE  Kinds'
<1>1. \A k : StopAt(k)' => StopAt(k)
  BY DEF Traces, StopAt
<1>2. \A k : ReplaceAt(k)' => ReplaceAt(k)
  BY DEF Traces, ReplaceAt
<1> QED BY <1>1, <1>2 DEF Kinds

LEMMA KindsSent ==
  ASSUME TypeInv, Numbered, Kinds, NEW m \in ToExtension, Ask(m), UNCHANGED extensionVars,
         Back' \subseteq Back, HasId(m) => m.id = requests + 1,
         \A r \in pending' : r \in pending \/ (HasId(m) /\ r.id = requests + 1 /\ r.op = m.op)
  PROVE  Kinds'
<1>1. WireTypes /\ requests \in Nat /\ pending \subseteq Requests
  BY DEF TypeInv, CoreTypes
<1>2. OnWay' \subseteq OnWay \cup {m} /\ UNCHANGED <<stops, replacements>>
  BY <1>1, AskedOnWay DEF extensionVars, captureVars
<1>3. /\ \A k : StopAt(k)' => StopAt(k) \/ (m.op = "stop" /\ m.id = k)
      /\ \A k : ReplaceAt(k)' => ReplaceAt(k) \/ (m.op = "replace" /\ m.id = k)
  BY <1>2 DEF StopAt, ReplaceAt
<1>4. m.op \in {"stop", "replace"} => HasId(m)
  BY DEF HasId
<1>5. ASSUME NEW r \in pending
      PROVE  /\ r.op = "stop" => ~ReplaceAt(r.id)'
             /\ r.op = "replace" => ~StopAt(r.id)'
  <2>1. r.id \in Nat /\ r.id <= requests
    BY <1>1, IdsAreNumbers DEF Requests, Numbered
  <2>2. m.op \in {"stop", "replace"} => m.id # r.id
    BY <1>1, <1>4, <2>1
  <2> QED BY <1>3, <2>2 DEF Kinds
<1>6. ASSUME HasId(m), NEW k, k = requests + 1
      PROVE  ~StopAt(k) /\ ~ReplaceAt(k)
  <2>1. k \in Ids /\ ~(k <= requests)
    BY <1>1, <1>6, IdOf
  <2>2. ~Seen(k)
    BY <2>1 DEF Numbered
  <2>3. \A x \in OnWay : x.op \in {"stop", "replace"} => x.id <= requests
    BY DEF Numbered, HasId
  <2> QED BY <2>1, <2>2, <2>3 DEF StopAt, ReplaceAt, Seen
<1>7. ASSUME NEW r \in pending', HasId(m), r.id = requests + 1, r.op = m.op
      PROVE  /\ r.op = "stop" => ~ReplaceAt(r.id)'
             /\ r.op = "replace" => ~StopAt(r.id)'
  BY <1>3, <1>6, <1>7
<1> QED BY <1>5, <1>7 DEF Kinds, StopAt, ReplaceAt

LEMMA OverKinds ==
  ASSUME TypeInv, Numbered, Kinds, NEW left \in SUBSET pending, Over(left),
         UNCHANGED extensionVars, Back' \subseteq Back
  PROVE  Kinds'
<1>1. CoreTypes /\ WireTypes
  BY DEF TypeInv
<1>2. CASE bound /\ requests < MaxRequests
  <2>1. pending' = left \cup {Request("stop")} /\ Ask(Request("stop"))
    BY <1>2 DEF Over
  <2>2. /\ Request("stop") \in ToExtension /\ Request("stop").id = requests + 1
        /\ Request("stop").op = "stop" /\ HasId(Request("stop"))
    BY <1>1, <1>2, RequestTypes DEF HasId
  <2> QED BY <2>1, <2>2, KindsSent
<1>3. CASE ~(bound /\ requests < MaxRequests)
  <2>1. pending' = left /\ OnWay' = OnWay
    BY <1>3 DEF Over, OnWay
  <2>2. Traces
    BY <1>1, NothingTraced DEF extensionVars, captureVars
  <2> QED BY <2>1, <2>2, KindsKept
<1> QED BY <1>2, <1>3

LEMMA CoreStepKinds ==
  ASSUME TypeInv, Numbered, Kinds, CoreStep
  PROVE  Kinds'
<1>1. CoreTypes /\ WireTypes /\ pending \in SUBSET pending
  BY DEF TypeInv
<1>2. UNCHANGED extensionVars
  BY CoreLeavesExtension
<1>3. Back' \subseteq Back
  BY DEF CoreStep, PeerReady, StartMedia, PeerLeaves, ReplaceMediaCapture, Forwards,
     TakeoverStops, Closes, StopTimesOut, ReplacementTimesOut, wireVars, Back
<1>4. ASSUME NEW left \in SUBSET pending, Over(left)
      PROVE  Kinds'
  BY <1>2, <1>3, <1>4, OverKinds
<1>5. ASSUME NEW m \in ToExtension, Ask(m), HasId(m) => m.id = requests + 1, pending' \subseteq pending
      PROVE  Kinds'
  BY <1>2, <1>3, <1>5, KindsSent
<1>6. ASSUME NEW m \in ToExtension, Ask(m), m.id = requests + 1, HasId(m), NEW q,
             q.id = requests + 1, q.op = m.op, pending' = pending \cup {q}
      PROVE  Kinds'
  BY <1>2, <1>3, <1>6, KindsSent
<1>7. CASE PeerReady
  <2>1. [op |-> "peer_ready"] \in ToExtension /\ ~HasId([op |-> "peer_ready"])
    BY DEF ToExtension, HasId
  <2> QED BY <1>1, <1>4, <1>5, <1>7, <2>1 DEF PeerReady
<1>8. CASE PeerLeaves
  <2>1. [op |-> "peer_left"] \in ToExtension /\ ~HasId([op |-> "peer_left"])
    BY DEF ToExtension, HasId
  <2> QED BY <1>1, <1>4, <1>5, <1>8, <2>1 DEF PeerLeaves
<1>9. CASE StartMedia
  <2> DEFINE m == [op |-> "start", id |-> requests + 1, generation |-> generation, revision |-> revision]
  <2>1. m \in ToExtension /\ m.id = requests + 1
    BY <1>1, <1>9, RequestTypes, Constants DEF StartMedia, Asks, ToExtension, CoreTypes
  <2>2. Ask(m) /\ pending' = pending
    BY <1>9 DEF StartMedia
  <2> HIDE DEF m
  <2> QED BY <1>5, <2>1, <2>2
<1>10. CASE ReplaceMediaCapture
  <2> DEFINE m == [op |-> "replace", id |-> requests + 1, generation |-> generation,
                   revision |-> revision + 1]
  <2>1. m \in ToExtension /\ m.id = requests + 1 /\ m.op = "replace" /\ HasId(m)
    BY <1>1, <1>10, RequestTypes, Constants DEF ReplaceMediaCapture, Asks, ToExtension, CoreTypes, HasId
  <2>2. /\ Ask(m) /\ pending' = pending \cup {Request("replace")}
        /\ Request("replace").id = requests + 1 /\ Request("replace").op = "replace"
    BY <1>10 DEF ReplaceMediaCapture, Request
  <2> HIDE DEF m
  <2> QED BY <1>6, <2>1, <2>2
<1>11. ASSUME NEW op \in {"suspend", "resume", "restart_ice"}, Forwards(op)
       PROVE  Kinds'
  <2>1. Request(op) \in ToExtension /\ Request(op).id = requests + 1
    BY <1>1, <1>11, RequestTypes DEF Forwards, Asks
  <2> QED BY <1>5, <1>11, <2>1 DEF Forwards
<1>12. CASE TakeoverStops
  <2>1. /\ Request("stop") \in ToExtension /\ Request("stop").id = requests + 1
        /\ HasId(Request("stop"))
    BY <1>1, <1>12, RequestTypes DEF TakeoverStops, Asks, HasId
  <2> QED BY <1>6, <1>12, <2>1 DEF TakeoverStops
<1>13. CASE Closes
  BY <1>1, <1>4, <1>13 DEF Closes
<1>14. ASSUME NEW r \in pending, StopTimesOut(r)
       PROVE  Kinds'
  <2>1. pending' \subseteq pending /\ OnWay' = OnWay
    BY <1>14 DEF StopTimesOut, wireVars, OnWay
  <2>2. Traces
    BY <1>1, <1>2, <1>3, NothingTraced DEF extensionVars, captureVars
  <2> QED BY <2>1, <2>2, KindsKept
<1>15. ASSUME NEW r \in pending, ReplacementTimesOut(r)
       PROVE  Kinds'
  BY <1>4, <1>15 DEF ReplacementTimesOut
<1> QED BY <1>7, <1>8, <1>9, <1>10, <1>11, <1>12, <1>13, <1>14, <1>15 DEF CoreStep

LEMMA CoreReceivesKinds ==
  ASSUME TypeInv, Numbered, Kinds, CoreReceives
  PROVE  Kinds'
<1>1. WireTypes
  BY DEF TypeInv
<1>2. UNCHANGED extensionVars
  BY CoreLeavesExtension
<1>3. Back' \subseteq Back
  <2>1. PICK op : CoreHears(op)
    BY DEF CoreReceives, StoppedArrives, ReplacedArrives, ReplaceFailedArrives,
       StartFailedArrives, HelloArrives
  <2> QED BY <1>1, <2>1, HeardBack
<1>4. Traces
  BY <1>1, <1>2, <1>3, NothingTraced DEF extensionVars, captureVars
<1>5. ASSUME pending' \subseteq pending, UNCHANGED toExtension
      PROVE  Kinds'
  BY <1>4, <1>5, KindsKept DEF OnWay
<1>6. ASSUME NEW left \in SUBSET pending, Over(left)
      PROVE  Kinds'
  BY <1>2, <1>3, <1>6, OverKinds
<1>7. CASE StoppedArrives \/ ReplacedArrives \/ HelloArrives
  BY <1>5, <1>7 DEF StoppedArrives, ReplacedArrives, HelloArrives
<1>8. CASE ReplaceFailedArrives
  <2>1. pending \ Answered(Head(toCore)) \in SUBSET pending
    OBVIOUS
  <2> QED BY <1>5, <1>6, <1>8, <2>1 DEF ReplaceFailedArrives
<1>9. CASE StartFailedArrives
  BY <1>5, <1>6, <1>9 DEF StartFailedArrives
<1> QED BY <1>7, <1>8, <1>9 DEF CoreReceives

LEMMA NextKinds ==
  ASSUME CaptureInv, Kinds, [Next]_vars
  PROVE  Kinds'
<1>1. TypeInv /\ WireTypes /\ Numbered /\ Traces
  BY NextTraces DEF CaptureInv, TypeInv
<1>2. CASE \/ ExtensionReceives \/ CaptureStep \/ ReplacementStep \/ PeerStep \/ Acknowledges
  <2>1. pending' = pending
    BY <1>2, ExtensionLeavesCore DEF coreVars
  <2>2. OnWay' \subseteq OnWay
    <3>1. CASE ExtensionReceives
      <4>1. PICK op : Hears(op)
        BY <3>1 DEF ExtensionReceives, ReadyArrives, LeftArrives, StartArrives, StopArrives,
           SuspensionArrives, ReplaceArrives, RestartArrives
      <4> QED BY <1>1, <4>1, HeardOnWay
    <3>2. CASE ~ExtensionReceives
      BY <1>2, <3>2 DEF CaptureStep, CaptureGranted, Acquired, StartFails, OfferMade,
       ReplacementStep, ReplacementBegins,
         ReplacementAcquired, ReplacementCommits, ReplacementFails, SuspensionApplied, PeerStep,
         Connects, IceFails, FailureTimer, Acknowledges, StopAcknowledged, wireVars, OnWay
    <3> QED BY <3>1, <3>2
  <2> QED BY <1>1, <2>1, <2>2, KindsKept
<1>3. CASE SocketStep \/ UNCHANGED vars
  <2>1. pending' \subseteq pending /\ (UNCHANGED toExtension \/ toExtension' = <<>>)
    BY <1>3 DEF SocketStep, CoreLosesSocket, ExtensionLosesSocket, Rebinds, Lost, vars, coreVars, wireVars
  <2> QED BY <1>1, <2>1, KindsKept DEF OnWay
<1> QED BY <1>1, <1>2, <1>3, CoreStepKinds, CoreReceivesKinds DEF Next

-----------------------------------------------------------------------------
(* Answers are true *)

AnswerInv ==
  /\ CaptureInv /\ Kinds
  /\ \A t \in stops : Retired(t.id)
  /\ \A m \in Back : (m.op = "stopped" => Retired(m.id)) /\ (m.op = "replaced" => Shown(m.id))
  /\ \A r \in resolved : (r.op = "stop" => Retired(r.id)) /\ (r.op = "replace" => Shown(r.id))

\* A request is resolved by an answer of its own kind.
LEMMA NewlyResolved ==
  ASSUME AnswerInv, [Next]_vars, NEW r \in resolved'
  PROVE  /\ r.id \in Ids /\ Seen(r.id)
         /\ r.op = "stop" => Retired(r.id)
         /\ r.op = "replace" => Shown(r.id)
<1>1. TypeInv /\ WireTypes /\ CoreTypes /\ Kinds
  BY DEF AnswerInv, CaptureInv, TypeInv
<1>2. CASE r \in resolved
  BY <1>1, <1>2 DEF AnswerInv, CoreTypes, Requests, Seen
<1>3. CASE r \notin resolved
  <2>1. /\ r \in pending /\ r.id = Head(toCore).id
        /\ CoreHears("stopped") \/ CoreHears("replaced")
    <3>1. CASE CoreReceives
      BY <1>3, <3>1 DEF CoreReceives, StoppedArrives, ReplacedArrives, ReplaceFailedArrives,
         StartFailedArrives, HelloArrives, Answered
    <3>2. CASE ~CoreReceives
      <4>1. UNCHANGED resolved
        <5>1. CASE CoreStep
          BY <5>1 DEF CoreStep, PeerReady, StartMedia, PeerLeaves, ReplaceMediaCapture, Forwards,
             TakeoverStops, Closes, StopTimesOut, ReplacementTimesOut
        <5>2. CASE SocketStep \/ UNCHANGED vars
          BY <5>2 DEF SocketStep, CoreLosesSocket, ExtensionLosesSocket, Rebinds, vars, coreVars
        <5> QED BY <3>2, <5>1, <5>2, ExtensionLeavesCore DEF Next, coreVars
      <4> QED BY <1>3, <4>1
    <3> QED BY <3>1, <3>2
  <2>2. Head(toCore) \in Back /\ Head(toCore).op \in {"stopped", "replaced"}
    BY <1>1, <2>1, HeardBack DEF CoreHears
  <2>3. r.id \in Ids /\ Seen(r.id)
    BY <1>1, <2>1, <2>2 DEF CoreTypes, Requests, Seen
  <2>4. /\ r.op = "stop" => Head(toCore).op = "stopped"
        /\ r.op = "replace" => Head(toCore).op = "replaced"
    BY <1>1, <2>1, <2>2 DEF Kinds, StopAt, ReplaceAt
  <2> QED BY <2>1, <2>2, <2>3, <2>4 DEF AnswerInv
<1> QED BY <1>2, <1>3

LEMMA NextAnswers ==
  ASSUME AnswerInv, [Next]_vars
  PROVE  AnswerInv'
<1>1. CaptureInv /\ WireTypes /\ ExtensionTypes /\ Traces
  BY NextTraces DEF AnswerInv, CaptureInv, TypeInv
<1>2. CaptureInv' /\ Kinds'
  BY NextCaptures, NextKinds DEF AnswerInv
<1>3. ASSUME NEW t \in stops
      PROVE  Retired(t.id)'
  <2>1. t.id \in Ids /\ Seen(t.id) /\ Retired(t.id)
    BY <1>1 DEF AnswerInv, ExtensionTypes, Stops, Seen
  <2> QED BY <1>1, <2>1, RetiredStays
<1>4. \A t \in stops' : Retired(t.id)'
  BY <1>1, <1>3 DEF Traces
<1>5. ASSUME NEW m \in Back, m.op \in {"stopped", "replaced"}
      PROVE  (m.op = "stopped" => Retired(m.id)') /\ (m.op = "replaced" => Shown(m.id)')
  <2>1. m.id \in Ids /\ Seen(m.id)
    BY <1>1, <1>5, UnderWay, Upward DEF Seen
  <2> QED BY <1>1, <1>5, <2>1, RetiredStays, ShownStays DEF AnswerInv
<1>6. ASSUME NEW m \in Back'
      PROVE  (m.op = "stopped" => Retired(m.id)') /\ (m.op = "replaced" => Shown(m.id)')
  <2>1. CASE m \in Back
    BY <1>5, <2>1
  <2>2. ASSUME m.op = "stopped", NEW t \in stops, t.id = m.id
        PROVE  Retired(m.id)'
    BY <1>3, <2>2
  <2> QED BY <1>1, <2>1, <2>2 DEF Traces
<1>7. ASSUME NEW r \in resolved'
      PROVE  (r.op = "stop" => Retired(r.id)') /\ (r.op = "replace" => Shown(r.id)')
  BY <1>1, <1>7, NewlyResolved, RetiredStays, ShownStays
<1> QED BY <1>2, <1>4, <1>6, <1>7 DEF AnswerInv

\* When a stop or a replacement of the media is acknowledged it is done, however
\* many requests timed out before it, and whatever was acquired meanwhile.
THEOREM AnswersAlwaysTrue == Spec => []AnswersAreTrue
<1>1. Init => AnswerInv
  <2> SUFFICES ASSUME Init PROVE AnswerInv
    OBVIOUS
  <2>1. CaptureInv
    BY InitCaptures
  <2>2. Back = {}
    BY DEF Init, Back
  <2> QED BY <2>1, <2>2 DEF Init, AnswerInv, Kinds
<1>2. AnswerInv /\ [Next]_vars => AnswerInv'
  BY NextAnswers
<1>3. AnswerInv => AnswersAreTrue
  BY DEF AnswerInv, Retired, Shown, AnswersAreTrue, StopMeansStopped, ReplacedMeansCaptured
<1> QED BY <1>1, <1>2, <1>3, PTL DEF Spec

-----------------------------------------------------------------------------
(***************************************************************************)
(* The encoding of the media: theorems about QualityControl.  Whatever     *)
(* fails between the steps of an operation, what Core was told is what is  *)
(* applied, automatic mode gives way to what was asked meanwhile, and it   *)
(* counts fresh samples only.                                              *)
(***************************************************************************)
CONSTANTS Ceiling, Balanced, Pressured, Recovered, Diagnostics, MaxAsked, NoLevel

VARIABLES alive, connected, suspended, replacing, sender, capture, settings, quality,
          operations, step, saved, next, timer, sampling, baseline, history,
          asked, answers, reported, since

Q == INSTANCE QualityControl WITH MaxRequests <- MaxAsked, None <- NoLevel


-----------------------------------------------------------------------------
(* Types *)

MediaTypes ==
    /\ {sender, capture, settings} \subseteq Q!Levels
    /\ quality \in Q!Qualities \cup {NoLevel}
    /\ saved \in Q!Levels \cup {NoLevel} /\ next \in Q!Levels \cup {NoLevel}
    /\ reported \in Q!Levels

QueueTypes ==
    /\ operations \in Seq(Q!Operations)
    /\ step \in {"queued", "sender", "capture", "acquire", "rate", "swap", "parameters"}
    /\ asked \in 0..MaxAsked
    /\ answers \in [Q!Ids -> {"none", "asked", "ok", "failed"}]

SamplerTypes ==
    /\ {alive, connected, suspended, replacing, timer, baseline} \subseteq BOOLEAN
    /\ sampling \in {"no", "fresh", "stale", "adapting"}
    /\ history \in [pressure : 0..Pressured, healthy : 0..Recovered]
    /\ since \in 0..Pressured + Recovered

Types == MediaTypes /\ QueueTypes /\ SamplerTypes

LEMMA QualityParts == Q!TypeOK <=> Types
  BY DEF Q!TypeOK, Types, MediaTypes, QueueTypes, SamplerTypes

LEMMA QualityConstants ==
  ASSUME Q!QualityAssumption
  PROVE  /\ Ceiling \in Nat /\ Ceiling >= 1 /\ Balanced \in Nat /\ Balanced \in Q!Levels
         /\ Pressured \in Nat /\ Pressured >= 1 /\ Recovered \in Nat /\ Recovered >= 1
         /\ MaxAsked \in Nat /\ MaxAsked >= 1 /\ NoLevel \notin Nat
         /\ 1 \in Q!Levels /\ Ceiling \in Q!Levels
  BY DEF Q!QualityAssumption, Q!Levels

LEMMA Least ==
  ASSUME NEW a \in Int, NEW b \in Int
  PROVE  Q!Min({a, b}) = IF a <= b THEN a ELSE b
<1>1. \E x \in {a, b} : \A y \in {a, b} : x <= y
  OBVIOUS
<1> QED BY <1>1 DEF Q!Min

LEMMA Greatest ==
  ASSUME NEW a \in Int, NEW b \in Int
  PROVE  Q!Max({a, b}) = IF a >= b THEN a ELSE b
<1>1. \E x \in {a, b} : \A y \in {a, b} : x >= y
  OBVIOUS
<1> QED BY <1>1 DEF Q!Max

\* A count that completes its window starts again.
LEMMA Wrapped ==
  ASSUME NEW n \in Nat, n >= 1, NEW c \in 0..n
  PROVE  c % n \in 0..(n - 1) /\ c % n <= c
<1>1. CASE c < n
  BY <1>1
<1>2. CASE c = n
  BY <1>2
<1> QED BY <1>1, <1>2

LEMMA QueuedTypes ==
  ASSUME QueueTypes, NEW o \in Q!Operations, operations' = Append(operations, o)
  PROVE  /\ operations' \in Seq(Q!Operations) /\ operations' # <<>>
         /\ operations # <<>> => Head(operations') = Head(operations)
         /\ \A i \in DOMAIN operations' : (i \in DOMAIN operations /\ operations'[i] = operations[i])
                                          \/ operations'[i] = o
<1>1. operations \in Seq(Q!Operations) /\ Len(operations) \in Nat
  BY LenProperties DEF QueueTypes
<1>2. /\ operations' \in Seq(Q!Operations) /\ Len(operations') = Len(operations) + 1
      /\ \A i \in 1..Len(operations) : operations'[i] = operations[i]
      /\ operations'[Len(operations) + 1] = o
  BY <1>1, AppendProperties
<1>3. operations # <<>> => Len(operations) >= 1 /\ Head(operations) = operations[1]
  BY <1>1, EmptySeq
<1> QED BY <1>1, <1>2, <1>3

LEMMA HeadTypes ==
  ASSUME QueueTypes, operations # <<>>
  PROVE  /\ Head(operations) \in Q!Operations /\ Tail(operations) \in Seq(Q!Operations)
         /\ 1 \in DOMAIN operations /\ Head(operations) = operations[1]
         /\ \A i \in DOMAIN Tail(operations) :
              i + 1 \in DOMAIN operations /\ Tail(operations)[i] = operations[i + 1]
<1>1. operations \in Seq(Q!Operations) /\ Len(operations) \in Nat /\ Len(operations) >= 1
  BY LenProperties, EmptySeq DEF QueueTypes
<1> QED BY <1>1, HeadTailProperties

LEMMA OperationTypes ==
  ASSUME NEW o \in Q!Operations
  PROVE  /\ o.op \in Q!Encodes => o.level \in Q!Levels
         /\ o.op = "configure" => o.id \in Q!Ids /\ o.mode \in Q!Modes
         /\ o.op = "adapt" => o.for \in Q!Qualities
  BY DEF Q!Operations, Q!Encodes

\* An operation that has begun is at the head of the queue, and undone to
\* what the Publisher had before it.
Turn ==
    /\ step # "queued" => operations # <<>>
    /\ step \in {"sender", "capture"} => Head(operations).op \in Q!Encodes /\ saved \in Q!Levels
    /\ step \in {"acquire", "rate", "swap"} => Head(operations).op = "replace"
    /\ step = "swap" => next = settings

LEMMA PopTypes ==
  ASSUME QueueTypes, operations # <<>>, Q!Pop
  PROVE  /\ operations' \in Seq(Q!Operations) /\ operations' = Tail(operations)
         /\ step' = "queued" /\ saved' = NoLevel /\ next' = NoLevel
  BY HeadTypes DEF Q!Pop

LEMMA AnswerTypes ==
  ASSUME QueueTypes, operations # <<>>, NEW ok, Q!Answer(ok)
  PROVE  answers' \in [Q!Ids -> {"none", "asked", "ok", "failed"}]
<1>1. CASE Head(operations).op = "configure"
  <2>1. answers' = [answers EXCEPT ![Head(operations).id] = IF ok THEN "ok" ELSE "failed"]
    BY <1>1 DEF Q!Answer
  <2>2. (IF ok THEN "ok" ELSE "failed") \in {"none", "asked", "ok", "failed"}
    OBVIOUS
  <2> QED BY <2>1, <2>2 DEF QueueTypes
<1>2. CASE Head(operations).op # "configure"
  BY <1>2 DEF Q!Answer, QueueTypes
<1> QED BY <1>1, <1>2

\* An operation that ends leaves the queue as it should be.
LEMMA OperationEnds ==
  ASSUME QueueTypes, operations # <<>>, Q!Pop, NEW ok, Q!Answer(ok), UNCHANGED asked
  PROVE  QueueTypes' /\ Turn' /\ saved' = NoLevel /\ next' = NoLevel
<1>1. /\ operations' \in Seq(Q!Operations)
      /\ step' = "queued" /\ saved' = NoLevel /\ next' = NoLevel
  BY PopTypes
<1>2. answers' \in [Q!Ids -> {"none", "asked", "ok", "failed"}]
  BY AnswerTypes
<1> QED BY <1>1, <1>2 DEF QueueTypes, Turn

LEMMA HistoryTypes ==
  ASSUME Q!QualityAssumption
  PROVE  Q!NoHistory \in [pressure : 0..Pressured, healthy : 0..Recovered]
                      /\ Q!NoHistory.pressure = 0 /\ Q!NoHistory.healthy = 0 /\ 0 \in 0..Pressured + Recovered
  BY QualityConstants DEF Q!NoHistory

LEMMA ResetTypes ==
  ASSUME Q!QualityAssumption, SamplerTypes, Q!ResetHistory
  PROVE  /\ sampling' \in {"no", "fresh", "stale", "adapting"} /\ sampling' # "fresh"
         /\ baseline' \in BOOLEAN
         /\ history' \in [pressure : 0..Pressured, healthy : 0..Recovered]
         /\ since' \in 0..Pressured + Recovered
  BY HistoryTypes DEF SamplerTypes, Q!ResetHistory

LEMMA GoesOnTypes ==
  ASSUME SamplerTypes, NEW q, Q!SamplerGoesOn(q)
  PROVE  sampling' = "no" /\ timer' \in BOOLEAN
  BY DEF Q!SamplerGoesOn

\* What Core asks is queued behind what is under way.
LEMMA AskedTypes ==
  ASSUME Q!QualityAssumption, QueueTypes, Turn, Q!Ask
  PROVE  asked' \in 0..MaxAsked /\ asked + 1 \in Q!Ids
  BY QualityConstants DEF QueueTypes, Q!Ask, Q!Ids

LEMMA EnqueueTypes ==
  ASSUME QueueTypes, Turn, NEW o \in Q!Operations, Q!Enqueue(o), UNCHANGED <<saved, next, settings>>
  PROVE  operations' \in Seq(Q!Operations) /\ step' = step /\ Turn'
<1>1. /\ operations' \in Seq(Q!Operations) /\ operations' # <<>> /\ step' = step
      /\ operations # <<>> => Head(operations') = Head(operations)
  BY QueuedTypes DEF Q!Enqueue
<1>2. CASE step = "queued"
  BY <1>1, <1>2 DEF Turn
<1>3. CASE step # "queued"
  <2>1. Head(operations') = Head(operations)
    BY <1>1, <1>3 DEF Turn
  <2> QED BY <1>1, <2>1 DEF Turn, Q!Levels
<1> QED BY <1>1, <1>2, <1>3

AsksCore ==
    \/ \E mode \in Q!Modes, level \in Q!Levels : Q!Configure(mode, level)
    \/ \E level \in Q!Levels : Q!SetQuality(level)
    \/ \E op \in {"suspend", "resume"} : Q!SetSuspended(op)
    \/ Q!ReplaceCapture

LEMMA AsksTypes ==
  ASSUME Q!QualityAssumption, Types, Turn, AsksCore
  PROVE  Types' /\ Turn'
<1>1. MediaTypes /\ QueueTypes /\ SamplerTypes
  BY DEF Types
<1>2. ASSUME NEW mode \in Q!Modes, NEW level \in Q!Levels, Q!Configure(mode, level)
      PROVE  Types' /\ Turn'
  <2> DEFINE o == [op |-> "configure", id |-> asked + 1, mode |-> mode, level |-> Q!Min({level, Ceiling})]
  <2>1. Q!Min({level, Ceiling}) \in Q!Levels
    <3>1. level \in Int /\ Ceiling \in Int
      BY QualityConstants DEF Q!Levels
    <3> QED BY <3>1, QualityConstants, Least DEF Q!Levels
  <2>2. asked' \in 0..MaxAsked /\ asked + 1 \in Q!Ids
    BY <1>1, <1>2, AskedTypes DEF Q!Configure
  <2>3. o \in Q!Operations
    BY <2>1, <2>2 DEF Q!Operations
  <2>4. /\ answers' \in [Q!Ids -> {"none", "asked", "ok", "failed"}]
        /\ UNCHANGED <<alive, connected, suspended, replacing, Q!mediaVars, Q!samplerVars, reported>>
    BY <1>1, <1>2 DEF Q!Configure, QueueTypes
  <2>5. Q!Enqueue(o) \/ UNCHANGED Q!queueVars
    BY <1>2 DEF Q!Configure
  <2> HIDE DEF o
  <2>6. operations' \in Seq(Q!Operations) /\ step' = step /\ Turn'
    <3>1. CASE Q!Enqueue(o)
      BY <1>1, <2>3, <2>4, <3>1, EnqueueTypes DEF Q!mediaVars
    <3>2. CASE UNCHANGED Q!queueVars
      BY <1>1, <2>4, <3>2 DEF Q!queueVars, Q!mediaVars, Turn, QueueTypes
    <3> QED BY <2>5, <3>1, <3>2
  <2>7. MediaTypes' /\ SamplerTypes'
    BY <1>1, <2>4 DEF Q!mediaVars, Q!samplerVars, MediaTypes, SamplerTypes
  <2> QED BY <1>1, <2>2, <2>4, <2>6, <2>7 DEF Types, QueueTypes
<1>3. ASSUME NEW o \in Q!Operations, Q!Enqueue(o), Q!Ask,
             UNCHANGED <<alive, connected, suspended, Q!mediaVars, Q!samplerVars, answers, reported>>,
             replacing' \in BOOLEAN
      PROVE  Types' /\ Turn'
  <2>1. asked' \in 0..MaxAsked
    BY <1>1, <1>3, AskedTypes
  <2>2. operations' \in Seq(Q!Operations) /\ step' = step /\ Turn'
    BY <1>1, <1>3, EnqueueTypes DEF Q!mediaVars
  <2>3. MediaTypes' /\ SamplerTypes'
    BY <1>1, <1>3 DEF Q!mediaVars, Q!samplerVars, MediaTypes, SamplerTypes
  <2> QED BY <1>1, <1>3, <2>1, <2>2, <2>3 DEF Types, QueueTypes
<1>4. ASSUME NEW level \in Q!Levels, Q!SetQuality(level)
      PROVE  Types' /\ Turn'
  <2> DEFINE o == [op |-> "preset", id |-> asked + 1, level |-> level]
  <2>1. o \in Q!Operations
    BY <1>1, <1>4, AskedTypes DEF Q!SetQuality, Q!Operations
  <2>2. Q!Enqueue(o) /\ Q!Ask /\ replacing' \in BOOLEAN
        /\ UNCHANGED <<alive, connected, suspended, Q!mediaVars, Q!samplerVars, answers, reported>>
    BY <1>1, <1>4 DEF Q!SetQuality, SamplerTypes
  <2> HIDE DEF o
  <2> QED BY <1>3, <2>1, <2>2
<1>5. ASSUME NEW op \in {"suspend", "resume"}, Q!SetSuspended(op)
      PROVE  Types' /\ Turn'
  <2> DEFINE o == [op |-> op, id |-> asked + 1]
  <2>1. o \in Q!Operations
    BY <1>1, <1>5, AskedTypes DEF Q!SetSuspended, Q!Operations
  <2>2. Q!Enqueue(o) /\ Q!Ask /\ replacing' \in BOOLEAN
        /\ UNCHANGED <<alive, connected, suspended, Q!mediaVars, Q!samplerVars, answers, reported>>
    BY <1>1, <1>5 DEF Q!SetSuspended, SamplerTypes
  <2> HIDE DEF o
  <2> QED BY <1>3, <2>1, <2>2
<1>6. CASE Q!ReplaceCapture
  <2> DEFINE o == [op |-> "replace", id |-> asked + 1]
  <2>1. o \in Q!Operations
    BY <1>1, <1>6, AskedTypes DEF Q!ReplaceCapture, Q!Operations
  <2>2. Q!Enqueue(o) /\ Q!Ask /\ replacing' \in BOOLEAN
        /\ UNCHANGED <<alive, connected, suspended, Q!mediaVars, Q!samplerVars, answers, reported>>
    BY <1>6 DEF Q!ReplaceCapture
  <2> HIDE DEF o
  <2> QED BY <1>3, <2>1, <2>2
<1> QED BY <1>2, <1>4, <1>5, <1>6 DEF AsksCore

LEMMA TargetTypes ==
  ASSUME QueueTypes, operations # <<>>, Head(operations).op \in Q!Encodes
  PROVE  Q!Target \in Q!Levels
  BY HeadTypes, OperationTypes DEF Q!Target

LEMMA EncodingTypes ==
  ASSUME Q!QualityAssumption, Types, Turn,
         Q!EncodingBegins \/ Q!SenderSet \/ Q!SenderFails \/ Q!CaptureFails \/ Q!RollbackFails
  PROVE  Types' /\ Turn'
<1>1. MediaTypes /\ QueueTypes /\ SamplerTypes
  BY DEF Types
<1>2. CASE Q!EncodingBegins
  <2>1. QueueTypes' /\ Turn'
    BY <1>1, <1>2 DEF Q!EncodingBegins, Q!Encoding, Q!Await, QueueTypes, Turn, Q!coreVars, MediaTypes, Q!Levels
  <2>2. MediaTypes' /\ SamplerTypes'
    BY <1>1, <1>2 DEF Q!EncodingBegins, MediaTypes, SamplerTypes, Q!samplerVars, Q!coreVars
  <2> QED BY <2>1, <2>2 DEF Types
<1>3. CASE Q!SenderSet
  <2>1. Q!Target \in Q!Levels
    BY <1>1, <1>3, TargetTypes DEF Q!SenderSet, Q!Encoding
  <2>2. QueueTypes' /\ Turn'
    BY <1>1, <1>3 DEF Q!SenderSet, Q!Encoding, Q!Await, QueueTypes, Turn, Q!coreVars, Q!Levels
  <2>3. MediaTypes' /\ SamplerTypes'
    BY <1>1, <1>3, <2>1 DEF Q!SenderSet, MediaTypes, SamplerTypes, Q!samplerVars, Q!coreVars
  <2> QED BY <2>2, <2>3 DEF Types
<1>4. ASSUME operations # <<>>, Q!Failed
      PROVE  /\ QueueTypes' /\ Turn' /\ saved' = NoLevel /\ next' = NoLevel
             /\ sampling' \in {"no", "fresh", "stale", "adapting"} /\ timer' \in BOOLEAN
             /\ baseline' \in BOOLEAN /\ since' \in 0..Pressured + Recovered
             /\ history' \in [pressure : 0..Pressured, healthy : 0..Recovered]
  <2>1. QueueTypes' /\ Turn' /\ saved' = NoLevel /\ next' = NoLevel
    BY <1>1, <1>4, OperationEnds DEF Q!Failed
  <2>2. CASE Head(operations).op = "adapt"
    BY <1>1, <1>4, <2>1, <2>2, GoesOnTypes, HistoryTypes DEF Q!Failed
  <2>3. CASE Head(operations).op # "adapt"
    BY <1>1, <1>4, <2>1, <2>3 DEF Q!Failed, SamplerTypes
  <2> QED BY <2>2, <2>3
<1>5. CASE Q!SenderFails \/ Q!CaptureFails
  <2>1. operations # <<>> /\ Q!Failed /\ UNCHANGED <<alive, capture>>
        /\ UNCHANGED <<connected, suspended, replacing, settings, quality, asked, reported>>
    BY <1>5 DEF Q!SenderFails, Q!CaptureFails, Q!Encoding, Q!Failed
  <2>2. sender' \in Q!Levels
    BY <1>1, <1>5 DEF Q!SenderFails, Q!CaptureFails, Q!Encoding, Turn, MediaTypes
  <2>3. MediaTypes' /\ SamplerTypes'
    BY <1>1, <1>4, <2>1, <2>2 DEF MediaTypes, SamplerTypes
  <2> QED BY <1>4, <2>1, <2>3 DEF Types
<1>6. CASE Q!RollbackFails
  <2>1. operations # <<>>
    BY <1>6 DEF Q!RollbackFails, Q!Encoding
  <2>2. QueueTypes' /\ Turn' /\ saved' = NoLevel /\ next' = NoLevel
    BY <1>1, <1>6, <2>1, OperationEnds DEF Q!RollbackFails
  <2>3. MediaTypes'
    BY <1>1, <1>6, <2>2 DEF Q!RollbackFails, MediaTypes
  <2>4. SamplerTypes'
    BY <1>1, <1>6, HistoryTypes DEF Q!RollbackFails, Q!Stop, SamplerTypes
  <2> QED BY <2>2, <2>3, <2>4 DEF Types
<1> QED BY <1>2, <1>3, <1>5, <1>6

LEMMA AppliedTypes ==
  ASSUME Q!QualityAssumption, Types, Turn, Q!Applied
  PROVE  Types' /\ Turn'
<1>1. MediaTypes /\ QueueTypes /\ SamplerTypes
  BY DEF Types
<1>2. operations # <<>> /\ Head(operations).op \in Q!Encodes /\ Head(operations) \in Q!Operations
  BY <1>1, HeadTypes DEF Q!Applied, Q!Encoding
<1>3. Q!Target \in Q!Levels
  BY <1>1, <1>2, TargetTypes
<1>4. QueueTypes' /\ Turn' /\ saved' = NoLevel /\ next' = NoLevel
  BY <1>1, <1>2, OperationEnds DEF Q!Applied
<1> DEFINE o == Head(operations)
           q == CASE o.op = "configure" -> [by |-> o.id, mode |-> o.mode, level |-> o.level]
                  [] o.op = "preset" -> NoLevel
                  [] o.op = "adapt" -> [o.for EXCEPT !.level = o.level]
<1>5. q \in Q!Qualities \cup {NoLevel}
  <2>1. o.level \in Q!Levels /\ (o.op = "configure" => o.id \in Q!Ids /\ o.mode \in Q!Modes)
        /\ (o.op = "adapt" => o.for \in Q!Qualities)
    BY <1>2, OperationTypes
  <2>2. CASE o.op = "configure"
    BY <2>1, <2>2 DEF Q!Qualities
  <2>3. CASE o.op = "preset"
    BY <2>3
  <2>4. CASE o.op = "adapt"
    BY <2>1, <2>4 DEF Q!Qualities
  <2> QED BY <1>2, <2>2, <2>3, <2>4 DEF Q!Encodes
<1>6. MediaTypes'
  <2>1. /\ capture' = Q!Target /\ settings' = Q!Target /\ sender' = sender
        /\ quality' \in {quality, q} /\ reported' \in {reported, Q!Target}
    BY DEF Q!Applied
  <2> HIDE DEF q
  <2> QED BY <1>1, <1>3, <1>4, <1>5, <2>1 DEF MediaTypes
<1>7. SamplerTypes'
  <2>1. UNCHANGED <<alive, connected, suspended, replacing>>
    BY DEF Q!Applied
  <2>2. \/ Q!ResetHistory /\ (timer' = timer \/ Q!MetricsStart(q))
        \/ Q!SamplerGoesOn(q) /\ UNCHANGED <<baseline, history, since>>
        \/ Q!SamplerGoesOn(quality) /\ UNCHANGED <<baseline, history, since>>
        \/ UNCHANGED <<timer, sampling, baseline, history, since>>
    BY <1>2 DEF Q!Applied, Q!Encodes
  <2> HIDE DEF q
  <2>3. CASE Q!ResetHistory /\ (timer' = timer \/ Q!MetricsStart(q))
    BY <1>1, <2>1, <2>3, ResetTypes DEF SamplerTypes, Q!MetricsStart
  <2>4. CASE UNCHANGED <<baseline, history, since>> /\ (Q!SamplerGoesOn(q) \/ Q!SamplerGoesOn(quality))
    BY <1>1, <2>1, <2>4, GoesOnTypes DEF SamplerTypes
  <2>5. CASE UNCHANGED <<timer, sampling, baseline, history, since>>
    BY <1>1, <2>1, <2>5 DEF SamplerTypes
  <2> QED BY <2>2, <2>3, <2>4, <2>5
<1> QED BY <1>4, <1>6, <1>7 DEF Types

LEMMA OtherTypes ==
  ASSUME Q!QualityAssumption, Types, Turn,
         \/ Q!Retired \/ Q!AdaptationDropped \/ Q!SuspensionSet \/ Q!SuspensionFails
         \/ Q!ReplacementBegins \/ Q!Acquired \/ Q!RateApplied \/ Q!Swapped \/ Q!ReplacementFails
  PROVE  Types' /\ Turn'
<1>1. MediaTypes /\ QueueTypes /\ SamplerTypes
  BY DEF Types
<1>2. CASE Q!Retired \/ Q!AdaptationDropped
  <2>1. operations # <<>> /\ Q!Over /\ UNCHANGED asked
        /\ UNCHANGED <<alive, connected, suspended, sender, capture, settings, quality, baseline,
                       history, since, reported>>
        /\ (Q!SamplerGoesOn(quality) \/ UNCHANGED <<timer, sampling>>)
    BY <1>2 DEF Q!Retired, Q!AdaptationDropped, Q!HeadIs
  <2>2. QueueTypes' /\ Turn' /\ saved' = NoLevel /\ next' = NoLevel
    BY <1>1, <2>1, OperationEnds DEF Q!Over
  <2>3. MediaTypes'
    BY <1>1, <2>1, <2>2 DEF MediaTypes
  <2>4. SamplerTypes'
    BY <1>1, <2>1, GoesOnTypes DEF Q!Over, SamplerTypes
  <2> QED BY <2>2, <2>3, <2>4 DEF Types
<1>3. ASSUME operations # <<>>, Q!Pop, UNCHANGED <<asked, answers>>
      PROVE  QueueTypes' /\ Turn' /\ saved' = NoLevel /\ next' = NoLevel
  BY <1>1, <1>3, PopTypes DEF QueueTypes, Turn
<1>4. CASE Q!SuspensionSet \/ Q!SuspensionFails
  <2>1. operations # <<>> /\ Q!Pop /\ UNCHANGED Q!coreVars
        /\ UNCHANGED <<connected, replacing, sender, capture, settings, quality>>
    BY <1>4 DEF Q!SuspensionSet, Q!SuspensionFails, Q!Suspends
  <2>2. QueueTypes' /\ Turn' /\ saved' = NoLevel /\ next' = NoLevel
    BY <1>3, <2>1 DEF Q!coreVars
  <2>3. MediaTypes'
    BY <1>1, <2>1, <2>2 DEF MediaTypes, Q!coreVars
  <2>4. SamplerTypes'
    <3>1. CASE Q!SuspensionSet
      BY <1>1, <3>1, ResetTypes DEF Q!SuspensionSet, SamplerTypes
    <3>2. CASE Q!SuspensionFails
      BY <1>1, <3>2 DEF Q!SuspensionFails, Q!Stop, SamplerTypes
    <3> QED BY <1>4, <3>1, <3>2
  <2> QED BY <2>2, <2>3, <2>4 DEF Types
<1>5. CASE Q!ReplacementBegins
  <2>1. QueueTypes' /\ Turn'
    BY <1>1, <1>5 DEF Q!ReplacementBegins, Q!HeadIs, Q!Await, QueueTypes, Turn, Q!mediaVars, Q!coreVars, Q!Encodes
  <2>2. MediaTypes' /\ SamplerTypes'
    BY <1>1, <1>5 DEF Q!ReplacementBegins, Q!mediaVars, Q!coreVars, Q!samplerVars, MediaTypes, SamplerTypes
  <2> QED BY <2>1, <2>2 DEF Types
<1>6. CASE Q!Acquired
  <2>1. QueueTypes' /\ Turn'
    BY <1>1, <1>6 DEF Q!Acquired, Q!HeadIs, Q!Await, QueueTypes, Turn, Q!coreVars, Q!Encodes
  <2>2. MediaTypes' /\ SamplerTypes'
    BY <1>1, <1>6, QualityConstants DEF Q!Acquired, Q!coreVars, Q!samplerVars, MediaTypes, SamplerTypes
  <2> QED BY <2>1, <2>2 DEF Types
<1>7. CASE Q!RateApplied
  <2>1. QueueTypes' /\ Turn'
    BY <1>1, <1>7 DEF Q!RateApplied, Q!HeadIs, Q!Await, QueueTypes, Turn, Q!coreVars, Q!Encodes
  <2>2. MediaTypes' /\ SamplerTypes'
    BY <1>1, <1>7 DEF Q!RateApplied, Q!coreVars, Q!samplerVars, MediaTypes, SamplerTypes
  <2> QED BY <2>1, <2>2 DEF Types
<1>8. CASE Q!Swapped
  <2>1. operations # <<>> /\ Q!Pop /\ UNCHANGED Q!coreVars /\ next \in Q!Levels
    BY <1>1, <1>8 DEF Q!Swapped, Q!HeadIs, Turn, MediaTypes
  <2>2. QueueTypes' /\ Turn' /\ saved' = NoLevel /\ next' = NoLevel
    BY <1>3, <2>1 DEF Q!coreVars
  <2>3. MediaTypes'
    BY <1>1, <1>8, <2>1, <2>2 DEF Q!Swapped, MediaTypes, Q!coreVars
  <2>4. SamplerTypes'
    BY <1>1, <1>8, ResetTypes DEF Q!Swapped, SamplerTypes
  <2> QED BY <2>2, <2>3, <2>4 DEF Types
<1>9. CASE Q!ReplacementFails
  <2>1. operations # <<>> /\ Q!Pop /\ UNCHANGED Q!coreVars
    BY <1>9 DEF Q!ReplacementFails
  <2>2. QueueTypes' /\ Turn' /\ saved' = NoLevel /\ next' = NoLevel
    BY <1>3, <2>1 DEF Q!coreVars
  <2>3. MediaTypes'
    BY <1>1, <1>9, <2>2 DEF Q!ReplacementFails, MediaTypes, Q!coreVars
  <2>4. SamplerTypes'
    BY <1>1, <1>9 DEF Q!ReplacementFails, Q!Stop, SamplerTypes
  <2> QED BY <2>2, <2>3, <2>4 DEF Types
<1> QED BY <1>2, <1>4, <1>5, <1>6, <1>7, <1>8, <1>9

-----------------------------------------------------------------------------
(* What counts                                                                  *)

\* A window that is complete starts again; every sample that counts has begun
\* since what it measures last changed.
Counts ==
    /\ history.pressure < Pressured /\ history.healthy < Recovered
    /\ history.pressure <= since /\ history.healthy <= since
    /\ alive /\ sampling = "fresh" => history.pressure < since /\ history.healthy < since

LEMMA CountedTypes ==
  ASSUME Q!QualityAssumption, SamplerTypes, Counts, NEW kind \in Q!Kinds
  PROVE  /\ Q!Counted(kind).pressure \in 0..Pressured /\ Q!Counted(kind).pressure <= history.pressure + 1
         /\ Q!Counted(kind).healthy \in 0..Recovered /\ Q!Counted(kind).healthy <= history.healthy + 1
  BY QualityConstants DEF SamplerTypes, Counts, Q!Counted

LEMMA RememberedTypes ==
  ASSUME Q!QualityAssumption, SamplerTypes, Counts, NEW kind \in Q!Kinds
  PROVE  /\ Q!Remembered(kind) \in [pressure : 0..Pressured, healthy : 0..Recovered]
         /\ Q!Remembered(kind).pressure < Pressured /\ Q!Remembered(kind).pressure <= history.pressure + 1
         /\ Q!Remembered(kind).healthy < Recovered /\ Q!Remembered(kind).healthy <= history.healthy + 1
<1> DEFINE c == Q!Counted(kind)
<1>1. /\ c.pressure \in 0..Pressured /\ c.pressure <= history.pressure + 1
      /\ c.healthy \in 0..Recovered /\ c.healthy <= history.healthy + 1
  BY CountedTypes
<1> HIDE DEF c
<1>2. /\ c.pressure % Pressured \in 0..(Pressured - 1) /\ c.pressure % Pressured <= c.pressure
      /\ c.healthy % Recovered \in 0..(Recovered - 1) /\ c.healthy % Recovered <= c.healthy
  BY <1>1, QualityConstants, Wrapped
<1>3. Q!Remembered(kind) = [pressure |-> c.pressure % Pressured, healthy |-> c.healthy % Recovered]
  BY DEF Q!Remembered, c
<1>4. history.pressure \in Nat /\ history.healthy \in Nat
  BY DEF SamplerTypes
<1> QED BY <1>1, <1>2, <1>3, <1>4, QualityConstants

LEMMA DecidedTypes ==
  ASSUME Q!QualityAssumption, quality \in Q!Qualities, NEW kind
  PROVE  Q!Decided(kind) \in Q!Levels
<1>1. quality.level \in Q!Levels /\ quality.level \in Int /\ quality.level - 1 \in Int /\ quality.level + 1 \in Int
  BY DEF Q!Qualities, Q!Levels
<1>2. Q!Max({1, quality.level - 1}) \in Q!Levels
  BY <1>1, QualityConstants, Greatest DEF Q!Levels
<1>3. Q!Min({quality.level + 1, Ceiling}) \in Q!Levels
  BY <1>1, QualityConstants, Least DEF Q!Levels
<1> QED BY <1>1, <1>2, <1>3 DEF Q!Decided

LEMMA SampleTypes ==
  ASSUME Q!QualityAssumption, Types, Turn, Counts, Q!Sample
  PROVE  Types' /\ Turn'
<1>1. MediaTypes /\ QueueTypes /\ SamplerTypes
  BY DEF Types
<1>2. ASSUME UNCHANGED <<Q!mediaVars, Q!queueVars, Q!coreVars>>
      PROVE  MediaTypes' /\ QueueTypes' /\ Turn'
  BY <1>1, <1>2 DEF MediaTypes, QueueTypes, Turn, Q!mediaVars, Q!queueVars, Q!coreVars, Q!Levels
<1>3. CASE Q!SampleStarts
  <2>1. since' \in 0..Pressured + Recovered
    <3>1. since + 1 \in Int /\ Pressured + Recovered \in Int /\ since \in Nat
      BY <1>1, QualityConstants DEF SamplerTypes
    <3>2. since' = since \/ since' = Q!Min({since + 1, Pressured + Recovered})
      BY <1>3 DEF Q!SampleStarts
    <3> QED BY <1>1, <3>1, <3>2, QualityConstants, Least DEF SamplerTypes
  <2>2. SamplerTypes'
    BY <1>1, <1>3, <2>1 DEF Q!SampleStarts, SamplerTypes
  <2> QED BY <1>2, <1>3, <2>2 DEF Q!SampleStarts, Types
<1>4. CASE Q!SampleFails
  BY <1>1, <1>2, <1>4, GoesOnTypes, HistoryTypes DEF Q!SampleFails, SamplerTypes, Types
<1>5. ASSUME NEW kind \in Q!Kinds, Q!SampleEnds(kind)
      PROVE  Types' /\ Turn'
  <2>1. sampling' = "no" /\ timer' \in BOOLEAN
    BY <1>1, <1>5, GoesOnTypes DEF Q!SampleEnds
  <2>2. /\ baseline' \in BOOLEAN /\ history' \in [pressure : 0..Pressured, healthy : 0..Recovered]
        /\ since' \in 0..Pressured + Recovered
    BY <1>1, <1>5, HistoryTypes, RememberedTypes DEF Q!SampleEnds, SamplerTypes
  <2>3. SamplerTypes'
    BY <1>1, <1>5, <2>1, <2>2 DEF Q!SampleEnds, SamplerTypes
  <2> QED BY <1>2, <1>5, <2>3 DEF Q!SampleEnds, Types
<1>6. ASSUME NEW kind \in Q!Kinds, Q!AdaptationQueued(kind)
      PROVE  Types' /\ Turn'
  <2> DEFINE o == [op |-> "adapt", for |-> quality, level |-> Q!Decided(kind)]
  <2>1. quality \in Q!Qualities
    BY <1>1, <1>6 DEF Q!AdaptationQueued, Q!Automatic, MediaTypes
  <2>2. o \in Q!Operations
    BY <2>1, DecidedTypes DEF Q!Operations
  <2>3. Q!Enqueue(o) /\ UNCHANGED <<Q!mediaVars, Q!coreVars>>
    BY <1>6 DEF Q!AdaptationQueued
  <2> HIDE DEF o
  <2>4. operations' \in Seq(Q!Operations) /\ step' = step /\ Turn'
    BY <1>1, <2>2, <2>3, EnqueueTypes DEF Q!mediaVars
  <2>5. MediaTypes' /\ QueueTypes'
    BY <1>1, <2>3, <2>4 DEF Q!mediaVars, Q!coreVars, MediaTypes, QueueTypes
  <2>6. SamplerTypes'
    BY <1>1, <1>6, RememberedTypes DEF Q!AdaptationQueued, SamplerTypes
  <2> QED BY <2>4, <2>5, <2>6 DEF Types
<1> QED BY <1>3, <1>4, <1>5, <1>6 DEF Q!Sample

LEMMA ConnectionTypes ==
  ASSUME Q!QualityAssumption, Types, Turn, Q!Connects \/ Q!Disconnects \/ Q!PublisherStops
  PROVE  Types' /\ Turn'
<1>1. MediaTypes /\ QueueTypes /\ SamplerTypes
  BY DEF Types
<1>2. UNCHANGED <<Q!mediaVars, Q!queueVars, Q!coreVars>>
  BY DEF Q!Connects, Q!Disconnects, Q!PublisherStops
<1>3. MediaTypes' /\ QueueTypes' /\ Turn'
  BY <1>1, <1>2 DEF MediaTypes, QueueTypes, Turn, Q!mediaVars, Q!queueVars, Q!coreVars, Q!Levels
<1>4. SamplerTypes'
  <2>1. CASE Q!Connects
    BY <1>1, <2>1 DEF Q!Connects, SamplerTypes
  <2>2. CASE Q!Disconnects
    BY <1>1, <2>2, ResetTypes DEF Q!Disconnects, SamplerTypes
  <2>3. CASE Q!PublisherStops
    BY <1>1, <2>3 DEF Q!PublisherStops, Q!Stop, SamplerTypes
  <2> QED BY <2>1, <2>2, <2>3
<1> QED BY <1>3, <1>4 DEF Types

LEMMA QualityTypes ==
  ASSUME Q!QualityAssumption, Types, Turn, Counts, Q!Next
  PROVE  Types' /\ Turn'
<1>1. CASE AsksCore
  BY <1>1, AsksTypes
<1>2. CASE Q!Operate
  BY <1>2, EncodingTypes, AppliedTypes, OtherTypes DEF Q!Operate
<1>3. CASE Q!Sample
  BY <1>3, SampleTypes
<1>4. CASE Q!Connects \/ Q!Disconnects \/ Q!PublisherStops
  BY <1>4, ConnectionTypes
<1> QED BY <1>1, <1>2, <1>3, <1>4 DEF Q!Next, AsksCore

\* However a step touches what is counted: not at all, by starting over, or as
\* the sample it is about.
LEMMA CountsKept ==
  ASSUME Q!QualityAssumption, Types, Counts,
         \/ UNCHANGED <<history, since>> /\ (alive' /\ sampling' = "fresh" => alive /\ sampling = "fresh")
         \/ history' = Q!NoHistory /\ since' = 0 /\ (alive' => sampling' # "fresh")
  PROVE  Counts'
  BY QualityConstants, HistoryTypes DEF Counts

LEMMA CountsReset ==
  ASSUME Q!QualityAssumption, Types, Counts, Q!ResetHistory
  PROVE  Counts'
  BY CountsKept DEF Q!ResetHistory

LEMMA OperateCounts ==
  ASSUME Q!QualityAssumption, Types, Turn, Counts, Q!Operate
  PROVE  Counts'
<1>1. CASE Q!Retired \/ Q!AdaptationDropped
  BY <1>1, CountsKept DEF Q!Retired, Q!AdaptationDropped, Q!SamplerGoesOn
<1>2. CASE Q!EncodingBegins \/ Q!SenderSet \/ Q!ReplacementBegins \/ Q!Acquired \/ Q!RateApplied
  BY <1>2, CountsKept DEF Q!EncodingBegins, Q!SenderSet, Q!ReplacementBegins, Q!Acquired, Q!RateApplied, Q!samplerVars
<1>3. CASE Q!SenderFails \/ Q!CaptureFails
  <2>1. Q!Failed /\ UNCHANGED alive
    BY <1>3 DEF Q!SenderFails, Q!CaptureFails
  <2>2. CASE Head(operations).op = "adapt"
    BY <2>1, <2>2, CountsKept DEF Q!Failed, Q!SamplerGoesOn
  <2>3. CASE Head(operations).op # "adapt"
    <3>1. UNCHANGED <<alive, sampling, history, since>>
      BY <2>1, <2>3 DEF Q!Failed
    <3> QED BY <3>1, CountsKept
  <2> QED BY <2>2, <2>3
<1>4. CASE Q!RollbackFails
  BY <1>4, CountsKept DEF Q!RollbackFails, Q!Stop
<1>5. CASE Q!Applied
  <2>1. Head(operations).op \in Q!Encodes
    BY <1>5 DEF Q!Applied, Q!Encoding
  <2>2. \/ Q!ResetHistory
        \/ UNCHANGED <<history, since>> /\ (sampling' = "no" \/ sampling' = sampling)
    BY <1>5, <2>1 DEF Q!Applied, Q!Encodes, Q!SamplerGoesOn
  <2> QED BY <1>5, <2>2, CountsKept, CountsReset DEF Q!Applied
<1>6. CASE Q!SuspensionSet \/ Q!Swapped
  BY <1>6, CountsReset DEF Q!SuspensionSet, Q!Swapped
<1>7. CASE Q!SuspensionFails \/ Q!ReplacementFails
  BY <1>7, CountsKept DEF Q!SuspensionFails, Q!ReplacementFails, Q!Stop
<1> QED BY <1>1, <1>2, <1>3, <1>4, <1>5, <1>6, <1>7 DEF Q!Operate

LEMMA SampleCounts ==
  ASSUME Q!QualityAssumption, Types, Turn, Counts, Q!Sample
  PROVE  Counts'
<1>1. SamplerTypes
  BY DEF Types
<1>2. CASE Q!SampleStarts
  <2>1. CASE alive /\ connected
    <3>1. since + 1 \in Int /\ Pressured + Recovered \in Int /\ since \in Nat
          /\ history.pressure \in Nat /\ history.healthy \in Nat
      BY <1>1, QualityConstants DEF SamplerTypes
    <3>2. since' = Q!Min({since + 1, Pressured + Recovered}) /\ UNCHANGED history
      BY <1>2, <2>1 DEF Q!SampleStarts
    <3>3. history.pressure < since' /\ history.healthy < since'
      BY <3>1, <3>2, Least, QualityConstants DEF Counts
    <3> QED BY <3>1, <3>2, <3>3, QualityConstants, Least DEF Counts
  <2>2. CASE ~(alive /\ connected)
    BY <1>2, <2>2, CountsKept DEF Q!SampleStarts
  <2> QED BY <2>1, <2>2
<1>3. CASE Q!SampleFails
  BY <1>3, CountsKept DEF Q!SampleFails, Q!SamplerGoesOn
<1>4. ASSUME NEW kind \in Q!Kinds, alive, sampling = "fresh", history' = Q!Remembered(kind),
             UNCHANGED since, sampling' # "fresh"
      PROVE  Counts'
  <2>1. history.pressure \in Nat /\ history.healthy \in Nat /\ since \in Nat
    BY <1>1 DEF SamplerTypes
  <2> QED BY <1>1, <1>4, <2>1, RememberedTypes, QualityConstants DEF Counts
<1>5. ASSUME NEW kind \in Q!Kinds, Q!SampleEnds(kind)
      PROVE  Counts'
  <2>1. sampling' = "no" /\ UNCHANGED alive
    BY <1>5 DEF Q!SampleEnds, Q!SamplerGoesOn
  <2>2. CASE UNCHANGED <<history, since>>
    BY <2>1, <2>2, CountsKept
  <2>3. CASE history' = Q!NoHistory /\ since' = 0
    BY <2>1, <2>3, CountsKept
  <2>4. CASE sampling = "fresh" /\ Q!Adapting /\ history' = Q!Remembered(kind) /\ UNCHANGED since
    BY <1>4, <2>1, <2>4 DEF Q!Adapting
  <2> QED BY <1>5, <2>2, <2>3, <2>4 DEF Q!SampleEnds
<1>6. ASSUME NEW kind \in Q!Kinds, Q!AdaptationQueued(kind)
      PROVE  Counts'
  BY <1>4, <1>6 DEF Q!AdaptationQueued, Q!Adapting
<1> QED BY <1>2, <1>3, <1>5, <1>6 DEF Q!Sample

LEMMA NextCounts ==
  ASSUME Q!QualityAssumption, Types, Turn, Counts, Q!Next
  PROVE  Counts'
<1>1. CASE AsksCore
  <2>1. UNCHANGED <<alive, sampling, history, since>>
    BY <1>1 DEF AsksCore, Q!Configure, Q!SetQuality, Q!SetSuspended, Q!ReplaceCapture, Q!samplerVars
  <2> QED BY <2>1, CountsKept
<1>2. CASE Q!Operate
  BY <1>2, OperateCounts
<1>3. CASE Q!Sample
  BY <1>3, SampleCounts
<1>4. CASE Q!Connects \/ Q!PublisherStops
  BY <1>4, CountsKept DEF Q!Connects, Q!PublisherStops, Q!Stop
<1>5. CASE Q!Disconnects
  BY <1>5, CountsReset DEF Q!Disconnects
<1> QED BY <1>1, <1>2, <1>3, <1>4, <1>5 DEF Q!Next, AsksCore

-----------------------------------------------------------------------------
(* What Core was told                                                           *)

\* The steps of an operation in which the sender, the capture and what Core was
\* told may differ, and what undoes them.
Agreed ==
    alive => /\ capture = reported /\ settings = reported
             /\ step # "capture" => sender = reported
             /\ step = "capture" => sender = Q!Target
             /\ step \in {"sender", "capture"} => saved = reported

LEMMA OperateAgreed ==
  ASSUME Types, Turn, Agreed, Q!Operate
  PROVE  Agreed'
<1>1. CASE Q!Retired \/ Q!RollbackFails \/ Q!SuspensionFails
  BY <1>1 DEF Q!Retired, Q!RollbackFails, Q!SuspensionFails, Q!Stop, Agreed
<1>2. CASE Q!AdaptationDropped
  BY <1>2 DEF Q!AdaptationDropped, Q!HeadIs, Q!Over, Q!Pop, Agreed
<1>3. CASE Q!EncodingBegins
  BY <1>3 DEF Q!EncodingBegins, Q!Encoding, Q!Await, Q!coreVars, Agreed
<1>4. CASE Q!SenderSet
  BY <1>4 DEF Q!SenderSet, Q!Encoding, Q!Await, Q!coreVars, Agreed, Q!Target
<1>5. CASE Q!SenderFails \/ Q!CaptureFails
  BY <1>5 DEF Q!SenderFails, Q!CaptureFails, Q!Encoding, Q!Failed, Q!Pop, Agreed
<1>6. CASE Q!Applied
  BY <1>6 DEF Q!Applied, Q!Encoding, Q!Pop, Agreed
<1>7. CASE Q!SuspensionSet
  BY <1>7 DEF Q!SuspensionSet, Q!Suspends, Q!Pop, Q!coreVars, Agreed
<1>8. CASE Q!ReplacementBegins \/ Q!Acquired \/ Q!RateApplied
  BY <1>8 DEF Q!ReplacementBegins, Q!Acquired, Q!RateApplied, Q!HeadIs, Q!Await, Q!mediaVars, Q!coreVars, Agreed
<1>9. CASE Q!Swapped
  BY <1>9 DEF Q!Swapped, Q!HeadIs, Turn, Q!Pop, Q!coreVars, Agreed
<1>10. CASE Q!ReplacementFails
  BY <1>10 DEF Q!ReplacementFails, Q!Pop, Q!Stop, Q!coreVars, Agreed
<1> QED BY <1>1, <1>2, <1>3, <1>4, <1>5, <1>6, <1>7, <1>8, <1>9, <1>10 DEF Q!Operate

\* What is added to the queue leaves its head alone.
LEMMA AgreedKept ==
  ASSUME Types, Turn, Agreed, UNCHANGED <<Q!mediaVars, reported, step>>, alive' => alive,
         \/ UNCHANGED operations
         \/ \E o \in Q!Operations : operations' = Append(operations, o)
  PROVE  Agreed'
<1>1. step = "capture" => Head(operations') = Head(operations)
  BY QueuedTypes DEF Types, Turn
<1> QED BY <1>1 DEF Agreed, Q!Target, Q!mediaVars

-----------------------------------------------------------------------------
(* What automatic mode decided                                                  *)

AdaptsAutomatic ==
    \A i \in DOMAIN operations :
        operations[i].op = "adapt" => operations[i].for # NoLevel /\ operations[i].for.mode = "auto"

Yields ==
    step = "sender" /\ Head(operations).op = "adapt" => quality = Head(operations).for /\ ~suspended

\* The only step that sets the sender for automatic mode is the one that
\* looked at the quality again.
LEMMA OperateYields ==
  ASSUME Types, Turn, AdaptsAutomatic, Yields, Q!Operate
  PROVE  AdaptsAutomatic' /\ Yields'
<1>1. ASSUME operations # <<>>, Q!Pop
      PROVE  AdaptsAutomatic' /\ Yields'
  <2>1. operations' = Tail(operations) /\ step' = "queued"
    BY <1>1 DEF Q!Pop
  <2>2. \A i \in DOMAIN Tail(operations) :
          i + 1 \in DOMAIN operations /\ Tail(operations)[i] = operations[i + 1]
    BY <1>1, HeadTypes DEF Types
  <2> QED BY <2>1, <2>2 DEF AdaptsAutomatic, Yields
<1>2. CASE Q!EncodingBegins
  BY <1>2 DEF Q!EncodingBegins, Q!Await, Q!StillWanted, AdaptsAutomatic, Yields
<1>3. CASE Q!SenderSet \/ Q!ReplacementBegins \/ Q!Acquired \/ Q!RateApplied
  BY <1>3 DEF Q!SenderSet, Q!ReplacementBegins, Q!Acquired, Q!RateApplied, Q!Await, AdaptsAutomatic, Yields
<1>4. CASE Q!Retired \/ Q!AdaptationDropped
  BY <1>1, <1>4 DEF Q!Retired, Q!AdaptationDropped, Q!HeadIs, Q!Over
<1>5. CASE Q!SenderFails \/ Q!CaptureFails \/ Q!RollbackFails \/ Q!Applied
  BY <1>1, <1>5 DEF Q!SenderFails, Q!CaptureFails, Q!RollbackFails, Q!Applied, Q!Encoding, Q!Failed
<1>6. CASE Q!SuspensionSet \/ Q!SuspensionFails \/ Q!Swapped \/ Q!ReplacementFails
  BY <1>1, <1>6 DEF Q!SuspensionSet, Q!SuspensionFails, Q!Suspends, Q!Swapped, Q!HeadIs, Q!ReplacementFails
<1> QED BY <1>2, <1>3, <1>4, <1>5, <1>6 DEF Q!Operate

LEMMA YieldsKept ==
  ASSUME Types, Turn, AdaptsAutomatic, Yields, UNCHANGED <<quality, suspended, step>>,
         \/ UNCHANGED operations
         \/ \E o \in Q!Operations : /\ operations' = Append(operations, o)
                                    /\ o.op = "adapt" => o.for # NoLevel /\ o.for.mode = "auto"
  PROVE  AdaptsAutomatic' /\ Yields'
<1>1. CASE UNCHANGED operations
  BY <1>1 DEF AdaptsAutomatic, Yields
<1>2. ASSUME NEW o \in Q!Operations, operations' = Append(operations, o),
             o.op = "adapt" => o.for # NoLevel /\ o.for.mode = "auto"
      PROVE  AdaptsAutomatic' /\ Yields'
  <2>1. /\ operations # <<>> => Head(operations') = Head(operations)
        /\ \A i \in DOMAIN operations' : (i \in DOMAIN operations /\ operations'[i] = operations[i])
                                         \/ operations'[i] = o
    BY <1>2, QueuedTypes DEF Types
  <2> QED BY <1>2, <2>1 DEF AdaptsAutomatic, Yields, Turn
<1> QED BY <1>1, <1>2

\* Whatever happens beside the queue, at most one operation is added to it.
LEMMA BesideTheQueue ==
  ASSUME Q!QualityAssumption, Types, Turn, Q!Next, ~Q!Operate
  PROVE  /\ UNCHANGED <<Q!mediaVars, reported, step, suspended>> /\ (alive' => alive)
         /\ \/ UNCHANGED operations
            \/ \E o \in Q!Operations : /\ operations' = Append(operations, o)
                                       /\ o.op = "adapt" => o.for # NoLevel /\ o.for.mode = "auto"
<1> DEFINE Beside == /\ UNCHANGED <<Q!mediaVars, reported, step, suspended>> /\ (alive' => alive)
                     /\ \/ UNCHANGED operations
                        \/ \E o \in Q!Operations : /\ operations' = Append(operations, o)
                                                   /\ o.op = "adapt" => o.for # NoLevel /\ o.for.mode = "auto"
<1>0. MediaTypes /\ QueueTypes /\ SamplerTypes
  BY DEF Types
<1>1. ASSUME NEW mode \in Q!Modes, NEW level \in Q!Levels, Q!Configure(mode, level)
      PROVE  Beside
  <2> DEFINE o == [op |-> "configure", id |-> asked + 1, mode |-> mode, level |-> Q!Min({level, Ceiling})]
  <2>1. Q!Min({level, Ceiling}) \in Q!Levels
    <3>1. level \in Int /\ Ceiling \in Int
      BY QualityConstants DEF Q!Levels
    <3> QED BY <3>1, QualityConstants, Least DEF Q!Levels
  <2>2. o \in Q!Operations /\ o.op = "configure"
    BY <1>0, <1>1, <2>1, AskedTypes DEF Q!Configure, Q!Operations
  <2>3. UNCHANGED Q!queueVars \/ Q!Enqueue(o)
    BY <1>1 DEF Q!Configure
  <2>4. UNCHANGED <<alive, suspended, Q!mediaVars, reported>>
    BY <1>1 DEF Q!Configure
  <2> HIDE DEF o
  <2> QED BY <2>2, <2>3, <2>4 DEF Q!queueVars, Q!Enqueue
<1>2. ASSUME NEW level \in Q!Levels, Q!SetQuality(level)
      PROVE  Beside
  <2> DEFINE o == [op |-> "preset", id |-> asked + 1, level |-> level]
  <2>1. o \in Q!Operations /\ o.op = "preset"
    BY <1>0, <1>2, AskedTypes DEF Q!SetQuality, Q!Operations
  <2>2. Q!Enqueue(o) /\ UNCHANGED <<alive, suspended, Q!mediaVars, reported>>
    BY <1>2 DEF Q!SetQuality
  <2> HIDE DEF o
  <2> QED BY <2>1, <2>2 DEF Q!Enqueue
<1>3. ASSUME NEW op \in {"suspend", "resume"}, Q!SetSuspended(op)
      PROVE  Beside
  <2> DEFINE o == [op |-> op, id |-> asked + 1]
  <2>1. o \in Q!Operations /\ o.op # "adapt"
    BY <1>0, <1>3, AskedTypes DEF Q!SetSuspended, Q!Operations
  <2>2. Q!Enqueue(o) /\ UNCHANGED <<alive, suspended, Q!mediaVars, reported>>
    BY <1>3 DEF Q!SetSuspended
  <2> HIDE DEF o
  <2> QED BY <2>1, <2>2 DEF Q!Enqueue
<1>4. CASE Q!ReplaceCapture
  <2> DEFINE o == [op |-> "replace", id |-> asked + 1]
  <2>1. o \in Q!Operations /\ o.op # "adapt"
    BY <1>0, <1>4, AskedTypes DEF Q!ReplaceCapture, Q!Operations
  <2>2. Q!Enqueue(o) /\ UNCHANGED <<alive, suspended, Q!mediaVars, reported>>
    BY <1>4 DEF Q!ReplaceCapture
  <2> HIDE DEF o
  <2> QED BY <2>1, <2>2 DEF Q!Enqueue
<1>5. ASSUME NEW kind \in Q!Kinds, Q!AdaptationQueued(kind)
      PROVE  Beside
  <2> DEFINE o == [op |-> "adapt", for |-> quality, level |-> Q!Decided(kind)]
  <2>1. quality \in Q!Qualities /\ quality # NoLevel /\ quality.mode = "auto"
    BY <1>0, <1>5 DEF Q!AdaptationQueued, Q!Automatic, MediaTypes
  <2>2. o \in Q!Operations /\ o.for # NoLevel /\ o.for.mode = "auto"
    BY <2>1, DecidedTypes DEF Q!Operations
  <2>3. Q!Enqueue(o) /\ UNCHANGED <<alive, suspended, Q!mediaVars, Q!coreVars>>
    BY <1>5 DEF Q!AdaptationQueued
  <2> HIDE DEF o
  <2> QED BY <2>2, <2>3 DEF Q!Enqueue, Q!coreVars
<1>6. CASE Q!SampleStarts \/ Q!SampleFails \/ \E kind \in Q!Kinds : Q!SampleEnds(kind)
  BY <1>6 DEF Q!SampleStarts, Q!SampleFails, Q!SampleEnds, Q!queueVars, Q!coreVars
<1>7. CASE Q!Connects \/ Q!Disconnects \/ Q!PublisherStops
  BY <1>7 DEF Q!Connects, Q!Disconnects, Q!PublisherStops, Q!Stop, Q!queueVars, Q!coreVars
<1> QED BY <1>1, <1>2, <1>3, <1>4, <1>5, <1>6, <1>7 DEF Q!Next, Q!Sample

-----------------------------------------------------------------------------
(* Theorems                                                                     *)

\* Inductive: the operation at the head of the queue, what it has changed and
\* not reported yet, what the sampler counts, and what it has decided.
QualityInv == Types /\ Turn /\ Counts /\ Agreed /\ AdaptsAutomatic /\ Yields

LEMMA QualityInit == ASSUME Q!QualityAssumption, Q!Init PROVE QualityInv
<1>1. Types
  <2>1. MediaTypes
    BY QualityConstants DEF Q!Init, MediaTypes
  <2>2. QueueTypes
    BY QualityConstants DEF Q!Init, QueueTypes, Q!Ids
  <2>3. SamplerTypes
    BY HistoryTypes DEF Q!Init, SamplerTypes
  <2> QED BY <2>1, <2>2, <2>3 DEF Types
<1>2. Turn /\ Counts /\ Agreed /\ Yields
  BY QualityConstants, HistoryTypes DEF Q!Init, Turn, Counts, Agreed, Yields
<1>3. AdaptsAutomatic
  BY DEF Q!Init, AdaptsAutomatic
<1> QED BY <1>1, <1>2, <1>3 DEF QualityInv

LEMMA QualityStep == ASSUME Q!QualityAssumption, QualityInv, [Q!Next]_(Q!vars) PROVE QualityInv'
<1>1. Types /\ Turn /\ Counts /\ Agreed /\ AdaptsAutomatic /\ Yields
  BY DEF QualityInv
<1>2. CASE UNCHANGED Q!vars
  BY <1>1, <1>2 DEF QualityInv, Types, MediaTypes, QueueTypes, SamplerTypes, Turn, Counts, Agreed,
     AdaptsAutomatic, Yields, Q!Levels, Q!Target, Q!vars, Q!mediaVars, Q!queueVars, Q!samplerVars, Q!coreVars
<1>3. CASE Q!Next
  <2>1. Types' /\ Turn' /\ Counts'
    BY <1>1, <1>3, QualityTypes, NextCounts
  <2>2. CASE Q!Operate
    BY <1>1, <2>1, <2>2, OperateAgreed, OperateYields DEF QualityInv
  <2>3. CASE ~Q!Operate
    <3>1. Agreed'
      BY <1>1, <1>3, <2>3, BesideTheQueue, AgreedKept
    <3>2. AdaptsAutomatic' /\ Yields'
      BY <1>1, <1>3, <2>3, BesideTheQueue, YieldsKept DEF Q!mediaVars
    <3> QED BY <2>1, <3>1, <3>2 DEF QualityInv
  <2> QED BY <2>2, <2>3
<1> QED BY <1>2, <1>3

\* It holds in every behaviour of the Publisher.
LEMMA QualityInvariant ==
  ASSUME Q!QualityAssumption
  PROVE  Q!Spec => []QualityInv
  BY QualityInit, QualityStep, PTL DEF Q!Spec

\* Between operations the sender, the capture and what Core was told agree, for
\* any limits and whichever step of applyPublisherEncoding, its rollback or
\* replaceCapture failed; and what counts towards an adaptation was sampled after
\* the last change of what it measures.
THEOREM QualityConsistent ==
  ASSUME Q!QualityAssumption
  PROVE  Q!Spec => []Q!Consistent
<1>1. ASSUME QualityInv
      PROVE  Q!Consistent
  BY <1>1, QualityParts DEF QualityInv, Q!Consistent, Q!ReportedIsApplied, Q!CountsAreFresh, Agreed, Counts
<1> QED BY <1>1, QualityInvariant, PTL

\* adaptPublisherQuality never touches the sender for a quality that is no
\* longer in force, or of media that is suspended: what was decided may wait in
\* mediaOperations behind any number of requests of Core.
THEOREM AutomaticAlwaysYields ==
  ASSUME Q!QualityAssumption
  PROVE  Q!Spec => Q!AutomaticYields
<1>1. ASSUME QualityInv, [Q!Next]_(Q!vars), sender' # sender, operations # <<>>,
             Head(operations).op = "adapt", step = "sender"
      PROVE  quality = Head(operations).for /\ Q!Automatic /\ ~suspended
  <2>1. quality = Head(operations).for /\ ~suspended
    BY <1>1 DEF QualityInv, Yields
  <2>2. Head(operations).for # NoLevel /\ Head(operations).for.mode = "auto"
    BY <1>1, HeadTypes DEF QualityInv, Types, AdaptsAutomatic
  <2> QED BY <2>1, <2>2 DEF Q!Automatic
<1>2. QualityInv /\ [Q!Next]_(Q!vars)
      => [sender' # sender /\ operations # <<>> /\ Head(operations).op = "adapt" /\ step = "sender"
            => quality = Head(operations).for /\ Q!Automatic /\ ~suspended]_(Q!vars)
  BY <1>1
<1> QED BY <1>2, QualityInvariant, PTL DEF Q!Spec, Q!AutomaticYields
=============================================================================
