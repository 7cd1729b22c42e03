------------------------- MODULE ViewerRequests_proofs -------------------------
(***************************************************************************)
(* Theorems about ViewerRequests, for any finite set of notices, any       *)
(* pages, navigations and configurations, and every bound.                 *)
(*                                                                         *)
(* The properties are about messages under way, which Core has sent and    *)
(* the Viewer is still to receive, so the invariants say what each of them *)
(* will find.  A step takes the first message, cuts the channel, or sends  *)
(* (Moved); what is sent is right when it is sent (Fit), and the lemmas at *)
(* the end say why it still is when the Viewer receives it.                *)
(***************************************************************************)
EXTENDS ViewerRequests, SequenceTheorems, FiniteSetTheorems, TLAPS

-----------------------------------------------------------------------------
(* Messages under way *)

LEMMA Counted ==
  ASSUME NEW S, IsFiniteSet(S)
  PROVE  Cardinality(S) \in Nat /\ SetToSeq(S) \in Surjection(1..Cardinality(S), S)
<1> DEFINE n == Cardinality(S)
<1>1. n \in Nat /\ ExistsBijection(1..n, S)
  BY FS_CardinalityType
<1>2. \E f \in [1..n -> S] : IsInjective(f)
  BY <1>1 DEF ExistsBijection, Bijection, Injection
<1>3. SetToSeq(S) \in Injection(1..n, S)
  BY <1>2 DEF SetToSeq, Injection
<1>4. IsFiniteSet(1..n) /\ Cardinality(1..n) = n
  BY <1>1, FS_Interval
<1>5. SetToSeq(S) \in Surjection(1..n, S)
  BY <1>3, <1>4, FS_Injection
<1> QED BY <1>1, <1>5

LEMMA NoticeSets ==
  ASSUME NEW ns \in SUBSET Notices
  PROVE  IsFiniteSet(ns)
  BY RequestsAssumption, FS_Subset DEF RequestsAssumption

\* Each of the notices is cancelled, and nothing else.
LEMMA Cancelling ==
  ASSUME NEW ns \in SUBSET Notices
  PROVE  /\ Cancels(ns) \in Seq(Downward)
         /\ \A j \in DOMAIN Cancels(ns) : Cancels(ns)[j].type = "cancel" /\ Cancels(ns)[j].id \in ns
         /\ \A n \in ns : \E j \in DOMAIN Cancels(ns) : Cancels(ns)[j] = Message("cancel", n)
<1> DEFINE f == SetToSeq(ns)
<1>1. Cardinality(ns) \in Nat /\ f \in Surjection(1..Cardinality(ns), ns)
  BY NoticeSets, Counted
<1>2. f \in [1..Cardinality(ns) -> ns] /\ \A n \in ns : \E j \in 1..Cardinality(ns) : f[j] = n
  BY <1>1 DEF Surjection
<1>3. Cancels(ns) = [j \in 1..Cardinality(ns) |-> Message("cancel", f[j])]
  BY DEF Cancels
<1> HIDE DEF f
<1>4. \A j \in 1..Cardinality(ns) : Message("cancel", f[j]) \in Downward
  BY <1>2 DEF Message, Downward
<1>5. Cancels(ns) \in Seq(Downward)
  BY <1>1, <1>3, <1>4, IsASeq
<1>6. /\ DOMAIN Cancels(ns) = 1..Cardinality(ns)
      /\ \A j \in 1..Cardinality(ns) : Cancels(ns)[j] = Message("cancel", f[j])
  BY <1>3
<1>7. \A n : Message("cancel", n).type = "cancel" /\ Message("cancel", n).id = n
  BY DEF Message
<1>8. \A j \in DOMAIN Cancels(ns) : Cancels(ns)[j].type = "cancel" /\ Cancels(ns)[j].id \in ns
  BY <1>2, <1>6, <1>7
<1>9. \A n \in ns : \E j \in DOMAIN Cancels(ns) : Cancels(ns)[j] = Message("cancel", n)
  BY <1>2, <1>6
<1> QED BY <1>5, <1>8, <1>9

LEMMA OneMessage ==
  ASSUME NEW m \in Downward
  PROVE  <<m>> \in Seq(Downward) /\ Len(<<m>>) = 1 /\ DOMAIN <<m>> = 1..1 /\ <<m>>[1] = m
  OBVIOUS

\* What is sent comes after what is under way, if a Viewer holds the channel.
LEMMA Sending ==
  ASSUME down \in Seq(Downward), NEW ms \in Seq(Downward), Send(ms)
  PROVE  /\ down' \in Seq(Downward)
         /\ ~linked => down' = down
         /\ linked => /\ Len(down') = Len(down) + Len(ms)
                      /\ \A i \in 1..Len(down) : down'[i] = down[i]
                      /\ \A j \in 1..Len(ms) : down'[Len(down) + j] = ms[j]
<1>1. CASE linked
  <2>1. down' = down \o ms /\ Len(down) \in Nat /\ Len(ms) \in Nat
    BY <1>1, LenProperties DEF Send
  <2> QED BY <1>1, <2>1, ConcatProperties
<1>2. CASE ~linked
  BY <1>2 DEF Send
<1> QED BY <1>1, <1>2

-----------------------------------------------------------------------------
(* Types *)

SessionTypes ==
    /\ generation \in Generations
    /\ phase \in {"negotiating", "active", "away", "closed"}
    /\ takeover \in {"no", "queued", "drained"}
    /\ {control, granted, linked} \subseteq BOOLEAN

ChainTypes ==
    /\ chain \in Seq(Upward) /\ step \in {"start", "hook", "confirm"}
    /\ confirming \in Notices \cup {None}

TableTypes ==
    /\ notices \in [Notices -> {"new", "pending", "response"} \cup Cancellations]
    /\ opens \in [Opens -> {"new", "queued", "pending", "answered", "over"}]
    /\ requests \in [Configs -> 0..MaxGeneration]
    /\ media \in Seq(Configs \cup {None})

ViewerTypes ==
    /\ viewer \in [granted : {"unknown", "yes", "no"}, shown : SUBSET Notices,
                   opens : SUBSET Opens, config : Configs \cup {None}]
    /\ replies \in SUBSET [id : Notices, generation : Generations]
    /\ down \in Seq(Downward)

HistoryTypes ==
    /\ asker \in [Asked -> 0..MaxGeneration]
    /\ applied \in SUBSET Configs
    /\ outcome \in [Configs -> {"none", "asked", "resolved", "rejected"}]

RequestTypes == SessionTypes /\ ChainTypes /\ TableTypes /\ ViewerTypes /\ HistoryTypes

LEMMA RequestParts == TypeOK <=> RequestTypes
  BY DEF TypeOK, RequestTypes, SessionTypes, ChainTypes, TableTypes, ViewerTypes, HistoryTypes

LEMMA RequestConstants ==
  /\ MaxPending \in Nat /\ MaxPending >= 1 /\ MaxGeneration \in Nat /\ MaxGeneration >= 1
  /\ None \notin Notices /\ None \notin Opens /\ None \notin Navigations /\ None \notin Configs
  /\ Configs \cap Notices = {} /\ Configs \cap Opens = {} /\ Configs \cap Navigations = {}
  BY RequestsAssumption DEF RequestsAssumption

\* What waits in the chain, and what is under way to the Viewer, has the
\* identifiers of its kind.
ChainKinds ==
    \A i \in DOMAIN chain :
        /\ chain[i].type = "configure" =>
             chain[i].id \in Configs /\ asker[chain[i].id] = chain[i].generation
        /\ chain[i].type = "navigate" => chain[i].id \in Navigations
        /\ chain[i].type \in {"open", "openResult"} => chain[i].id \in Opens

StepKinds ==
    /\ step # "start" => chain # <<>> /\ Head1.type \in {"navigate", "open"}
    /\ step = "confirm" => Head1.type = "navigate"

KindOf(m) ==
    /\ m.type \in {"notice", "cancel"} => m.id \in Notices
    /\ m.type = "openRequest" => m.id \in Opens
    /\ m.type \in {"configured", "configureFailed"} => m.id \in Configs \cup {None}
    /\ m.type = "navigationResult" => m.id \in Navigations
    /\ m.type \in {"accepted", "acceptedWithout", "capabilities", "error"} => m.id = None

DownKinds == \A i \in DOMAIN down : KindOf(down[i])

LEMMA ChainHead ==
  ASSUME ChainTypes, chain # <<>>
  PROVE  /\ Head1 \in Upward /\ Head1 = chain[1] /\ 1 \in DOMAIN chain
         /\ Tail(chain) \in Seq(Upward)
         /\ \A i \in DOMAIN Tail(chain) : i + 1 \in DOMAIN chain /\ Tail(chain)[i] = chain[i + 1]
<1>1. chain \in Seq(Upward) /\ Len(chain) \in Nat /\ Len(chain) >= 1
  BY LenProperties, EmptySeq DEF ChainTypes
<1> QED BY <1>1, HeadTailProperties DEF Head1

LEMMA ChainEnd ==
  ASSUME ChainTypes, NEW type, NEW id, Up(type, id),
         [type |-> type, id |-> id, generation |-> generation] \in Upward
  PROVE  /\ ChainTypes' /\ chain' # <<>>
         /\ chain # <<>> => Head1' = Head1
         /\ \A i \in DOMAIN chain' :
              \/ i \in DOMAIN chain /\ chain'[i] = chain[i]
              \/ i = Len(chain) + 1 /\ chain'[i] = [type |-> type, id |-> id, generation |-> generation]
<1> DEFINE e == [type |-> type, id |-> id, generation |-> generation]
<1>1. chain \in Seq(Upward) /\ Len(chain) \in Nat /\ (chain # <<>> => Len(chain) >= 1)
  BY LenProperties, EmptySeq DEF ChainTypes
<1>2. chain' = Append(chain, e) /\ UNCHANGED <<step, confirming>> /\ e \in Upward
  BY DEF Up
<1> HIDE DEF e
<1>3. /\ chain' \in Seq(Upward) /\ Len(chain') = Len(chain) + 1
      /\ \A i \in 1..Len(chain) : chain'[i] = chain[i]
      /\ chain'[Len(chain) + 1] = e
  BY <1>1, <1>2, AppendProperties
<1>4. chain # <<>> => Head1' = Head1
  BY <1>1, <1>2, <1>3 DEF Head1
<1> QED BY <1>1, <1>2, <1>3, <1>4 DEF ChainTypes, e

LEMMA DownHead ==
  ASSUME ViewerTypes, down # <<>>
  PROVE  /\ Head(down) \in Downward /\ Head(down) = down[1] /\ 1 \in DOMAIN down
         /\ Len(down) \in Nat /\ Len(down) >= 1 /\ Len(Tail(down)) = Len(down) - 1
         /\ Tail(down) \in Seq(Downward)
         /\ \A i \in DOMAIN Tail(down) : i + 1 \in DOMAIN down /\ Tail(down)[i] = down[i + 1]
<1>1. down \in Seq(Downward) /\ Len(down) \in Nat /\ Len(down) >= 1
  BY LenProperties, EmptySeq DEF ViewerTypes
<1> QED BY <1>1, HeadTailProperties

-----------------------------------------------------------------------------
(* The chain *)

\* Who asked is remembered.
AskerKept == \A a \in Asked : asker[a] # 0 => asker'[a] = asker[a]

LEMMA AskerMoves ==
  ASSUME RequestTypes, Next
  PROVE  /\ AskerKept /\ asker' \in [Asked -> 0..MaxGeneration]
         /\ generation' = generation \/ asker' = asker
<1>1. generation \in 0..MaxGeneration /\ asker \in [Asked -> 0..MaxGeneration]
  BY RequestConstants DEF RequestTypes, SessionTypes, HistoryTypes, Generations
<1>2. ASSUME NEW v \in Navigations, Navigate(v)
      PROVE  AskerKept /\ asker' \in [Asked -> 0..MaxGeneration] /\ generation' = generation
  <2>1. asker' = [asker EXCEPT ![v] = generation] /\ asker[v] = 0 /\ generation' = generation
    BY <1>2 DEF Navigate, sessionVars
  <2> QED BY <1>1, <2>1 DEF AskerKept
<1>3. ASSUME NEW q \in Configs, ConfigureQuality(q)
      PROVE  AskerKept /\ asker' \in [Asked -> 0..MaxGeneration] /\ generation' = generation
  <2>1. asker' = [asker EXCEPT ![q] = generation] /\ asker[q] = 0 /\ generation' = generation
    BY <1>3 DEF ConfigureQuality, sessionVars
  <2> QED BY <1>1, <2>1 DEF AskerKept
<1>4. CASE UNCHANGED asker
  BY <1>1, <1>4 DEF AskerKept
<1>5. CASE Chain
  BY <1>4, <1>5 DEF Chain, HeadRefused, HelloServed, NavigationServed, NavigationEnds, NavigationConfirms,
     ConfirmationEnds, ConfigureServed, OpenServed, OpenDecided, OpenAnswered, Drained, historyVars
<1>6. CASE \/ \E n \in Notices : RequestNotice(n) \/ NoticeExpires(n) \/ NoticeAborted(n)
                                   \/ RespondToNotice(n)
           \/ \E r \in replies : ResponseArrives(r)
           \/ ViewerConnects \/ ViewerGoes \/ ConfigureTimeout
  BY <1>4, <1>6 DEF RequestNotice, NoticeExpires, NoticeAborted, RespondToNotice, ResponseArrives,
     ViewerConnects, ViewerGoes, ConfigureTimeout, historyVars
<1>7. CASE \/ \E o \in Opens : PageOpens(o) \/ OpenExpires(o) \/ RespondToOpen(o)
           \/ \E p \in Notices \cup Opens : PromptExpires(p)
           \/ down # <<>> /\ ViewerReceives(Head(down))
  BY <1>4, <1>7 DEF PageOpens, OpenExpires, RespondToOpen, PromptExpires, ViewerReceives, historyVars
<1>8. CASE \/ \E ok \in BOOLEAN : MediaAnswers(ok)
           \/ Revoke \/ ControlCloses \/ PeerLeft \/ TakeoverStarts \/ ViewerReplaced \/ Close
  BY <1>4, <1>8 DEF MediaAnswers, Revoke, ControlCloses, PeerLeft, TakeoverStarts, ViewerReplaced, Close,
     historyVars
<1> QED BY <1>2, <1>3, <1>5, <1>6, <1>7, <1>8 DEF Next

ChainInv == ChainTypes /\ ChainKinds /\ StepKinds

LEMMA ChainAsked ==
  ASSUME ChainTypes, ChainKinds
  PROVE  \A i \in DOMAIN chain : chain[i].type = "configure" =>
           chain[i].id \in Asked /\ asker[chain[i].id] # 0
<1>1. ASSUME NEW e \in Upward
      PROVE  e.generation # 0
  BY RequestConstants DEF Upward, Generations
<1>2. \A i \in DOMAIN chain : chain[i] \in Upward
  BY DEF ChainTypes
<1> QED BY <1>1, <1>2 DEF ChainKinds, Asked

\* What is added has its kind; what ends leaves the rest as it was.
LEMMA ChainAdds ==
  ASSUME SessionTypes, ChainInv, AskerKept, NEW type \in {"hello", "navigate", "configure", "openResult", "open", "drain"},
         NEW id \in Opens \cup Asked \cup {None}, Up(type, id),
         type = "configure" => id \in Configs /\ asker'[id] = generation,
         type = "navigate" => id \in Navigations,
         type \in {"open", "openResult"} => id \in Opens
  PROVE  ChainInv'
<1> DEFINE e == [type |-> type, id |-> id, generation |-> generation]
<1>1. e \in Upward
  BY DEF SessionTypes, Upward
<1>2. ChainTypes /\ ChainKinds /\ StepKinds
  BY DEF ChainInv
<1>3. /\ ChainTypes' /\ chain' # <<>>
      /\ chain # <<>> => Head1' = Head1
      /\ \A i \in DOMAIN chain' : (i \in DOMAIN chain /\ chain'[i] = chain[i]) \/ chain'[i] = e
  BY <1>1, <1>2, ChainEnd
<1>4. StepKinds'
  BY <1>2, <1>3 DEF StepKinds, Up
<1>5. ChainKinds'
  <2> SUFFICES ASSUME NEW i \in DOMAIN chain'
               PROVE  /\ chain'[i].type = "configure" =>
                           chain'[i].id \in Configs /\ asker'[chain'[i].id] = chain'[i].generation
                      /\ chain'[i].type = "navigate" => chain'[i].id \in Navigations
                      /\ chain'[i].type \in {"open", "openResult"} => chain'[i].id \in Opens
    BY DEF ChainKinds
  <2>1. CASE chain'[i] = e
    BY <2>1
  <2>2. CASE i \in DOMAIN chain /\ chain'[i] = chain[i]
    <3>1. chain[i].type = "configure" => chain[i].id \in Asked /\ asker[chain[i].id] # 0
      BY <1>2, <2>2, ChainAsked
    <3> QED BY <1>2, <2>2, <3>1 DEF ChainKinds, AskerKept
  <2> QED BY <1>3, <2>1, <2>2
<1> QED BY <1>3, <1>4, <1>5 DEF ChainInv

LEMMA ChainStays ==
  ASSUME ChainInv, AskerKept, UNCHANGED chain, step' \in {"start", "hook", "confirm"},
         confirming' \in Notices \cup {None},
         \/ step' = step
         \/ /\ chain # <<>> /\ Head1.type \in {"navigate", "open"}
            /\ step' = "confirm" => Head1.type = "navigate"
  PROVE  ChainInv'
<1>1. ChainTypes /\ ChainKinds /\ StepKinds
  BY DEF ChainInv
<1>2. ChainTypes' /\ StepKinds'
  BY <1>1 DEF ChainTypes, StepKinds, Head1
<1>3. ChainKinds'
  <2>1. \A i \in DOMAIN chain : chain[i].type = "configure" => chain[i].id \in Asked /\ asker[chain[i].id] # 0
    BY <1>1, ChainAsked
  <2> QED BY <1>1, <2>1 DEF ChainKinds, AskerKept
<1> QED BY <1>2, <1>3 DEF ChainInv

LEMMA ChainPops ==
  ASSUME ChainInv, AskerKept, chain # <<>>, Pop
  PROVE  ChainInv'
<1>1. ChainTypes /\ ChainKinds /\ StepKinds
  BY DEF ChainInv
<1>2. /\ chain' = Tail(chain) /\ step' = "start" /\ confirming' = None
      /\ Tail(chain) \in Seq(Upward)
      /\ \A i \in DOMAIN Tail(chain) : i + 1 \in DOMAIN chain /\ Tail(chain)[i] = chain[i + 1]
  BY <1>1, ChainHead DEF Pop
<1>3. \A i \in DOMAIN chain : chain[i].type = "configure" => chain[i].id \in Asked /\ asker[chain[i].id] # 0
  BY <1>1, ChainAsked
<1>4. ChainKinds'
  <2> SUFFICES ASSUME NEW i \in DOMAIN chain'
               PROVE  /\ chain'[i].type = "configure" =>
                           chain'[i].id \in Configs /\ asker'[chain'[i].id] = chain'[i].generation
                      /\ chain'[i].type = "navigate" => chain'[i].id \in Navigations
                      /\ chain'[i].type \in {"open", "openResult"} => chain'[i].id \in Opens
    BY DEF ChainKinds
  <2>1. i + 1 \in DOMAIN chain /\ chain'[i] = chain[i + 1]
    BY <1>2
  <2> QED BY <1>1, <1>3, <2>1 DEF ChainKinds, AskerKept
<1> QED BY <1>2, <1>4 DEF ChainInv, ChainTypes, StepKinds

LEMMA ChainStep ==
  ASSUME RequestTypes, ChainInv, Next
  PROVE  ChainInv'
<1>1. /\ SessionTypes /\ ChainTypes /\ AskerKept /\ ChainKinds /\ StepKinds
      /\ asker \in [Asked -> 0..MaxGeneration] /\ generation \in 0..MaxGeneration
  BY AskerMoves, RequestConstants DEF RequestTypes, ChainInv, SessionTypes, HistoryTypes, Generations
<1>2. CASE UNCHANGED chainVars
  BY <1>1, <1>2, ChainStays DEF chainVars, ChainTypes
<1>3. CASE chain # <<>> /\ Pop
  BY <1>1, <1>3, ChainPops
<1>4. CASE ViewerConnects
  BY <1>1, <1>4, ChainAdds DEF ViewerConnects
<1>5. ASSUME NEW v \in Navigations, Navigate(v)
      PROVE  ChainInv'
  BY <1>1, <1>5, ChainAdds DEF Navigate, Asked
<1>6. ASSUME NEW q \in Configs, ConfigureQuality(q)
      PROVE  ChainInv'
  <2>1. asker'[q] = generation /\ Up("configure", q) /\ q \in Asked
    BY <1>1, <1>6 DEF ConfigureQuality, Asked
  <2> QED BY <1>1, <2>1, ChainAdds
<1>7. ASSUME NEW o \in Opens, PageOpens(o) \/ OpenExpires(o) \/ RespondToOpen(o)
      PROVE  ChainInv'
  BY <1>1, <1>2, <1>7, ChainAdds DEF PageOpens, OpenExpires, RespondToOpen
<1>8. CASE TakeoverStarts
  BY <1>1, <1>8, ChainAdds DEF TakeoverStarts
<1>9. CASE Chain
  <2>1. CASE NavigationServed
    BY <1>1, <2>1, ChainStays DEF NavigationServed, HeadIs, At, Await, ChainTypes
  <2>2. ASSUME NEW n \in Notices, NavigationConfirms(n)
        PROVE  ChainInv'
    BY <1>1, <2>2, ChainStays DEF NavigationConfirms, At, Await
  <2>3. CASE OpenServed
    BY <1>1, <1>3, <2>3, ChainStays DEF OpenServed, HeadIs, At, Await, ChainTypes
  <2>4. CASE \/ HeadRefused \/ HelloServed \/ NavigationEnds \/ ConfirmationEnds \/ ConfigureServed
             \/ (\E allowed \in BOOLEAN : OpenDecided(allowed)) \/ OpenAnswered \/ Drained
    BY <1>3, <2>4 DEF HeadRefused, HelloServed, NavigationEnds, ConfirmationEnds, ConfigureServed,
       OpenDecided, OpenAnswered, Drained, HeadIs, At
  <2> QED BY <1>9, <2>1, <2>2, <2>3, <2>4 DEF Chain
<1>10. CASE \/ \E n \in Notices : RequestNotice(n) \/ NoticeExpires(n) \/ NoticeAborted(n)
                                   \/ RespondToNotice(n)
            \/ \E r \in replies : ResponseArrives(r)
            \/ ViewerGoes \/ ConfigureTimeout
  BY <1>2, <1>10 DEF RequestNotice, NoticeExpires, NoticeAborted, RespondToNotice, ResponseArrives,
     ViewerGoes, ConfigureTimeout
<1>11. CASE \/ \E p \in Notices \cup Opens : PromptExpires(p)
            \/ down # <<>> /\ ViewerReceives(Head(down))
            \/ \E ok \in BOOLEAN : MediaAnswers(ok)
            \/ Revoke \/ ControlCloses \/ PeerLeft \/ ViewerReplaced \/ Close
  BY <1>2, <1>11 DEF PromptExpires, ViewerReceives, MediaAnswers, Revoke, ControlCloses, PeerLeft,
     ViewerReplaced, Close
<1> QED BY <1>4, <1>5, <1>6, <1>7, <1>8, <1>9, <1>10, <1>11 DEF Next

-----------------------------------------------------------------------------
(* What a step sends                                                            *)

\* A configuration that Core waits for is of the Viewer that asked, and few
\* have been asked.
RequestsAsked ==
    /\ \A q \in Configs : requests[q] # 0 => requests[q] = asker[q]
    /\ IsFiniteSet({q \in Configs : asker[q] # 0})

\* Without a Viewer nothing is under way to one, and one that has not been
\* greeted has no request.
Alone ==
    /\ ~linked => down = <<>> /\ viewer = NoViewer
    /\ Closed => ~linked
    /\ phase = "negotiating" => \A q \in Configs : requests[q] = 0

Without == {"acceptedWithout", "capabilities"}
Needing == {"notice", "configured"}

\* What Core sends is right at that moment.
Fit(m) ==
    /\ KindOf(m)
    /\ m.id \in Configs => asker[m.id] = generation
    /\ m.type = "configured" /\ m.id # None => m.id \in applied'
    /\ m.type \in Without => ~granted'
    /\ m.type \in Needing => granted /\ phase # "negotiating"
    /\ m.type = "notice" => /\ notices[m.id] = "new" /\ notices' = [notices EXCEPT ![m.id] = "pending"]
                            /\ Cardinality(Pending) < MaxPending
    /\ m.type = "openRequest" => /\ chain # <<>> /\ Head1.type = "open" /\ Head1.id = m.id
                                 /\ opens' = [opens EXCEPT ![m.id] = "pending"]

\* A notice is over at Core only if the Viewer hears of it, or has answered it.
Leaves(ms) ==
    \A n \in Pending :
        \/ n \in Pending' \/ ~linked
        \/ \E j \in DOMAIN ms : ms[j] = Message("cancel", n)
        \/ \E r \in replies : r.id = n /\ r.generation = generation

\* What the Viewer does beside receiving: it answers, gives up, or appears.
ViewerBeside ==
    /\ linked' = linked \/ (linked' /\ phase' = "negotiating")
    /\ viewer'.granted = viewer.granted
    /\ viewer'.shown \subseteq viewer.shown /\ viewer'.opens \subseteq viewer.opens
    /\ ~linked => viewer' = viewer
    /\ \A r \in replies' :
         r \in replies \/ (r.generation = generation /\ r.id \in viewer.shown \ viewer'.shown)

Sent(ms) ==
    /\ ms \in Seq(Downward) /\ Send(ms)
    /\ generation' = generation /\ (granted' => granted)
    /\ ViewerBeside
    /\ \A j \in DOMAIN ms : Fit(ms[j])
    /\ (\E j \in DOMAIN ms : ms[j].type \in {"notice", "configured", "openRequest"}) => Len(ms) = 1
    /\ Leaves(ms)
    /\ phase = "negotiating" /\ phase' # "negotiating" /\ granted =>
         \E j \in DOMAIN ms : ms[j].type = "accepted"

Cut ==
    /\ down' = <<>> /\ linked' = FALSE /\ viewer' = NoViewer
    /\ replies' \subseteq replies /\ generation' \in {generation, generation + 1}

Taken ==
    /\ down # <<>> /\ down' = Tail(down) /\ ~Unacceptable(Head(down))
    /\ viewer' = Received(Head(down))
    /\ UNCHANGED <<sessionVars, chainVars, coreVars, media, replies, linked, asker, applied>>

Moved == Cut \/ Taken \/ \E ms : Sent(ms)

RequestsInv == RequestTypes /\ ChainInv /\ RequestsAsked /\ Alone

LEMMA SentNothing ==
  ASSUME RequestsInv, UNCHANGED <<generation, down>>, granted' => granted, ViewerBeside,
         \/ Pending \subseteq Pending' \/ ~linked
         \/ \E r \in replies : r.generation = generation /\ Pending \ {r.id} \subseteq Pending',
         phase = "negotiating" => phase' = "negotiating"
  PROVE  Moved
<1>1. down \in Seq(Downward)
  BY DEF RequestsInv, RequestTypes, ViewerTypes
<1>2. <<>> \in Seq(Downward) /\ DOMAIN <<>> = {} /\ Send(<<>>)
  BY <1>1, ConcatEmptySeq, EmptySeq DEF Send
<1>3. Leaves(<<>>)
  BY DEF Leaves
<1> QED BY <1>2, <1>3 DEF Sent, Moved

LEMMA SentOne ==
  ASSUME RequestsInv, NEW m \in Downward, Send(<<m>>), UNCHANGED <<generation, viewerVars>>, granted' => granted,
         Fit(m), Pending \subseteq Pending',
         phase = "negotiating" /\ phase' # "negotiating" /\ granted => m.type = "accepted"
  PROVE  Moved
<1>1. <<m>> \in Seq(Downward) /\ Len(<<m>>) = 1 /\ DOMAIN <<m>> = 1..1 /\ <<m>>[1] = m
  BY OneMessage
<1>2. ViewerBeside
  BY DEF ViewerBeside, viewerVars
<1>3. Leaves(<<m>>)
  BY DEF Leaves
<1> DEFINE ms == <<m>>
<1> HIDE DEF ms
<1>4. Sent(ms)
  BY <1>1, <1>2, <1>3 DEF Sent, ms
<1> QED BY <1>4 DEF Moved

LEMMA SentCancels ==
  ASSUME RequestsInv, NEW ns \in SUBSET Notices, Send(Cancels(ns)), UNCHANGED <<generation, viewerVars>>,
         granted' => granted, Pending \ ns \subseteq Pending', phase' = phase
  PROVE  Moved
<1>1. /\ Cancels(ns) \in Seq(Downward)
      /\ \A j \in DOMAIN Cancels(ns) : Cancels(ns)[j].type = "cancel" /\ Cancels(ns)[j].id \in ns
      /\ \A n \in ns : \E j \in DOMAIN Cancels(ns) : Cancels(ns)[j] = Message("cancel", n)
  BY Cancelling
<1>2. ViewerBeside
  BY DEF ViewerBeside, viewerVars
<1>3. Leaves(Cancels(ns))
  BY <1>1 DEF Leaves
<1>4. \A j \in DOMAIN Cancels(ns) : Fit(Cancels(ns)[j])
  BY <1>1, RequestConstants DEF Fit, KindOf, Without, Needing
<1>5. \A j \in DOMAIN Cancels(ns) : Cancels(ns)[j].type \notin {"notice", "configured", "openRequest"}
  BY <1>1
<1> DEFINE ms == Cancels(ns)
<1> HIDE DEF ms
<1>6. Sent(ms)
  BY <1>1, <1>2, <1>3, <1>4, <1>5 DEF Sent, ms
<1> QED BY <1>6 DEF Moved

LEMMA PlainMessages ==
  /\ \A type \in {"accepted", "acceptedWithout", "capabilities", "error", "configured"} :
       Message(type, None) \in Downward
  /\ \A n \in Notices : Message("notice", n) \in Downward
  /\ \A o \in Opens : Message("openRequest", o) \in Downward
  /\ \A v \in Navigations : Message("navigationResult", v) \in Downward
  /\ \A q \in Configs : Message("configured", q) \in Downward /\ Message("configureFailed", q) \in Downward
  /\ \A type, id : Message(type, id).type = type /\ Message(type, id).id = id
  BY DEF Message, Downward, Asked

\* An error says nothing of any request.
LEMMA ErrorFits ==
  LET m == Message("error", None) IN m \in Downward /\ Fit(m) /\ m.type = "error"
  BY PlainMessages, RequestConstants DEF Fit, KindOf, Without, Needing

LEMMA AskMoves ==
  ASSUME RequestsInv, NEW n \in Notices, Ask(n), UNCHANGED <<sessionVars, viewerVars>>
  PROVE  Moved
<1> DEFINE m == Message("notice", n)
<1>1. m \in Downward /\ m.type = "notice" /\ m.id = n
  BY PlainMessages
<1>2. /\ notices[n] = "new" /\ notices' = [notices EXCEPT ![n] = "pending"] /\ Cardinality(Pending) < MaxPending
      /\ granted /\ phase = "active" /\ Send(<<m>>)
  BY DEF Ask, Askable, Active
<1> HIDE DEF m
<1>3. Fit(m)
  BY <1>1, <1>2, RequestConstants DEF Fit, KindOf, Without, Needing
<1>4. Pending \subseteq Pending'
  BY <1>2 DEF Pending, RequestsInv, RequestTypes, TableTypes
<1> QED BY <1>1, <1>2, <1>3, <1>4, SentOne DEF sessionVars

LEMMA NoticeMoves ==
  ASSUME RequestsInv,
         \/ \E n \in Notices : RequestNotice(n) \/ NoticeExpires(n) \/ NoticeAborted(n)
                                  \/ RespondToNotice(n)
         \/ \E r \in replies : ResponseArrives(r)
  PROVE  Moved
<1>1. ASSUME NEW n \in Notices, RequestNotice(n)
      PROVE  Moved
  BY <1>1, AskMoves DEF RequestNotice
<1>2. ASSUME NEW n \in Notices, NoticeExpires(n) \/ NoticeAborted(n)
      PROVE  Moved
  <2>1. Pending \ {n} \subseteq Pending'
    BY <1>2 DEF NoticeExpires, NoticeAborted, Finish, Pending
  <2> QED BY <1>2, <2>1, SentCancels DEF NoticeExpires, NoticeAborted, sessionVars
<1>3. ASSUME NEW n \in Notices, RespondToNotice(n)
      PROVE  Moved
  <2>1. viewer' = [viewer EXCEPT !.shown = @ \ {n}] /\ n \in viewer.shown /\ linked
    BY <1>3 DEF RespondToNotice
  <2>2. ViewerBeside
    <3>1. /\ viewer'.granted = viewer.granted /\ viewer'.opens = viewer.opens
          /\ viewer'.shown = viewer.shown \ {n}
      BY <2>1 DEF RequestsInv, RequestTypes, ViewerTypes
    <3> QED BY <1>3, <2>1, <3>1 DEF RespondToNotice, ViewerBeside
  <2>3. Pending' = Pending
    BY <1>3 DEF RespondToNotice, coreVars, Pending
  <2> QED BY <1>3, <2>2, <2>3, SentNothing DEF RespondToNotice, sessionVars
<1>4. ASSUME NEW r \in replies, ResponseArrives(r)
      PROVE  Moved
  <2>1. replies' = replies \ {r} /\ UNCHANGED <<sessionVars, linked, viewer>>
    BY <1>4 DEF ResponseArrives
  <2>2. ViewerBeside
    BY <2>1 DEF ViewerBeside, sessionVars
  <2>3. CASE MayServe(r) /\ Active
    <3>1. Pending \ {r.id} \subseteq Pending' /\ r.generation = generation
      BY <1>4, <2>3 DEF ResponseArrives, Finish, Pending, MayServe
    <3> QED BY <1>4, <2>1, <2>2, <2>3, <3>1, SentNothing DEF ResponseArrives, sessionVars
  <2>4. CASE ~(MayServe(r) /\ Active)
    <3>1. Pending' = Pending /\ Send(<<Message("error", None)>>)
      BY <1>4, <2>4 DEF ResponseArrives, Pending
    <3> DEFINE m == Message("error", None)
    <3>2. m \in Downward /\ Fit(m) /\ m.type = "error"
      BY ErrorFits
    <3>3. <<m>> \in Seq(Downward) /\ Len(<<m>>) = 1 /\ DOMAIN <<m>> = 1..1 /\ <<m>>[1] = m
      BY <3>2, OneMessage
    <3> DEFINE ms == <<m>>
    <3>4. Send(ms)
      BY <3>1
    <3>5. Leaves(ms)
      BY <3>1 DEF Leaves
    <3> HIDE DEF ms, m
    <3>6. Sent(ms)
      BY <2>1, <2>2, <3>2, <3>3, <3>4, <3>5 DEF Sent, ms, sessionVars
    <3> QED BY <3>6 DEF Moved
  <2> QED BY <2>3, <2>4
<1> QED BY <1>1, <1>2, <1>3, <1>4

LEMMA ViewerMoves ==
  ASSUME RequestsInv,
         \/ ViewerConnects \/ ViewerGoes
         \/ \E v \in Navigations : Navigate(v)
         \/ \E q \in Configs : ConfigureQuality(q)
         \/ ConfigureTimeout
         \/ \E o \in Opens : PageOpens(o) \/ OpenExpires(o) \/ RespondToOpen(o)
         \/ \E p \in Notices \cup Opens : PromptExpires(p)
  PROVE  Moved
<1>0. viewer \in [granted : {"unknown", "yes", "no"}, shown : SUBSET Notices,
                  opens : SUBSET Opens, config : Configs \cup {None}]
  BY DEF RequestsInv, RequestTypes, ViewerTypes
<1>1. CASE ViewerGoes
  BY <1>1 DEF ViewerGoes, Unlink, sessionVars, Cut, Moved
<1>2. CASE ViewerConnects
  <2>1. ViewerBeside /\ Pending' = Pending
    BY <1>2 DEF ViewerConnects, ViewerBeside, sessionVars, coreVars, Pending
  <2> QED BY <1>2, <2>1, SentNothing DEF ViewerConnects, sessionVars
<1>3. ASSUME UNCHANGED <<sessionVars, notices, replies, linked, down>>,
             ~linked => viewer' = viewer,
             viewer'.granted = viewer.granted, viewer'.shown \subseteq viewer.shown,
             viewer'.opens \subseteq viewer.opens
      PROVE  Moved
  <2>1. ViewerBeside /\ Pending' = Pending
    BY <1>3 DEF ViewerBeside, Pending
  <2> QED BY <1>3, <2>1, SentNothing DEF sessionVars
<1>4. ASSUME NEW v \in Navigations, Navigate(v)
      PROVE  Moved
  BY <1>3, <1>4 DEF Navigate, coreVars, viewerVars
<1>5. ASSUME NEW q \in Configs, ConfigureQuality(q)
      PROVE  Moved
  <2>1. viewer' = [viewer EXCEPT !.config = q] /\ linked
        /\ UNCHANGED <<sessionVars, notices, replies, linked, down>>
    BY <1>5 DEF ConfigureQuality, coreVars
  <2>2. viewer'.granted = viewer.granted /\ viewer'.shown = viewer.shown /\ viewer'.opens = viewer.opens
    BY <1>0, <2>1
  <2> QED BY <1>3, <2>1, <2>2
<1>6. CASE ConfigureTimeout
  <2>1. viewer' = [viewer EXCEPT !.config = None] /\ viewer.config # None
        /\ UNCHANGED <<sessionVars, notices, replies, linked, down>>
    BY <1>6 DEF ConfigureTimeout, coreVars
  <2>2. viewer'.granted = viewer.granted /\ viewer'.shown = viewer.shown /\ viewer'.opens = viewer.opens
    BY <1>0, <2>1
  <2>3. linked
    BY <2>1 DEF RequestsInv, Alone, NoViewer
  <2> QED BY <1>3, <2>1, <2>2, <2>3
<1>7. ASSUME NEW o \in Opens, PageOpens(o) \/ OpenExpires(o)
      PROVE  Moved
  BY <1>3, <1>7 DEF PageOpens, OpenExpires, viewerVars
<1>8. ASSUME NEW o \in Opens, RespondToOpen(o)
      PROVE  Moved
  <2>1. viewer' = [viewer EXCEPT !.opens = @ \ {o}] /\ linked
        /\ UNCHANGED <<sessionVars, notices, replies, linked, down>>
    BY <1>8 DEF RespondToOpen, coreVars
  <2>2. viewer'.granted = viewer.granted /\ viewer'.shown = viewer.shown /\ viewer'.opens \subseteq viewer.opens
    BY <1>0, <2>1
  <2> QED BY <1>3, <2>1, <2>2
<1>9. ASSUME NEW p \in Notices \cup Opens, PromptExpires(p)
      PROVE  Moved
  <2>1. viewer' = [viewer EXCEPT !.shown = @ \ {p}, !.opens = @ \ {p}]
        /\ p \in viewer.shown \cup viewer.opens
        /\ UNCHANGED <<sessionVars, notices, replies, linked, down>>
    BY <1>9 DEF PromptExpires, coreVars
  <2>2. viewer'.granted = viewer.granted /\ viewer'.shown \subseteq viewer.shown
        /\ viewer'.opens \subseteq viewer.opens
    BY <1>0, <2>1
  <2>3. linked
    BY <2>1 DEF RequestsInv, Alone, NoViewer
  <2> QED BY <1>3, <2>1, <2>2, <2>3
<1> QED BY <1>1, <1>2, <1>4, <1>5, <1>6, <1>7, <1>8, <1>9

LEMMA ReceivingMoves ==
  ASSUME RequestsInv, down # <<>>, ViewerReceives(Head(down))
  PROVE  Moved
<1>1. CASE Unacceptable(Head(down))
  BY <1>1 DEF ViewerReceives, Unlink, sessionVars, Cut, Moved
<1>2. CASE ~Unacceptable(Head(down))
  BY <1>2 DEF ViewerReceives, coreVars, Taken, Moved
<1> QED BY <1>1, <1>2

LEMMA ErrorMoves ==
  ASSUME RequestsInv, Send(<<Message("error", None)>>), UNCHANGED <<generation, viewerVars, notices, granted>>,
         phase' = phase
  PROVE  Moved
<1> DEFINE m == Message("error", None)
<1>1. m \in Downward /\ Fit(m) /\ m.type = "error"
  BY ErrorFits
<1>2. Send(<<m>>) /\ Pending' = Pending
  BY DEF Pending
<1> HIDE DEF m
<1> QED BY <1>1, <1>2, SentOne

LEMMA ChainMoves ==
  ASSUME RequestsInv, Chain
  PROVE  Moved
<1>0. ChainTypes /\ ChainKinds /\ StepKinds
  BY DEF RequestsInv, ChainInv
<1>1. CASE HeadRefused
  <2>0. /\ chain # <<>> /\ UNCHANGED <<sessionVars, coreVars, viewerVars>> /\ Pending' = Pending
        /\ Send(<<Message(IF Head1.type = "configure" /\ Head1.generation = generation
                          THEN "configureFailed" ELSE "error",
                          IF Head1.type = "configure" /\ Head1.generation = generation
                          THEN Head1.id ELSE None)>>)
    BY <1>1 DEF HeadRefused, At, coreVars, Pending
  <2>1. CASE Head1.type = "configure" /\ Head1.generation = generation
    <3>1. Head1.id \in Configs /\ asker[Head1.id] = generation
      BY <1>0, <2>0, <2>1, ChainHead DEF ChainKinds
    <3> DEFINE m == Message("configureFailed", Head1.id)
    <3>2. m \in Downward /\ m.type = "configureFailed" /\ m.id = Head1.id
      BY <3>1, PlainMessages
    <3>3. Send(<<m>>)
      BY <2>0, <2>1
    <3> HIDE DEF m
    <3>4. Fit(m)
      BY <3>1, <3>2 DEF Fit, KindOf, Without, Needing
    <3> QED BY <2>0, <3>2, <3>3, <3>4, SentOne DEF sessionVars
  <2>2. CASE ~(Head1.type = "configure" /\ Head1.generation = generation)
    BY <2>0, <2>2, ErrorMoves DEF sessionVars, coreVars
  <2> QED BY <2>1, <2>2
<1>2. CASE HelloServed
  <2>1. CASE Head1.generation = generation /\ phase = "negotiating"
    <3> DEFINE m == Message(IF granted THEN "accepted" ELSE "acceptedWithout", None)
    <3>1. /\ UNCHANGED <<generation, granted, viewerVars>> /\ Pending' = Pending /\ Send(<<m>>)
      BY <1>2, <2>1 DEF HelloServed, coreVars, Pending
    <3>2. m \in Downward /\ m.id = None /\ m.type = IF granted THEN "accepted" ELSE "acceptedWithout"
      BY PlainMessages
    <3> HIDE DEF m
    <3>3. Fit(m)
      BY <3>1, <3>2, RequestConstants DEF Fit, KindOf, Without, Needing
    <3> QED BY <3>1, <3>2, <3>3, SentOne
  <2>2. CASE ~(Head1.generation = generation /\ phase = "negotiating")
    BY <1>2, <2>2, ErrorMoves DEF HelloServed, coreVars
  <2> QED BY <2>1, <2>2
<1>3. CASE NavigationServed \/ OpenServed
  <2>1. ViewerBeside /\ Pending' = Pending
    BY <1>3 DEF NavigationServed, OpenServed, viewerVars, sessionVars, coreVars, Pending, ViewerBeside
  <2> QED BY <1>3, <2>1, SentNothing DEF NavigationServed, OpenServed, sessionVars
<1>4. CASE NavigationEnds \/ ConfirmationEnds
  <2>1. /\ chain # <<>> /\ UNCHANGED <<sessionVars, viewerVars>> /\ Pending' = Pending
        /\ Head1.type = "navigate" /\ Send(<<Message("navigationResult", Head1.id)>>)
    BY <1>0, <1>4 DEF NavigationEnds, ConfirmationEnds, At, coreVars, Pending, StepKinds
  <2>2. Head1.id \in Navigations
    BY <1>0, <2>1, ChainHead DEF ChainKinds
  <2> DEFINE m == Message("navigationResult", Head1.id)
  <2>3. m \in Downward /\ m.type = "navigationResult" /\ m.id = Head1.id
    BY <2>2, PlainMessages
  <2>4. Send(<<m>>)
    BY <2>1
  <2> HIDE DEF m
  <2>5. Fit(m)
    BY <2>2, <2>3, RequestConstants DEF Fit, KindOf, Without, Needing
  <2> QED BY <2>1, <2>3, <2>4, <2>5, SentOne DEF sessionVars
<1>5. ASSUME NEW n \in Notices, NavigationConfirms(n)
      PROVE  Moved
  BY <1>5, AskMoves DEF NavigationConfirms
<1>6. CASE ConfigureServed
  <2>1. chain # <<>> /\ UNCHANGED <<sessionVars, viewerVars>> /\ Pending' = Pending
        /\ Head1.type = "configure" /\ Head1.generation = generation
    BY <1>6 DEF ConfigureServed, HeadIs, At, MayServe, Pending
  <2>2. CASE Active
    <3>1. ViewerBeside /\ UNCHANGED down
      BY <1>6, <2>1, <2>2 DEF ConfigureServed, viewerVars, sessionVars, ViewerBeside
    <3> QED BY <2>1, <3>1, SentNothing DEF sessionVars
  <2>3. CASE ~Active
    <3>1. Head1.id \in Configs /\ asker[Head1.id] = generation
      BY <1>0, <2>1, ChainHead DEF ChainKinds
    <3> DEFINE m == Message("configureFailed", Head1.id)
    <3>2. m \in Downward /\ m.type = "configureFailed" /\ m.id = Head1.id
      BY <3>1, PlainMessages
    <3>3. Send(<<m>>)
      BY <1>6, <2>3 DEF ConfigureServed
    <3> HIDE DEF m
    <3>4. Fit(m)
      BY <3>1, <3>2 DEF Fit, KindOf, Without, Needing
    <3> QED BY <2>1, <3>2, <3>3, <3>4, SentOne DEF sessionVars
  <2> QED BY <2>2, <2>3
<1>7. ASSUME NEW allowed \in BOOLEAN, OpenDecided(allowed)
      PROVE  Moved
  <2>1. chain # <<>> /\ UNCHANGED <<sessionVars, viewerVars>> /\ Pending' = Pending
        /\ Head1.type = "open"
    BY <1>7 DEF OpenDecided, At, Pending
  <2>2. CASE allowed /\ phase = "active"
    <3>1. Head1.id \in Opens
      BY <1>0, <2>1, ChainHead DEF ChainKinds
    <3> DEFINE m == Message("openRequest", Head1.id)
    <3>2. m \in Downward /\ m.type = "openRequest" /\ m.id = Head1.id
      BY <3>1, PlainMessages
    <3>3. Send(<<m>>) /\ opens' = [opens EXCEPT ![Head1.id] = "pending"]
      BY <1>7, <2>2 DEF OpenDecided
    <3> HIDE DEF m
    <3>4. Fit(m)
      BY <2>1, <3>1, <3>2, <3>3, RequestConstants DEF Fit, KindOf, Without, Needing
    <3> QED BY <2>1, <3>2, <3>3, <3>4, SentOne DEF sessionVars
  <2>3. CASE ~(allowed /\ phase = "active")
    <3>1. ViewerBeside /\ UNCHANGED down
      BY <1>7, <2>1, <2>3 DEF OpenDecided, viewerVars, sessionVars, ViewerBeside
    <3> QED BY <2>1, <3>1, SentNothing DEF sessionVars
  <2> QED BY <2>2, <2>3
<1>8. CASE OpenAnswered
  <2>1. CASE opens[Head1.id] = "pending"
    <3>1. ViewerBeside /\ Pending' = Pending /\ UNCHANGED down
      BY <1>8, <2>1 DEF OpenAnswered, viewerVars, sessionVars, ViewerBeside, Pending
    <3> QED BY <1>8, <3>1, SentNothing DEF OpenAnswered, sessionVars
  <2>2. CASE opens[Head1.id] # "pending"
    BY <1>8, <2>2, ErrorMoves DEF OpenAnswered, sessionVars
  <2> QED BY <2>1, <2>2
<1>9. CASE Drained
  <2>1. ViewerBeside /\ Pending' = Pending
    BY <1>9 DEF Drained, viewerVars, coreVars, ViewerBeside, Pending
  <2> QED BY <1>9, <2>1, SentNothing DEF Drained
<1> QED BY <1>1, <1>2, <1>3, <1>4, <1>5, <1>6, <1>7, <1>8, <1>9 DEF Chain

\* The answers that Core gives instead of Extension when the capability is lost.
LEMMA RevokeSends ==
  ASSUME RequestsInv, Revoke
  PROVE  Moved
<1> DEFINE failed == {q \in Configs : requests[q] = generation}
           f == SetToSeq(failed)
           first == [i \in 1..Cardinality(failed) |-> Message("configureFailed", f[i])]
           last == Message("capabilities", None)
<1>1. requests \in [Configs -> 0..MaxGeneration] /\ generation # 0 /\ down \in Seq(Downward)
  BY RequestConstants DEF RequestsInv, RequestTypes, TableTypes, SessionTypes, ViewerTypes, Generations
<1>2. /\ Send(first \o Cancels(Pending) \o <<last>>) /\ ~granted' /\ granted /\ phase = "active"
      /\ UNCHANGED <<generation, phase, viewerVars>>
  BY DEF Revoke
<1>3. IsFiniteSet(failed) /\ \A q \in failed : asker[q] = generation
  <2>1. failed \subseteq {q \in Configs : asker[q] # 0} /\ \A q \in failed : asker[q] = generation
    BY <1>1 DEF RequestsInv, RequestsAsked
  <2> QED BY <2>1, FS_Subset DEF RequestsInv, RequestsAsked
<1>4. Cardinality(failed) \in Nat /\ f \in [1..Cardinality(failed) -> failed]
  BY <1>3, Counted DEF Surjection
<1>5. first \in Seq(Downward) /\ \A i \in DOMAIN first : first[i].type = "configureFailed" /\ first[i].id \in failed
  <2> HIDE DEF f
  <2>1. \A i \in 1..Cardinality(failed) : Message("configureFailed", f[i]) \in Downward
    BY <1>4, PlainMessages
  <2> HIDE DEF failed
  <2>2. first \in Seq(Downward)
    BY <1>4, <2>1, IsASeq
  <2>3. \A i \in DOMAIN first : first[i].type = "configureFailed" /\ first[i].id \in failed
    BY <1>4 DEF Message
  <2> QED BY <2>2, <2>3
<1> DEFINE second == Cancels(Pending)
<1>6. /\ second \in Seq(Downward)
      /\ \A j \in DOMAIN second : second[j].type = "cancel" /\ second[j].id \in Notices
      /\ \A n \in Pending : \E j \in DOMAIN second : second[j] = Message("cancel", n)
  <2>1. Pending \in SUBSET Notices
    BY DEF Pending
  <2> QED BY <2>1, Cancelling
<1>7. last \in Downward /\ last.type = "capabilities" /\ last.id = None
  BY PlainMessages
<1>8. /\ <<last>> \in Seq(Downward) /\ Len(<<last>>) = 1 /\ <<last>>[1] = last
  BY <1>7, OneMessage
<1> DEFINE third == <<last>>
           ms == first \o second \o third
<1>9. Send(ms)
  BY <1>2
<1>10. \A q \in failed : q \in Configs
  OBVIOUS
<1> HIDE DEF first, second, last, failed, f
<1>11. /\ first \o second \in Seq(Downward) /\ Len(first \o second) = Len(first) + Len(second)
       /\ \A i \in 1..Len(first) + Len(second) :
            (first \o second)[i] = IF i <= Len(first) THEN first[i] ELSE second[i - Len(first)]
  BY <1>5, <1>6, ConcatProperties
<1> DEFINE both == first \o second
<1>12. /\ ms \in Seq(Downward) /\ Len(ms) = Len(both) + 1
       /\ \A i \in 1..Len(both) + 1 : ms[i] = IF i <= Len(both) THEN both[i] ELSE last
  <2> HIDE DEF both, third
  <2>1. third \in Seq(Downward) /\ Len(third) = 1 /\ third[1] = last
    BY <1>8 DEF third
  <2>2. both \in Seq(Downward) /\ Len(both) \in Nat
    BY <1>11, LenProperties DEF both
  <2>3. ms = both \o third
    BY DEF both
  <2>4. /\ both \o third \in Seq(Downward) /\ Len(both \o third) = Len(both) + Len(third)
        /\ \A i \in 1..Len(both) + Len(third) :
             (both \o third)[i] = IF i <= Len(both) THEN both[i] ELSE third[i - Len(both)]
    BY <2>1, <2>2, ConcatProperties
  <2> HIDE DEF ms
  <2>5. \A i \in 1..Len(both) + 1 : ~(i <= Len(both)) => i - Len(both) = 1
    BY <2>2
  <2> QED BY <2>1, <2>2, <2>3, <2>4, <2>5
<1>13. /\ Len(first) \in Nat /\ Len(second) \in Nat /\ DOMAIN first = 1..Len(first)
       /\ DOMAIN second = 1..Len(second) /\ DOMAIN ms = 1..Len(ms)
  <2> HIDE DEF ms
  <2> QED BY <1>5, <1>6, <1>12, LenProperties
<1> HIDE DEF ms
<1>14. \A i \in DOMAIN ms : \/ \E j \in DOMAIN first : ms[i] = first[j]
                            \/ \E j \in DOMAIN second : ms[i] = second[j]
                            \/ ms[i] = last
  <2> SUFFICES ASSUME NEW i \in 1..Len(ms)
               PROVE  \/ \E j \in DOMAIN first : ms[i] = first[j]
                      \/ \E j \in DOMAIN second : ms[i] = second[j]
                      \/ ms[i] = last
    BY <1>13
  <2>1. CASE i <= Len(first)
    BY <1>11, <1>12, <1>13, <2>1
  <2>2. CASE i > Len(first) /\ i <= Len(first) + Len(second)
    <3>1. i - Len(first) \in DOMAIN second /\ ms[i] = second[i - Len(first)]
      BY <1>11, <1>12, <1>13, <2>2
    <3> QED BY <3>1
  <2>3. CASE i > Len(first) + Len(second)
    BY <1>11, <1>12, <1>13, <2>3
  <2> QED BY <1>13, <2>1, <2>2, <2>3
<1>15. \A i \in DOMAIN ms : Fit(ms[i]) /\ ms[i].type \notin {"notice", "configured", "openRequest"}
  <2> SUFFICES ASSUME NEW i \in DOMAIN ms
               PROVE  Fit(ms[i]) /\ ms[i].type \notin {"notice", "configured", "openRequest"}
    OBVIOUS
  <2>1. CASE \E j \in DOMAIN first : ms[i] = first[j]
    <3>1. ms[i].type = "configureFailed" /\ ms[i].id \in Configs /\ asker[ms[i].id] = generation
      BY <1>3, <1>5, <1>10, <2>1
    <3> QED BY <3>1 DEF Fit, KindOf, Without, Needing
  <2>2. CASE \E j \in DOMAIN second : ms[i] = second[j]
    <3>1. ms[i].type = "cancel" /\ ms[i].id \in Notices
      BY <1>6, <2>2
    <3> QED BY <3>1, RequestConstants DEF Fit, KindOf, Without, Needing
  <2>3. CASE ms[i] = last
    BY <1>2, <1>7, <2>3, RequestConstants DEF Fit, KindOf, Without, Needing
  <2> QED BY <1>14, <2>1, <2>2, <2>3
<1>16. Leaves(ms)
  <2>1. ASSUME NEW n \in Pending
        PROVE  \E i \in DOMAIN ms : ms[i] = Message("cancel", n)
    <3>1. PICK j \in DOMAIN second : second[j] = Message("cancel", n)
      BY <1>6, <2>1
    <3>2. Len(first) + j \in DOMAIN ms /\ ms[Len(first) + j] = second[j]
      BY <1>11, <1>12, <1>13
    <3> QED BY <3>1, <3>2
  <2> QED BY <2>1 DEF Leaves
<1>17. ViewerBeside
  BY <1>2 DEF viewerVars, ViewerBeside
<1>18. Sent(ms)
  BY <1>2, <1>9, <1>12, <1>15, <1>16, <1>17 DEF Sent
<1> QED BY <1>18 DEF Moved

LEMMA OtherMoves ==
  ASSUME RequestsInv,
         \/ \E ok \in BOOLEAN : MediaAnswers(ok)
         \/ ControlCloses \/ PeerLeft \/ TakeoverStarts \/ ViewerReplaced \/ Close
  PROVE  Moved
<1>1. ASSUME NEW ok \in BOOLEAN, MediaAnswers(ok)
      PROVE  Moved
  <2> DEFINE q == Head(media)
             m == Message(IF ok THEN "configured" ELSE "configureFailed", q)
             n == Message("configured", None)
  <2>1. q \in Configs \cup {None}
    BY <1>1, HeadTailProperties DEF MediaAnswers, RequestsInv, RequestTypes, TableTypes
  <2>2. UNCHANGED <<sessionVars, viewerVars>> /\ Pending' = Pending /\ generation # 0
    BY <1>1, RequestConstants
       DEF MediaAnswers, Pending, RequestsInv, RequestTypes, SessionTypes, Generations
  <2>3. CASE q # None /\ requests[q] = generation /\ granted
    <3>1. Send(<<m>>) /\ (ok => q \in applied') /\ q \in Configs
      BY <1>1, <2>1, <2>3 DEF MediaAnswers
    <3>2. asker[q] = generation /\ phase # "negotiating"
      BY <2>2, <2>3, <3>1 DEF RequestsInv, RequestsAsked, Alone
    <3>3. m \in Downward /\ m.id = q /\ m.type = IF ok THEN "configured" ELSE "configureFailed"
      BY <3>1, PlainMessages
    <3> HIDE DEF m, q
    <3>4. Fit(m)
      BY <2>3, <3>1, <3>2, <3>3 DEF Fit, KindOf, Without, Needing
    <3> QED BY <2>2, <3>1, <3>3, <3>4, SentOne DEF sessionVars
  <2>4. CASE ~(q # None /\ requests[q] = generation /\ granted)
    <3>1. CASE q = None /\ ok /\ granted /\ phase # "negotiating"
      <4>1. Send(<<n>>)
        BY <1>1, <2>4, <3>1 DEF MediaAnswers
      <4>2. n \in Downward /\ n.id = None /\ n.type = "configured"
        BY PlainMessages
      <4> HIDE DEF n
      <4>3. Fit(n)
        BY <3>1, <4>2, RequestConstants DEF Fit, KindOf, Without, Needing
      <4> QED BY <2>2, <4>1, <4>2, <4>3, SentOne DEF sessionVars
    <3>2. CASE ~(q = None /\ ok /\ granted /\ phase # "negotiating")
      <4>1. UNCHANGED down /\ ViewerBeside
        BY <1>1, <2>2, <2>4, <3>2 DEF MediaAnswers, sessionVars, viewerVars, ViewerBeside
      <4> QED BY <2>2, <4>1, SentNothing DEF sessionVars
    <3> QED BY <3>1, <3>2
  <2> QED BY <2>3, <2>4
<1>2. CASE ControlCloses \/ PeerLeft
  <2>1. ViewerBeside
    BY <1>2 DEF ControlCloses, PeerLeft, viewerVars, ViewerBeside
  <2> QED BY <1>2, <2>1, SentNothing DEF ControlCloses, PeerLeft
<1>3. CASE TakeoverStarts
  <2>1. Pending \in SUBSET Notices
    BY DEF Pending
  <2> QED BY <1>3, <2>1, SentCancels DEF TakeoverStarts
<1>4. CASE ViewerReplaced
  BY <1>4 DEF ViewerReplaced, Unlink, Cut, Moved
<1>5. CASE Close
  BY <1>5 DEF Close, Unlink, Cut, Moved
<1> QED BY <1>1, <1>2, <1>3, <1>4, <1>5

LEMMA AlwaysMoved ==
  ASSUME RequestsInv, Next
  PROVE  Moved
BY NoticeMoves, ViewerMoves, ReceivingMoves, ChainMoves, RevokeSends, OtherMoves DEF Next

-----------------------------------------------------------------------------
(* What waits in the chain of a takeover and of opened pages                    *)

\* A takeover is queued while its entry waits, and a page while its own does.
Queueing ==
    /\ takeover # "no" => generation < MaxGeneration
    /\ \A i \in DOMAIN chain : chain[i].type = "drain" => takeover = "queued"
    /\ \A i \in DOMAIN chain : chain[i].type = "open" => opens[chain[i].id] = "queued"
    /\ \A i, j \in DOMAIN chain :
         chain[i].type \in {"drain", "open"} /\ chain[j].type = chain[i].type /\ chain[j].id = chain[i].id => i = j
    /\ \A i \in DOMAIN chain : chain[i].type = "drain" => chain[i].id = None

OnlyEnds ==
    \A o \in Opens : opens'[o] = opens[o] \/ (opens[o] = "pending" /\ opens'[o] \in {"over", "answered"})

Waits ==
    /\ UNCHANGED chain /\ OnlyEnds
    /\ \/ UNCHANGED <<takeover, generation>>
       \/ takeover = "drained" /\ takeover' = "no"

Begins ==
    /\ chain # <<>> /\ chain' = Tail(chain) /\ generation' = generation
    /\ takeover' = IF Head1.type = "drain" THEN "drained" ELSE takeover
    /\ \/ OnlyEnds
       \/ /\ Head1.type = "open"
          /\ \/ opens' = [opens EXCEPT ![Head1.id] = "over"]
             \/ opens' = [opens EXCEPT ![Head1.id] = "pending"]

Enters(e) ==
    /\ e \in Upward /\ chain' = Append(chain, e) /\ generation' = generation
    /\ IF e.type = "drain" THEN takeover = "no" /\ takeover' = "queued" /\ e.id = None /\ generation < MaxGeneration
       ELSE takeover' = takeover
    /\ IF e.type = "open" THEN e.id \in Opens /\ opens[e.id] = "new" /\ opens' = [opens EXCEPT ![e.id] = "queued"]
       ELSE OnlyEnds

QueueMoved == Waits \/ Begins \/ \E e : Enters(e)

LEMMA QueueMoves ==
  ASSUME RequestTypes, ChainInv, Next
  PROVE  QueueMoved
<1>1. /\ SessionTypes /\ ChainTypes /\ ChainKinds /\ StepKinds
      /\ opens \in [Opens -> {"new", "queued", "pending", "answered", "over"}]
  BY DEF RequestTypes, TableTypes, ChainInv
<1>2. opens' = opens => OnlyEnds
  BY DEF OnlyEnds
<1>3. opens' = OpensCancelled => OnlyEnds
  BY DEF OpensCancelled, OnlyEnds
<1>4. ASSUME NEW type \in {"hello", "navigate", "configure", "openResult"},
             NEW id \in Opens \cup Asked \cup {None}, Up(type, id), UNCHANGED <<generation, takeover, opens>>
      PROVE  QueueMoved
  <2> DEFINE e == [type |-> type, id |-> id, generation |-> generation]
  <2>1. e \in Upward /\ chain' = Append(chain, e) /\ e.type = type
    BY <1>1, <1>4 DEF Up, SessionTypes, Upward
  <2> HIDE DEF e
  <2>2. Enters(e)
    BY <1>2, <1>4, <2>1 DEF Enters
  <2> QED BY <2>2 DEF QueueMoved
<1>5. CASE ViewerConnects
  BY <1>4, <1>5 DEF ViewerConnects, sessionVars, coreVars
<1>6. ASSUME NEW v \in Navigations, Navigate(v)
      PROVE  QueueMoved
  BY <1>4, <1>6 DEF Navigate, sessionVars, coreVars, Asked
<1>7. ASSUME NEW q \in Configs, ConfigureQuality(q)
      PROVE  QueueMoved
  BY <1>4, <1>7 DEF ConfigureQuality, sessionVars, coreVars, Asked
<1>8. ASSUME NEW o \in Opens, RespondToOpen(o)
      PROVE  QueueMoved
  BY <1>4, <1>8 DEF RespondToOpen, sessionVars, coreVars
<1>9. ASSUME NEW o \in Opens, PageOpens(o)
      PROVE  QueueMoved
  <2> DEFINE e == [type |-> "open", id |-> o, generation |-> generation]
  <2>1. e \in Upward /\ chain' = Append(chain, e) /\ e.type = "open" /\ e.id = o
    BY <1>1, <1>9 DEF PageOpens, Up, SessionTypes, Upward
  <2>2. UNCHANGED <<generation, takeover>> /\ opens[o] = "new" /\ opens' = [opens EXCEPT ![o] = "queued"]
    BY <1>9 DEF PageOpens, sessionVars
  <2> HIDE DEF e
  <2>3. Enters(e)
    BY <2>1, <2>2 DEF Enters
  <2> QED BY <2>3 DEF QueueMoved
<1>10. CASE TakeoverStarts
  <2> DEFINE e == [type |-> "drain", id |-> None, generation |-> generation]
  <2>1. e \in Upward /\ chain' = Append(chain, e) /\ e.type = "drain" /\ e.id = None
    BY <1>1, <1>10 DEF TakeoverStarts, Up, SessionTypes, Upward
  <2>2. generation' = generation /\ takeover = "no" /\ takeover' = "queued" /\ OnlyEnds /\ generation < MaxGeneration
    BY <1>3, <1>10 DEF TakeoverStarts
  <2> HIDE DEF e
  <2>3. Enters(e)
    BY <2>1, <2>2 DEF Enters
  <2> QED BY <2>3 DEF QueueMoved
<1>11. ASSUME NEW o \in Opens, OpenExpires(o)
       PROVE  QueueMoved
  <2>1. OnlyEnds
    BY <1>1, <1>11 DEF OpenExpires, OnlyEnds
  <2> QED BY <1>11, <2>1 DEF OpenExpires, sessionVars, chainVars, Waits, QueueMoved
<1>12. CASE \/ \E n \in Notices : RequestNotice(n) \/ NoticeExpires(n) \/ NoticeAborted(n)
                                    \/ RespondToNotice(n)
            \/ \E r \in replies : ResponseArrives(r)
            \/ ViewerGoes \/ ConfigureTimeout
            \/ \E p \in Notices \cup Opens : PromptExpires(p)
            \/ down # <<>> /\ ViewerReceives(Head(down))
            \/ \E ok \in BOOLEAN : MediaAnswers(ok)
  BY <1>2, <1>12 DEF RequestNotice, NoticeExpires, NoticeAborted, RespondToNotice, ResponseArrives, ViewerGoes,
     ConfigureTimeout, PromptExpires, ViewerReceives, MediaAnswers, sessionVars, chainVars, coreVars, Waits,
     QueueMoved
<1>13. CASE Revoke \/ ControlCloses \/ PeerLeft \/ ViewerReplaced \/ Close
  BY <1>2, <1>3, <1>13 DEF Revoke, ControlCloses, PeerLeft, ViewerReplaced, Close, chainVars, Waits, QueueMoved
<1>14. CASE NavigationServed \/ \E n \in Notices : NavigationConfirms(n)
  BY <1>2, <1>14 DEF NavigationServed, NavigationConfirms, Await, sessionVars, coreVars, Waits, QueueMoved
<1>15. CASE HeadRefused \/ HelloServed \/ NavigationEnds \/ ConfirmationEnds \/ ConfigureServed
  <2>1. /\ chain # <<>> /\ chain' = Tail(chain) /\ UNCHANGED <<generation, takeover, opens>>
        /\ Head1.type # "drain"
    BY <1>1, <1>15 DEF HeadRefused, HelloServed, NavigationEnds, ConfirmationEnds, ConfigureServed,
       HeadIs, At, Pop, sessionVars, coreVars, StepKinds
  <2> QED BY <1>2, <2>1 DEF Begins, QueueMoved
<1>16. CASE Drained
  <2>1. /\ chain # <<>> /\ chain' = Tail(chain) /\ UNCHANGED <<generation, opens>>
        /\ Head1.type = "drain" /\ takeover' = "drained"
    BY <1>16 DEF Drained, HeadIs, At, Pop, coreVars
  <2> QED BY <1>2, <2>1 DEF Begins, QueueMoved
<1>17. CASE OpenServed
  BY <1>2, <1>17 DEF OpenServed, HeadIs, At, Pop, Await, sessionVars, Waits, Begins, QueueMoved
<1>18. ASSUME NEW allowed \in BOOLEAN, OpenDecided(allowed)
       PROVE  QueueMoved
  BY <1>18 DEF OpenDecided, HeadIs, At, Pop, sessionVars, Begins, QueueMoved
<1>19. CASE OpenAnswered
  <2>1. /\ chain # <<>> /\ chain' = Tail(chain) /\ UNCHANGED <<generation, takeover>>
        /\ Head1.type = "openResult"
    BY <1>19 DEF OpenAnswered, HeadIs, At, Pop, sessionVars
  <2>2. OnlyEnds
    BY <1>1, <1>19 DEF OpenAnswered, OnlyEnds
  <2> QED BY <2>1, <2>2 DEF Begins, QueueMoved
<1> QED BY <1>5, <1>6, <1>7, <1>8, <1>9, <1>10, <1>11, <1>12, <1>13, <1>14, <1>15, <1>16, <1>17, <1>18, <1>19
        DEF Next, Chain

LEMMA QueueStep ==
  ASSUME RequestTypes, ChainInv, Queueing, Next
  PROVE  Queueing'
<1>1. /\ SessionTypes /\ ChainTypes /\ ChainKinds
      /\ opens \in [Opens -> {"new", "queued", "pending", "answered", "over"}]
  BY DEF RequestTypes, TableTypes, ChainInv
<1>2. QueueMoved
  BY QueueMoves
<1>3. CASE Waits
  <2>1. \A i \in DOMAIN chain : chain[i].type = "open" => opens'[chain[i].id] = "queued"
    BY <1>1, <1>3 DEF Waits, OnlyEnds, Queueing, ChainKinds
  <2> QED BY <1>3, <2>1 DEF Waits, Queueing
<1>4. CASE Begins
  <2>1. /\ Head1 = chain[1] /\ 1 \in DOMAIN chain
        /\ \A i \in DOMAIN chain' : i \in Nat /\ i + 1 \in DOMAIN chain /\ i + 1 # 1 /\ chain'[i] = chain[i + 1]
    <3>1. \A i \in DOMAIN Tail(chain) : i \in Nat \ {0}
      BY <1>1, <1>4, ChainHead, LenProperties
    <3> QED BY <1>1, <1>4, <3>1, ChainHead DEF Begins
  <2>2. \A i \in DOMAIN chain' : chain'[i].type = "drain" => takeover' = "queued"
    <3> SUFFICES ASSUME NEW i \in DOMAIN chain', chain'[i].type = "drain"
                 PROVE  takeover' = "queued"
      OBVIOUS
    <3>1. i + 1 \in DOMAIN chain /\ chain[i + 1].type = "drain" /\ i + 1 # 1 /\ chain[i + 1].id = None
      BY <2>1 DEF Queueing
    <3>2. chain[1].type # "drain"
      BY <2>1, <3>1 DEF Queueing
    <3> QED BY <1>4, <2>1, <3>1, <3>2 DEF Begins, Queueing
  <2>3. \A i \in DOMAIN chain' : chain'[i].type = "open" => opens'[chain'[i].id] = "queued"
    <3> SUFFICES ASSUME NEW i \in DOMAIN chain', chain'[i].type = "open"
                 PROVE  opens'[chain'[i].id] = "queued"
      OBVIOUS
    <3> DEFINE o == chain'[i].id
    <3>1. /\ i + 1 \in DOMAIN chain /\ chain[i + 1].type = "open" /\ i + 1 # 1 /\ chain[i + 1].id = o
          /\ o \in Opens /\ opens[o] = "queued"
      BY <1>1, <2>1 DEF Queueing, ChainKinds
    <3>2. ~(Head1.type = "open" /\ Head1.id = o)
      BY <2>1, <3>1 DEF Queueing
    <3> HIDE DEF o
    <3> QED BY <1>1, <1>4, <3>1, <3>2 DEF Begins, OnlyEnds, o
  <2>4. \A i, j \in DOMAIN chain' :
          chain'[i].type \in {"drain", "open"} /\ chain'[j].type = chain'[i].type /\ chain'[j].id = chain'[i].id => i = j
    BY <2>1 DEF Queueing
  <2>5. takeover' # "no" => generation' < MaxGeneration
    <3>1. Head1.type = "drain" => takeover = "queued"
      BY <2>1 DEF Queueing
    <3> QED BY <1>4, <3>1 DEF Begins, Queueing
  <2>6. \A i \in DOMAIN chain' : chain'[i].type = "drain" => chain'[i].id = None
    BY <2>1 DEF Queueing
  <2> QED BY <2>2, <2>3, <2>4, <2>5, <2>6 DEF Queueing
<1>5. ASSUME NEW e, Enters(e)
      PROVE  Queueing'
  <2>1. /\ Len(chain) \in Nat /\ DOMAIN chain = 1..Len(chain) /\ DOMAIN chain' = 1..(Len(chain) + 1)
        /\ \A i \in 1..Len(chain) : chain'[i] = chain[i]
        /\ chain'[Len(chain) + 1] = e
    BY <1>1, <1>5, AppendProperties, LenProperties DEF Enters, ChainTypes
  <2>2. \A i \in DOMAIN chain' : (i \in DOMAIN chain /\ chain'[i] = chain[i]) \/ (i = Len(chain) + 1 /\ chain'[i] = e)
    BY <2>1
  <2>3. \A o \in Opens : opens[o] = "queued" => opens'[o] = "queued"
    BY <1>1, <1>5 DEF Enters, OnlyEnds
  <2>4. \A i \in DOMAIN chain' : chain'[i].type = "drain" => takeover' = "queued" /\ chain'[i].id = None
    BY <1>5, <2>2 DEF Enters, Queueing
  <2>5. \A i \in DOMAIN chain' : chain'[i].type = "open" => opens'[chain'[i].id] = "queued"
    <3>1. e.type = "open" => opens'[e.id] = "queued"
      BY <1>1, <1>5 DEF Enters
    <3> QED BY <1>1, <2>2, <2>3, <3>1 DEF Queueing, ChainKinds
  <2>6. \A i \in DOMAIN chain : chain[i].type \in {"drain", "open"} => ~(chain[i].type = e.type /\ chain[i].id = e.id)
    BY <1>5 DEF Enters, Queueing
  <2>7. \A i, j \in DOMAIN chain' :
          chain'[i].type \in {"drain", "open"} /\ chain'[j].type = chain'[i].type /\ chain'[j].id = chain'[i].id => i = j
    BY <2>2, <2>6 DEF Queueing
  <2>8. takeover' # "no" => generation' < MaxGeneration
    BY <1>5 DEF Enters, Queueing
  <2> QED BY <2>4, <2>5, <2>7, <2>8 DEF Queueing
<1> QED BY <1>2, <1>3, <1>4, <1>5 DEF QueueMoved

-----------------------------------------------------------------------------
(* The state of the Session and the configurations that wait for Extension      *)

\* A configuration is entered for its Viewer, and otherwise only forgotten.
Entered ==
    \A q \in Configs :
        \/ requests'[q] = requests[q] \/ requests'[q] = 0
        \/ requests'[q] = generation /\ asker[q] = generation /\ phase' = "active"

SessionKept ==
    /\ SessionTypes' /\ Entered
    /\ requests' \in [Configs -> 0..MaxGeneration]
    /\ phase' = "negotiating" => phase = "negotiating" \/ \A q \in Configs : requests'[q] = 0
    /\ phase' = "closed" => phase = "closed" \/ ~linked'

LEMMA SessionStep ==
  ASSUME RequestsInv, Queueing, Next
  PROVE  SessionKept
<1>1. /\ SessionTypes /\ requests \in [Configs -> 0..MaxGeneration] /\ generation \in 0..MaxGeneration
      /\ ChainTypes /\ ChainKinds
  BY RequestConstants DEF RequestsInv, RequestTypes, TableTypes, SessionTypes, Generations, ChainInv
<1>2. CASE UNCHANGED <<generation, phase, takeover, control, granted>> /\ requests' = requests /\ linked' \in BOOLEAN
  BY <1>1, <1>2 DEF SessionKept, SessionTypes, Entered
<1>3. CASE \/ \E n \in Notices : RequestNotice(n) \/ NoticeExpires(n) \/ NoticeAborted(n)
                                   \/ RespondToNotice(n)
           \/ \E r \in replies : ResponseArrives(r)
           \/ ViewerConnects \/ ViewerGoes
           \/ \E v \in Navigations : Navigate(v)
           \/ \E q \in Configs : ConfigureQuality(q)
           \/ ConfigureTimeout
  BY <1>1, <1>2, <1>3 DEF SessionTypes, RequestNotice, NoticeExpires, NoticeAborted, RespondToNotice,
     ResponseArrives, ViewerConnects, ViewerGoes, Navigate, ConfigureQuality, ConfigureTimeout, Unlink,
     sessionVars, coreVars, viewerVars
<1>4. CASE \/ \E o \in Opens : PageOpens(o) \/ OpenExpires(o) \/ RespondToOpen(o)
           \/ \E p \in Notices \cup Opens : PromptExpires(p)
           \/ down # <<>> /\ ViewerReceives(Head(down))
  BY <1>1, <1>2, <1>4 DEF SessionTypes, PageOpens, OpenExpires, RespondToOpen, PromptExpires,
     ViewerReceives, Unlink, sessionVars, coreVars, viewerVars
<1>5. CASE \/ HeadRefused \/ NavigationServed \/ NavigationEnds
           \/ \E n \in Notices : NavigationConfirms(n)
           \/ ConfirmationEnds \/ OpenServed \/ \E allowed \in BOOLEAN : OpenDecided(allowed)
           \/ OpenAnswered
  BY <1>1, <1>2, <1>5 DEF SessionTypes, HeadRefused, NavigationServed, NavigationEnds, NavigationConfirms,
     ConfirmationEnds, OpenServed, OpenDecided, OpenAnswered, sessionVars, coreVars, viewerVars
<1>6. CASE HelloServed \/ Drained
  <2>1. /\ UNCHANGED <<generation, granted, requests, linked>>
        /\ phase' \in {phase, "active"}
        /\ control' = control \/ control' = TRUE
        /\ takeover' = takeover \/ (takeover' = "drained" /\ chain # <<>> /\ Head1.type = "drain")
    BY <1>6 DEF HelloServed, Drained, HeadIs, At, coreVars, viewerVars
  <2>2. {control', granted', linked'} \subseteq BOOLEAN
    BY <1>1, <2>1 DEF SessionTypes
  <2>3. SessionTypes'
    BY <1>1, <2>1, <2>2 DEF SessionTypes
  <2> QED BY <1>1, <2>1, <2>3 DEF SessionKept, Entered
<1>7. CASE ConfigureServed
  <2>1. /\ UNCHANGED <<generation, phase, takeover, control, granted, linked>> /\ chain # <<>>
        /\ Head1.type = "configure" /\ Head1.generation = generation
    BY <1>7 DEF ConfigureServed, HeadIs, At, MayServe, sessionVars, viewerVars
  <2>2. CASE Active
    <3>1. requests' = [requests EXCEPT ![Head1.id] = generation] /\ phase = "active"
      BY <1>7, <2>2 DEF ConfigureServed, Active
    <3>2. Head1.id \in Configs /\ asker[Head1.id] = generation
      BY <1>1, <2>1, ChainHead DEF ChainKinds
    <3>3. Entered
      BY <1>1, <2>1, <3>1, <3>2 DEF Entered
    <3>4. requests' \in [Configs -> 0..MaxGeneration]
      BY <1>1, <3>1
    <3> QED BY <1>1, <2>1, <3>1, <3>3, <3>4 DEF SessionKept, SessionTypes
  <2>3. CASE ~Active
    BY <1>1, <1>2, <1>7, <2>1, <2>3 DEF ConfigureServed, SessionTypes
  <2> QED BY <2>2, <2>3
<1>8. ASSUME NEW ok \in BOOLEAN, MediaAnswers(ok)
      PROVE  SessionKept
  <2>1. /\ UNCHANGED <<generation, phase, takeover, control, granted, linked>>
        /\ \/ requests' = requests
           \/ requests' = [requests EXCEPT ![Head(media)] = 0]
    BY <1>8 DEF MediaAnswers, sessionVars, viewerVars
  <2>2. requests' \in [Configs -> 0..MaxGeneration] /\ Entered
    <3>1. 0 \in 0..MaxGeneration
      BY RequestConstants
    <3> QED BY <1>1, <2>1, <3>1 DEF Entered
  <2> QED BY <1>1, <2>1, <2>2 DEF SessionKept, SessionTypes
<1>9. CASE Revoke \/ ControlCloses \/ PeerLeft \/ Close
  <2>1. /\ generation' = generation /\ takeover' = takeover /\ {control', granted', linked'} \subseteq BOOLEAN
        /\ phase' \in {phase, "away", "closed"} /\ (phase' = "closed" => phase = "closed" \/ ~linked')
        /\ requests' = requests \/ requests' = [q \in Configs |-> 0]
    BY <1>1, <1>9 DEF Revoke, ControlCloses, PeerLeft, Close, Unlink, viewerVars, SessionTypes
  <2>2. requests' \in [Configs -> 0..MaxGeneration] /\ Entered
    <3>1. 0 \in 0..MaxGeneration
      BY RequestConstants
    <3> QED BY <1>1, <2>1, <3>1 DEF Entered
  <2> QED BY <1>1, <2>1, <2>2 DEF SessionKept, SessionTypes
<1>10. CASE TakeoverStarts
  BY <1>1, <1>10 DEF TakeoverStarts, viewerVars, SessionKept, SessionTypes, Entered
<1>11. CASE ViewerReplaced
  <2>1. /\ generation' = generation + 1 /\ generation < MaxGeneration /\ phase' = "negotiating"
        /\ takeover' = "no" /\ UNCHANGED <<control, granted>> /\ linked' = FALSE
        /\ requests' = [q \in Configs |-> 0]
    BY <1>11 DEF ViewerReplaced, Unlink, Queueing
  <2>2. generation' \in Generations
    BY <1>1, <2>1, RequestConstants DEF Generations
  <2>3. requests' \in [Configs -> 0..MaxGeneration] /\ \A q \in Configs : requests'[q] = 0
    <3>1. 0 \in 0..MaxGeneration
      BY RequestConstants
    <3> QED BY <2>1, <3>1
  <2> QED BY <1>1, <2>1, <2>2, <2>3 DEF SessionKept, SessionTypes, Entered
<1> QED BY <1>3, <1>4, <1>5, <1>6, <1>7, <1>8, <1>9, <1>10, <1>11 DEF Next, Chain

-----------------------------------------------------------------------------
(* The rest of the types                                                        *)

\* What is under way is true of its caller and of Extension.
Truthful(m, who, now, done) ==
    /\ KindOf(m)
    /\ m.id \in Configs => who[m.id] = now
    /\ m.type = "configured" /\ m.id # None => m.id \in done

DownTrue == \A i \in DOMAIN down : Truthful(down[i], asker, generation, applied)

LEMMA TableStep ==
  ASSUME RequestTypes, ChainInv, requests' \in [Configs -> 0..MaxGeneration], Next
  PROVE  TableTypes'
<1> DEFINE Ends == {"new", "pending", "response"} \cup Cancellations
           OpenEnds == {"new", "queued", "pending", "answered", "over"}
<1>1. /\ notices \in [Notices -> Ends] /\ opens \in [Opens -> OpenEnds] /\ media \in Seq(Configs \cup {None})
      /\ ChainTypes /\ ChainKinds
  BY DEF RequestTypes, TableTypes, ChainInv
<1>2. opens' \in [Opens -> OpenEnds]
  <2>1. CASE UNCHANGED opens \/ opens' = OpensCancelled
    BY <1>1, <2>1 DEF OpensCancelled
  <2>2. ASSUME NEW o, NEW w \in OpenEnds, opens' = [opens EXCEPT ![o] = w]
        PROVE  opens' \in [Opens -> OpenEnds]
    BY <1>1, <2>2
  <2>3. CASE Chain
    BY <2>1, <2>2, <2>3 DEF Chain, HeadRefused, HelloServed, NavigationServed, NavigationEnds, NavigationConfirms,
       ConfirmationEnds, ConfigureServed, OpenServed, OpenDecided, OpenAnswered, Drained, coreVars
  <2>4. CASE \/ \E n \in Notices : RequestNotice(n) \/ NoticeExpires(n) \/ NoticeAborted(n)
                                     \/ RespondToNotice(n)
             \/ \E r \in replies : ResponseArrives(r)
             \/ ViewerConnects \/ ViewerGoes
             \/ \E v \in Navigations : Navigate(v)
             \/ \E q \in Configs : ConfigureQuality(q)
             \/ ConfigureTimeout
    BY <2>1, <2>4 DEF RequestNotice, NoticeExpires, NoticeAborted, RespondToNotice, ResponseArrives,
       ViewerConnects, ViewerGoes, Navigate, ConfigureQuality, ConfigureTimeout, coreVars
  <2>5. CASE \/ \E o \in Opens : PageOpens(o) \/ OpenExpires(o) \/ RespondToOpen(o)
             \/ \E p \in Notices \cup Opens : PromptExpires(p)
             \/ down # <<>> /\ ViewerReceives(Head(down))
    BY <2>1, <2>2, <2>5 DEF PageOpens, OpenExpires, RespondToOpen, PromptExpires, ViewerReceives, coreVars
  <2>6. CASE \/ \E ok \in BOOLEAN : MediaAnswers(ok)
             \/ Revoke \/ ControlCloses \/ PeerLeft \/ TakeoverStarts \/ ViewerReplaced \/ Close
    BY <2>1, <2>6 DEF MediaAnswers, Revoke, ControlCloses, PeerLeft, TakeoverStarts, ViewerReplaced, Close
  <2> QED BY <2>3, <2>4, <2>5, <2>6 DEF Next
<1>3. notices' \in [Notices -> Ends]
  <2>1. CASE UNCHANGED notices
    BY <1>1, <2>1
  <2>2. ASSUME NEW n \in Notices, Ask(n)
        PROVE  notices' \in [Notices -> Ends]
    BY <1>1, <2>2 DEF Ask
  <2>3. ASSUME NEW ns, NEW reason \in Ends, Finish(ns, reason)
        PROVE  notices' \in [Notices -> Ends]
    BY <1>1, <2>3 DEF Finish
  <2>4. CASE Chain
    BY <2>1, <2>2, <2>4 DEF Chain, HeadRefused, HelloServed, NavigationServed, NavigationEnds, NavigationConfirms,
       ConfirmationEnds, ConfigureServed, OpenServed, OpenDecided, OpenAnswered, Drained, coreVars
  <2>5. ASSUME NEW n \in Notices, RequestNotice(n) \/ NoticeExpires(n) \/ NoticeAborted(n) \/ RespondToNotice(n)
        PROVE  notices' \in [Notices -> Ends]
    BY <2>1, <2>2, <2>3, <2>5 DEF RequestNotice, NoticeExpires, NoticeAborted, RespondToNotice, Cancellations, coreVars
  <2>6. ASSUME NEW r \in replies, ResponseArrives(r)
        PROVE  notices' \in [Notices -> Ends]
    BY <2>1, <2>3, <2>6 DEF ResponseArrives
  <2>7. CASE \/ ViewerConnects \/ ViewerGoes
             \/ \E v \in Navigations : Navigate(v)
             \/ \E q \in Configs : ConfigureQuality(q)
             \/ ConfigureTimeout
             \/ \E o \in Opens : PageOpens(o) \/ OpenExpires(o) \/ RespondToOpen(o)
             \/ \E p \in Notices \cup Opens : PromptExpires(p)
             \/ down # <<>> /\ ViewerReceives(Head(down))
             \/ \E ok \in BOOLEAN : MediaAnswers(ok)
             \/ ViewerReplaced
    BY <2>1, <2>7 DEF ViewerConnects, ViewerGoes, Navigate, ConfigureQuality, ConfigureTimeout, PageOpens,
       OpenExpires, RespondToOpen, PromptExpires, ViewerReceives, MediaAnswers, ViewerReplaced, coreVars
  <2>8. CASE Revoke \/ ControlCloses \/ PeerLeft \/ TakeoverStarts \/ Close
    BY <2>3, <2>8 DEF Revoke, ControlCloses, PeerLeft, TakeoverStarts, Close, Cancellations
  <2> QED BY <2>4, <2>5, <2>6, <2>7, <2>8 DEF Next
<1>4. media' \in Seq(Configs \cup {None})
  <2>1. CASE UNCHANGED media
    BY <1>1, <2>1
  <2>2. ASSUME NEW q \in Configs \cup {None}, media' = Append(media, q)
        PROVE  media' \in Seq(Configs \cup {None})
    BY <1>1, <2>2, AppendProperties
  <2>3. CASE media # <<>> /\ media' = Tail(media)
    BY <1>1, <2>3, HeadTailProperties
  <2>4. CASE HelloServed
    BY <2>1, <2>2, <2>4 DEF HelloServed
  <2>5. CASE ConfigureServed
    <3>1. Head1.id \in Configs
      BY <1>1, <2>5, ChainHead DEF ConfigureServed, HeadIs, At, ChainKinds
    <3> QED BY <2>1, <2>2, <2>5, <3>1 DEF ConfigureServed
  <2>6. CASE \/ HeadRefused \/ NavigationServed \/ NavigationEnds
             \/ \E n \in Notices : NavigationConfirms(n)
             \/ ConfirmationEnds \/ OpenServed \/ \E allowed \in BOOLEAN : OpenDecided(allowed)
             \/ OpenAnswered \/ Drained
    BY <2>1, <2>6 DEF HeadRefused, NavigationServed, NavigationEnds, NavigationConfirms,
       ConfirmationEnds, OpenServed, OpenDecided, OpenAnswered, Drained
  <2>7. CASE \/ \E n \in Notices : RequestNotice(n) \/ NoticeExpires(n) \/ NoticeAborted(n)
                                     \/ RespondToNotice(n)
             \/ \E r \in replies : ResponseArrives(r)
             \/ ViewerConnects \/ ViewerGoes
             \/ \E v \in Navigations : Navigate(v)
             \/ \E q \in Configs : ConfigureQuality(q)
             \/ ConfigureTimeout
    BY <2>1, <2>7 DEF RequestNotice, NoticeExpires, NoticeAborted, RespondToNotice, ResponseArrives,
       ViewerConnects, ViewerGoes, Navigate, ConfigureQuality, ConfigureTimeout
  <2>8. CASE \/ \E o \in Opens : PageOpens(o) \/ OpenExpires(o) \/ RespondToOpen(o)
             \/ \E p \in Notices \cup Opens : PromptExpires(p)
             \/ down # <<>> /\ ViewerReceives(Head(down))
             \/ Revoke \/ ControlCloses \/ PeerLeft \/ TakeoverStarts \/ ViewerReplaced \/ Close
    BY <2>1, <2>8 DEF PageOpens, OpenExpires, RespondToOpen, PromptExpires, ViewerReceives, Revoke,
       ControlCloses, PeerLeft, TakeoverStarts, ViewerReplaced, Close
  <2>9. ASSUME NEW ok \in BOOLEAN, MediaAnswers(ok)
        PROVE  media' \in Seq(Configs \cup {None})
    BY <2>3, <2>9 DEF MediaAnswers
  <2> QED BY <2>4, <2>5, <2>6, <2>7, <2>8, <2>9 DEF Next, Chain
<1> QED BY <1>2, <1>3, <1>4 DEF TableTypes

LEMMA Receiving ==
  ASSUME ViewerTypes, NEW m, KindOf(m)
  PROVE  Received(m) \in [granted : {"unknown", "yes", "no"}, shown : SUBSET Notices,
                          opens : SUBSET Opens, config : Configs \cup {None}]
<1> DEFINE Viewers == [granted : {"unknown", "yes", "no"}, shown : SUBSET Notices,
                       opens : SUBSET Opens, config : Configs \cup {None}]
<1>1. viewer \in Viewers
  BY DEF ViewerTypes
<1>2. \A g \in {"yes", "no"} : [viewer EXCEPT !.granted = g] \in Viewers
  BY <1>1
<1>3. [viewer EXCEPT !.config = None] \in Viewers /\ [viewer EXCEPT !.granted = "no", !.config = None] \in Viewers
  BY <1>1
<1>4. m.type = "notice" => [viewer EXCEPT !.shown = @ \cup {m.id}] \in Viewers
  BY <1>1 DEF KindOf
<1>5. [viewer EXCEPT !.shown = @ \ {m.id}] \in Viewers
  BY <1>1
<1>6. m.type = "openRequest" => [viewer EXCEPT !.opens = @ \cup {m.id}] \in Viewers
  BY <1>1 DEF KindOf
<1> HIDE DEF Viewers
<1> QED BY <1>1, <1>2, <1>3, <1>4, <1>5, <1>6 DEF Received, Viewers

LEMMA ViewerStep ==
  ASSUME RequestsInv, DownTrue, Moved, Next
  PROVE  ViewerTypes'
<1> DEFINE Viewers == [granted : {"unknown", "yes", "no"}, shown : SUBSET Notices,
                       opens : SUBSET Opens, config : Configs \cup {None}]
           Replies == [id : Notices, generation : Generations]
<1>1. /\ viewer \in Viewers /\ replies \in SUBSET Replies /\ down \in Seq(Downward) /\ generation \in Generations
      /\ ViewerTypes
  BY DEF RequestsInv, RequestTypes, ViewerTypes, SessionTypes
<1>2. down' \in Seq(Downward)
  <2>1. CASE Cut
    BY <2>1, EmptySeq DEF Cut
  <2>2. CASE Taken
    BY <1>1, <2>2, DownHead DEF Taken
  <2>3. ASSUME NEW ms, Sent(ms)
        PROVE  down' \in Seq(Downward)
    BY <1>1, <2>3, Sending DEF Sent
  <2> QED BY <2>1, <2>2, <2>3 DEF Moved
<1>3. viewer' \in Viewers /\ replies' \in SUBSET Replies
  <2>1. CASE UNCHANGED <<viewer, replies>>
    BY <1>1, <2>1
  <2>2. CASE viewer' = NoViewer /\ replies' = replies
    BY <1>1, <2>2 DEF NoViewer
  <2>3. ASSUME NEW n \in Notices, RespondToNotice(n)
        PROVE  viewer' \in Viewers /\ replies' \in SUBSET Replies
    <3>1. viewer' = [viewer EXCEPT !.shown = @ \ {n}] /\ replies' = replies \cup {[id |-> n, generation |-> generation]}
      BY <2>3 DEF RespondToNotice
    <3> QED BY <1>1, <3>1
  <2>4. ASSUME NEW r \in replies, ResponseArrives(r)
        PROVE  viewer' \in Viewers /\ replies' \in SUBSET Replies
    BY <1>1, <2>4 DEF ResponseArrives
  <2>5. ASSUME NEW q \in Configs, ConfigureQuality(q)
        PROVE  viewer' \in Viewers /\ replies' \in SUBSET Replies
    <3>1. viewer' = [viewer EXCEPT !.config = q] /\ replies' = replies
      BY <2>5 DEF ConfigureQuality
    <3> QED BY <1>1, <3>1
  <2>6. CASE ConfigureTimeout
    <3>1. viewer' = [viewer EXCEPT !.config = None] /\ replies' = replies
      BY <2>6 DEF ConfigureTimeout
    <3> QED BY <1>1, <3>1
  <2>7. ASSUME NEW o \in Opens, RespondToOpen(o)
        PROVE  viewer' \in Viewers /\ replies' \in SUBSET Replies
    <3>1. viewer' = [viewer EXCEPT !.opens = @ \ {o}] /\ replies' = replies
      BY <2>7 DEF RespondToOpen
    <3> QED BY <1>1, <3>1
  <2>8. ASSUME NEW p, PromptExpires(p)
        PROVE  viewer' \in Viewers /\ replies' \in SUBSET Replies
    <3>1. viewer' = [viewer EXCEPT !.shown = @ \ {p}, !.opens = @ \ {p}] /\ replies' = replies
      BY <2>8 DEF PromptExpires
    <3> QED BY <1>1, <3>1
  <2>9. CASE down # <<>> /\ ViewerReceives(Head(down))
    <3>1. KindOf(Head(down))
      BY <1>1, <2>9, DownHead DEF DownTrue, Truthful
    <3>2. Received(Head(down)) \in Viewers
      BY <1>1, <3>1, Receiving
    <3> QED BY <1>1, <2>2, <2>9, <3>2 DEF ViewerReceives, Unlink
  <2>10. CASE Chain
    BY <2>1, <2>10 DEF Chain, HeadRefused, HelloServed, NavigationServed, NavigationEnds, NavigationConfirms,
       ConfirmationEnds, ConfigureServed, OpenServed, OpenDecided, OpenAnswered, Drained, viewerVars
  <2>11. CASE \/ \E n \in Notices : RequestNotice(n) \/ NoticeExpires(n) \/ NoticeAborted(n)
              \/ ViewerConnects \/ ViewerGoes
              \/ \E v \in Navigations : Navigate(v)
              \/ \E o \in Opens : PageOpens(o) \/ OpenExpires(o)
    BY <2>1, <2>2, <2>11 DEF RequestNotice, NoticeExpires, NoticeAborted, ViewerConnects, ViewerGoes, Unlink,
       Navigate, PageOpens, OpenExpires, viewerVars
  <2>12. CASE \/ \E ok \in BOOLEAN : MediaAnswers(ok)
              \/ Revoke \/ ControlCloses \/ PeerLeft \/ TakeoverStarts \/ ViewerReplaced \/ Close
    BY <2>1, <2>2, <2>12 DEF MediaAnswers, Revoke, ControlCloses, PeerLeft, TakeoverStarts, ViewerReplaced, Close,
       Unlink, viewerVars
  <2> QED BY <2>3, <2>4, <2>5, <2>6, <2>7, <2>8, <2>9, <2>10, <2>11, <2>12 DEF Next
<1> QED BY <1>2, <1>3 DEF ViewerTypes

\* Applied configurations stay so, and a success is of one of them.
Honest ==
    /\ applied \subseteq applied' /\ applied' \in SUBSET Configs
    /\ outcome' \in [Configs -> {"none", "asked", "resolved", "rejected"}]
    /\ \A q \in Configs : outcome'[q] = "resolved" => outcome[q] = "resolved" \/ q \in applied

LEMMA HistoryStep ==
  ASSUME RequestsInv, DownTrue, Next
  PROVE  Honest
<1> DEFINE Outcomes == {"none", "asked", "resolved", "rejected"}
<1>1. /\ applied \in SUBSET Configs /\ outcome \in [Configs -> Outcomes] /\ media \in Seq(Configs \cup {None})
      /\ viewer.config \in Configs \cup {None} /\ ViewerTypes
  BY DEF RequestsInv, RequestTypes, HistoryTypes, TableTypes, ViewerTypes
<1>2. CASE UNCHANGED <<applied, outcome>>
  BY <1>1, <1>2 DEF Honest
<1>3. CASE applied' = applied /\ Told(viewer.config, "rejected")
  BY <1>1, <1>3 DEF Told, Honest
<1>4. ASSUME NEW ok \in BOOLEAN, MediaAnswers(ok)
      PROVE  Honest
  <2>1. Head(media) \in Configs \cup {None} /\ outcome' = outcome
    BY <1>1, <1>4, HeadTailProperties DEF MediaAnswers
  <2>2. applied' \in {applied, applied \cup {Head(media)}} /\ (applied' # applied => Head(media) # None)
    BY <1>4 DEF MediaAnswers
  <2> QED BY <1>1, <2>1, <2>2 DEF Honest
<1>5. ASSUME NEW q \in Configs, ConfigureQuality(q)
      PROVE  Honest
  <2>1. /\ applied' = applied
        /\ outcome' = [c \in Configs |-> IF c = q THEN "asked" ELSE IF c = viewer.config THEN "rejected" ELSE outcome[c]]
    BY <1>5 DEF ConfigureQuality
  <2> QED BY <1>1, <2>1 DEF Honest
<1>6. CASE down # <<>> /\ ViewerReceives(Head(down))
  <2> DEFINE m == Head(down)
  <2>0. Truthful(m, asker, generation, applied)
    BY <1>1, <1>6, DownHead DEF DownTrue
  <2> HIDE DEF m
  <2>1. applied' = applied
    BY <1>6 DEF ViewerReceives
  <2>2. CASE Unacceptable(m)
    BY <1>3, <1>6, <2>1, <2>2 DEF ViewerReceives, Unlink, m
  <2>3. CASE ~Unacceptable(m) /\ viewer.config # None /\ Received(m).config = None
    <3>1. outcome' = [outcome EXCEPT ![viewer.config] = IF m.type = "configured" THEN "resolved" ELSE "rejected"]
      BY <1>6, <2>3 DEF ViewerReceives, Told, m
    <3>2. CASE m.type = "configured"
      <4>1. Received(m) = IF Resolves(m) THEN [viewer EXCEPT !.config = None] ELSE viewer
        BY <3>2 DEF Received
      <4>2. Resolves(m)
        BY <2>3, <4>1
      <4>3. viewer.config \in applied
        BY <2>0, <3>2, <4>2 DEF Resolves, Truthful
      <4> QED BY <1>1, <2>1, <3>1, <4>3 DEF Honest
    <3>3. CASE m.type # "configured"
      BY <1>1, <2>1, <3>1, <3>3 DEF Honest
    <3> QED BY <3>2, <3>3
  <2>4. CASE ~Unacceptable(m) /\ ~(viewer.config # None /\ Received(m).config = None)
    BY <1>2, <1>6, <2>1, <2>4 DEF ViewerReceives, m
  <2> QED BY <2>2, <2>3, <2>4
<1>7. CASE Chain
  BY <1>2, <1>7 DEF Chain, HeadRefused, HelloServed, NavigationServed, NavigationEnds, NavigationConfirms,
     ConfirmationEnds, ConfigureServed, OpenServed, OpenDecided, OpenAnswered, Drained, historyVars
<1>8. CASE \/ \E n \in Notices : RequestNotice(n) \/ NoticeExpires(n) \/ NoticeAborted(n)
                                   \/ RespondToNotice(n)
           \/ \E r \in replies : ResponseArrives(r)
           \/ ViewerConnects \/ ViewerGoes
           \/ \E v \in Navigations : Navigate(v)
           \/ ConfigureTimeout
  BY <1>2, <1>3, <1>8 DEF RequestNotice, NoticeExpires, NoticeAborted, RespondToNotice, ResponseArrives,
     ViewerConnects, ViewerGoes, Unlink, Navigate, ConfigureTimeout, historyVars
<1>9. CASE \/ \E o \in Opens : PageOpens(o) \/ OpenExpires(o) \/ RespondToOpen(o)
           \/ \E p \in Notices \cup Opens : PromptExpires(p)
           \/ Revoke \/ ControlCloses \/ PeerLeft \/ TakeoverStarts \/ ViewerReplaced \/ Close
  BY <1>2, <1>3, <1>9 DEF PageOpens, OpenExpires, RespondToOpen, PromptExpires, Revoke, ControlCloses, PeerLeft,
     TakeoverStarts, ViewerReplaced, Close, Unlink, historyVars
<1> QED BY <1>4, <1>5, <1>6, <1>7, <1>8, <1>9 DEF Next

LEMMA AskedStep ==
  ASSUME RequestsInv, SessionKept, Next
  PROVE  RequestsAsked'
<1> DEFINE Had == {q \in Configs : asker[q] # 0}
<1>1. /\ asker \in [Asked -> 0..MaxGeneration] /\ generation \in Generations /\ IsFiniteSet(Had)
      /\ AskerKept /\ Configs \subseteq Asked
  BY AskerMoves DEF RequestsInv, RequestTypes, HistoryTypes, SessionTypes, RequestsAsked, Asked
<1>2. \A q \in Configs : requests'[q] # 0 => requests'[q] = asker'[q]
  <2> SUFFICES ASSUME NEW q \in Configs, requests'[q] # 0
               PROVE  requests'[q] = asker'[q]
    OBVIOUS
  <2>1. generation # 0
    BY <1>1, RequestConstants DEF Generations
  <2>2. asker[q] # 0 /\ requests'[q] = asker[q]
    BY <2>1 DEF SessionKept, Entered, RequestsInv, RequestsAsked
  <2> QED BY <1>1, <2>2 DEF AskerKept
<1>3. IsFiniteSet({q \in Configs : asker'[q] # 0})
  <2>1. \E a : \A b \in Asked : b # a => asker'[b] = asker[b]
    <3>1. ASSUME NEW v \in Navigations, Navigate(v)
          PROVE  \E a : \A b \in Asked : b # a => asker'[b] = asker[b]
      BY <1>1, <3>1 DEF Navigate
    <3>2. ASSUME NEW q \in Configs, ConfigureQuality(q)
          PROVE  \E a : \A b \in Asked : b # a => asker'[b] = asker[b]
      BY <1>1, <3>2 DEF ConfigureQuality
    <3>3. CASE asker' = asker
      BY <3>3
    <3>4. CASE Chain
      BY <3>3, <3>4 DEF Chain, HeadRefused, HelloServed, NavigationServed, NavigationEnds, NavigationConfirms,
         ConfirmationEnds, ConfigureServed, OpenServed, OpenDecided, OpenAnswered, Drained, historyVars
    <3>5. CASE \/ \E n \in Notices : RequestNotice(n) \/ NoticeExpires(n) \/ NoticeAborted(n)
                                       \/ RespondToNotice(n)
               \/ \E r \in replies : ResponseArrives(r)
               \/ ViewerConnects \/ ViewerGoes \/ ConfigureTimeout
      BY <3>3, <3>5 DEF RequestNotice, NoticeExpires, NoticeAborted, RespondToNotice, ResponseArrives,
         ViewerConnects, ViewerGoes, ConfigureTimeout, historyVars
    <3>6. CASE \/ \E o \in Opens : PageOpens(o) \/ OpenExpires(o) \/ RespondToOpen(o)
               \/ \E p \in Notices \cup Opens : PromptExpires(p)
               \/ down # <<>> /\ ViewerReceives(Head(down))
      BY <3>3, <3>6 DEF PageOpens, OpenExpires, RespondToOpen, PromptExpires, ViewerReceives, historyVars
    <3>7. CASE \/ \E ok \in BOOLEAN : MediaAnswers(ok)
               \/ Revoke \/ ControlCloses \/ PeerLeft \/ TakeoverStarts \/ ViewerReplaced \/ Close
      BY <3>3, <3>7 DEF MediaAnswers, Revoke, ControlCloses, PeerLeft, TakeoverStarts, ViewerReplaced, Close,
         historyVars
    <3> QED BY <3>1, <3>2, <3>4, <3>5, <3>6, <3>7 DEF Next
  <2>2. PICK a : \A b \in Asked : b # a => asker'[b] = asker[b]
    BY <2>1
  <2>3. IsFiniteSet(Had \cup {a})
    BY <1>1, FS_AddElement
  <2>4. {q \in Configs : asker'[q] # 0} \subseteq Had \cup {a}
    BY <1>1, <2>2
  <2> QED BY <2>3, <2>4, FS_Subset
<1> QED BY <1>2, <1>3 DEF RequestsAsked

LEMMA AloneStep ==
  ASSUME RequestsInv, SessionKept, Moved
  PROVE  Alone'
<1>1. ~linked' => down' = <<>> /\ viewer' = NoViewer
  <2>1. CASE Cut
    BY <2>1 DEF Cut
  <2>2. CASE Taken
    BY <2>2 DEF Taken, RequestsInv, Alone
  <2>3. ASSUME NEW ms, Sent(ms), ~linked'
        PROVE  down' = <<>> /\ viewer' = NoViewer
    BY <2>3 DEF Sent, Send, ViewerBeside, RequestsInv, Alone
  <2> QED BY <2>1, <2>2, <2>3 DEF Moved
<1>2. phase' = "closed" => ~linked'
  <2> SUFFICES ASSUME phase' = "closed", phase = "closed"
               PROVE  ~linked'
    BY DEF SessionKept
  <2>1. ~linked
    BY DEF RequestsInv, Alone, Closed
  <2> QED BY <2>1 DEF Moved, Cut, Taken, Sent, ViewerBeside
<1>3. phase' = "negotiating" => \A q \in Configs : requests'[q] = 0
  <2> SUFFICES ASSUME phase' = "negotiating", phase = "negotiating", NEW q \in Configs
               PROVE  requests'[q] = 0
    BY DEF SessionKept
  <2>1. requests[q] = 0
    BY DEF RequestsInv, Alone
  <2> QED BY <2>1 DEF SessionKept, Entered
<1> QED BY <1>1, <1>2, <1>3 DEF Alone, Closed

\* What is under way after a step was under way before it, or is sent by it.
LEMMA SentParts ==
  ASSUME RequestsInv, NEW ms, Sent(ms)
  PROVE  /\ Len(down) \in Nat /\ Len(ms) \in Nat /\ Len(down') \in Nat
         /\ DOMAIN down = 1..Len(down) /\ DOMAIN ms = 1..Len(ms) /\ DOMAIN down' = 1..Len(down')
         /\ ~linked => down' = down
         /\ linked => Len(down') = Len(down) + Len(ms)
         /\ \A i \in DOMAIN down : i \in DOMAIN down' /\ down'[i] = down[i]
         /\ linked => \A j \in DOMAIN ms : Len(down) + j \in DOMAIN down' /\ down'[Len(down) + j] = ms[j]
         /\ \A i \in DOMAIN down' :
              \/ i \in DOMAIN down /\ down'[i] = down[i]
              \/ linked /\ i > Len(down) /\ i - Len(down) \in DOMAIN ms /\ down'[i] = ms[i - Len(down)]
<1>1. down \in Seq(Downward) /\ ms \in Seq(Downward) /\ Send(ms)
  BY DEF RequestsInv, RequestTypes, ViewerTypes, Sent
<1>2. /\ Len(down) \in Nat /\ Len(ms) \in Nat
      /\ DOMAIN down = 1..Len(down) /\ DOMAIN ms = 1..Len(ms)
  BY <1>1, LenProperties
<1>3. /\ down' \in Seq(Downward)
      /\ ~linked => down' = down
      /\ linked => /\ Len(down') = Len(down) + Len(ms)
                   /\ \A i \in 1..Len(down) : down'[i] = down[i]
                   /\ \A j \in 1..Len(ms) : down'[Len(down) + j] = ms[j]
  BY <1>1, Sending
<1>4. Len(down') \in Nat /\ DOMAIN down' = 1..Len(down')
  BY <1>3, LenProperties
<1>5. CASE linked
  <2>1. \A i \in DOMAIN down' :
          i \in DOMAIN down \/ (i > Len(down) /\ i - Len(down) \in DOMAIN ms /\ Len(down) + (i - Len(down)) = i)
    BY <1>2, <1>3, <1>4, <1>5
  <2>2. \A i \in DOMAIN down' :
          \/ i \in DOMAIN down /\ down'[i] = down[i]
          \/ i > Len(down) /\ i - Len(down) \in DOMAIN ms /\ down'[i] = ms[i - Len(down)]
    <3> SUFFICES ASSUME NEW i \in DOMAIN down', i \notin DOMAIN down
                 PROVE  i > Len(down) /\ i - Len(down) \in DOMAIN ms /\ down'[i] = ms[i - Len(down)]
      BY <1>2, <1>3, <1>5 DEF Sent
    <3> DEFINE j == i - Len(down)
    <3>1. i > Len(down) /\ j \in DOMAIN ms /\ Len(down) + j = i
      BY <2>1
    <3> HIDE DEF j
    <3>2. down'[i] = ms[j]
      BY <1>2, <1>3, <1>5, <3>1
    <3> QED BY <3>1, <3>2 DEF j
  <2>3. \A i \in DOMAIN down : i \in DOMAIN down' /\ down'[i] = down[i]
    BY <1>2, <1>3, <1>4, <1>5
  <2>4. \A j \in DOMAIN ms : Len(down) + j \in DOMAIN down' /\ down'[Len(down) + j] = ms[j]
    BY <1>2, <1>3, <1>4, <1>5
  <2> QED BY <1>2, <1>3, <1>4, <1>5, <2>2, <2>3, <2>4
<1>6. CASE ~linked
  BY <1>2, <1>3, <1>4, <1>6
<1> QED BY <1>5, <1>6

LEMMA TruthStep ==
  ASSUME RequestsInv, DownTrue, Moved, AskerKept, generation' = generation \/ asker' = asker, applied \subseteq applied'
  PROVE  DownTrue'
<1>1. ViewerTypes /\ generation # 0
  BY RequestConstants DEF RequestsInv, RequestTypes, SessionTypes, ViewerTypes, Generations
<1>2. CASE Cut
  BY <1>2 DEF Cut, DownTrue
<1>3. ASSUME NEW m, KindOf(m), m.id \in Configs => asker[m.id] = generation, generation' = generation,
             m.type = "configured" /\ m.id # None => m.id \in applied'
      PROVE  Truthful(m, asker', generation', applied')
  BY <1>1, <1>3 DEF AskerKept, Asked, Truthful
<1>4. \A i \in DOMAIN down : generation' = generation => Truthful(down[i], asker', generation', applied')
  BY <1>3 DEF DownTrue, Truthful
<1>5. CASE Taken
  <2>1. \A i \in DOMAIN down' : i + 1 \in DOMAIN down /\ down'[i] = down[i + 1]
    BY <1>1, <1>5, DownHead DEF Taken
  <2>2. \A i \in DOMAIN down' : Truthful(down'[i], asker', generation', applied')
    BY <1>4, <1>5, <2>1 DEF Taken, sessionVars
  <2> QED BY <2>2 DEF DownTrue
<1>6. ASSUME NEW ms, Sent(ms)
      PROVE  DownTrue'
  <2>1. generation' = generation /\ \A j \in DOMAIN ms : Fit(ms[j])
    BY <1>6 DEF Sent
  <2>2. \A j \in DOMAIN ms : Truthful(ms[j], asker', generation', applied')
    BY <1>3, <2>1 DEF Fit
  <2>3. \A i \in DOMAIN down' :
          \/ i \in DOMAIN down /\ down'[i] = down[i]
          \/ i - Len(down) \in DOMAIN ms /\ down'[i] = ms[i - Len(down)]
    BY <1>6, SentParts
  <2>4. \A i \in DOMAIN down' : Truthful(down'[i], asker', generation', applied')
    BY <1>4, <2>1, <2>2, <2>3
  <2> QED BY <2>4 DEF DownTrue
<1> QED BY <1>2, <1>5, <1>6 DEF Moved

-----------------------------------------------------------------------------
(* The answers to configurations                                                *)

\* What a success was told of was applied.
AnswersInv == RequestsInv /\ Queueing /\ DownTrue /\ ResolvedMeansApplied

LEMMA AnswersStep ==
  ASSUME AnswersInv, Next
  PROVE  AnswersInv' /\ Moved /\ SessionKept
<1>1. RequestsInv /\ RequestTypes /\ ChainInv /\ Queueing /\ DownTrue /\ ResolvedMeansApplied
  BY DEF AnswersInv, RequestsInv
<1>2. Moved /\ SessionKept /\ ChainInv' /\ Queueing'
  BY <1>1, AlwaysMoved, SessionStep, ChainStep, QueueStep
<1>3. TableTypes'
  BY <1>1, <1>2, TableStep DEF SessionKept
<1>4. ViewerTypes' /\ Honest
  BY <1>1, <1>2, ViewerStep, HistoryStep
<1>5. AskerKept /\ asker' \in [Asked -> 0..MaxGeneration] /\ (generation' = generation \/ asker' = asker)
  BY <1>1, AskerMoves
<1>6. RequestTypes'
  BY <1>2, <1>3, <1>4, <1>5 DEF RequestTypes, SessionKept, ChainInv, HistoryTypes, Honest
<1>7. RequestsAsked' /\ Alone' /\ DownTrue'
  BY <1>1, <1>2, <1>4, <1>5, AskedStep, AloneStep, TruthStep DEF Honest
<1>8. ResolvedMeansApplied'
  BY <1>1, <1>4 DEF ResolvedMeansApplied, Honest
<1> QED BY <1>2, <1>6, <1>7, <1>8 DEF AnswersInv, RequestsInv

LEMMA AnswersStays ==
  ASSUME AnswersInv, UNCHANGED vars
  PROVE  AnswersInv'
  BY DEF AnswersInv, RequestsInv, RequestTypes, SessionTypes, ChainTypes, TableTypes, ViewerTypes, HistoryTypes,
     ChainInv, ChainKinds, StepKinds, Head1, RequestsAsked, Alone, Closed, Queueing, DownTrue, Truthful,
     ResolvedMeansApplied, vars, sessionVars, chainVars, coreVars, viewerVars, historyVars

LEMMA AnswersInit == Init => AnswersInv
<1> SUFFICES ASSUME Init
             PROVE  AnswersInv
  OBVIOUS
<1>1. 1 \in Generations /\ 0 \in 0..MaxGeneration
  BY RequestConstants DEF Generations
<1>2. SessionTypes /\ ChainTypes /\ ViewerTypes
  BY <1>1, EmptySeq DEF Init, SessionTypes, ChainTypes, ViewerTypes, NoViewer
<1>3. TableTypes /\ HistoryTypes
  BY <1>1, EmptySeq DEF Init, TableTypes, HistoryTypes
<1>4. ChainKinds /\ StepKinds /\ Queueing /\ DownTrue /\ Alone
  BY DEF Init, ChainKinds, StepKinds, Queueing, DownTrue, Alone, Closed
<1>5. RequestsAsked
  <2>1. {q \in Configs : asker[q] # 0} = {}
    BY DEF Init, Asked
  <2> QED BY <2>1, FS_EmptySet DEF RequestsAsked, Init
<1>6. ResolvedMeansApplied
  BY DEF Init, ResolvedMeansApplied
<1> QED BY <1>2, <1>3, <1>4, <1>5, <1>6 DEF AnswersInv, RequestsInv, RequestTypes, ChainInv

\* Whatever Core sends the Viewer about a configuration is about one that this
\* Viewer asked for: an answer that Extension gives after a takeover finds its
\* entry gone, and a refusal is for the generation of the request it refuses.
THEOREM AnswersAlwaysReachTheirCaller == Spec => []AnswersReachTheirCaller
<1>1. Init => AnswersInv
  BY AnswersInit
<1>2. AnswersInv /\ [Next]_vars => AnswersInv'
  BY AnswersStep, AnswersStays
<1>3. AnswersInv => AnswersReachTheirCaller
  BY DEF AnswersInv, DownTrue, Truthful, AnswersReachTheirCaller
<1> QED BY <1>1, <1>2, <1>3, PTL DEF Spec

-----------------------------------------------------------------------------
(* What the Viewer accepts: the capability                                      *)

Greets(d, k) == d[k].type = "accepted"

\* The Viewer has the capability, or will have been told so, before it is sent
\* what needs it; only Core's last word takes it away.
Granting ==
    /\ granted => \A j \in DOMAIN down : down[j].type \notin Without
    /\ \A i, j \in DOMAIN down : j < i /\ down[i].type \in Needing => down[j].type \notin Without
    /\ \A i \in DOMAIN down : down[i].type \in Needing =>
         viewer.granted = "yes" \/ \E k \in DOMAIN down : k < i /\ Greets(down, k)
    /\ linked /\ granted /\ phase # "negotiating" =>
         viewer.granted = "yes" \/ \E k \in DOMAIN down : Greets(down, k)

\* A message taken is the first one, and the others move up.
LEMMA TakenParts ==
  ASSUME ViewerTypes, Taken
  PROVE  /\ Len(down) \in Nat /\ Len(down) >= 1 /\ Len(down') = Len(down) - 1
         /\ DOMAIN down = 1..Len(down) /\ DOMAIN down' = 1..Len(down')
         /\ Head(down) = down[1] /\ 1 \in DOMAIN down
         /\ \A i \in DOMAIN down' : i \in Nat /\ i + 1 \in DOMAIN down /\ i + 1 > 1 /\ down'[i] = down[i + 1]
         /\ \A i \in DOMAIN down : i = 1 \/ (i > 1 /\ i - 1 \in DOMAIN down' /\ down'[i - 1] = down[i])
<1>1. /\ Head(down) = down[1] /\ 1 \in DOMAIN down /\ down' = Tail(down)
      /\ Len(down) \in Nat /\ Len(down) >= 1 /\ Len(Tail(down)) = Len(down) - 1
      /\ Tail(down) \in Seq(Downward) /\ down \in Seq(Downward)
      /\ \A i \in DOMAIN Tail(down) : i + 1 \in DOMAIN down /\ Tail(down)[i] = down[i + 1]
  BY DownHead DEF Taken, ViewerTypes
<1>2. DOMAIN down = 1..Len(down) /\ DOMAIN Tail(down) = 1..(Len(down) - 1)
  BY <1>1, LenProperties
<1>3. \A i \in DOMAIN down : i = 1 \/ (i > 1 /\ i - 1 \in DOMAIN Tail(down) /\ (i - 1) + 1 = i)
  BY <1>1, <1>2
<1>4. \A i \in DOMAIN down : i = 1 \/ (i > 1 /\ i - 1 \in DOMAIN Tail(down) /\ Tail(down)[i - 1] = down[i])
  BY <1>1, <1>3
<1>5. \A i \in DOMAIN down' : i \in Nat /\ i + 1 > 1
  BY <1>1, <1>2
<1> QED BY <1>1, <1>2, <1>4, <1>5

LEMMA GrantedStep ==
  ASSUME RequestsInv, Granting, Moved
  PROVE  Granting'
<1>1. ViewerTypes /\ viewer.granted \in {"unknown", "yes", "no"}
  BY DEF RequestsInv, RequestTypes, ViewerTypes
<1>2. CASE Cut
  BY <1>2 DEF Cut, Granting
<1>3. CASE Taken
  <2> DEFINE m == down[1]
  <2>1. /\ \A i \in DOMAIN down' : i \in Nat /\ i + 1 \in DOMAIN down /\ i + 1 > 1 /\ down'[i] = down[i + 1]
        /\ \A i \in DOMAIN down : i = 1 \/ (i > 1 /\ i - 1 \in DOMAIN down' /\ down'[i - 1] = down[i])
        /\ 1 \in DOMAIN down /\ Head(down) = m /\ DOMAIN down = 1..Len(down) /\ Len(down) \in Nat
    BY <1>1, <1>3, TakenParts
  <2>2. UNCHANGED <<granted, linked, phase>> /\ viewer' = Received(m)
    BY <1>3, <2>1 DEF Taken, sessionVars
  <2>3. /\ m.type = "accepted" => viewer'.granted = "yes"
        /\ m.type \notin Without /\ viewer.granted = "yes" => viewer'.granted = "yes"
    BY <1>1, <2>2 DEF Received, Without, ViewerTypes
  <2>4. granted' => \A j \in DOMAIN down' : down'[j].type \notin Without
    BY <2>1, <2>2 DEF Granting
  <2>5. \A i, j \in DOMAIN down' : j < i /\ down'[i].type \in Needing => down'[j].type \notin Without
    BY <2>1 DEF Granting
  <2>6. ASSUME NEW i \in DOMAIN down', down'[i].type \in Needing
        PROVE  viewer'.granted = "yes" \/ \E k \in DOMAIN down' : k < i /\ Greets(down', k)
    <3>1. i + 1 \in DOMAIN down /\ down[i + 1].type \in Needing /\ 1 < i + 1 /\ i \in Nat
      BY <2>1, <2>6
    <3>2. m.type \notin Without
      BY <2>1, <3>1 DEF Granting
    <3>3. CASE viewer.granted = "yes"
      BY <2>3, <3>2, <3>3
    <3>4. ASSUME NEW k \in DOMAIN down, k < i + 1, Greets(down, k)
          PROVE  viewer'.granted = "yes" \/ \E l \in DOMAIN down' : l < i /\ Greets(down', l)
      <4>1. CASE k = 1
        BY <2>3, <3>4, <4>1 DEF Greets
      <4>2. CASE k # 1
        <5>1. k - 1 \in DOMAIN down' /\ down'[k - 1] = down[k]
          BY <2>1, <4>2
        <5>2. k - 1 < i
          BY <2>1, <3>1, <3>4
        <5> QED BY <3>4, <5>1, <5>2 DEF Greets
      <4> QED BY <4>1, <4>2
    <3> QED BY <3>1, <3>3, <3>4 DEF Granting
  <2>7. ASSUME linked', granted', phase' # "negotiating"
        PROVE  viewer'.granted = "yes" \/ \E k \in DOMAIN down' : Greets(down', k)
    <3>1. m.type \notin Without
      BY <2>1, <2>2, <2>7 DEF Granting
    <3>2. CASE viewer.granted = "yes"
      BY <2>3, <3>1, <3>2
    <3>3. ASSUME NEW k \in DOMAIN down, Greets(down, k)
          PROVE  viewer'.granted = "yes" \/ \E l \in DOMAIN down' : Greets(down', l)
      <4>1. CASE k = 1
        BY <2>3, <3>3, <4>1 DEF Greets
      <4>2. CASE k # 1
        BY <2>1, <3>3, <4>2 DEF Greets
      <4> QED BY <4>1, <4>2
    <3> QED BY <2>2, <2>7, <3>2, <3>3 DEF Granting
  <2> QED BY <2>4, <2>5, <2>6, <2>7 DEF Granting
<1>4. ASSUME NEW ms, Sent(ms)
      PROVE  Granting'
  <2>1. /\ Len(down) \in Nat /\ DOMAIN down = 1..Len(down) /\ DOMAIN down' = 1..Len(down') /\ Len(down') \in Nat
        /\ \A i \in DOMAIN down : i \in DOMAIN down' /\ down'[i] = down[i]
        /\ linked => \A j \in DOMAIN ms : Len(down) + j \in DOMAIN down' /\ down'[Len(down) + j] = ms[j]
        /\ \A i \in DOMAIN down' :
             \/ i \in DOMAIN down /\ down'[i] = down[i]
             \/ linked /\ i > Len(down) /\ i - Len(down) \in DOMAIN ms /\ down'[i] = ms[i - Len(down)]
        /\ DOMAIN ms = 1..Len(ms) /\ Len(ms) \in Nat
    BY <1>4, SentParts
  <2>2. /\ granted' => granted
        /\ linked' = linked \/ (linked' /\ phase' = "negotiating")
        /\ viewer'.granted = viewer.granted
        /\ \A j \in DOMAIN ms : Fit(ms[j])
        /\ phase = "negotiating" /\ phase' # "negotiating" /\ granted => \E j \in DOMAIN ms : ms[j].type = "accepted"
        /\ (\E j \in DOMAIN ms : ms[j].type \in Needing) => Len(ms) = 1
    BY <1>4 DEF Sent, ViewerBeside, Needing
  <2>3. granted' => \A j \in DOMAIN down' : down'[j].type \notin Without
    BY <2>1, <2>2 DEF Granting, Fit
  <2>4. ASSUME NEW i \in DOMAIN down', NEW j \in DOMAIN down', j < i, down'[i].type \in Needing
        PROVE  down'[j].type \notin Without
    <3>1. CASE i \in DOMAIN down
      <4>1. j \in DOMAIN down
        BY <2>1, <2>4, <3>1
      <4> QED BY <2>1, <2>4, <3>1, <4>1 DEF Granting
    <3>2. CASE i \notin DOMAIN down
      <4>1. i - Len(down) \in DOMAIN ms /\ ms[i - Len(down)].type \in Needing
        BY <2>1, <2>4, <3>2
      <4>2. granted /\ Len(ms) = 1
        BY <2>2, <4>1 DEF Fit
      <4>3. j \in DOMAIN down
        BY <2>1, <2>4, <4>1, <4>2
      <4> QED BY <2>1, <4>2, <4>3 DEF Granting
    <3> QED BY <3>1, <3>2
  <2>5. ASSUME NEW i \in DOMAIN down', down'[i].type \in Needing
        PROVE  viewer'.granted = "yes" \/ \E k \in DOMAIN down' : k < i /\ Greets(down', k)
    <3>1. CASE i \in DOMAIN down
      BY <2>1, <2>2, <2>5, <3>1 DEF Granting, Greets
    <3>2. CASE i \notin DOMAIN down
      <4>1. linked /\ i > Len(down) /\ i - Len(down) \in DOMAIN ms /\ ms[i - Len(down)].type \in Needing
        BY <2>1, <2>5, <3>2
      <4>2. granted /\ phase # "negotiating"
        BY <2>2, <4>1 DEF Fit
      <4>3. viewer.granted = "yes" \/ \E k \in DOMAIN down : Greets(down, k)
        BY <4>1, <4>2 DEF Granting
      <4>4. \A k \in DOMAIN down : k \in DOMAIN down' /\ k < i /\ down'[k] = down[k]
        BY <2>1, <4>1
      <4> QED BY <2>2, <4>3, <4>4 DEF Greets
    <3> QED BY <3>1, <3>2
  <2>6. ASSUME linked', granted', phase' # "negotiating"
        PROVE  viewer'.granted = "yes" \/ \E k \in DOMAIN down' : Greets(down', k)
    <3>1. linked /\ granted
      BY <2>2, <2>6
    <3>2. CASE phase # "negotiating"
      BY <2>1, <2>2, <3>1, <3>2 DEF Granting, Greets
    <3>3. CASE phase = "negotiating"
      BY <2>1, <2>2, <2>6, <3>1, <3>3 DEF Greets
    <3> QED BY <3>2, <3>3
  <2> QED BY <2>3, <2>4, <2>5, <2>6 DEF Granting
<1> QED BY <1>2, <1>3, <1>4 DEF Moved

-----------------------------------------------------------------------------
(* What the Viewer accepts: pages to open                                       *)

OpenAt(d, o, i) == d[i].type = "openRequest" /\ d[i].id = o

\* A page is asked about once.
Opening ==
    /\ \A i \in DOMAIN down : \A o \in Opens : OpenAt(down, o, i) =>
         /\ o \notin viewer.opens /\ opens[o] \notin {"new", "queued"}
         /\ \A j \in DOMAIN down : OpenAt(down, o, j) => i = j
    /\ \A o \in viewer.opens : opens[o] \notin {"new", "queued"}

LEMMA OpensGoOn ==
  ASSUME RequestTypes, ChainInv, QueueMoved, NEW o \in Opens, opens[o] \notin {"new", "queued"}
  PROVE  opens'[o] \notin {"new", "queued"}
<1>1. opens \in [Opens -> {"new", "queued", "pending", "answered", "over"}]
  BY DEF RequestTypes, TableTypes
<1>2. CASE OnlyEnds
  BY <1>2 DEF OnlyEnds
<1>3. CASE Waits
  BY <1>2, <1>3 DEF Waits
<1>4. CASE Begins
  BY <1>1, <1>2, <1>4 DEF Begins
<1>5. ASSUME NEW e, Enters(e)
      PROVE  opens'[o] \notin {"new", "queued"}
  BY <1>1, <1>2, <1>5 DEF Enters
<1> QED BY <1>3, <1>4, <1>5 DEF QueueMoved

LEMMA OpeningStep ==
  ASSUME RequestsInv, DownTrue, Queueing, Opening, QueueMoved, Moved
  PROVE  Opening'
<1>1. /\ ViewerTypes /\ RequestTypes /\ ChainInv /\ ChainTypes /\ viewer.opens \in SUBSET Opens
      /\ opens \in [Opens -> {"new", "queued", "pending", "answered", "over"}]
      /\ \A o \in Opens : opens[o] \notin {"new", "queued"} => opens'[o] \notin {"new", "queued"}
  BY OpensGoOn DEF RequestsInv, RequestTypes, ViewerTypes, TableTypes
<1>2. CASE Cut
  BY <1>2 DEF Cut, Opening, NoViewer
<1>3. CASE Taken
  <2> DEFINE m == down[1]
  <2>1. /\ \A i \in DOMAIN down' : i \in Nat /\ i + 1 \in DOMAIN down /\ i + 1 > 1 /\ down'[i] = down[i + 1]
        /\ 1 \in DOMAIN down /\ Head(down) = m
    BY <1>1, <1>3, TakenParts
  <2>2. viewer' = Received(m)
    BY <1>3, <2>1 DEF Taken
  <2>3. KindOf(m)
    BY <2>1 DEF DownTrue, Truthful
  <2>4. viewer'.opens = viewer.opens \/ (m.type = "openRequest" /\ viewer'.opens = viewer.opens \cup {m.id})
    BY <1>1, <2>2 DEF Received, ViewerTypes
  <2>5. ASSUME NEW i \in DOMAIN down', NEW o \in Opens, OpenAt(down', o, i)
        PROVE  /\ o \notin viewer'.opens /\ opens'[o] \notin {"new", "queued"}
               /\ \A j \in DOMAIN down' : OpenAt(down', o, j) => i = j
    <3>1. i \in Nat /\ i + 1 \in DOMAIN down /\ i + 1 # 1 /\ OpenAt(down, o, i + 1)
      BY <2>1, <2>5 DEF OpenAt
    <3>2. o \notin viewer.opens /\ opens[o] \notin {"new", "queued"} /\ ~OpenAt(down, o, 1)
      BY <2>1, <3>1 DEF Opening
    <3>3. o \notin viewer'.opens
      BY <2>4, <3>2 DEF OpenAt
    <3>4. \A j \in DOMAIN down' : OpenAt(down', o, j) => i = j
      <4> SUFFICES ASSUME NEW j \in DOMAIN down', OpenAt(down', o, j)
                   PROVE  i = j
        OBVIOUS
      <4>1. j \in Nat /\ j + 1 \in DOMAIN down /\ OpenAt(down, o, j + 1)
        BY <2>1 DEF OpenAt
      <4>2. i + 1 = j + 1
        BY <3>1, <4>1 DEF Opening
      <4> QED BY <3>1, <4>1, <4>2
    <3> QED BY <1>1, <3>2, <3>3, <3>4
  <2>6. \A o \in viewer'.opens : opens'[o] \notin {"new", "queued"}
    <3>1. m.type = "openRequest" => m.id \in Opens /\ opens[m.id] \notin {"new", "queued"}
      BY <2>1, <2>3 DEF KindOf, Opening, OpenAt
    <3> QED BY <1>1, <2>4, <3>1 DEF Opening
  <2> QED BY <2>5, <2>6 DEF Opening
<1>4. ASSUME NEW ms, Sent(ms)
      PROVE  Opening'
  <2>1. /\ Len(down) \in Nat /\ DOMAIN down = 1..Len(down) /\ DOMAIN down' = 1..Len(down') /\ Len(down') \in Nat
        /\ \A i \in DOMAIN down' :
             \/ i \in DOMAIN down /\ down'[i] = down[i]
             \/ linked /\ i > Len(down) /\ i - Len(down) \in DOMAIN ms /\ down'[i] = ms[i - Len(down)]
        /\ DOMAIN ms = 1..Len(ms) /\ Len(ms) \in Nat
    BY <1>4, SentParts
  <2>2. /\ viewer'.opens \subseteq viewer.opens
        /\ \A j \in DOMAIN ms : Fit(ms[j])
        /\ (\E j \in DOMAIN ms : ms[j].type = "openRequest") => Len(ms) = 1
    BY <1>4 DEF Sent, ViewerBeside
  <2>3. ASSUME NEW i \in DOMAIN down', i \notin DOMAIN down, NEW o \in Opens, OpenAt(down', o, i)
        PROVE  /\ opens[o] = "queued" /\ opens'[o] = "pending"
               /\ i = Len(down) + 1
    <3>1. i - Len(down) \in DOMAIN ms /\ down'[i] = ms[i - Len(down)] /\ i > Len(down)
      BY <2>1, <2>3
    <3> DEFINE m == ms[i - Len(down)]
    <3>2. Fit(m) /\ m.type = "openRequest" /\ m.id = o /\ Len(ms) = 1
      BY <2>2, <2>3, <3>1 DEF OpenAt
    <3> HIDE DEF m
    <3>3. chain # <<>> /\ Head1.type = "open" /\ Head1.id = o /\ opens' = [opens EXCEPT ![o] = "pending"]
      BY <3>2 DEF Fit
    <3>4. opens[o] = "queued"
      BY <1>1, <3>3, ChainHead DEF Queueing
    <3>5. opens'[o] = "pending"
      BY <1>1, <3>3
    <3>6. i = Len(down) + 1
      BY <2>1, <3>1, <3>2
    <3> QED BY <3>4, <3>5, <3>6
  <2>4. ASSUME NEW i \in DOMAIN down', NEW o \in Opens, OpenAt(down', o, i)
        PROVE  /\ o \notin viewer'.opens /\ opens'[o] \notin {"new", "queued"}
               /\ \A j \in DOMAIN down' : OpenAt(down', o, j) => i = j
    <3>1. CASE i \in DOMAIN down
      <4>1. /\ OpenAt(down, o, i) /\ o \notin viewer.opens /\ opens[o] \notin {"new", "queued"}
            /\ \A j \in DOMAIN down : OpenAt(down, o, j) => i = j
        BY <2>1, <2>4, <3>1 DEF OpenAt, Opening
      <4>2. \A j \in DOMAIN down' : OpenAt(down', o, j) => j \in DOMAIN down /\ OpenAt(down, o, j)
        BY <2>1, <2>3, <4>1 DEF OpenAt
      <4> QED BY <1>1, <2>2, <4>1, <4>2
    <3>2. CASE i \notin DOMAIN down
      <4>1. opens[o] = "queued" /\ opens'[o] = "pending" /\ i = Len(down) + 1
        BY <2>3, <2>4, <3>2
      <4>2. o \notin viewer.opens
        BY <4>1 DEF Opening
      <4>3. \A j \in DOMAIN down' : OpenAt(down', o, j) => j \notin DOMAIN down
        BY <2>1, <4>1 DEF OpenAt, Opening
      <4>4. \A j \in DOMAIN down' : OpenAt(down', o, j) => i = j
        BY <2>3, <4>1, <4>3
      <4> QED BY <2>2, <4>1, <4>2, <4>4
    <3> QED BY <3>1, <3>2
  <2>5. \A o \in viewer'.opens : opens'[o] \notin {"new", "queued"}
    BY <1>1, <2>2 DEF Opening
  <2> QED BY <2>4, <2>5 DEF Opening
<1> QED BY <1>2, <1>3, <1>4 DEF Moved

-----------------------------------------------------------------------------
(* What the Viewer accepts: notices                                             *)

Notified(d, n, i) == d[i].type = "notice" /\ d[i].id = n
Cancelled(d, n, i) == d[i].type = "cancel" /\ d[i].id = n

\* What the Viewer will show once it has received the first k of the messages.
Shown(v, d, k) ==
    {n \in Notices :
        \/ n \in v.shown /\ \A j \in 1..k : ~Cancelled(d, n, j)
        \/ \E j \in 1..k : Notified(d, n, j) /\ \A l \in (j + 1)..k : ~Cancelled(d, n, l)}

\* Each notice is shown once, what will be shown is pending at Core, and what
\* was answered is shown no more.
Showing ==
    /\ Shown(viewer, down, Len(down)) \subseteq Pending
    /\ \A i \in DOMAIN down : down[i].type = "notice" => Cardinality(Shown(viewer, down, i - 1)) < MaxPending
    /\ \A i \in DOMAIN down : \A n \in Notices : Notified(down, n, i) =>
         /\ n \notin viewer.shown /\ notices[n] # "new"
         /\ \A j \in DOMAIN down : Notified(down, n, j) => i = j
    /\ \A n \in viewer.shown : notices[n] # "new"
    /\ \A r \in replies :
         /\ r.generation <= generation /\ notices[r.id] # "new"
         /\ r.generation = generation =>
              r.id \notin viewer.shown /\ \A i \in DOMAIN down : ~Notified(down, r.id, i)

\* No notice is asked again.
NoticesGoOn == \A n \in Notices : notices[n] # "new" => notices'[n] # "new"

LEMMA NoticeStep ==
  ASSUME RequestTypes, Next
  PROVE  NoticesGoOn
<1>1. notices \in [Notices -> {"new", "pending", "response"} \cup Cancellations]
  BY DEF RequestTypes, TableTypes
<1>2. CASE UNCHANGED notices
  BY <1>2 DEF NoticesGoOn
<1>3. ASSUME NEW n \in Notices, Ask(n)
      PROVE  NoticesGoOn
  BY <1>1, <1>3 DEF Ask, NoticesGoOn
<1>4. ASSUME NEW ns, NEW reason, reason # "new", Finish(ns, reason)
      PROVE  NoticesGoOn
  BY <1>1, <1>4 DEF Finish, NoticesGoOn
<1>5. CASE Chain
  BY <1>2, <1>3, <1>5 DEF Chain, HeadRefused, HelloServed, NavigationServed, NavigationEnds, NavigationConfirms,
     ConfirmationEnds, ConfigureServed, OpenServed, OpenDecided, OpenAnswered, Drained, coreVars
<1>6. ASSUME NEW n \in Notices, RequestNotice(n) \/ NoticeExpires(n) \/ NoticeAborted(n) \/ RespondToNotice(n)
      PROVE  NoticesGoOn
  BY <1>2, <1>3, <1>4, <1>6 DEF RequestNotice, NoticeExpires, NoticeAborted, RespondToNotice, coreVars
<1>7. ASSUME NEW r \in replies, ResponseArrives(r)
      PROVE  NoticesGoOn
  BY <1>2, <1>4, <1>7 DEF ResponseArrives
<1>8. CASE \/ ViewerConnects \/ ViewerGoes
           \/ \E v \in Navigations : Navigate(v)
           \/ \E q \in Configs : ConfigureQuality(q)
           \/ ConfigureTimeout
           \/ \E o \in Opens : PageOpens(o) \/ OpenExpires(o) \/ RespondToOpen(o)
           \/ \E p \in Notices \cup Opens : PromptExpires(p)
           \/ down # <<>> /\ ViewerReceives(Head(down))
           \/ \E ok \in BOOLEAN : MediaAnswers(ok)
           \/ ViewerReplaced
  BY <1>2, <1>8 DEF ViewerConnects, ViewerGoes, Navigate, ConfigureQuality, ConfigureTimeout, PageOpens,
     OpenExpires, RespondToOpen, PromptExpires, ViewerReceives, MediaAnswers, ViewerReplaced, coreVars
<1>9. CASE Revoke \/ ControlCloses \/ PeerLeft \/ TakeoverStarts \/ Close
  BY <1>4, <1>9 DEF Revoke, ControlCloses, PeerLeft, TakeoverStarts, Close
<1> QED BY <1>5, <1>6, <1>7, <1>8, <1>9 DEF Next

LEMMA FewerShown ==
  ASSUME NEW S \in SUBSET Notices, NEW T \in SUBSET S, Cardinality(S) < MaxPending
  PROVE  Cardinality(T) < MaxPending
<1>1. IsFiniteSet(S)
  BY NoticeSets
<1>2. IsFiniteSet(T) /\ Cardinality(T) <= Cardinality(S)
  BY <1>1, FS_Subset
<1>3. Cardinality(S) \in Nat /\ Cardinality(T) \in Nat
  BY <1>1, <1>2, FS_CardinalityType
<1> QED BY <1>2, <1>3, RequestConstants

\* What a message says has been counted already.
LEMMA ShownAfterTaking ==
  ASSUME RequestsInv, Taken, NEW k \in 0..Len(down')
  PROVE  Shown(viewer', down', k) \subseteq Shown(viewer, down, k + 1)
<1> DEFINE m == down[1]
<1>1. /\ Len(down) \in Nat /\ Len(down) >= 1 /\ Len(down') = Len(down) - 1
      /\ DOMAIN down = 1..Len(down) /\ DOMAIN down' = 1..Len(down')
      /\ 1 \in DOMAIN down /\ Head(down) = m
      /\ \A i \in DOMAIN down' : i \in Nat /\ i + 1 \in DOMAIN down /\ i + 1 > 1 /\ down'[i] = down[i + 1]
      /\ \A i \in DOMAIN down : i = 1 \/ (i > 1 /\ i - 1 \in DOMAIN down' /\ down'[i - 1] = down[i])
      /\ ViewerTypes
  BY TakenParts DEF RequestsInv, RequestTypes
<1>2. \/ m.type = "notice" /\ viewer'.shown = viewer.shown \cup {m.id}
      \/ m.type = "cancel" /\ viewer'.shown = viewer.shown \ {m.id}
      \/ m.type # "cancel" /\ viewer'.shown = viewer.shown
  <2>1. viewer' = Received(m)
    BY <1>1 DEF Taken
  <2> QED BY <1>1, <2>1 DEF Received, ViewerTypes
<1>3. k \in Nat /\ \A l \in 2..(k + 1) : l - 1 \in 1..k /\ l - 1 \in DOMAIN down' /\ down'[l - 1] = down[l]
  <2>1. k \in Nat /\ \A l \in 2..(k + 1) : l - 1 \in 1..k /\ l \in DOMAIN down /\ l # 1
    BY <1>1
  <2> QED BY <1>1, <2>1
<1> HIDE DEF m
<1> SUFFICES ASSUME NEW n \in Shown(viewer', down', k)
             PROVE  n \in Shown(viewer, down, k + 1)
  OBVIOUS
<1>4. CASE n \in viewer'.shown /\ \A j \in 1..k : ~Cancelled(down', n, j)
  <2>1. \A l \in 2..(k + 1) : ~Cancelled(down, n, l)
    BY <1>3, <1>4 DEF Cancelled
  <2>2. CASE n \in viewer.shown /\ ~Cancelled(down, n, 1)
    <3>1. \A j \in 1..(k + 1) : j = 1 \/ j \in 2..(k + 1)
      BY <1>3
    <3>2. \A j \in 1..(k + 1) : ~Cancelled(down, n, j)
      BY <2>1, <2>2, <3>1
    <3> QED BY <2>2, <3>2 DEF Shown
  <2>3. CASE Notified(down, n, 1)
    <3>1. 1 \in 1..(k + 1) /\ 1 + 1 = 2
      BY <1>3
    <3>2. \E j \in 1..(k + 1) : Notified(down, n, j) /\ \A l \in (j + 1)..(k + 1) : ~Cancelled(down, n, l)
      BY <2>1, <2>3, <3>1
    <3> QED BY <3>2 DEF Shown
  <2> QED BY <1>2, <1>4, <2>2, <2>3 DEF Notified, Cancelled, m
<1>5. ASSUME NEW j \in 1..k, Notified(down', n, j), \A l \in (j + 1)..k : ~Cancelled(down', n, l)
      PROVE  n \in Shown(viewer, down, k + 1)
  <2>1. j + 1 \in 1..(k + 1) /\ j \in DOMAIN down' /\ j \in Nat
    BY <1>1, <1>3
  <2>2. Notified(down, n, j + 1)
    BY <1>1, <1>5, <2>1 DEF Notified
  <2>3. \A l \in ((j + 1) + 1)..(k + 1) : ~Cancelled(down, n, l)
    <3>1. \A l \in ((j + 1) + 1)..(k + 1) : l - 1 \in (j + 1)..k /\ l \in 2..(k + 1)
      BY <1>3, <2>1
    <3> QED BY <1>3, <1>5, <3>1 DEF Cancelled
  <2>4. \E i \in 1..(k + 1) : Notified(down, n, i) /\ \A l \in (i + 1)..(k + 1) : ~Cancelled(down, n, l)
    BY <2>1, <2>2, <2>3
  <2> QED BY <2>4 DEF Shown
<1> QED BY <1>4, <1>5 DEF Shown

LEMMA ShowingTaken ==
  ASSUME RequestsInv, DownTrue, Showing, Taken
  PROVE  Showing'
<1> DEFINE m == down[1]
<1>1. /\ Len(down) \in Nat /\ Len(down) >= 1 /\ Len(down') = Len(down) - 1
      /\ DOMAIN down = 1..Len(down) /\ DOMAIN down' = 1..Len(down')
      /\ 1 \in DOMAIN down /\ Head(down) = m
      /\ \A i \in DOMAIN down' : i \in Nat /\ i + 1 \in DOMAIN down /\ i + 1 > 1 /\ down'[i] = down[i + 1]
      /\ ViewerTypes
  BY TakenParts DEF RequestsInv, RequestTypes
<1>2. viewer'.shown \subseteq viewer.shown \/ (m.type = "notice" /\ viewer'.shown = viewer.shown \cup {m.id})
  <2>1. viewer' = Received(m)
    BY <1>1 DEF Taken
  <2> QED BY <1>1, <2>1 DEF Received, ViewerTypes
<1>3. UNCHANGED <<generation, notices, replies>> /\ Pending' = Pending
  BY DEF Taken, sessionVars, coreVars, Pending
<1>4. Shown(viewer', down', Len(down')) \subseteq Pending'
  <2>1. Len(down') \in 0..Len(down') /\ Len(down') + 1 = Len(down)
    BY <1>1
  <2>2. Shown(viewer', down', Len(down')) \subseteq Shown(viewer, down, Len(down') + 1)
    BY <2>1, ShownAfterTaking
  <2> QED BY <1>3, <2>1, <2>2 DEF Showing
<1>5. ASSUME NEW i \in DOMAIN down', down'[i].type = "notice"
      PROVE  Cardinality(Shown(viewer', down', i - 1)) < MaxPending
  <2>1. i - 1 \in 0..Len(down') /\ (i - 1) + 1 = (i + 1) - 1
    BY <1>1
  <2>2. Shown(viewer', down', i - 1) \subseteq Shown(viewer, down, (i - 1) + 1)
    BY <2>1, ShownAfterTaking
  <2>3. i + 1 \in DOMAIN down /\ down[i + 1].type = "notice"
    BY <1>1, <1>5
  <2>4. Cardinality(Shown(viewer, down, (i + 1) - 1)) < MaxPending
    BY <2>3 DEF Showing
  <2>5. Shown(viewer, down, (i - 1) + 1) \in SUBSET Notices
    BY DEF Shown
  <2> QED BY <2>1, <2>2, <2>4, <2>5, FewerShown
<1>6. ASSUME NEW i \in DOMAIN down', NEW n \in Notices, Notified(down', n, i)
      PROVE  /\ n \notin viewer'.shown /\ notices'[n] # "new"
             /\ \A j \in DOMAIN down' : Notified(down', n, j) => i = j
  <2>1. i \in Nat /\ i + 1 \in DOMAIN down /\ i + 1 # 1 /\ Notified(down, n, i + 1)
    BY <1>1, <1>6 DEF Notified
  <2>2. n \notin viewer.shown /\ notices[n] # "new" /\ ~Notified(down, n, 1)
    BY <1>1, <2>1 DEF Showing
  <2>3. \A j \in DOMAIN down' : Notified(down', n, j) => i = j
    <3> SUFFICES ASSUME NEW j \in DOMAIN down', Notified(down', n, j)
                 PROVE  i = j
      OBVIOUS
    <3>1. j \in Nat /\ j + 1 \in DOMAIN down /\ Notified(down, n, j + 1)
      BY <1>1 DEF Notified
    <3>2. i + 1 = j + 1
      BY <2>1, <3>1 DEF Showing
    <3> QED BY <2>1, <3>1, <3>2
  <2> QED BY <1>2, <1>3, <2>2, <2>3 DEF Notified
<1>7. \A n \in viewer'.shown : notices'[n] # "new"
  <2>1. m.type = "notice" => notices[m.id] # "new"
    BY <1>1 DEF DownTrue, Truthful, KindOf, Showing, Notified
  <2> QED BY <1>2, <1>3, <2>1 DEF Showing
<1>8. ASSUME NEW r \in replies'
      PROVE  /\ r.generation <= generation' /\ notices'[r.id] # "new"
             /\ r.generation = generation' =>
                  r.id \notin viewer'.shown /\ \A i \in DOMAIN down' : ~Notified(down', r.id, i)
  <2>1. /\ r.generation <= generation /\ notices[r.id] # "new"
        /\ r.generation = generation => r.id \notin viewer.shown /\ \A i \in DOMAIN down : ~Notified(down, r.id, i)
    BY <1>3, <1>8 DEF Showing
  <2>2. r.generation = generation => ~Notified(down, r.id, 1) /\ \A i \in DOMAIN down' : ~Notified(down', r.id, i)
    BY <1>1, <2>1 DEF Notified
  <2> QED BY <1>2, <1>3, <2>1, <2>2 DEF Notified
<1> QED BY <1>4, <1>5, <1>6, <1>7, <1>8 DEF Showing

\* What is sent adds what it asks for, and takes away what it cancels.
LEMMA ShownAfterSending ==
  ASSUME RequestsInv, NEW ms, Sent(ms)
  PROVE  /\ \A k \in 0..Len(down) : Shown(viewer', down', k) \subseteq Shown(viewer, down, k)
         /\ \A n \in Shown(viewer', down', Len(down')) :
              \/ linked /\ \E j \in DOMAIN ms : ms[j].type = "notice" /\ ms[j].id = n
              \/ /\ n \in Shown(viewer, down, Len(down))
                 /\ linked => \A j \in DOMAIN ms : ms[j] # Message("cancel", n)
<1>1. /\ Len(down) \in Nat /\ Len(ms) \in Nat /\ Len(down') \in Nat
      /\ DOMAIN down = 1..Len(down) /\ DOMAIN ms = 1..Len(ms) /\ DOMAIN down' = 1..Len(down')
      /\ \A i \in DOMAIN down : i \in DOMAIN down' /\ down'[i] = down[i]
      /\ linked => \A j \in DOMAIN ms : Len(down) + j \in DOMAIN down' /\ down'[Len(down) + j] = ms[j]
      /\ \A i \in DOMAIN down' :
           \/ i \in DOMAIN down /\ down'[i] = down[i]
           \/ linked /\ i > Len(down) /\ i - Len(down) \in DOMAIN ms /\ down'[i] = ms[i - Len(down)]
      /\ viewer'.shown \subseteq viewer.shown
  BY SentParts DEF Sent, ViewerBeside
<1>2. Len(down) <= Len(down')
  BY <1>1
<1>3. ASSUME NEW k \in 0..Len(down)
      PROVE  Shown(viewer', down', k) \subseteq Shown(viewer, down, k)
  <2>1. \A i \in 1..k : i \in DOMAIN down /\ down'[i] = down[i]
    BY <1>1
  <2>2. \A j \in 1..k : \A l \in (j + 1)..k : l \in 1..k
    BY <1>1
  <2> QED BY <1>1, <2>1, <2>2 DEF Shown, Notified, Cancelled
<1>4. ASSUME NEW n \in Shown(viewer', down', Len(down'))
      PROVE  \/ linked /\ \E j \in DOMAIN ms : ms[j].type = "notice" /\ ms[j].id = n
             \/ /\ n \in Shown(viewer, down, Len(down))
                /\ linked => \A j \in DOMAIN ms : ms[j] # Message("cancel", n)
  <2>1. CASE n \in viewer'.shown /\ \A j \in 1..Len(down') : ~Cancelled(down', n, j)
    <3>1. n \in viewer.shown /\ \A j \in 1..Len(down) : ~Cancelled(down, n, j)
      BY <1>1, <2>1 DEF Cancelled
    <3>2. n \in Shown(viewer, down, Len(down))
      BY <1>4, <3>1 DEF Shown
    <3>3. linked => \A j \in DOMAIN ms : ms[j] # Message("cancel", n)
      BY <1>1, <2>1 DEF Cancelled, Message
    <3> QED BY <3>2, <3>3
  <2>2. ASSUME NEW i \in 1..Len(down'), Notified(down', n, i), \A l \in (i + 1)..Len(down') : ~Cancelled(down', n, l)
        PROVE  \/ linked /\ \E j \in DOMAIN ms : ms[j].type = "notice" /\ ms[j].id = n
               \/ /\ n \in Shown(viewer, down, Len(down))
                  /\ linked => \A j \in DOMAIN ms : ms[j] # Message("cancel", n)
    <3>1. CASE i \in DOMAIN down
      <4>1. i \in 1..Len(down) /\ Notified(down, n, i)
        BY <1>1, <2>2, <3>1 DEF Notified
      <4>2. \A l \in (i + 1)..Len(down) : ~Cancelled(down, n, l)
        <5>1. \A l \in (i + 1)..Len(down) : l \in DOMAIN down /\ l \in (i + 1)..Len(down')
          BY <1>1, <1>2, <4>1
        <5> QED BY <1>1, <2>2, <5>1 DEF Cancelled
      <4>3. n \in Shown(viewer, down, Len(down))
        BY <1>4, <4>1, <4>2 DEF Shown
      <4>4. linked => \A j \in DOMAIN ms : ms[j] # Message("cancel", n)
        <5> SUFFICES ASSUME linked, NEW j \in DOMAIN ms
                     PROVE  ms[j] # Message("cancel", n)
          OBVIOUS
        <5>1. Len(down) + j \in (i + 1)..Len(down') /\ down'[Len(down) + j] = ms[j]
          BY <1>1, <4>1
        <5>2. ~Cancelled(down', n, Len(down) + j)
          BY <2>2, <5>1
        <5> QED BY <5>1, <5>2 DEF Cancelled, Message
      <4> QED BY <4>3, <4>4
    <3>2. CASE i \notin DOMAIN down
      BY <1>1, <2>2, <3>2 DEF Notified
    <3> QED BY <3>1, <3>2
  <2> QED BY <1>4, <2>1, <2>2 DEF Shown
<1> QED BY <1>3, <1>4

LEMMA ShowingSent ==
  ASSUME RequestsInv, Showing, NoticesGoOn, NEW ms, Sent(ms)
  PROVE  Showing'
<1>1. /\ Len(down) \in Nat /\ Len(ms) \in Nat /\ Len(down') \in Nat
      /\ DOMAIN down = 1..Len(down) /\ DOMAIN ms = 1..Len(ms) /\ DOMAIN down' = 1..Len(down')
      /\ \A i \in DOMAIN down' :
           \/ i \in DOMAIN down /\ down'[i] = down[i]
           \/ linked /\ i > Len(down) /\ i - Len(down) \in DOMAIN ms /\ down'[i] = ms[i - Len(down)]
  BY SentParts
<1>2. /\ viewer'.shown \subseteq viewer.shown /\ generation' = generation /\ Leaves(ms)
      /\ \A j \in DOMAIN ms : Fit(ms[j])
      /\ (\E j \in DOMAIN ms : ms[j].type = "notice") => Len(ms) = 1
      /\ \A r \in replies' : r \in replies \/ (r.generation = generation /\ r.id \in viewer.shown \ viewer'.shown)
  BY DEF Sent, ViewerBeside
<1>3. /\ notices \in [Notices -> {"new", "pending", "response"} \cup Cancellations]
      /\ viewer.shown \in SUBSET Notices /\ replies \in SUBSET [id : Notices, generation : Generations]
      /\ generation \in Nat
  BY RequestConstants DEF RequestsInv, RequestTypes, TableTypes, ViewerTypes, SessionTypes, Generations
<1>4. ASSUME NEW j \in DOMAIN ms, ms[j].type = "notice"
      PROVE  /\ ms[j].id \in Notices /\ notices[ms[j].id] = "new" /\ notices'[ms[j].id] = "pending"
             /\ Cardinality(Pending) < MaxPending /\ Len(ms) = 1
  BY <1>2, <1>3, <1>4 DEF Fit, KindOf
<1>5. ASSUME NEW i \in DOMAIN down', i \notin DOMAIN down, down'[i].type = "notice"
      PROVE  /\ down'[i].id \in Notices /\ notices[down'[i].id] = "new" /\ notices'[down'[i].id] = "pending"
             /\ Cardinality(Pending) < MaxPending /\ i = Len(down) + 1
  <2>1. i > Len(down) /\ i - Len(down) \in DOMAIN ms /\ down'[i] = ms[i - Len(down)]
    BY <1>1, <1>5
  <2>2. /\ down'[i].id \in Notices /\ notices[down'[i].id] = "new" /\ notices'[down'[i].id] = "pending"
        /\ Cardinality(Pending) < MaxPending /\ Len(ms) = 1
    BY <1>4, <1>5, <2>1
  <2> QED BY <1>1, <2>1, <2>2
<1>6. Shown(viewer', down', Len(down')) \subseteq Pending'
  <2> SUFFICES ASSUME NEW n \in Shown(viewer', down', Len(down'))
               PROVE  n \in Pending'
    OBVIOUS
  <2>1. CASE \E j \in DOMAIN ms : ms[j].type = "notice" /\ ms[j].id = n
    BY <1>4, <2>1 DEF Pending
  <2>2. CASE /\ n \in Shown(viewer, down, Len(down))
             /\ linked => \A j \in DOMAIN ms : ms[j] # Message("cancel", n)
    <3>1. n \in Pending
      BY <2>2 DEF Showing
    <3>2. linked
      <4>1. CASE ~linked
        <5>1. down = <<>> /\ viewer = NoViewer /\ Len(down) = 0
          BY <4>1 DEF RequestsInv, Alone
        <5>2. 1..0 = {}
          OBVIOUS
        <5> QED BY <2>2, <5>1, <5>2 DEF Shown, NoViewer
      <4> QED BY <4>1
    <3>3. ASSUME NEW r \in replies, r.id = n, r.generation = generation
          PROVE  FALSE
      <4>1. n \notin viewer.shown /\ \A i \in DOMAIN down : ~Notified(down, n, i)
        BY <3>3 DEF Showing
      <4> QED BY <1>1, <2>2, <4>1 DEF Shown
    <3> QED BY <1>2, <2>2, <3>1, <3>2, <3>3 DEF Leaves
  <2> QED BY <2>1, <2>2, ShownAfterSending
<1>7. ASSUME NEW i \in DOMAIN down', down'[i].type = "notice"
      PROVE  Cardinality(Shown(viewer', down', i - 1)) < MaxPending
  <2>1. CASE i \in DOMAIN down
    <3>1. i - 1 \in 0..Len(down)
      BY <1>1, <2>1
    <3>2. Shown(viewer', down', i - 1) \subseteq Shown(viewer, down, i - 1)
      BY <3>1, ShownAfterSending
    <3>3. Cardinality(Shown(viewer, down, i - 1)) < MaxPending
      BY <1>1, <1>7, <2>1 DEF Showing
    <3>4. Shown(viewer, down, i - 1) \in SUBSET Notices
      BY DEF Shown
    <3> QED BY <3>2, <3>3, <3>4, FewerShown
  <2>2. CASE i \notin DOMAIN down
    <3>1. i = Len(down) + 1 /\ Cardinality(Pending) < MaxPending
      BY <1>5, <1>7, <2>2
    <3>2. i - 1 = Len(down) /\ Len(down) \in 0..Len(down)
      BY <1>1, <3>1
    <3>3. Shown(viewer', down', i - 1) \subseteq Pending
      BY <3>2, ShownAfterSending DEF Showing
    <3>4. Pending \in SUBSET Notices
      BY DEF Pending
    <3> QED BY <3>1, <3>3, <3>4, FewerShown
  <2> QED BY <2>1, <2>2
<1>8. ASSUME NEW i \in DOMAIN down', NEW n \in Notices, Notified(down', n, i)
      PROVE  /\ n \notin viewer'.shown /\ notices'[n] # "new"
             /\ \A j \in DOMAIN down' : Notified(down', n, j) => i = j
  <2>1. CASE i \in DOMAIN down
    <3>1. Notified(down, n, i)
      BY <1>1, <1>8, <2>1 DEF Notified
    <3>2. n \notin viewer.shown /\ notices[n] # "new" /\ \A j \in DOMAIN down : Notified(down, n, j) => i = j
      BY <2>1, <3>1 DEF Showing
    <3>3. \A j \in DOMAIN down' : Notified(down', n, j) => j \in DOMAIN down /\ Notified(down, n, j)
      BY <1>1, <1>5, <3>2 DEF Notified
    <3> QED BY <1>2, <3>2, <3>3 DEF NoticesGoOn
  <2>2. CASE i \notin DOMAIN down
    <3>1. notices[n] = "new" /\ notices'[n] = "pending" /\ i = Len(down) + 1
      BY <1>5, <1>8, <2>2 DEF Notified
    <3>2. n \notin viewer.shown
      BY <3>1 DEF Showing
    <3>3. \A j \in DOMAIN down' : Notified(down', n, j) => j \notin DOMAIN down
      BY <1>1, <3>1 DEF Notified, Showing
    <3>4. \A j \in DOMAIN down' : Notified(down', n, j) => i = j
      BY <1>5, <3>1, <3>3 DEF Notified
    <3> QED BY <1>2, <3>1, <3>2, <3>4
  <2> QED BY <2>1, <2>2
<1>9. \A n \in viewer'.shown : notices'[n] # "new"
  BY <1>2, <1>3 DEF Showing, NoticesGoOn
<1>10. ASSUME NEW r \in replies'
       PROVE  /\ r.generation <= generation' /\ notices'[r.id] # "new"
              /\ r.generation = generation' =>
                   r.id \notin viewer'.shown /\ \A i \in DOMAIN down' : ~Notified(down', r.id, i)
  <2>1. /\ r.generation <= generation /\ r.id \in Notices /\ notices[r.id] # "new"
        /\ r.generation = generation => r.id \notin viewer'.shown /\ \A i \in DOMAIN down : ~Notified(down, r.id, i)
    <3>1. CASE r \in replies
      BY <1>2, <1>3, <3>1 DEF Showing
    <3>2. CASE r.generation = generation /\ r.id \in viewer.shown \ viewer'.shown
      BY <1>3, <3>2 DEF Showing
    <3> QED BY <1>2, <3>1, <3>2
  <2>2. r.generation = generation => \A i \in DOMAIN down' : ~Notified(down', r.id, i)
    BY <1>1, <1>5, <2>1 DEF Notified
  <2> QED BY <1>2, <2>1, <2>2 DEF NoticesGoOn
<1> QED BY <1>6, <1>7, <1>8, <1>9, <1>10 DEF Showing

LEMMA ShowingStep ==
  ASSUME RequestsInv, DownTrue, Showing, NoticesGoOn, Moved
  PROVE  Showing'
<1>1. CASE Cut
  <2>1. /\ replies \in SUBSET [id : Notices, generation : Generations] /\ generation \in Nat
    BY RequestConstants DEF RequestsInv, RequestTypes, ViewerTypes, SessionTypes, Generations
  <2>2. down' = <<>> /\ viewer'.shown = {} /\ Len(down') = 0 /\ DOMAIN down' = {}
    BY <1>1 DEF Cut, NoViewer
  <2>3. Shown(viewer', down', Len(down')) = {}
    <3>1. 1..0 = {}
      OBVIOUS
    <3> QED BY <2>2, <3>1 DEF Shown
  <2>4. ASSUME NEW r \in replies'
        PROVE  r.generation <= generation' /\ notices'[r.id] # "new"
    <3>1. r \in replies /\ generation' \in {generation, generation + 1} /\ r.id \in Notices /\ r.generation \in Nat
      BY <1>1, <2>1, RequestConstants DEF Cut, Generations
    <3>2. r.generation <= generation /\ notices[r.id] # "new"
      BY <3>1 DEF Showing
    <3> QED BY <2>1, <3>1, <3>2 DEF NoticesGoOn
  <2> QED BY <2>2, <2>3, <2>4 DEF Showing
<1>2. CASE Taken
  BY <1>2, ShowingTaken
<1>3. ASSUME NEW ms, Sent(ms)
      PROVE  Showing'
  BY <1>3, ShowingSent
<1> QED BY <1>1, <1>2, <1>3 DEF Moved

-----------------------------------------------------------------------------
(* Everything the Viewer is sent is acceptable                                  *)

ConsistentInv == AnswersInv /\ Granting /\ Opening /\ Showing

LEMMA ConsistentStep ==
  ASSUME ConsistentInv, [Next]_vars
  PROVE  ConsistentInv'
<1>1. AnswersInv /\ RequestsInv /\ RequestTypes /\ ChainInv /\ DownTrue /\ Queueing /\ Granting /\ Opening /\ Showing
  BY DEF ConsistentInv, AnswersInv, RequestsInv
<1>2. CASE Next
  <2>1. AnswersInv' /\ Moved /\ QueueMoved /\ NoticesGoOn
    BY <1>1, <1>2, AnswersStep, QueueMoves, NoticeStep
  <2> QED BY <1>1, <2>1, GrantedStep, OpeningStep, ShowingStep DEF ConsistentInv
<1>3. CASE UNCHANGED vars
  <2>1. AnswersInv'
    BY <1>1, <1>3, AnswersStays
  <2>2. Granting' /\ Opening'
    BY <1>1, <1>3 DEF Granting, Greets, Opening, OpenAt, vars, sessionVars, chainVars, coreVars, viewerVars
  <2>3. Showing'
    BY <1>1, <1>3 DEF Showing, Shown, Notified, Cancelled, Pending, vars, sessionVars, coreVars, viewerVars
  <2> QED BY <2>1, <2>2, <2>3 DEF ConsistentInv
<1> QED BY <1>2, <1>3

LEMMA ConsistentInit == Init => ConsistentInv
<1> SUFFICES ASSUME Init
             PROVE  ConsistentInv
  OBVIOUS
<1>1. Granting /\ Opening
  BY DEF Init, Granting, Opening, NoViewer
<1>2. Showing
  <2>1. Shown(viewer, down, Len(down)) = {}
    <3>1. 1..0 = {} /\ Len(down) = 0 /\ viewer.shown = {}
      BY DEF Init, NoViewer
    <3> QED BY <3>1 DEF Shown
  <2>2. DOMAIN down = {} /\ viewer.shown = {} /\ replies = {}
    BY DEF Init, NoViewer
  <2> QED BY <2>1, <2>2 DEF Showing
<1> QED BY <1>1, <1>2, AnswersInit DEF ConsistentInv

LEMMA Acceptable == ConsistentInv => Consistent
<1> SUFFICES ASSUME ConsistentInv
             PROVE  Consistent
  OBVIOUS
<1>1. /\ AnswersInv /\ RequestTypes /\ ViewerTypes /\ DownTrue /\ Granting /\ Opening /\ Showing /\ ResolvedMeansApplied
  BY DEF ConsistentInv, AnswersInv, RequestsInv, RequestTypes
<1>2. ASSUME down # <<>>, Unacceptable(Head(down))
      PROVE  FALSE
  <2> DEFINE m == down[1]
  <2>1. 1 \in DOMAIN down /\ Head(down) = m /\ DOMAIN down = 1..Len(down) /\ Len(down) \in Nat
    BY <1>1, <1>2, DownHead DEF ViewerTypes
  <2>2. KindOf(m)
    BY <1>1, <2>1 DEF DownTrue, Truthful
  <2>3. m.type \in Needing => viewer.granted = "yes"
    <3>1. \A k \in DOMAIN down : ~(k < 1)
      BY <2>1
    <3> QED BY <1>1, <2>1, <3>1 DEF Granting
  <2>4. m.type # "openRequest" \/ m.id \notin viewer.opens
    BY <1>1, <2>1, <2>2 DEF KindOf, Opening, OpenAt
  <2>5. ASSUME m.type = "notice"
        PROVE  m.id \notin viewer.shown /\ Cardinality(viewer.shown) < MaxPending
    <3>1. m.id \in Notices /\ Notified(down, m.id, 1)
      BY <2>2, <2>5 DEF KindOf, Notified
    <3>2. m.id \notin viewer.shown
      BY <1>1, <2>1, <3>1 DEF Showing
    <3>3. Shown(viewer, down, 1 - 1) = viewer.shown
      <4>1. 1..(1 - 1) = {}
        OBVIOUS
      <4> QED BY <1>1, <4>1 DEF Shown, ViewerTypes
    <3>4. Cardinality(Shown(viewer, down, 1 - 1)) < MaxPending
      BY <1>1, <2>1, <2>5 DEF Showing
    <3> QED BY <3>2, <3>3, <3>4
  <2>6. viewer.shown \in SUBSET Notices
    BY <1>1 DEF ViewerTypes
  <2>7. Cardinality(viewer.shown) \in Nat
    BY <2>6, NoticeSets, FS_CardinalityType
  <2> QED BY <1>2, <2>1, <2>3, <2>4, <2>5, <2>7, RequestConstants DEF Unacceptable, Needing
<1> QED BY <1>1, <1>2, RequestParts DEF Consistent, PromptsAreAcceptable

\* Core never sends what the Viewer answers by failing (a notice without the
\* capability, one too many or one it shows, a page it is asked about, a success
\* after the capability is gone), whatever crosses what; and configureQuality()
\* succeeds only for a configuration that Extension has applied.
THEOREM RequestsConsistent == Spec => []Consistent
<1>1. Init => ConsistentInv
  BY ConsistentInit
<1>2. ConsistentInv /\ [Next]_vars => ConsistentInv'
  BY ConsistentStep
<1>3. ConsistentInv => Consistent
  BY Acceptable
<1> QED BY <1>1, <1>2, <1>3, PTL DEF Spec
=============================================================================
