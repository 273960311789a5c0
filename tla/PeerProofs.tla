------------------------------ MODULE PeerProofs ------------------------------
(***************************************************************************)
(* The producer implements the contract that sessions are checked against  *)
(* (Peer), for every set of requests and any consumer: each of its steps   *)
(* is a step of the contract or one that the contract does not see. The    *)
(* replies a task has queued are still to come for Peer; that they wait in *)
(* the order in which Peer would make them is what the invariant says.     *)
(***************************************************************************)
EXTENDS ServingProofs, FiniteSetTheorems

-----------------------------------------------------------------------------
(* The replies that wait                                                   *)

IsResponse(msg) == msg.tag \in ResponseTags

\* The place of a response among those to its request.
Rank(msg) == IF msg.tag = "item" THEN msg.item
             ELSE IF msg.tag = "closed" THEN MaxItems + 1 ELSE 0

\* The responses to a request wait in the order in which its task makes them,
\* and there is one announcement at most.
InOrder(s) ==
  \A i, j \in 1..Len(s) : i < j =>
    /\ IsResponse(s[i]) \/ IsResponse(s[j])
    /\ IsResponse(s[i]) /\ IsResponse(s[j]) /\ s[i].id = s[j].id
         => Rank(s[i]) < Rank(s[j])

\* The responses to r that wait.
LineOf(r) == {msg \in InLine : IsResponse(msg) /\ msg.id = r}

\* A response that waits is one its task has come to.
Placed(r, msg) ==
  /\ msg.tag = "value" => r \in ValueRequests /\ work[r] \in {"retiring", "done"}
  /\ msg.tag \in {"open", "item"} =>
       r \in StreamRequests /\ work[r] \in {"streaming", "retiring", "done"}
  /\ msg.tag = "item" => msg.item \in 1..yielded[r]
  /\ msg.tag = "closed" => r \in StreamRequests /\ work[r] \in {"retiring", "done"}

\* The items that wait are the last ones.
ItemsLast(r) ==
  \E k \in 0..yielded[r] : /\ SentItems(r) = 1..k
                           /\ OpenMsg(r) \in LineOf(r) => k = 0

\* Where the task of r can be.
TaskKind(r) ==
  /\ work[r] = "streaming" => r \in StreamRequests
  /\ work[r] \in {"idle", "running"} => yielded[r] = 0
  /\ work[r] # "idle" => r \in aborters \cup aborted

\* A task that will see its abort has been told to stop.
ToldToStop(r) ==
  work[r] \in {"running", "streaming"} /\ (r \in aborted \/ loop # "running") => r \in told

\* A stream that ended without a Closed was told to.
CutShort(r) ==
  /\ Flushing(r) => r \in StreamRequests /\ work[r] \in {"streaming", "retiring", "done"}
  /\ /\ work[r] \in {"retiring", "done"} /\ r \in StreamRequests
     /\ ClosedMsg(r) \notin LineOf(r)
     /\ LineOf(r) # {} \/ Flushing(r)
     => r \in told

Kept(r) == /\ \A msg \in LineOf(r) : Placed(r, msg)
           /\ ItemsLast(r) /\ TaskKind(r) /\ ToldToStop(r) /\ CutShort(r)

\* The reply task has one message in hand.
OneInHand == replyTask \in {"sending", "flushing"} => replyHand = <<Head(replyHand)>>

\* A task whose removal is on its way has completed.
RemovedDone == \A i \in 1..Len(removals) : work[removals[i]] = "done"

Keeping ==
  /\ OneInHand /\ RemovedDone
  /\ InOrder(Unsent)
  /\ loop = "running" => \A msg \in InLine : IsResponse(msg)
  /\ \A r \in Requests : Kept(r)

\* What waits for the transport are messages to the consumer.
LEMMA LineType ==
  ASSUME ProducerOK
  PROVE  /\ Unsent \in Seq(DownMessages)
         /\ InLine \subseteq DownMessages
         /\ InLine = {Unsent[i] : i \in 1..Len(Unsent)}
<1>1. Unsent \in Seq(DownMessages)
  BY EmptySeq, ConcatProperties DEF Unsent, ProducerOK, ProducerTypeOK, ReplyTypeOK
<1>2. DOMAIN Unsent = 1..Len(Unsent) /\ \A i \in 1..Len(Unsent) : Unsent[i] \in DownMessages
  BY <1>1, LenProperties, ElementOfSeq
<1> QED  BY <1>1, <1>2 DEF InLine, ToSet

\* A reply is queued behind those that wait.
LEMMA LineGrows ==
  ASSUME Unsent \in Seq(DownMessages), NEW msg \in DownMessages,
         Unsent' = Append(Unsent, msg), InOrder(Unsent),
         \A m \in InLine :
           /\ IsResponse(m) \/ IsResponse(msg)
           /\ IsResponse(m) /\ IsResponse(msg) /\ m.id = msg.id => Rank(m) < Rank(msg)
  PROVE  InLine' = InLine \cup {msg} /\ InOrder(Unsent)'
<1>1. /\ Len(Unsent) \in Nat
      /\ DOMAIN Unsent = 1..Len(Unsent)
      /\ Unsent' \in Seq(DownMessages)
      /\ Len(Unsent') = Len(Unsent) + 1
      /\ \A i \in 1..Len(Unsent) : Unsent'[i] = Unsent[i]
      /\ Unsent'[Len(Unsent) + 1] = msg
  BY AppendProperties, LenProperties
<1>2. DOMAIN Unsent' = 1..Len(Unsent')
  BY <1>1, LenProperties
<1>3. 1..Len(Unsent') = 1..Len(Unsent) \cup {Len(Unsent) + 1}
  BY <1>1
<1>4. InLine' = InLine \cup {msg}
  BY <1>1, <1>2, <1>3 DEF InLine, ToSet
<1>5. ASSUME NEW i \in 1..Len(Unsent'), NEW j \in 1..Len(Unsent'), i < j
      PROVE  /\ IsResponse(Unsent'[i]) \/ IsResponse(Unsent'[j])
             /\ IsResponse(Unsent'[i]) /\ IsResponse(Unsent'[j])
                  /\ Unsent'[i].id = Unsent'[j].id => Rank(Unsent'[i]) < Rank(Unsent'[j])
  <2>1. i \in 1..Len(Unsent) /\ Unsent'[i] = Unsent[i] /\ Unsent[i] \in InLine
    BY <1>1, <1>3, <1>5 DEF InLine, ToSet
  <2>2. CASE j \in 1..Len(Unsent)
    BY <1>1, <1>5, <2>1, <2>2 DEF InOrder
  <2>3. CASE j = Len(Unsent) + 1
    BY <1>1, <2>1, <2>3
  <2> QED  BY <1>3, <2>2, <2>3
<1> QED  BY <1>4, <1>5 DEF InOrder

\* The first of the replies that wait goes, to the transport or for ever.
LEMMA LineShrinks ==
  ASSUME Unsent \in Seq(DownMessages), Unsent # <<>>, Unsent' = Tail(Unsent),
         InOrder(Unsent)
  PROVE  LET msg == Head(Unsent)
         IN  /\ msg \in InLine /\ InLine' = InLine \ {msg} /\ InOrder(Unsent)'
             /\ \A m \in InLine' :
                  /\ IsResponse(msg) \/ IsResponse(m)
                  /\ IsResponse(msg) /\ IsResponse(m) /\ msg.id = m.id
                       => Rank(msg) < Rank(m)
<1> DEFINE msg == Head(Unsent)
<1>1. /\ Len(Unsent) \in Nat \ {0}
      /\ DOMAIN Unsent = 1..Len(Unsent)
      /\ Unsent' \in Seq(DownMessages)
      /\ Len(Unsent') = Len(Unsent) - 1
      /\ \A i \in 1..Len(Unsent') : Unsent'[i] = Unsent[i + 1]
      /\ msg = Unsent[1]
  BY HeadTailProperties, LenProperties, EmptySeq
<1>2. DOMAIN Unsent' = 1..Len(Unsent')
  BY <1>1, LenProperties
<1>3. /\ 1 \in 1..Len(Unsent)
      /\ \A i \in 1..Len(Unsent') : i + 1 \in 1..Len(Unsent) /\ 1 < i + 1
      /\ \A i \in 1..Len(Unsent) : i = 1 \/ (i - 1 \in 1..Len(Unsent') /\ (i - 1) + 1 = i)
  BY <1>1
<1>4. msg \in InLine
  BY <1>1, <1>3 DEF InLine, ToSet
<1>5. ASSUME NEW i \in 1..Len(Unsent')
      PROVE  /\ IsResponse(msg) \/ IsResponse(Unsent'[i])
             /\ IsResponse(msg) /\ IsResponse(Unsent'[i]) /\ msg.id = Unsent'[i].id
                  => Rank(msg) < Rank(Unsent'[i])
  BY <1>1, <1>3 DEF InOrder
<1>6. Rank(msg) \in Int
  <2>1. msg \in DownMessages
    BY <1>1, <1>3, ElementOfSeq
  <2>2. msg.tag = "item" => msg.item \in Nat
    BY <2>1, ResponseFields DEF ResponseTags
  <2> QED  BY <2>2, TransportAssumption DEF Rank
<1>7. \A i \in 1..Len(Unsent') : Unsent'[i] # msg
  BY <1>5, <1>6
<1>8. InLine' = InLine \ {msg}
  <2>1. \A m \in InLine' : m \in InLine \ {msg}
    BY <1>1, <1>2, <1>3, <1>7 DEF InLine, ToSet
  <2>2. \A m \in InLine \ {msg} : m \in InLine'
    <3> SUFFICES ASSUME NEW m \in InLine, m # msg PROVE m \in InLine'
      OBVIOUS
    <3>1. PICK i \in 1..Len(Unsent) : m = Unsent[i]
      BY <1>1 DEF InLine, ToSet
    <3>2. i # 1
      BY <1>1, <3>1
    <3>3. i - 1 \in 1..Len(Unsent') /\ Unsent'[i - 1] = m
      BY <1>1, <1>3, <3>1, <3>2
    <3> QED  BY <1>2, <3>3 DEF InLine, ToSet
  <2> QED  BY <2>1, <2>2
<1>9. InOrder(Unsent)'
  <2> SUFFICES ASSUME NEW i \in 1..Len(Unsent'), NEW j \in 1..Len(Unsent'), i < j
               PROVE  /\ IsResponse(Unsent'[i]) \/ IsResponse(Unsent'[j])
                      /\ IsResponse(Unsent'[i]) /\ IsResponse(Unsent'[j])
                           /\ Unsent'[i].id = Unsent'[j].id
                           => Rank(Unsent'[i]) < Rank(Unsent'[j])
    BY DEF InOrder
  <2>1. /\ i + 1 \in 1..Len(Unsent) /\ j + 1 \in 1..Len(Unsent) /\ i + 1 < j + 1
        /\ Unsent'[i] = Unsent[i + 1] /\ Unsent'[j] = Unsent[j + 1]
    BY <1>1, <1>3
  <2> QED  BY <2>1 DEF InOrder
<1>10. \A m \in InLine' : \E i \in 1..Len(Unsent') : m = Unsent'[i]
  BY <1>2 DEF InLine, ToSet
<1> QED  BY <1>4, <1>5, <1>8, <1>9, <1>10

-----------------------------------------------------------------------------
(* What Peer sees of one request                                           *)

\* A message is what its tag says.
LEMMA MessageIs ==
  ASSUME NEW msg \in DownMessages
  PROVE  /\ msg.tag = "value"  => msg.id \in Requests /\ msg = ValueMsg(msg.id)
         /\ msg.tag = "open"   => msg.id \in Requests /\ msg = OpenMsg(msg.id)
         /\ msg.tag = "closed" => msg.id \in Requests /\ msg = ClosedMsg(msg.id)
         /\ msg.tag = "item"   => /\ msg.id \in Requests /\ msg.item \in Nat
                                  /\ msg = ItemMsg(msg.id, msg.item)
         /\ ~IsResponse(msg) => msg.tag \in StopTags /\ msg = StopMsg(msg.tag)
BY DEF DownMessages, ResponseTags, StopTags, IsResponse,
       ValueMsg, OpenMsg, ClosedMsg, ItemMsg, StopMsg

\* A message of a task has its request's id, and a tag of its own.
LEMMA Tags ==
  ASSUME NEW r \in Requests
  PROVE  /\ ValueMsg(r).tag = "value"   /\ ValueMsg(r).id = r
         /\ OpenMsg(r).tag = "open"     /\ OpenMsg(r).id = r
         /\ ClosedMsg(r).tag = "closed" /\ ClosedMsg(r).id = r
         /\ \A n \in Nat : /\ ItemMsg(r, n).tag = "item" /\ ItemMsg(r, n).id = r
                           /\ ItemMsg(r, n).item = n /\ IsResponse(ItemMsg(r, n))
         /\ IsResponse(ValueMsg(r)) /\ IsResponse(OpenMsg(r)) /\ IsResponse(ClosedMsg(r))
BY DEF ValueMsg, OpenMsg, ClosedMsg, ItemMsg, IsResponse, ResponseTags

\* What Peer sees of a request is in the responses to it.
LEMMA InView ==
  ASSUME NEW r \in Requests
  PROVE  /\ ValueMsg(r) \in InLine <=> ValueMsg(r) \in LineOf(r)
         /\ OpenMsg(r) \in InLine <=> OpenMsg(r) \in LineOf(r)
         /\ ClosedMsg(r) \in InLine <=> ClosedMsg(r) \in LineOf(r)
         /\ \A n \in Nat : ItemMsg(r, n) \in InLine <=> ItemMsg(r, n) \in LineOf(r)
BY Tags DEF LineOf

\* A request that a step leaves alone is as it was.
LEMMA Untouched ==
  ASSUME NEW q \in Requests, yielded[q] \in Nat,
         LineOf(q)' = LineOf(q), Flushing(q)' <=> Flushing(q),
         work'[q] = work[q], yielded'[q] = yielded[q]
  PROVE  PeerState(q)' = PeerState(q) /\ SentItems(q)' = SentItems(q)
<1>1. \A n \in 1..yielded[q] : n \in Nat
  OBVIOUS
<1>2. /\ ValueMsg(q) \in InLine' <=> ValueMsg(q) \in LineOf(q)'
      /\ OpenMsg(q) \in InLine' <=> OpenMsg(q) \in LineOf(q)'
      /\ ClosedMsg(q) \in InLine' <=> ClosedMsg(q) \in LineOf(q)'
      /\ \A n \in Nat : ItemMsg(q, n) \in InLine' <=> ItemMsg(q, n) \in LineOf(q)'
  BY Tags DEF LineOf
<1>3. Beginning(q)' <=> Beginning(q)
  BY <1>2, InView DEF Beginning
<1>4. Continuing(q)' <=> Continuing(q)
  BY <1>1, <1>2, InView DEF Continuing
<1>5. PeerState(q)' = PeerState(q)
  BY <1>3, <1>4 DEF PeerState
<1>6. SentItems(q)' = SentItems(q)
  BY <1>1, <1>2, InView DEF SentItems
<1> QED  BY <1>5, <1>6

\* And it is kept, if whoever may see an abort has been told.
LEMMA UntouchedKept ==
  ASSUME NEW q \in Requests, yielded[q] \in Nat, Kept(q),
         LineOf(q)' = LineOf(q), Flushing(q)' <=> Flushing(q),
         work'[q] = work[q], yielded'[q] = yielded[q],
         aborters \cup aborted \subseteq aborters' \cup aborted',
         told \subseteq told', ToldToStop(q)'
  PROVE  Kept(q)'
<1>1. SentItems(q)' = SentItems(q)
  BY Untouched
<1>2. ItemsLast(q)'
  BY <1>1 DEF Kept, ItemsLast
<1>3. \A msg \in LineOf(q)' : Placed(q, msg)'
  BY DEF Kept, Placed
<1>4. TaskKind(q)' /\ CutShort(q)'
  BY DEF Kept, TaskKind, CutShort
<1> QED  BY <1>2, <1>3, <1>4 DEF Kept

\* What the invariant says of the types of a request.
LEMMA RequestType ==
  ASSUME ProducerOK, NEW r \in Requests
  PROVE  /\ work[r] \in {"idle", "running", "streaming", "retiring", "done"}
         /\ yielded[r] \in 0..MaxItems /\ yielded[r] \in Nat
         /\ Unsent \in Seq(DownMessages)
         /\ LineOf(r) \subseteq DownMessages
<1>1. yielded[r] \in 0..MaxItems
  BY DEF ProducerOK, ProducerTypeOK, WorkTypeOK
<1> QED
  BY <1>1, LineType, TransportAssumption
     DEF ProducerOK, ProducerTypeOK, WorkTypeOK, LineOf

-----------------------------------------------------------------------------
(* Steps that leave the replies alone                                      *)

\* What the contract has for the producer itself, and for its surroundings too.
OwnStep == [Contract!PeerOwn]_<<Contract!peerVars, Contract!wire>>
ContractStep ==
  [Contract!PeerNext \/ Contract!PeerEnvironment]_<<Contract!peerVars, Contract!wire>>

LEMMA OwnIsContract ==
  ASSUME OwnStep PROVE ContractStep
BY DEF OwnStep, ContractStep, Contract!PeerNext

\* What is left of the invariant when neither the tasks nor the replies change.
Still == /\ UNCHANGED workVars /\ Unsent' = Unsent
         /\ \A q \in Requests : Flushing(q)' <=> Flushing(q)
         /\ OneInHand' /\ RemovedDone'
         /\ aborters \cup aborted \subseteq aborters' \cup aborted'
         /\ told \subseteq told' /\ \A q \in Requests : ToldToStop(q)'
         /\ loop' = "running" => loop = "running"

\* So it is while the producer does nothing.
LEMMA StillThere ==
  ASSUME Keeping, UNCHANGED <<producerVars, told>>
  PROVE  Still
BY DEF Still, Unsent, Flushing, OneInHand, RemovedDone, ToldToStop, Keeping, Kept,
       producerVars, loopVars, workVars, replyVars

\* Such a step keeps the rest, and Peer sees nothing of the tasks.
LEMMA StillKept ==
  ASSUME ProducerOK, Keeping, Still
  PROVE  Keeping' /\ PeerMap' = PeerMap /\ SentMap' = SentMap /\ Notice' = Notice
<1>1. InLine' = InLine /\ InOrder(Unsent)' /\ Notice' = Notice
  BY DEF Still, InLine, Notice, Keeping, InOrder
<1>2. ASSUME NEW q \in Requests
      PROVE  Kept(q)' /\ PeerState(q)' = PeerState(q) /\ SentItems(q)' = SentItems(q)
  <2>1. LineOf(q)' = LineOf(q)
    BY <1>1 DEF LineOf
  <2>2. yielded[q] \in Nat /\ work'[q] = work[q] /\ yielded'[q] = yielded[q]
    BY RequestType DEF Still, workVars
  <2>3. Kept(q)'
    BY <2>1, <2>2, UntouchedKept DEF Still, Keeping
  <2> QED  BY <2>1, <2>2, <2>3, Untouched DEF Still
<1>3. Keeping'
  BY <1>1, <1>2 DEF Keeping, Still
<1> QED  BY <1>1, <1>2, <1>3 DEF PeerMap, SentMap

\* A step that Peer does not see.
LEMMA Unseen ==
  ASSUME PeerMap' = PeerMap, SentMap' = SentMap, Notice' = Notice,
         told' = told, loop' = "running" <=> loop = "running", UNCHANGED wire
  PROVE  OwnStep
BY DEF OwnStep, Contract!peerVars, Contract!wire, wire

\* Only a step that leaves the loop or reads an abort tells tasks to stop.
LEMMA NobodyTold ==
  ASSUME ProducerOK, Tell, UNCHANGED up, loop = "running" => loop' # "draining"
  PROVE  told' = told
<1>1. up \in Seq(UpMessages)
  BY DEF ProducerOK, WireTypeOK
<1>2. up # <<>> => Tail(up) # up
  BY <1>1, HeadTailProperties, LenProperties
<1>3. ~ProducerReceive
  BY <1>2 DEF ProducerReceive
<1> QED  BY <1>3 DEF Tell

\* The loop, when it neither starts a task nor stops.
LEMMA LoopUnseen ==
  ASSUME ProducerOK, Keeping, Tell,
         \/ RemoveAborter
         \/ ProducerTimeoutArm /\ aborters # {}
         \/ DrainAborters
         \/ ProducerTimerElapses
  PROVE  Keeping' /\ OwnStep
<1>1. told' = told
  BY NobodyTold
     DEF RemoveAborter, ProducerTimeoutArm, DrainAborters, ProducerTimerElapses, wire
<1>2. /\ UNCHANGED workVars /\ Unsent' = Unsent /\ UNCHANGED wire /\ UNCHANGED replyVars
      /\ loop' = "running" <=> loop = "running"
      /\ aborters \cup aborted = aborters' \cup aborted'
  BY DEF RemoveAborter, ProducerTimeoutArm, DrainAborters, ProducerTimerElapses, Unsent,
         replyVars
<1>3. /\ \A q \in Requests : Flushing(q)' <=> Flushing(q)
      /\ OneInHand'
  BY <1>2 DEF Flushing, OneInHand, replyVars, Keeping
<1>4. RemovedDone' /\ \A q \in Requests : ToldToStop(q)'
  <2>1. CASE RemoveAborter
    <3>1. removals \in Seq(Requests) /\ removals # <<>> /\ removals' = Tail(removals)
      BY <2>1 DEF RemoveAborter, ProducerOK, ProducerTypeOK, LoopTypeOK
    <3>2. /\ Len(removals) \in Nat \ {0} /\ Len(removals') = Len(removals) - 1
          /\ \A i \in 1..Len(removals') : removals'[i] = removals[i + 1]
          /\ Head(removals) = removals[1]
      BY <3>1, HeadTailProperties, LenProperties, EmptySeq
    <3>3. /\ 1 \in 1..Len(removals)
          /\ \A i \in 1..Len(removals') : i + 1 \in 1..Len(removals)
      BY <3>2
    <3>4. RemovedDone' /\ work[Head(removals)] = "done"
      BY <1>2, <3>2, <3>3 DEF Keeping, RemovedDone, workVars
    <3>5. ASSUME NEW q \in Requests PROVE ToldToStop(q)'
      BY <1>1, <1>2, <2>1, <3>4 DEF RemoveAborter, Keeping, Kept, ToldToStop, workVars
    <3> QED  BY <3>4, <3>5
  <2>2. CASE DrainAborters
    <3>1. Len(<<>>) = 0
      OBVIOUS
    <3>2. RemovedDone'
      BY <2>2, <3>1 DEF DrainAborters, RemovedDone
    <3>3. ASSUME NEW q \in Requests PROVE ToldToStop(q)'
      BY <1>1, <1>2, <2>2 DEF DrainAborters, Keeping, Kept, ToldToStop, workVars
    <3> QED  BY <3>2, <3>3
  <2>3. CASE (ProducerTimeoutArm /\ aborters # {}) \/ ProducerTimerElapses
    <3>1. UNCHANGED <<loop, aborted, removals>>
      BY <2>3 DEF ProducerTimeoutArm, ProducerTimerElapses
    <3>2. RemovedDone'
      BY <1>2, <3>1 DEF RemovedDone, Keeping, workVars
    <3>3. ASSUME NEW q \in Requests PROVE ToldToStop(q)'
      BY <1>1, <1>2, <3>1 DEF Keeping, Kept, ToldToStop, workVars
    <3> QED  BY <3>2, <3>3
  <2> QED  BY <2>1, <2>2, <2>3
<1>5. Still
  BY <1>1, <1>2, <1>3, <1>4 DEF Still
<1> QED  BY <1>1, <1>2, <1>5, StillKept, Unseen

\* The consumer and the network only touch the wire.
LEMMA ClientSeen ==
  ASSUME ProducerOK, ClientOK, Keeping, ClientNext, UNCHANGED <<producerVars, told>>
  PROVE  Keeping' /\ ContractStep
<1>1. Still
  BY StillThere
<1>2. Keeping' /\ Contract!peerVars' = Contract!peerVars
  BY <1>1, StillKept DEF Contract!peerVars, producerVars, loopVars
<1>3. CASE ClientRead \/ ClientHangup
  BY <1>2, <1>3
     DEF ContractStep, Contract!PeerEnvironment, ClientRead, ClientHangup
<1>4. CASE \E r \in Requests : ClientRequest(r) \/ ClientAbort(r)
  <2>1. PICK r \in Requests : ClientRequest(r) \/ ClientAbort(r)
    BY <1>4
  <2>2. PICK msg \in UpMessages : ClientSend(msg)
    BY <2>1, MessageTypes DEF ClientRequest, ClientAbort
  <2> QED
    BY <1>2, <2>2
       DEF ContractStep, Contract!PeerEnvironment, ClientSend, Contract!UpMessages, UpMessages
<1>5. CASE Disconnect
  BY <1>2, <1>5 DEF ContractStep, Contract!PeerNext, Contract!Disconnect, Disconnect
<1> QED  BY <1>2, <1>3, <1>4, <1>5 DEF ClientNext

-----------------------------------------------------------------------------
(* Steps of the loop that Peer sees                                        *)

\* Peer sees one task move.
LEMMA OneMoves ==
  ASSUME NEW r \in Requests,
         \A q \in Requests \ {r} : PeerState(q)' = PeerState(q) /\ SentItems(q)' = SentItems(q)
  PROVE  /\ PeerMap' = [PeerMap EXCEPT ![r] = PeerState(r)']
         /\ SentMap' = [SentMap EXCEPT ![r] = Cardinality(SentItems(r)')]
         /\ SentItems(r)' = SentItems(r) => SentMap' = SentMap
BY DEF PeerMap, SentMap

\* A task that has not come to its first reply has none that waits.
LEMMA NothingYet ==
  ASSUME ProducerOK, Keeping, NEW r \in Requests, work[r] \in {"idle", "running"}
  PROVE  /\ LineOf(r) = {} /\ ~Beginning(r) /\ ~Continuing(r) /\ ~Flushing(r)
         /\ yielded[r] = 0 /\ SentItems(r) = {}
<1>1. Kept(r)
  BY DEF Keeping
<1>2. LineOf(r) = {}
  <2> SUFFICES ASSUME NEW msg \in LineOf(r) PROVE FALSE
    OBVIOUS
  <2>1. Placed(r, msg) /\ IsResponse(msg)
    BY <1>1 DEF Kept, LineOf
  <2> QED  BY <2>1 DEF Placed, IsResponse, ResponseTags
<1>3. ~Flushing(r) /\ yielded[r] = 0
  BY <1>1 DEF Kept, CutShort, TaskKind
<1>4. ~Beginning(r) /\ ~Continuing(r) /\ SentItems(r) = {}
  BY <1>2, <1>3, InView DEF Beginning, Continuing, SentItems
<1> QED  BY <1>2, <1>3, <1>4

\* A task that runs is one that Peer may tell to abort.
LEMMA RunningBusy ==
  ASSUME ProducerOK, Keeping, NEW r \in Requests, work[r] \in {"running", "streaming"}
  PROVE  r \in Busy
BY NothingYet DEF Busy, PeerState

\* A request is read: its task starts.
LEMMA RequestSeen ==
  ASSUME ProducerOK, Keeping, Tell, ProducerReceive, IsRequest(Head(up))
  PROVE  Keeping' /\ OwnStep
<1>1. PICK r \in Requests : r = Head(up).id /\ r \notin aborters \cup aborted
  <2>1. up \in Seq(UpMessages) /\ up # <<>>
    BY DEF ProducerReceive, ProducerOK, WireTypeOK
  <2>2. Len(up) \in Nat \ {0} /\ Head(up) = up[1] /\ Head(up) \in UpMessages
    BY <2>1, HeadTailProperties, LenProperties, EmptySeq
  <2>3. 1 \in 1..Len(up)
    BY <2>2
  <2> QED  BY <2>2, <2>3 DEF ProducerOK, Bookkeeping, RequestedOnce, UpMessages
<1>2. /\ loop = "running" /\ up # <<>> /\ up' = Tail(up)
      /\ aborters' = aborters \cup {r} /\ aborted' = aborted
      /\ work' = [work EXCEPT ![r] = "running"]
      /\ UNCHANGED <<loop, removals, yielded, replies, replyVars, down, connected>>
  BY <1>1 DEF ProducerReceive, StartTask, IsRequest
<1>3. told' = told
  BY <1>2 DEF Tell, AbortRead, IsRequest
<1>4. Unsent' = Unsent /\ InLine' = InLine /\ Notice' = Notice
      /\ \A q \in Requests : LineOf(q)' = LineOf(q) /\ (Flushing(q)' <=> Flushing(q))
  BY <1>2 DEF Unsent, InLine, Notice, LineOf, Flushing, replyVars
<1>5. work[r] = "idle"
  BY <1>1, RequestType DEF Keeping, Kept, TaskKind
<1>6. /\ LineOf(r) = {} /\ ~Beginning(r) /\ ~Continuing(r) /\ ~Flushing(r)
      /\ yielded[r] = 0 /\ SentItems(r) = {}
  BY <1>1, <1>5, NothingYet
<1>7. /\ work'[r] = "running" /\ yielded'[r] = 0
      /\ \A q \in Requests \ {r} : work'[q] = work[q] /\ yielded'[q] = yielded[q]
  BY <1>1, <1>2, <1>6 DEF ProducerOK, ProducerTypeOK, WorkTypeOK
<1>8. ASSUME NEW q \in Requests \ {r}
      PROVE  Kept(q)' /\ PeerState(q)' = PeerState(q) /\ SentItems(q)' = SentItems(q)
  <2>1. ToldToStop(q)'
    BY <1>2, <1>3, <1>7 DEF Keeping, Kept, ToldToStop
  <2>2. Kept(q)'
    BY <1>2, <1>3, <1>4, <1>7, <2>1, RequestType, UntouchedKept DEF Keeping
  <2> QED  BY <1>4, <1>7, <2>2, RequestType, Untouched
<1>9. PeerState(r)' = "serving" /\ SentItems(r)' = SentItems(r)
  <2>1. ~Beginning(r)' /\ ~Continuing(r)'
    BY <1>4, <1>6, <1>7 DEF Beginning, Continuing
  <2> QED  BY <1>6, <1>7, <2>1 DEF PeerState, SentItems
<1>10. Kept(r)'
  <2>1. ItemsLast(r)'
    <3>1. 1..0 = {} /\ 0 \in 0..0
      OBVIOUS
    <3> QED  BY <1>6, <1>7, <1>9, <3>1 DEF ItemsLast
  <2> QED
    BY <1>1, <1>2, <1>4, <1>6, <1>7, <2>1
       DEF Kept, TaskKind, ToldToStop, CutShort
<1>11. RemovedDone'
  <2>1. \A i \in 1..Len(removals) : removals[i] \in Requests
    BY ElementOfSeq DEF ProducerOK, ProducerTypeOK, LoopTypeOK
  <2> QED  BY <1>2, <1>5, <1>7, <2>1 DEF Keeping, RemovedDone
<1>12. Keeping'
  BY <1>2, <1>4, <1>8, <1>10, <1>11 DEF Keeping, OneInHand, InOrder, replyVars
<1>13. /\ PeerMap' = [PeerMap EXCEPT ![r] = "serving"]
       /\ SentMap' = SentMap
  BY <1>1, <1>8, <1>9, OneMoves
<1>14. Contract!PeerReceive
  BY <1>1, <1>2, <1>3, <1>4, <1>13 DEF Contract!PeerReceive, IsRequest
<1> QED  BY <1>12, <1>14 DEF OwnStep, Contract!PeerOwn

\* An abort is read: a task that is busy is told.
LEMMA AbortSeen ==
  ASSUME ProducerOK, Keeping, Tell, ProducerReceive, ~IsRequest(Head(up))
  PROVE  Keeping' /\ OwnStep
<1> DEFINE r == Head(up).id
<1>1. /\ r \in Requests /\ Head(up).payload = "abort"
  <2>1. Head(up) \in UpMessages
    BY FrontType DEF ProducerReceive, ProducerOK, WireTypeOK
  <2> QED  BY <2>1 DEF UpMessages, IsRequest
<1>2. /\ loop = "running" /\ up # <<>> /\ up' = Tail(up)
      /\ aborted' = aborted \cup ({r} \cap aborters) /\ aborters' = aborters \ {r}
      /\ UNCHANGED <<loop, removals, workVars, replies, replyVars, down, connected>>
  BY DEF ProducerReceive, AbortRequest, IsRequest, workVars
<1>3. told' = told \cup ({r} \cap Busy)
  BY <1>1, <1>2 DEF Tell, AbortRead
<1>4. Still
  <2>1. ASSUME NEW q \in Requests PROVE ToldToStop(q)'
    BY <1>2, <1>3, RunningBusy DEF ToldToStop, Keeping, Kept, workVars
  <2> QED
    BY <1>2, <1>3, <2>1
       DEF Still, Unsent, Flushing, OneInHand, RemovedDone, Keeping, workVars, replyVars
<1>5. Busy = Contract!Working
  BY DEF Busy, Contract!Working, PeerMap
<1>6. Contract!PeerReceive
  BY <1>1, <1>2, <1>3, <1>4, <1>5, StillKept DEF Contract!PeerReceive
<1> QED  BY <1>4, <1>6, StillKept DEF OwnStep, Contract!PeerOwn

\* A reply that is queued is the last of those that wait.
LEMMA QueuedLast ==
  ASSUME ProducerOK, NEW msg \in DownMessages,
         replies' = Append(replies, msg), UNCHANGED replyVars
  PROVE  Unsent' = Append(Unsent, msg)
<1> DEFINE hand == IF replyTask = "sending" THEN replyHand ELSE <<>>
<1>1. hand \in Seq(DownMessages) /\ replies \in Seq(DownMessages)
  BY EmptySeq DEF ProducerOK, ProducerTypeOK, ReplyTypeOK
<1>2. hand \o Append(replies, msg) = Append(hand \o replies, msg)
  <2>1. ASSUME NEW h \in Seq(DownMessages), NEW t \in Seq(DownMessages)
        PROVE  h \o Append(t, msg) = Append(h \o t, msg)
    <3>1. h \o t \in Seq(DownMessages) /\ <<msg>> \in Seq(DownMessages)
      BY ConcatProperties
    <3>2. Append(t, msg) = t \o <<msg>> /\ Append(h \o t, msg) = (h \o t) \o <<msg>>
      BY <3>1, AppendIsConcat
    <3>3. (h \o t) \o <<msg>> = h \o (t \o <<msg>>)
      BY <3>1, ConcatAssociative
    <3> QED  BY <3>2, <3>3
  <2> QED  BY <1>1, <2>1
<1> QED  BY <1>2 DEF Unsent, replyVars

\* The line after a reply has been queued.
LEMMA LineAfterQueue ==
  ASSUME ProducerOK, NEW msg \in DownMessages, InLine' = InLine \cup {msg}
  PROVE  /\ \A q \in Requests :
              ~(IsResponse(msg) /\ msg.id = q) => LineOf(q)' = LineOf(q)
         /\ IsResponse(msg) => LineOf(msg.id)' = LineOf(msg.id) \cup {msg}
BY DEF LineOf, IsResponse

\* The loop stops, for whatever cause: every task is told.
LEMMA StopSeen ==
  ASSUME ProducerOK, Keeping, Tell, NEW cause \in ShutdownTypes,
         loop = "running", HandleShutdown(cause),
         UNCHANGED <<aborters, aborted, removals, workVars, replyVars, wire>>
  PROVE  Keeping' /\ OwnStep
<1>1. told' = told \cup Busy /\ loop' # "running"
  BY DEF Tell, HandleShutdown
<1>2. Unsent \in Seq(DownMessages) /\ \A msg \in InLine : IsResponse(msg)
  BY LineType DEF Keeping
<1>3. /\ InOrder(Unsent)'
      /\ \A q \in Requests : LineOf(q)' = LineOf(q)
      /\ Notice' = Contract!Announcement(cause)
  <2>1. \A t \in StopTags : StopMsg(t) \in DownMessages /\ ~IsResponse(StopMsg(t))
    BY DEF StopMsg, DownMessages, IsResponse, StopTags, ResponseTags
  <2>2. ASSUME NEW t \in StopTags, replies' = Append(replies, StopMsg(t))
        PROVE  /\ InOrder(Unsent)'
               /\ InLine' = InLine \cup {StopMsg(t)}
               /\ \A q \in Requests : LineOf(q)' = LineOf(q)
    <3>1. Unsent' = Append(Unsent, StopMsg(t))
      BY <2>1, <2>2, QueuedLast
    <3>2. InLine' = InLine \cup {StopMsg(t)} /\ InOrder(Unsent)'
      BY <1>2, <2>1, <3>1, LineGrows DEF Keeping
    <3> QED  BY <2>1, <3>2, LineAfterQueue
  <2>3. /\ StopMsg("stop_shutdown") \notin InLine
        /\ StopMsg("stop_aborted") \notin InLine
        /\ StopMsg("stop_shutdown") # StopMsg("stop_aborted")
    BY <1>2, <2>1 DEF StopTags, StopMsg
  <2>4. CASE cause = "Shutdown"
    <3>1. replies' = Append(replies, StopMsg("stop_shutdown"))
      BY <2>4 DEF HandleShutdown
    <3> QED
      BY <2>2, <2>3, <2>4, <3>1
         DEF Notice, Contract!Announcement, Contract!StopMsg, StopMsg, StopTags
  <2>5. CASE cause = "Aborted"
    <3>1. replies' = Append(replies, StopMsg("stop_aborted"))
      BY <2>5 DEF HandleShutdown
    <3> QED
      BY <2>2, <2>3, <2>5, <3>1
         DEF Notice, Contract!Announcement, Contract!StopMsg, StopMsg, StopTags
  <2>6. CASE cause \notin {"Shutdown", "Aborted"}
    <3>1. replies' = replies
      BY <2>6 DEF HandleShutdown
    <3>2. Unsent' = Unsent
      BY <3>1 DEF Unsent, replyVars
    <3> QED
      BY <2>3, <2>6, <3>2
         DEF Notice, Contract!Announcement, InLine, InOrder, LineOf, Keeping
  <2> QED  BY <2>4, <2>5, <2>6
<1>4. ASSUME NEW q \in Requests
      PROVE  Kept(q)' /\ PeerState(q)' = PeerState(q) /\ SentItems(q)' = SentItems(q)
  <2>1. /\ work'[q] = work[q] /\ yielded'[q] = yielded[q] /\ yielded[q] \in Nat
        /\ Flushing(q)' <=> Flushing(q)
    BY RequestType DEF workVars, replyVars, Flushing
  <2>2. ToldToStop(q)'
    BY <1>1, <2>1, RunningBusy DEF ToldToStop, workVars
  <2>3. Kept(q)'
    BY <1>1, <1>3, <2>1, <2>2, UntouchedKept DEF Keeping
  <2> QED  BY <1>3, <2>1, <2>3, Untouched
<1>5. Keeping'
  BY <1>1, <1>3, <1>4
     DEF Keeping, OneInHand, RemovedDone, replyVars, workVars
<1>6. PeerMap' = PeerMap /\ SentMap' = SentMap /\ Busy = Contract!Working
  BY <1>4 DEF PeerMap, SentMap, Busy, Contract!Working
<1>7. Contract!PeerStop
  BY <1>1, <1>3, <1>6 DEF Contract!PeerStop, Contract!wire, wire
<1> QED  BY <1>5, <1>7 DEF OwnStep, Contract!PeerOwn

\* Every step of the loop, in a transport that does not fail.
LEMMA LoopSeen ==
  ASSUME ProducerOK, Keeping, Tell, ~ProducerFaulty, LoopStep
  PROVE  Keeping' /\ OwnStep
<1>1. CASE ProducerReceive
  BY <1>1, RequestSeen, AbortSeen
<1>2. CASE ProducerReceiveError
  BY <1>2 DEF ProducerReceiveError
<1>3. CASE ProducerReceiveClosed
  BY <1>3, StopSeen DEF ProducerReceiveClosed, ShutdownTypes
<1>4. CASE RemoveAborter \/ DrainAborters
  BY <1>4, LoopUnseen
<1>5. CASE ProducerTimeoutArm
  <2>1. CASE aborters = {}
    BY <1>5, <2>1, StopSeen DEF ProducerTimeoutArm, ShutdownTypes
  <2> QED  BY <1>5, <2>1, LoopUnseen
<1>6. CASE StopArm
  <2>1. stopSignal \in ShutdownTypes
    BY <1>6 DEF StopArm, ProducerOK, ProducerTypeOK, ReplyTypeOK
  <2> QED  BY <1>6, <2>1, StopSeen DEF StopArm
<1>7. CASE ProducerShutdownArm
  <2>1. PICK cause \in ShutdownTypes : HandleShutdown(cause)
    BY <1>7, ProducerAssumption DEF ProducerShutdownArm
  <2> QED  BY <1>7, <2>1, StopSeen DEF ProducerShutdownArm
<1> QED  BY <1>1, <1>2, <1>3, <1>4, <1>5, <1>6, <1>7 DEF LoopStep

-----------------------------------------------------------------------------
(* The tasks                                                               *)

\* A task queues a reply that comes after those of it that wait. What is left
\* to see is the task itself.
LEMMA QueueOthers ==
  ASSUME ProducerOK, Keeping, Tell, NEW r \in Requests,
         NEW from \in {"running", "streaming"}, NEW to, NEW msg \in DownMessages,
         QueueReply(r, from, to, msg),
         IsResponse(msg), msg.id = r,
         \A m \in LineOf(r) : Rank(m) < Rank(msg),
         \A q \in Requests \ {r} : yielded'[q] = yielded[q]
  PROVE  /\ LineOf(r)' = LineOf(r) \cup {msg}
         /\ work'[r] = to /\ (Flushing(r)' <=> Flushing(r)) /\ told' = told
         /\ Kept(r)' => Keeping'
         /\ PeerState(r)' = PeerState(r) /\ SentItems(r)' = SentItems(r) => OwnStep
<1>1. /\ work[r] = from /\ work' = [work EXCEPT ![r] = to]
      /\ replies' = Append(replies, msg)
      /\ UNCHANGED <<loopVars, replyVars, wire>>
  BY DEF QueueReply
<1>2. told' = told
  BY <1>1, NobodyTold DEF loopVars, wire
<1>3. Unsent' = Append(Unsent, msg)
  BY <1>1, QueuedLast
<1>4. InLine' = InLine \cup {msg} /\ InOrder(Unsent)'
  <2>1. \A m \in InLine : IsResponse(m) /\ m.id = r => m \in LineOf(r)
    BY DEF LineOf
  <2> QED  BY <1>3, <2>1, LineType, LineGrows DEF Keeping
<1>5. /\ \A q \in Requests \ {r} : LineOf(q)' = LineOf(q)
      /\ LineOf(r)' = LineOf(r) \cup {msg}
  BY <1>4, LineAfterQueue
<1>6. /\ \A q \in Requests : Flushing(q)' <=> Flushing(q)
      /\ OneInHand'
  BY <1>1 DEF Flushing, OneInHand, Keeping, replyVars
<1>7. /\ work'[r] = to
      /\ \A q \in Requests \ {r} : work'[q] = work[q]
  BY <1>1 DEF ProducerOK, ProducerTypeOK, WorkTypeOK
<1>8. ASSUME NEW q \in Requests \ {r}
      PROVE  Kept(q)' /\ PeerState(q)' = PeerState(q) /\ SentItems(q)' = SentItems(q)
  <2>1. ToldToStop(q)'
    BY <1>1, <1>2, <1>7 DEF Keeping, Kept, ToldToStop, loopVars
  <2>2. Kept(q)'
    BY <1>1, <1>2, <1>5, <1>6, <1>7, <2>1, RequestType, UntouchedKept DEF Keeping, loopVars
  <2> QED  BY <1>5, <1>6, <1>7, <2>2, RequestType, Untouched
<1>9. RemovedDone'
  <2>1. \A i \in 1..Len(removals) : removals[i] \in Requests
    BY ElementOfSeq DEF ProducerOK, ProducerTypeOK, LoopTypeOK
  <2> QED  BY <1>1, <1>7, <2>1 DEF Keeping, RemovedDone, loopVars
<1>10. Kept(r)' => Keeping'
  BY <1>1, <1>4, <1>6, <1>8, <1>9 DEF Keeping, loopVars
<1>11. Notice' = Notice
  BY <1>4 DEF Notice, StopMsg, IsResponse, ResponseTags
<1>12. PeerState(r)' = PeerState(r) /\ SentItems(r)' = SentItems(r) => OwnStep
  BY <1>1, <1>2, <1>8, <1>11, Unseen DEF PeerMap, SentMap, loopVars
<1> QED  BY <1>2, <1>5, <1>6, <1>7, <1>10, <1>12

\* A method's first reply.
LEMMA FirstReplySeen ==
  ASSUME ProducerOK, Keeping, Tell, NEW r \in Requests, FinishValue(r) \/ OpenStream(r)
  PROVE  Keeping' /\ OwnStep
<1>1. PICK msg \in DownMessages, to \in {"retiring", "streaming"} :
        /\ QueueReply(r, "running", to, msg)
        /\ \/ r \in ValueRequests /\ to = "retiring" /\ msg = ValueMsg(r)
           \/ r \in StreamRequests /\ to = "streaming" /\ msg = OpenMsg(r)
  BY MessageTypes DEF FinishValue, OpenStream
<1>2. work[r] = "running" /\ yielded' = yielded /\ r \notin ValueRequests \cap StreamRequests
      /\ loop' = loop /\ aborters' = aborters /\ aborted' = aborted
  BY DEF FinishValue, OpenStream, QueueReply, ValueRequests, loopVars
<1>3. /\ LineOf(r) = {} /\ ~Beginning(r) /\ ~Continuing(r) /\ ~Flushing(r)
      /\ yielded[r] = 0 /\ SentItems(r) = {}
  BY <1>2, NothingYet
<1>4. /\ LineOf(r)' = {msg} /\ work'[r] = to /\ ~Flushing(r)' /\ told' = told
      /\ Kept(r)' => Keeping'
      /\ PeerState(r)' = PeerState(r) /\ SentItems(r)' = SentItems(r) => OwnStep
  <2>1. IsResponse(msg) /\ msg.id = r
    BY <1>1, Tags
  <2>2. /\ \A m \in LineOf(r) : Rank(m) < Rank(msg)
        /\ \A q \in Requests \ {r} : yielded'[q] = yielded[q]
    BY <1>2, <1>3
  <2>3. /\ LineOf(r)' = LineOf(r) \cup {msg}
        /\ work'[r] = to /\ (Flushing(r)' <=> Flushing(r)) /\ told' = told
        /\ Kept(r)' => Keeping'
        /\ PeerState(r)' = PeerState(r) /\ SentItems(r)' = SentItems(r) => OwnStep
    BY <1>1, <2>1, <2>2, QueueOthers
  <2> QED  BY <1>3, <2>3
<1>5. PeerState(r)' = PeerState(r)
  <2>1. Beginning(r)'
    BY <1>1, <1>4, Tags DEF Beginning, LineOf
  <2> QED  BY <1>2, <1>3, <2>1 DEF PeerState
<1>6. SentItems(r)' = {}
  BY <1>2, <1>3 DEF SentItems
<1>7. Kept(r)'
  <2>1. 1..0 = {} /\ 0 \in 0..0
    OBVIOUS
  <2>2. ItemsLast(r)'
    BY <1>2, <1>3, <1>6, <2>1 DEF ItemsLast
  <2>3. \A m \in LineOf(r)' : Placed(r, m)'
    BY <1>1, <1>4, Tags DEF Placed
  <2>4. TaskKind(r)' /\ ToldToStop(r)'
    BY <1>1, <1>2, <1>3, <1>4 DEF TaskKind, ToldToStop, Keeping, Kept
  <2>5. CutShort(r)'
    BY <1>1, <1>2, <1>4 DEF CutShort
  <2> QED  BY <2>2, <2>3, <2>4, <2>5 DEF Kept
<1> QED  BY <1>3, <1>4, <1>5, <1>6, <1>7

\* The stream's next item, or its end.
LEMMA NextReplySeen ==
  ASSUME ProducerOK, Keeping, Tell, NEW r \in Requests, YieldItem(r) \/ EndStream(r)
  PROVE  Keeping' /\ OwnStep
<1>1. PICK msg \in DownMessages, to \in {"retiring", "streaming"} :
        /\ QueueReply(r, "streaming", to, msg)
        /\ \/ /\ to = "streaming" /\ msg = ItemMsg(r, yielded[r] + 1)
              /\ yielded[r] < MaxItems /\ yielded'[r] = yielded[r] + 1
           \/ to = "retiring" /\ msg = ClosedMsg(r) /\ yielded'[r] = yielded[r]
  <2>1. yielded[r] + 1 \in Nat
    BY RequestType
  <2>2. yielded' = [yielded EXCEPT ![r] = @ + 1] => yielded'[r] = yielded[r] + 1
    BY DEF ProducerOK, ProducerTypeOK, WorkTypeOK
  <2> QED  BY <2>1, <2>2, MessageTypes DEF YieldItem, EndStream
<1>2. /\ work[r] = "streaming" /\ loop' = loop /\ aborters' = aborters /\ aborted' = aborted
      /\ \A q \in Requests \ {r} : yielded'[q] = yielded[q]
  BY DEF YieldItem, EndStream, QueueReply, loopVars, ProducerOK, ProducerTypeOK, WorkTypeOK
<1>3. Kept(r) /\ r \in StreamRequests
  BY <1>2 DEF Keeping, Kept, TaskKind
<1>4. yielded[r] \in Nat /\ yielded[r] <= MaxItems /\ MaxItems \in Nat
  BY RequestType, TransportAssumption
<1>5. IsResponse(msg) /\ msg.id = r
  BY <1>1, <1>4, Tags
<1>6. \A m \in LineOf(r) : /\ m = OpenMsg(r) \/ (\E n \in 1..yielded[r] : m = ItemMsg(r, n))
                           /\ Rank(m) < Rank(msg)
  <2> SUFFICES ASSUME NEW m \in LineOf(r)
               PROVE  /\ m = OpenMsg(r) \/ (\E n \in 1..yielded[r] : m = ItemMsg(r, n))
                      /\ Rank(m) < Rank(msg)
    OBVIOUS
  <2>1. m \in DownMessages /\ IsResponse(m) /\ m.id = r /\ Placed(r, m)
    BY <1>3, RequestType DEF Kept, LineOf
  <2>2. m.tag = "open" \/ (m.tag = "item" /\ m.item \in 1..yielded[r])
    BY <1>2, <1>3, <2>1 DEF Placed, IsResponse, ResponseTags
  <2>3. Rank(msg) > yielded[r]
    BY <1>1, <1>4, Tags DEF Rank
  <2>4. Rank(m) <= yielded[r]
    BY <1>4, <2>2 DEF Rank
  <2>5. Rank(m) \in Int /\ Rank(msg) \in Int
    BY <1>1, <1>4, <2>2, Tags DEF Rank
  <2> QED  BY <1>4, <2>1, <2>2, <2>3, <2>4, <2>5, MessageIs
<1>7. /\ LineOf(r)' = LineOf(r) \cup {msg} /\ work'[r] = to /\ (Flushing(r)' <=> Flushing(r))
      /\ told' = told
      /\ Kept(r)' => Keeping'
      /\ PeerState(r)' = PeerState(r) /\ SentItems(r)' = SentItems(r) => OwnStep
  BY <1>1, <1>2, <1>5, <1>6, QueueOthers
<1>8. /\ ValueMsg(r) \in InLine' <=> ValueMsg(r) \in LineOf(r)
      /\ OpenMsg(r) \in InLine' <=> OpenMsg(r) \in LineOf(r)
      /\ \A n \in 1..yielded[r] : ItemMsg(r, n) \in InLine' <=> ItemMsg(r, n) \in LineOf(r)
      /\ msg \in InLine'
  <2>1. \A n \in 1..yielded[r] : n \in Nat /\ n # yielded[r] + 1
    BY <1>4
  <2>2. \A m \in DownMessages : m # msg /\ IsResponse(m) /\ m.id = r
          => (m \in InLine' <=> m \in LineOf(r))
    BY <1>7 DEF LineOf
  <2>3. msg # ValueMsg(r) /\ msg # OpenMsg(r) /\ \A n \in 1..yielded[r] : msg # ItemMsg(r, n)
    BY <1>1, <1>4, <2>1, Tags
  <2>4. msg \in InLine'
    BY <1>7 DEF LineOf
  <2> QED  BY <2>1, <2>2, <2>3, <2>4, Tags, MessageTypes
<1>9. PeerState(r)' = PeerState(r)
  <2>1. Beginning(r)' <=> Beginning(r)
    BY <1>8, InView DEF Beginning
  <2>2. Continuing(r)'
    BY <1>1, <1>4, <1>8 DEF Continuing
  <2> QED  BY <1>2, <2>1, <2>2 DEF PeerState
<1>10. SentItems(r)' = SentItems(r)
  <2>1. CASE yielded'[r] = yielded[r]
    BY <1>4, <1>8, <2>1, InView DEF SentItems
  <2>2. CASE yielded'[r] = yielded[r] + 1 /\ msg = ItemMsg(r, yielded[r] + 1)
    <3>1. 1..yielded'[r] = 1..yielded[r] \cup {yielded[r] + 1}
      BY <1>4, <2>2
    <3> QED  BY <1>4, <1>8, <2>2, <3>1, InView DEF SentItems
  <2> QED  BY <1>1, <2>1, <2>2
<1>11. Kept(r)'
  <2>1. ItemsLast(r)'
    <3>1. PICK k \in 0..yielded[r] :
            SentItems(r) = 1..k /\ (OpenMsg(r) \in LineOf(r) => k = 0)
      BY <1>3 DEF Kept, ItemsLast
    <3>2. k \in 0..yielded'[r]
      BY <1>1, <1>4
    <3>3. OpenMsg(r) # msg
      BY <1>1, <1>4, Tags
    <3> QED  BY <1>7, <1>10, <3>1, <3>2, <3>3 DEF ItemsLast
  <2>2. \A m \in LineOf(r)' : Placed(r, m)'
    <3>1. \A m \in LineOf(r) : Placed(r, m)'
      <4>1. 1..yielded[r] \subseteq 1..yielded'[r]
        BY <1>1, <1>4
      <4> QED  BY <1>1, <1>2, <1>3, <1>6, <1>7, <4>1, Tags DEF Kept, Placed
    <3>2. Placed(r, msg)'
      BY <1>1, <1>3, <1>4, <1>7, Tags DEF Placed
    <3> QED  BY <1>7, <3>1, <3>2
  <2>3. TaskKind(r)' /\ ToldToStop(r)'
    BY <1>1, <1>2, <1>3, <1>7 DEF TaskKind, ToldToStop, Kept
  <2>4. CutShort(r)'
    BY <1>1, <1>3, <1>7 DEF CutShort, Kept
  <2> QED  BY <2>1, <2>2, <2>3, <2>4 DEF Kept
<1> QED  BY <1>7, <1>9, <1>10, <1>11

\* A task completes without a reply: Peer sees it if the task was aborted
\* with none of its replies left.
LEMMA LeaveSeen ==
  ASSUME ProducerOK, Keeping, Tell, NEW r \in Requests, Retire(r) \/ AbortTask(r)
  PROVE  Keeping' /\ OwnStep
<1>1. /\ work' = [work EXCEPT ![r] = "done"]
      /\ UNCHANGED <<loop, aborters, aborted, yielded, replies, replyVars, wire>>
  BY DEF Retire, AbortTask, loopVars
<1>2. told' = told
  BY <1>1, NobodyTold DEF wire
<1>3. Unsent' = Unsent /\ InLine' = InLine /\ Notice' = Notice
      /\ \A q \in Requests : LineOf(q)' = LineOf(q) /\ (Flushing(q)' <=> Flushing(q))
  BY <1>1 DEF Unsent, InLine, Notice, LineOf, Flushing, replyVars
<1>4. /\ work'[r] = "done"
      /\ \A q \in Requests \ {r} : work'[q] = work[q]
  BY <1>1 DEF ProducerOK, ProducerTypeOK, WorkTypeOK
<1>5. ASSUME NEW q \in Requests \ {r}
      PROVE  Kept(q)' /\ PeerState(q)' = PeerState(q) /\ SentItems(q)' = SentItems(q)
  <2>1. ToldToStop(q)'
    BY <1>1, <1>2, <1>4 DEF Keeping, Kept, ToldToStop
  <2>2. Kept(q)'
    BY <1>1, <1>2, <1>3, <1>4, <2>1, RequestType, UntouchedKept DEF Keeping
  <2> QED  BY <1>1, <1>3, <1>4, <2>2, RequestType, Untouched
<1>6. /\ Beginning(r)' <=> Beginning(r)
      /\ Continuing(r)' <=> Continuing(r)
      /\ SentItems(r)' = SentItems(r)
  BY <1>1, <1>3 DEF Beginning, Continuing, SentItems
<1>7. \/ work[r] = "retiring"
      \/ r \in told /\ r \in StreamRequests /\ work[r] = "streaming"
      \/ r \in told /\ r \notin StreamRequests /\ work[r] = "running"
  BY DEF Retire, AbortTask, Keeping, Kept, ToldToStop
<1>8. Kept(r)'
  <2>1. ItemsLast(r)' /\ TaskKind(r)' /\ ToldToStop(r)'
    BY <1>1, <1>3, <1>4, <1>6, <1>7
       DEF Keeping, Kept, ItemsLast, TaskKind, ToldToStop
  <2>2. \A m \in LineOf(r)' : Placed(r, m)'
    BY <1>1, <1>3, <1>4 DEF Keeping, Kept, Placed
  <2>3. CutShort(r)'
    BY <1>2, <1>3, <1>4, <1>7 DEF Keeping, Kept, CutShort
  <2> QED  BY <2>1, <2>2, <2>3 DEF Kept
<1>9. RemovedDone'
  <2>1. \A i \in 1..Len(removals) : removals[i] \in Requests
    BY ElementOfSeq DEF ProducerOK, ProducerTypeOK, LoopTypeOK
  <2>2. CASE removals' = removals
    BY <1>4, <2>1, <2>2 DEF Keeping, RemovedDone
  <2>3. CASE removals' = Append(removals, r)
    <3>1. /\ Len(removals) \in Nat /\ Len(removals') = Len(removals) + 1
          /\ \A i \in 1..Len(removals) : removals'[i] = removals[i]
          /\ removals'[Len(removals) + 1] = r
      BY <2>3, AppendProperties, LenProperties DEF ProducerOK, ProducerTypeOK, LoopTypeOK
    <3>2. \A i \in 1..Len(removals') : i \in 1..Len(removals) \/ i = Len(removals) + 1
      BY <3>1
    <3> QED  BY <1>4, <2>1, <3>1, <3>2 DEF Keeping, RemovedDone
  <2> QED  BY <2>2, <2>3 DEF Retire, AbortTask, loopVars
<1>10. Keeping'
  BY <1>1, <1>3, <1>5, <1>8, <1>9 DEF Keeping, OneInHand, InOrder, replyVars
<1>11. CASE PeerState(r)' = PeerState(r)
  <2>1. \A q \in Requests : PeerState(q)' = PeerState(q) /\ SentItems(q)' = SentItems(q)
    BY <1>5, <1>6, <1>11
  <2>2. PeerMap' = PeerMap /\ SentMap' = SentMap
    BY <2>1 DEF PeerMap, SentMap
  <2> QED  BY <1>1, <1>2, <1>3, <1>10, <2>2, Unseen
<1>12. CASE PeerState(r)' # PeerState(r)
  <2>1. ~Beginning(r) /\ ~Continuing(r) /\ ~Flushing(r) /\ work[r] # "retiring"
    <3>1. Flushing(r)' <=> Flushing(r)
      BY <1>3
    <3>2. work[r] # "retiring"
      BY <1>4, <1>6, <1>12, <3>1 DEF PeerState
    <3>3. Flushing(r) => r \in StreamRequests
      BY DEF Keeping, Kept, CutShort
    <3> QED  BY <1>4, <1>6, <1>7, <1>12, <3>1, <3>2, <3>3 DEF PeerState
  <2>2. PeerState(r)' = "done"
    BY <1>3, <1>4, <1>6, <2>1 DEF PeerState
  <2>3. PeerState(r) = IF r \in StreamRequests THEN "open" ELSE "serving"
    BY <1>7, <2>1 DEF PeerState
  <2>4. PeerMap' = [PeerMap EXCEPT ![r] = "done"] /\ SentMap' = SentMap
    BY <1>5, <1>6, <2>2, OneMoves
  <2>5. PeerMap[r] = IF r \in Contract!StreamRequests THEN "open" ELSE "serving"
    BY <2>3 DEF PeerMap, StreamRequests, Contract!StreamRequests
  <2>6. Contract!PeerCancel(r)
    BY <1>1, <1>2, <1>3, <1>7, <2>1, <2>4, <2>5
       DEF Contract!PeerCancel, Contract!wire, wire
  <2>7. Contract!PeerOwn
    BY <2>6 DEF Contract!PeerOwn
  <2> QED  BY <1>10, <2>7 DEF OwnStep
<1> QED  BY <1>11, <1>12

-----------------------------------------------------------------------------
(* The reply task                                                          *)

\* A reply taken in hand still waits for the transport.
LEMMA TakeSeen ==
  ASSUME ProducerOK, Keeping, Tell, TakeReply
  PROVE  Keeping' /\ OwnStep
<1>1. /\ replies \in Seq(DownMessages) /\ replies # <<>>
      /\ replyTask = "waiting" /\ replyTask' = "sending"
      /\ replyHand' = <<Head(replies)>> /\ replies' = Tail(replies)
      /\ UNCHANGED <<loopVars, workVars, wire>>
  BY DEF TakeReply, ProducerOK, ProducerTypeOK, ReplyTypeOK
<1>2. <<Head(replies)>> \o Tail(replies) = replies
  BY <1>1
<1>3. <<>> \o replies = replies
  BY <1>1, ConcatEmptySeq
<1>4. Unsent' = Unsent
  BY <1>1, <1>2, <1>3 DEF Unsent
<1>5. told' = told
  BY <1>1, NobodyTold DEF loopVars, wire
<1>6. Head(<<Head(replies)>>) = Head(replies)
  OBVIOUS
<1>7. OneInHand' /\ RemovedDone'
  BY <1>1, <1>6 DEF OneInHand, RemovedDone, Keeping, loopVars, workVars
<1>8. Still
  BY <1>1, <1>4, <1>5, <1>7
     DEF Still, Flushing, ToldToStop, Keeping, Kept, loopVars, workVars
<1>9. loop' = "running" <=> loop = "running"
  BY <1>1 DEF loopVars
<1> QED  BY <1>1, <1>5, <1>8, <1>9, StillKept, Unseen

\* A send has returned. Peer sees it if it carried the last reply of a stream
\* that was cut short.
LEMMA FlushSeen ==
  ASSUME ProducerOK, Keeping, Tell,
         replyTask = "flushing", replyTask' = "waiting",
         UNCHANGED <<loopVars, workVars, replies, wire>>
  PROVE  Keeping' /\ OwnStep
<1>1. told' = told
  BY NobodyTold DEF loopVars, wire
<1>2. Unsent' = Unsent /\ InLine' = InLine /\ Notice' = Notice
      /\ \A q \in Requests : LineOf(q)' = LineOf(q) /\ ~Flushing(q)'
  BY DEF Unsent, InLine, Notice, LineOf, Flushing
<1>3. OneInHand' /\ RemovedDone' /\ \A q \in Requests : ToldToStop(q)'
  BY <1>1 DEF OneInHand, RemovedDone, ToldToStop, Keeping, Kept, loopVars, workVars
<1>4. /\ loop' = loop /\ aborters' = aborters /\ aborted' = aborted
      /\ work' = work /\ yielded' = yielded
  BY DEF loopVars, workVars
<1>5. ASSUME NEW q \in Requests, ~Flushing(q)
      PROVE  Kept(q)' /\ PeerState(q)' = PeerState(q) /\ SentItems(q)' = SentItems(q)
  <2>1. Kept(q)'
    BY <1>1, <1>2, <1>3, <1>4, <1>5, RequestType, UntouchedKept DEF Keeping
  <2> QED  BY <1>2, <1>4, <1>5, <2>1, RequestType, Untouched
<1>6. ASSUME NEW q \in Requests
      PROVE  Kept(q)' /\ SentItems(q)' = SentItems(q)
  <2>1. SentItems(q)' = SentItems(q)
    BY <1>2, <1>4 DEF SentItems
  <2>2. ItemsLast(q)' /\ TaskKind(q)' /\ \A m \in LineOf(q)' : Placed(q, m)'
    BY <1>2, <1>4, <2>1 DEF Keeping, Kept, ItemsLast, TaskKind, Placed
  <2>3. CutShort(q)'
    BY <1>1, <1>2, <1>4 DEF Keeping, Kept, CutShort
  <2> QED  BY <1>3, <2>1, <2>2, <2>3 DEF Kept
<1>7. Keeping'
  BY <1>2, <1>3, <1>4, <1>6 DEF Keeping, InOrder
<1>8. CASE \A q \in Requests : PeerState(q)' = PeerState(q)
  <2>1. PeerMap' = PeerMap /\ SentMap' = SentMap
    BY <1>6, <1>8 DEF PeerMap, SentMap
  <2> QED  BY <1>1, <1>2, <1>4, <1>7, <2>1, Unseen
<1>9. ASSUME NEW r \in Requests, PeerState(r)' # PeerState(r)
      PROVE  OwnStep
  <2>1. Flushing(r) /\ r \in StreamRequests
    BY <1>5, <1>9 DEF Keeping, Kept, CutShort
  <2>2. \A q \in Requests \ {r} : ~Flushing(q)
    BY <2>1 DEF Flushing
  <2>3. /\ Beginning(r)' <=> Beginning(r)
        /\ Continuing(r)' <=> Continuing(r)
    BY <1>2, <1>4 DEF Beginning, Continuing
  <2>4. ~Beginning(r) /\ ~Continuing(r)
        /\ work[r] \notin {"idle", "running", "streaming"}
    BY <1>4, <1>9, <2>3 DEF PeerState
  <2>5. PeerState(r) = "open" /\ PeerState(r)' = "done"
    BY <1>2, <1>4, <2>1, <2>3, <2>4 DEF PeerState
  <2>6. r \in told
    <3>1. work[r] \in {"retiring", "done"}
      BY <2>4, RequestType
    <3>2. ClosedMsg(r) \notin LineOf(r)
      BY <2>4, InView DEF Continuing
    <3> QED  BY <2>1, <3>1, <3>2 DEF Keeping, Kept, CutShort
  <2>7. PeerMap' = [PeerMap EXCEPT ![r] = "done"] /\ SentMap' = SentMap
    BY <1>5, <1>6, <2>2, <2>5, OneMoves
  <2>8. PeerMap[r] = IF r \in Contract!StreamRequests THEN "open" ELSE "serving"
    BY <2>1, <2>5 DEF PeerMap, StreamRequests, Contract!StreamRequests
  <2>9. Contract!PeerCancel(r)
    BY <1>1, <1>2, <1>4, <2>6, <2>7, <2>8 DEF Contract!PeerCancel, Contract!wire, wire
  <2>10. Contract!PeerOwn
    BY <2>9 DEF Contract!PeerOwn
  <2> QED  BY <2>10 DEF OwnStep
<1> QED  BY <1>7, <1>8, <1>9

\* The reply in hand goes to the transport, or is lost with the connection.
Gone(msg) == /\ replyTask = "sending" /\ msg = Head(replyHand)
             /\ replyTask' \in {"flushing", "waiting"}
             /\ replyTask' = "flushing" => replyHand' = replyHand
             /\ UNCHANGED <<loopVars, workVars, replies, up>>

\* The line is one shorter, and what is left of it comes later.
LEMMA GoneLine ==
  ASSUME ProducerOK, Keeping, Tell, NEW msg, Gone(msg)
  PROVE  /\ msg \in DownMessages /\ msg \in InLine /\ InLine' = InLine \ {msg}
         /\ InOrder(Unsent)' /\ OneInHand' /\ told' = told
         /\ \A m \in InLine' :
              /\ IsResponse(msg) \/ IsResponse(m)
              /\ IsResponse(msg) /\ IsResponse(m) /\ msg.id = m.id => Rank(msg) < Rank(m)
         /\ \A q \in Requests :
              /\ ~Flushing(q)
              /\ Flushing(q)' <=> /\ replyTask' = "flushing"
                                  /\ msg.tag \in {"open", "item"} /\ msg.id = q
              /\ ~(IsResponse(msg) /\ msg.id = q) => LineOf(q)' = LineOf(q)
              /\ IsResponse(msg) /\ msg.id = q => LineOf(q)' = LineOf(q) \ {msg}
<1>1. /\ replyHand = <<msg>> /\ replies \in Seq(DownMessages) /\ msg \in DownMessages
  <2>1. replyHand = <<msg>> /\ replyHand # <<>> /\ replyHand \in Seq(DownMessages)
    BY DEF Gone, Keeping, OneInHand, ProducerOK, HandFull, ProducerTypeOK, ReplyTypeOK
  <2> QED
    BY <2>1, FrontType DEF Gone, ProducerOK, ProducerTypeOK, ReplyTypeOK
<1>2. Unsent = <<msg>> \o replies /\ Unsent' = <<>> \o replies
  BY <1>1 DEF Gone, Unsent
<1>3. <<>> \o replies = replies
  BY <1>1, ConcatEmptySeq
<1>4. /\ Head(<<msg>> \o replies) = msg /\ Tail(<<msg>> \o replies) = replies
      /\ <<msg>> \o replies # <<>>
  BY <1>1
<1>5. Unsent # <<>> /\ msg = Head(Unsent) /\ Unsent' = Tail(Unsent)
  BY <1>2, <1>3, <1>4
<1>6. /\ msg \in InLine /\ InLine' = InLine \ {msg} /\ InOrder(Unsent)'
      /\ \A m \in InLine' :
           /\ IsResponse(msg) \/ IsResponse(m)
           /\ IsResponse(msg) /\ IsResponse(m) /\ msg.id = m.id => Rank(msg) < Rank(m)
  BY <1>5, LineType, LineShrinks DEF Keeping
<1>7. told' = told
  BY NobodyTold DEF Gone, loopVars
<1>8. OneInHand'
  BY DEF Gone, OneInHand, Keeping
<1>9. ASSUME NEW q \in Requests
      PROVE  /\ ~Flushing(q)
             /\ Flushing(q)' <=> /\ replyTask' = "flushing"
                                 /\ msg.tag \in {"open", "item"} /\ msg.id = q
             /\ ~(IsResponse(msg) /\ msg.id = q) => LineOf(q)' = LineOf(q)
             /\ IsResponse(msg) /\ msg.id = q => LineOf(q)' = LineOf(q) \ {msg}
  <2>1. LineOf(q)' = {m \in InLine \ {msg} : IsResponse(m) /\ m.id = q}
    BY <1>6 DEF LineOf
  <2>2. ~Flushing(q)
        /\ (Flushing(q)' <=> /\ replyTask' = "flushing"
                             /\ msg.tag \in {"open", "item"} /\ msg.id = q)
    BY DEF Flushing, Gone
  <2> QED  BY <2>1, <2>2 DEF LineOf
<1> QED  BY <1>1, <1>6, <1>7, <1>8, <1>9

\* The other requests are as they were.
LEMMA GoneOthers ==
  ASSUME ProducerOK, Keeping, Tell, NEW msg, Gone(msg),
         NEW q \in Requests, ~(IsResponse(msg) /\ msg.id = q)
  PROVE  Kept(q)' /\ PeerState(q)' = PeerState(q) /\ SentItems(q)' = SentItems(q)
<1>1. /\ LineOf(q)' = LineOf(q) /\ told' = told
      /\ Flushing(q)' <=> Flushing(q)
  BY GoneLine DEF IsResponse, ResponseTags
<1>2. /\ loop' = loop /\ aborters' = aborters /\ aborted' = aborted
      /\ work' = work /\ yielded' = yielded
  BY DEF Gone, loopVars, workVars
<1>3. ToldToStop(q)'
  BY <1>1, <1>2 DEF Keeping, Kept, ToldToStop
<1>4. Kept(q)'
  BY <1>1, <1>2, <1>3, RequestType, UntouchedKept DEF Keeping
<1> QED  BY <1>1, <1>2, <1>4, RequestType, Untouched

\* What was sent of the stream, and which of its messages still wait.
LEMMA GoneItems ==
  ASSUME ProducerOK, Keeping, Tell, NEW msg, Gone(msg),
         IsResponse(msg), NEW r \in Requests, msg.id = r
  PROVE  /\ Placed(r, msg)
         /\ \A m \in LineOf(r)' : /\ m \in DownMessages /\ IsResponse(m) /\ m.id = r
                                  /\ Placed(r, m) /\ Rank(msg) < Rank(m)
         /\ ValueMsg(r) \in InLine' <=> ValueMsg(r) \in LineOf(r)'
         /\ OpenMsg(r) \in InLine' <=> OpenMsg(r) \in LineOf(r)'
         /\ ClosedMsg(r) \in InLine' <=> ClosedMsg(r) \in LineOf(r)'
         /\ \A n \in Nat : ItemMsg(r, n) \in InLine' <=> ItemMsg(r, n) \in LineOf(r)'
         /\ msg.tag # "item" => SentItems(r)' = SentItems(r)
         /\ msg.tag = "item" =>
              \E k \in Nat : /\ SentItems(r) = 1..k /\ SentItems(r)' = 1..(k + 1)
                             /\ k < yielded[r] /\ msg = ItemMsg(r, k + 1)
<1>1. /\ msg \in DownMessages /\ msg \in LineOf(r) /\ LineOf(r)' = LineOf(r) \ {msg}
      /\ InLine' = InLine \ {msg}
      /\ \A m \in LineOf(r)' : Rank(msg) < Rank(m)
  BY GoneLine DEF LineOf
<1>2. Placed(r, msg) /\ \A m \in LineOf(r)' : Placed(r, m)
  BY <1>1 DEF Keeping, Kept
<1>3. \A m \in LineOf(r)' : m \in DownMessages /\ IsResponse(m) /\ m.id = r
  BY <1>1, RequestType DEF LineOf
<1>4. /\ ValueMsg(r) \in InLine' <=> ValueMsg(r) \in LineOf(r)'
      /\ OpenMsg(r) \in InLine' <=> OpenMsg(r) \in LineOf(r)'
      /\ ClosedMsg(r) \in InLine' <=> ClosedMsg(r) \in LineOf(r)'
      /\ \A n \in Nat : ItemMsg(r, n) \in InLine' <=> ItemMsg(r, n) \in LineOf(r)'
  BY <1>1, InView
<1>5. yielded' = yielded /\ yielded[r] \in Nat /\ \A n \in 1..yielded[r] : n \in Nat
  BY RequestType DEF Gone, workVars
<1>6. CASE msg.tag # "item"
  <2>1. \A n \in 1..yielded[r] : ItemMsg(r, n) \in InLine' <=> ItemMsg(r, n) \in InLine
    BY <1>1, <1>5, <1>6, Tags
  <2> QED  BY <1>1, <1>2, <1>3, <1>4, <1>5, <1>6, <2>1 DEF SentItems
<1>7. CASE msg.tag = "item"
  <2>1. PICK k \in 0..yielded[r] : SentItems(r) = 1..k
    BY DEF Keeping, Kept, ItemsLast
  <2>2. PICK n \in 1..yielded[r] : msg = ItemMsg(r, n)
    BY <1>1, <1>2, <1>7, MessageIs DEF Placed
  <2>3. k \in Nat /\ n \in Nat /\ n \notin 1..k
    BY <1>1, <1>5, <2>1, <2>2, InView DEF SentItems
  <2>4. n = k + 1
    <3> SUFFICES ASSUME n # k + 1 PROVE FALSE
      OBVIOUS
    <3>1. k + 1 \in 1..yielded[r] /\ k + 1 \notin 1..k /\ k + 1 < n /\ k + 1 \in Nat
      BY <1>5, <2>3
    <3>2. ItemMsg(r, k + 1) \in LineOf(r)
      BY <2>1, <3>1, InView DEF SentItems
    <3>3. ItemMsg(r, k + 1) # msg
      BY <2>2, <2>3, <3>1, Tags
    <3>4. Rank(msg) < Rank(ItemMsg(r, k + 1))
      BY <1>1, <3>2, <3>3
    <3> QED  BY <2>2, <2>3, <3>1, <3>4, Tags DEF Rank
  <2>5. SentItems(r)' = SentItems(r) \cup {n}
    <3>1. \A i \in 1..yielded[r] : ItemMsg(r, i) = msg <=> i = n
      BY <1>5, <2>2, <2>3, Tags
    <3>2. \A i \in 1..yielded[r] :
            ItemMsg(r, i) \notin InLine' <=> (ItemMsg(r, i) \notin InLine \/ i = n)
      BY <1>1, <3>1
    <3> QED  BY <1>5, <2>2, <3>2 DEF SentItems
  <2>6. 1..(k + 1) = 1..k \cup {n} /\ k < yielded[r]
    BY <1>5, <2>3, <2>4
  <2> QED  BY <1>1, <1>2, <1>3, <1>4, <1>7, <2>1, <2>2, <2>3, <2>4, <2>5, <2>6
<1> QED  BY <1>6, <1>7

\* The task whose reply it was is kept.
LEMMA GoneKept ==
  ASSUME ProducerOK, Keeping, Tell, NEW msg, Gone(msg),
         IsResponse(msg), NEW r \in Requests, msg.id = r
  PROVE  Kept(r)'
<1>1. /\ loop' = loop /\ aborters' = aborters /\ aborted' = aborted
      /\ work' = work /\ yielded' = yielded
  BY DEF Gone, loopVars, workVars
<1>2. /\ told' = told /\ msg \in LineOf(r) /\ LineOf(r)' = LineOf(r) \ {msg}
      /\ ~Flushing(r)
      /\ Flushing(r)' => msg.tag \in {"open", "item"}
  BY GoneLine DEF LineOf
<1>3. Placed(r, msg) /\ \A m \in LineOf(r)' : Placed(r, m)'
  BY <1>1, GoneItems DEF Placed
<1>4. TaskKind(r)' /\ ToldToStop(r)'
  BY <1>1, <1>2 DEF Keeping, Kept, TaskKind, ToldToStop
<1>5. ItemsLast(r)'
  <2>1. PICK k \in 0..yielded[r] : SentItems(r) = 1..k /\ (OpenMsg(r) \in LineOf(r) => k = 0)
    BY DEF Keeping, Kept, ItemsLast
  <2>2. CASE msg.tag # "item"
    BY <1>1, <1>2, <2>1, <2>2, GoneItems DEF ItemsLast
  <2>3. CASE msg.tag = "item"
    <3>1. PICK j \in Nat : SentItems(r)' = 1..(j + 1) /\ j < yielded[r] /\ msg = ItemMsg(r, j + 1)
      BY <2>3, GoneItems
    <3>2. OpenMsg(r) \notin LineOf(r)'
      <4>1. Rank(msg) = j + 1 /\ Rank(OpenMsg(r)) = 0
        BY <3>1, Tags DEF Rank
      <4>2. ~(Rank(msg) < Rank(OpenMsg(r)))
        BY <3>1, <4>1
      <4> QED  BY <4>2, GoneItems
    <3>3. j + 1 \in 0..yielded'[r]
      BY <1>1, <3>1, RequestType
    <3> QED  BY <3>1, <3>2, <3>3 DEF ItemsLast
  <2> QED  BY <2>2, <2>3
<1>6. CutShort(r)'
  <2>1. Flushing(r)' => r \in StreamRequests /\ work[r] \in {"streaming", "retiring", "done"}
    BY <1>2, <1>3 DEF Placed
  <2>2. ASSUME work[r] \in {"retiring", "done"}, r \in StreamRequests,
               ClosedMsg(r) \notin LineOf(r)', LineOf(r)' # {} \/ Flushing(r)'
        PROVE  r \in told
    <3>1. CASE ClosedMsg(r) \notin LineOf(r)
      BY <1>2, <2>2, <3>1 DEF Keeping, Kept, CutShort
    <3>2. CASE ClosedMsg(r) \in LineOf(r)
      <4>1. msg = ClosedMsg(r) /\ msg.tag = "closed" /\ ~Flushing(r)'
        BY <1>2, <2>2, <3>2, Tags
      <4>2. PICK m \in LineOf(r)' : TRUE
        BY <2>2, <4>1
      <4>3. /\ MaxItems + 1 < Rank(m) /\ Placed(r, m) /\ IsResponse(m)
        BY <4>1, GoneItems DEF Rank
      <4>4. m.tag = "item" /\ m.item \in 1..yielded[r]
        BY <4>3, TransportAssumption DEF Rank, Placed
      <4>5. m.item <= MaxItems /\ Rank(m) = m.item
        BY <4>4, RequestType, TransportAssumption DEF Rank
      <4> QED  BY <4>3, <4>4, <4>5, RequestType, TransportAssumption
    <3> QED  BY <3>1, <3>2
  <2> QED  BY <1>1, <1>2, <2>1, <2>2 DEF CutShort
<1> QED  BY <1>3, <1>4, <1>5, <1>6 DEF Kept

\* Where Peer saw the task, and where it sees it next.
LEMMA GoneTask ==
  ASSUME ProducerOK, Keeping, Tell, NEW msg, Gone(msg),
         IsResponse(msg), NEW r \in Requests, msg.id = r
  PROVE  /\ msg.tag = "value" =>
              r \in ValueRequests /\ PeerState(r) = "serving" /\ PeerState(r)' = "done"
         /\ msg.tag = "open" =>
              /\ r \in StreamRequests /\ PeerState(r) = "serving"
              /\ PeerState(r)' \in {"open", "done"}
         /\ msg.tag = "item" =>
              /\ r \in StreamRequests /\ PeerState(r) = "open"
              /\ PeerState(r)' \in {"open", "done"}
         /\ msg.tag = "closed" =>
              r \in StreamRequests /\ PeerState(r) = "open" /\ PeerState(r)' = "done"
         /\ replyTask' = "flushing" /\ msg.tag \in {"open", "item"} => PeerState(r)' = "open"
<1>1. work' = work /\ yielded' = yielded /\ yielded[r] \in Nat /\ yielded[r] <= MaxItems
      /\ MaxItems \in Nat
      /\ work[r] \in {"idle", "running", "streaming", "retiring", "done"}
  BY RequestType, TransportAssumption DEF Gone, workVars
<1>2. /\ msg \in DownMessages /\ msg \in InLine /\ InLine' = InLine \ {msg}
      /\ Flushing(r)' <=> replyTask' = "flushing" /\ msg.tag \in {"open", "item"}
      /\ LineOf(r)' = LineOf(r) \ {msg}
  BY GoneLine
<1>3. Placed(r, msg) /\ r \notin ValueRequests \cap StreamRequests
  BY GoneItems DEF ValueRequests
<1>4. ~Beginning(r)'
  <2>1. ValueMsg(r) \notin LineOf(r)'
    <3> SUFFICES ASSUME ValueMsg(r) \in LineOf(r)' PROVE FALSE
      OBVIOUS
    <3>1. Placed(r, ValueMsg(r)) /\ Rank(msg) < Rank(ValueMsg(r))
      BY GoneItems
    <3>2. msg.tag = "value" /\ Rank(msg) = 0 /\ Rank(ValueMsg(r)) = 0
      BY <1>3, <3>1, Tags DEF Placed, IsResponse, ResponseTags, Rank
    <3> QED  BY <3>1, <3>2
  <2>2. OpenMsg(r) \notin LineOf(r)'
    <3> SUFFICES ASSUME OpenMsg(r) \in LineOf(r)' PROVE FALSE
      OBVIOUS
    <3>1. Rank(msg) < Rank(OpenMsg(r)) /\ Rank(OpenMsg(r)) = 0
      BY GoneItems, Tags DEF Rank
    <3>2. msg.tag = "item" => msg.item \in Nat
      BY <1>2, MessageIs
    <3>3. Rank(msg) \in Nat
      BY <1>1, <3>2 DEF Rank
    <3> QED  BY <3>1, <3>3
  <2> QED  BY <2>1, <2>2, GoneItems DEF Beginning
<1>5. CASE msg.tag = "value"
  <2>1. r \in ValueRequests /\ work[r] \in {"retiring", "done"}
    BY <1>3, <1>5 DEF Placed
  <2>2. Beginning(r)
    BY <1>2, <1>5, MessageIs DEF Beginning
  <2>3. ~Continuing(r)'
    <3>1. \A m \in LineOf(r)' : Placed(r, m) /\ r \notin StreamRequests
      BY <1>3, <2>1, GoneItems
    <3>2. \A n \in 1..yielded[r] : n \in Nat
      BY <1>1
    <3> QED  BY <1>1, <3>1, <3>2, Tags, GoneItems DEF Continuing, Placed
  <2>4. ~Flushing(r)'
    BY <1>2, <1>5
  <2> QED  BY <1>1, <1>4, <1>5, <2>1, <2>2, <2>3, <2>4 DEF PeerState
<1>6. CASE msg.tag = "open"
  <2>1. r \in StreamRequests /\ work[r] \in {"streaming", "retiring", "done"}
    BY <1>3, <1>6 DEF Placed
  <2>2. Beginning(r)
    BY <1>2, <1>6, MessageIs DEF Beginning
  <2>3. PeerState(r) = "serving" /\ PeerState(r)' \in {"open", "done"}
    BY <1>1, <1>4, <2>1, <2>2 DEF PeerState
  <2>4. replyTask' = "flushing" => PeerState(r)' = "open"
    BY <1>1, <1>2, <1>4, <1>6, <2>1 DEF PeerState
  <2> QED  BY <1>6, <2>1, <2>3, <2>4
<1>7. ASSUME msg.tag \in {"item", "closed"}
      PROVE  r \in StreamRequests /\ PeerState(r) = "open"
  <2>1. r \in StreamRequests
    BY <1>3, <1>7 DEF Placed
  <2>2. Continuing(r)
    BY <1>2, <1>3, <1>7, MessageIs DEF Continuing, Placed
  <2>3. ~Beginning(r)
    <3>1. msg # ValueMsg(r) /\ msg # OpenMsg(r)
      BY <1>7, Tags
    <3> QED  BY <1>2, <1>4, <3>1 DEF Beginning
  <2> QED  BY <2>1, <2>2, <2>3 DEF PeerState
<1>8. CASE msg.tag = "item"
  <2>1. work[r] \in {"streaming", "retiring", "done"}
    BY <1>3, <1>8 DEF Placed
  <2>2. PeerState(r)' \in {"open", "done"}
    BY <1>1, <1>4, <2>1 DEF PeerState
  <2>3. replyTask' = "flushing" => PeerState(r)' = "open"
    BY <1>1, <1>2, <1>4, <1>8, <2>1 DEF PeerState
  <2> QED  BY <1>7, <1>8, <2>2, <2>3
<1>9. CASE msg.tag = "closed"
  <2>1. work[r] \in {"retiring", "done"}
    BY <1>3, <1>9 DEF Placed
  <2>2. ~Continuing(r)'
    <3>1. Rank(msg) = MaxItems + 1
      BY <1>9 DEF Rank
    <3>2. ClosedMsg(r) \notin LineOf(r)'
      BY <1>2, <1>9, MessageIs
    <3>3. ASSUME NEW n \in 1..yielded[r] PROVE ItemMsg(r, n) \notin LineOf(r)'
      <4>1. n \in Nat /\ ~(MaxItems + 1 < n)
        BY <1>1
      <4>2. Rank(ItemMsg(r, n)) = n
        BY <4>1, Tags DEF Rank
      <4> QED  BY <3>1, <4>1, <4>2, GoneItems
    <3>4. \A n \in 1..yielded[r] : n \in Nat
      BY <1>1
    <3> QED  BY <1>1, <3>2, <3>3, <3>4, GoneItems DEF Continuing
  <2>3. PeerState(r)' = "done"
    BY <1>1, <1>2, <1>4, <1>9, <2>1, <2>2 DEF PeerState
  <2> QED  BY <1>7, <1>9, <2>3
<1> QED  BY <1>2, <1>5, <1>6, <1>8, <1>9 DEF IsResponse, ResponseTags

\* An announcement that goes leaves none behind, and no reply touches it.
LEMMA GoneNotice ==
  ASSUME ProducerOK, Keeping, Tell, NEW msg, Gone(msg)
  PROVE  /\ IsResponse(msg) => Notice' = Notice
         /\ ~IsResponse(msg) => Notice = <<msg>> /\ Notice' = <<>>
<1>1. /\ msg \in DownMessages /\ msg \in InLine /\ InLine' = InLine \ {msg}
      /\ \A m \in InLine' : IsResponse(msg) \/ IsResponse(m)
  BY GoneLine
<1>2. /\ ~IsResponse(StopMsg("stop_shutdown")) /\ ~IsResponse(StopMsg("stop_aborted"))
      /\ StopMsg("stop_shutdown") # StopMsg("stop_aborted")
  BY DEF StopMsg, IsResponse, ResponseTags
<1>3. CASE IsResponse(msg)
  BY <1>1, <1>2, <1>3 DEF Notice
<1>4. CASE ~IsResponse(msg)
  <2>1. msg \in {StopMsg("stop_shutdown"), StopMsg("stop_aborted")}
    BY <1>1, <1>4, MessageIs DEF StopTags
  <2> QED  BY <1>1, <1>2, <1>4, <2>1 DEF Notice
<1> QED  BY <1>3, <1>4

\* The invariant survives the reply that goes.
LEMMA GoneKeeps ==
  ASSUME ProducerOK, Keeping, Tell, NEW msg, Gone(msg)
  PROVE  Keeping'
<1>1. InLine' \subseteq InLine /\ InOrder(Unsent)' /\ OneInHand'
  BY GoneLine
<1>2. RemovedDone' /\ loop' = loop
  BY DEF Gone, RemovedDone, Keeping, loopVars, workVars
<1>3. \A q \in Requests : Kept(q)'
  BY GoneOthers, GoneKept
<1> QED  BY <1>1, <1>2, <1>3 DEF Keeping

\* Peer counts the items that were sent.
LEMMA Counted ==
  ASSUME NEW k \in Nat
  PROVE  Cardinality(1..k) = k
BY FS_Interval

\* The transport takes a reply: Peer sends it.
LEMMA FeedSeen ==
  ASSUME ProducerOK, Keeping, Tell, FeedReply
  PROVE  Keeping' /\ OwnStep
<1>1. PICK msg : msg = Head(replyHand)
  OBVIOUS
<1>2. /\ Gone(msg) /\ replyTask' = "flushing"
      /\ connected /\ Len(down) < Capacity /\ down' = Append(down, msg)
      /\ up' = up /\ connected' = connected /\ loop' = loop
  BY <1>1 DEF FeedReply, Gone, loopVars
<1>3. Keeping' /\ told' = told
  BY <1>2, GoneKeeps, GoneLine
<1>4. Contract!Send(msg)
  BY <1>2 DEF Contract!Send
<1>5. CASE ~IsResponse(msg)
  <2>1. Notice = <<msg>> /\ Notice' = <<>> /\ PeerMap' = PeerMap /\ SentMap' = SentMap
    BY <1>2, <1>5, GoneNotice, GoneOthers DEF PeerMap, SentMap
  <2>2. Notice # <<>> /\ Head(Notice) = msg
    BY <2>1
  <2>3. Contract!PeerAnnounce
    BY <1>2, <1>3, <1>4, <2>1, <2>2 DEF Contract!PeerAnnounce
  <2>4. Contract!PeerOwn
    BY <2>3 DEF Contract!PeerOwn
  <2> QED  BY <1>3, <2>4 DEF OwnStep
<1>6. CASE IsResponse(msg)
  <2>1. PICK r \in Requests : msg.id = r
    BY <1>2, <1>6, GoneLine, MessageIs DEF IsResponse, ResponseTags
  <2>2. /\ PeerMap' = [PeerMap EXCEPT ![r] = PeerState(r)']
        /\ SentMap' = [SentMap EXCEPT ![r] = Cardinality(SentItems(r)')]
        /\ SentItems(r)' = SentItems(r) => SentMap' = SentMap
    BY <1>2, <2>1, GoneOthers, OneMoves
  <2>3. PeerMap[r] = PeerState(r) /\ SentMap[r] = Cardinality(SentItems(r))
    BY DEF PeerMap, SentMap
  <2>4. Notice' = Notice /\ msg \in DownMessages
    BY <1>2, <1>6, GoneNotice, GoneLine
  <2>5. ASSUME msg.tag \in {"value", "open", "closed"}
        PROVE  Contract!PeerReplies(r)
    <3>1. SentMap' = SentMap
      BY <1>2, <1>6, <2>1, <2>2, <2>5, GoneItems
    <3>2. CASE msg.tag = "value"
      <4>1. msg = Contract!ValueMsg(r) /\ r \in Contract!ValueRequests
        BY <1>2, <1>6, <2>1, <2>4, <3>2, MessageIs, GoneTask
           DEF Contract!ValueMsg, ValueMsg, Contract!ValueRequests, ValueRequests,
               Contract!StreamRequests, StreamRequests
      <4>2. PeerState(r) = "serving" /\ PeerState(r)' = "done"
        BY <1>2, <1>6, <2>1, <3>2, GoneTask
      <4>3. Contract!PeerAnswer(r)
        BY <1>2, <1>3, <1>4, <2>2, <2>3, <2>4, <3>1, <4>1, <4>2
           DEF Contract!PeerAnswer, Contract!Reply
      <4> QED  BY <4>3 DEF Contract!PeerReplies
    <3>3. CASE msg.tag = "open"
      <4>1. msg = Contract!OpenMsg(r) /\ r \in Contract!StreamRequests
        BY <1>2, <1>6, <2>1, <2>4, <3>3, MessageIs, GoneTask
           DEF Contract!OpenMsg, OpenMsg, Contract!StreamRequests, StreamRequests
      <4>2. PeerState(r) = "serving" /\ PeerState(r)' = "open"
        BY <1>2, <1>6, <2>1, <3>3, GoneTask
      <4>3. Contract!PeerOpen(r)
        BY <1>2, <1>3, <1>4, <2>2, <2>3, <2>4, <3>1, <4>1, <4>2
           DEF Contract!PeerOpen, Contract!Reply
      <4> QED  BY <4>3 DEF Contract!PeerReplies
    <3>4. CASE msg.tag = "closed"
      <4>1. msg = Contract!ClosedMsg(r)
        BY <2>1, <2>4, <3>4, MessageIs DEF Contract!ClosedMsg, ClosedMsg
      <4>2. PeerState(r) = "open" /\ PeerState(r)' = "done"
        BY <1>2, <1>6, <2>1, <3>4, GoneTask
      <4>3. Contract!PeerClose(r)
        BY <1>2, <1>3, <1>4, <2>2, <2>3, <2>4, <3>1, <4>1, <4>2
           DEF Contract!PeerClose, Contract!Reply
      <4> QED  BY <4>3 DEF Contract!PeerReplies
    <3> QED  BY <2>5, <3>2, <3>3, <3>4
  <2>6. ASSUME msg.tag = "item"
        PROVE  Contract!PeerReplies(r)
    <3>1. PICK k \in Nat : /\ SentItems(r) = 1..k /\ SentItems(r)' = 1..(k + 1)
                           /\ k < yielded[r] /\ msg = ItemMsg(r, k + 1)
      BY <1>2, <1>6, <2>1, <2>6, GoneItems
    <3>2. SentMap[r] = k /\ SentMap' = [SentMap EXCEPT ![r] = k + 1] /\ k < MaxItems
      <4>1. k + 1 \in Nat /\ k < MaxItems
        BY <3>1, RequestType, TransportAssumption
      <4> QED  BY <2>2, <2>3, <3>1, <4>1, Counted
    <3>3. SentMap' = [SentMap EXCEPT ![r] = @ + 1]
      BY <3>2
    <3>4. msg = Contract!ItemMsg(r, SentMap[r] + 1)
      BY <3>1, <3>2 DEF Contract!ItemMsg, ItemMsg
    <3>5. PeerState(r) = "open" /\ PeerState(r)' = "open"
      BY <1>2, <1>6, <2>1, <2>6, GoneTask
    <3>6. Contract!PeerItem(r)
      BY <1>2, <1>3, <1>4, <2>2, <2>3, <2>4, <3>2, <3>3, <3>4, <3>5
         DEF Contract!PeerItem, Contract!Reply
    <3> QED  BY <3>6 DEF Contract!PeerReplies
  <2>7. Contract!PeerReplies(r)
    BY <1>6, <2>5, <2>6 DEF IsResponse, ResponseTags
  <2>8. Contract!PeerOwn
    BY <2>7 DEF Contract!PeerOwn
  <2> QED  BY <1>3, <2>8 DEF OwnStep
<1> QED  BY <1>5, <1>6

\* A reply is lost with the connection: Peer's task goes on unheard.
LEMMA LostSeen ==
  ASSUME ProducerOK, Keeping, Tell, ~ProducerFaulty, ReplyErr, replyTask = "sending"
  PROVE  Keeping' /\ OwnStep
<1>1. PICK msg : msg = Head(replyHand)
  OBVIOUS
<1>2. /\ Gone(msg) /\ replyTask' = "waiting"
      /\ ~connected /\ UNCHANGED wire /\ loop' = loop
  BY <1>1 DEF ReplyErr, Gone, loopVars, wire
<1>3. Keeping' /\ told' = told
  BY <1>2, GoneKeeps, GoneLine
<1>4. CASE ~IsResponse(msg)
  <2>1. Notice = <<msg>> /\ Notice' = <<>> /\ PeerMap' = PeerMap /\ SentMap' = SentMap
    BY <1>2, <1>4, GoneNotice, GoneOthers DEF PeerMap, SentMap
  <2>2. Notice # <<>>
    BY <2>1
  <2>3. Contract!PeerAnnounce
    BY <1>2, <1>3, <2>1, <2>2 DEF Contract!PeerAnnounce, Contract!wire, wire
  <2>4. Contract!PeerOwn
    BY <2>3 DEF Contract!PeerOwn
  <2> QED  BY <1>3, <2>4 DEF OwnStep
<1>5. CASE IsResponse(msg)
  <2>1. PICK r \in Requests : msg.id = r
    BY <1>2, <1>5, GoneLine, MessageIs DEF IsResponse, ResponseTags
  <2>2. /\ PeerMap' = [PeerMap EXCEPT ![r] = PeerState(r)']
        /\ SentMap' = [SentMap EXCEPT ![r] = Cardinality(SentItems(r)')]
    BY <1>2, <2>1, GoneOthers, OneMoves
  <2>3. PeerMap[r] = PeerState(r) /\ SentMap[r] = Cardinality(SentItems(r))
    BY DEF PeerMap, SentMap
  <2>4. Notice' = Notice
    BY <1>2, <1>5, GoneNotice
  <2>5. r \in Contract!Working
    BY <1>2, <1>5, <2>1, <2>3, GoneTask DEF Contract!Working, IsResponse, ResponseTags
  <2>6. PeerState(r)' \in IF r \in Contract!StreamRequests THEN {"open", "done"} ELSE {"done"}
    BY <1>2, <1>5, <2>1, GoneTask
       DEF IsResponse, ResponseTags, Contract!StreamRequests, StreamRequests, ValueRequests
  <2>7. \E n \in {SentMap[r], SentMap[r] + 1} \cap 0..MaxItems :
          SentMap' = [SentMap EXCEPT ![r] = n]
    <3>1. PICK k \in Nat : SentItems(r) = 1..k /\ k <= MaxItems
      <4>1. PICK k \in 0..yielded[r] : SentItems(r) = 1..k
        BY DEF Keeping, Kept, ItemsLast
      <4>2. k \in Nat /\ k <= MaxItems
        BY RequestType, TransportAssumption
      <4> QED  BY <4>1, <4>2
    <3>2. CASE msg.tag # "item"
      <4>1. SentItems(r)' = SentItems(r)
        BY <1>2, <1>5, <2>1, <3>2, GoneItems
      <4>2. SentMap[r] = k /\ SentMap' = [SentMap EXCEPT ![r] = k]
        BY <2>2, <2>3, <3>1, <4>1, Counted
      <4>3. k \in 0..MaxItems
        BY <3>1, TransportAssumption
      <4> QED  BY <4>2, <4>3
    <3>3. CASE msg.tag = "item"
      <4>1. PICK j \in Nat : /\ SentItems(r) = 1..j /\ SentItems(r)' = 1..(j + 1)
                             /\ j < yielded[r]
        BY <1>2, <1>5, <2>1, <3>3, GoneItems
      <4>2. j + 1 \in 0..MaxItems /\ j + 1 \in Nat
        BY <4>1, RequestType, TransportAssumption
      <4>3. SentMap[r] = j /\ SentMap' = [SentMap EXCEPT ![r] = j + 1]
        BY <2>2, <2>3, <4>1, <4>2, Counted
      <4> QED  BY <4>2, <4>3
    <3> QED  BY <3>2, <3>3
  <2>8. Contract!PeerUnheard(r)
    BY <1>2, <1>3, <2>2, <2>4, <2>5, <2>6, <2>7
       DEF Contract!PeerUnheard, Contract!wire, wire
  <2>9. Contract!PeerOwn
    BY <2>8 DEF Contract!PeerOwn
  <2> QED  BY <1>3, <2>9 DEF OwnStep
<1> QED  BY <1>4, <1>5

\* Nothing is left to be sent: the connection is closed, if it was not.
LEMMA EndSeen ==
  ASSUME ProducerOK, Keeping, Tell, EndReplies
  PROVE  Keeping' /\ OwnStep
<1>1. /\ replyTask = "waiting" /\ replyTask' = "stopped" /\ replies = <<>>
      /\ loop = "stopped" /\ \A r \in Requests : work[r] \in {"idle", "done"}
      /\ connected' = FALSE
      /\ UNCHANGED <<loopVars, workVars, replies, replyHand, up, down>>
  BY DEF EndReplies
<1>2. told' = told
  BY <1>1, NobodyTold DEF loopVars
<1>3. Unsent = <<>> /\ InLine = {}
  <2>1. <<>> \o <<>> = <<>> /\ 1..0 = {}
    OBVIOUS
  <2>2. Unsent = <<>>
    BY <1>1, <2>1 DEF Unsent
  <2>3. InLine = {Unsent[i] : i \in 1..Len(Unsent)} /\ Len(Unsent) = 0
    BY <2>2, LineType, EmptySeq
  <2> QED  BY <2>1, <2>2, <2>3
<1>4. Still
  BY <1>1, <1>2
     DEF Still, Unsent, Flushing, OneInHand, RemovedDone, ToldToStop, Keeping, Kept,
         loopVars, workVars
<1>5. Keeping' /\ PeerMap' = PeerMap /\ SentMap' = SentMap /\ Notice' = Notice /\ loop' = loop
  BY <1>1, <1>4, StillKept DEF loopVars
<1>6. ASSUME NEW r \in Requests PROVE PeerState(r) \in {"idle", "done"}
  <2>1. ~Beginning(r) /\ ~Continuing(r) /\ ~Flushing(r)
    BY <1>1, <1>3 DEF Beginning, Continuing, Flushing
  <2> QED  BY <1>1, <2>1 DEF PeerState
<1>7. Contract!Working = {} /\ Notice = <<>>
  BY <1>3, <1>6 DEF Contract!Working, PeerMap, Notice
<1>8. CASE connected
  <2>1. Contract!peerVars' = Contract!peerVars
    BY <1>2, <1>5 DEF Contract!peerVars
  <2>2. Contract!PeerHangup
    BY <1>1, <1>7, <1>8, <2>1 DEF Contract!PeerHangup
  <2>3. Contract!PeerOwn
    BY <2>2 DEF Contract!PeerOwn
  <2> QED  BY <1>5, <2>3 DEF OwnStep
<1>9. CASE ~connected
  <2>1. UNCHANGED wire
    BY <1>1, <1>9 DEF wire, ProducerOK, WireTypeOK
  <2> QED  BY <1>2, <1>5, <2>1, Unseen
<1> QED  BY <1>8, <1>9

-----------------------------------------------------------------------------
(* The producer implements its contract                                    *)

\* Before the first message there is nothing to keep.
LEMMA KeepingInit ==
  ASSUME ProducerOK, ProducerInit
  PROVE  /\ Keeping /\ Notice = <<>>
         /\ PeerMap = [r \in Requests |-> "idle"]
         /\ SentMap = [r \in Requests |-> 0]
<1> USE DEF ProducerInit
<1>1. <<>> \o <<>> = <<>> /\ 1..0 = {} /\ Len(<<>>) = 0 /\ 0 \in 0..0
  OBVIOUS
<1>2. Unsent = <<>> /\ InLine = {}
  <2>1. Unsent = <<>>
    BY <1>1 DEF Unsent
  <2>2. InLine = {Unsent[i] : i \in 1..Len(Unsent)}
    BY LineType
  <2> QED  BY <1>1, <2>1, <2>2
<1>3. ASSUME NEW r \in Requests
      PROVE  Kept(r) /\ PeerState(r) = "idle" /\ SentItems(r) = {}
  <2>1. ~Beginning(r) /\ ~Continuing(r) /\ ~Flushing(r) /\ LineOf(r) = {} /\ SentItems(r) = {}
    BY <1>1, <1>2 DEF Beginning, Continuing, Flushing, LineOf, SentItems
  <2> QED
    BY <1>1, <2>1
       DEF Kept, ItemsLast, TaskKind, ToldToStop, CutShort, PeerState
<1>4. Keeping
  BY <1>1, <1>2, <1>3 DEF Keeping, OneInHand, RemovedDone, InOrder
<1>5. Cardinality({}) = 0
  BY <1>1, Counted
<1> QED  BY <1>2, <1>3, <1>4, <1>5 DEF PeerMap, SentMap, Notice

\* A step of the producer is one of the contract, or one that it does not see.
LEMMA ProducerSeen ==
  ASSUME ~ProducerFaulty, ~MethodsMayPanic, ProducerOK, Keeping, ProducerNext, Tell
  PROVE  Keeping' /\ OwnStep
<1>1. CASE LoopStep
  BY <1>1, LoopSeen
<1>2. CASE \E r \in Requests : WorkStep(r) \/ PanicTask(r)
  BY <1>2, FirstReplySeen, NextReplySeen, LeaveSeen DEF WorkStep, PanicTask
<1>3. CASE ReplyStep
  <2>1. CASE ReplyOk
    BY <2>1, FlushSeen DEF ReplyOk
  <2>2. CASE ReplyErr
    BY <2>2, FlushSeen, LostSeen DEF ReplyErr
  <2> QED  BY <1>3, <2>1, <2>2, TakeSeen, FeedSeen, EndSeen DEF ReplyStep
<1>4. CASE ProducerTimerElapses
  BY <1>4, LoopUnseen
<1> QED  BY <1>1, <1>2, <1>3, <1>4 DEF ProducerNext

\* So is every step.
LEMMA KeepingNext ==
  ASSUME ~ProducerFaulty, ~MethodsMayPanic, IInv, Keeping, [Next]_vars
  PROVE  /\ Keeping' /\ ContractStep
         /\ producerVars' # producerVars => OwnStep
<1>1. ProducerOK /\ ClientOK
  BY DEF IInv
<1>2. CASE ProducerNext /\ Tell
  BY <1>1, <1>2, ProducerSeen, OwnIsContract
<1>3. CASE ClientNext /\ UNCHANGED <<producerVars, told>>
  BY <1>1, <1>3, ClientSeen
<1>4. CASE UNCHANGED vars
  <2>1. UNCHANGED <<producerVars, wire, told>>
    BY <1>4 DEF vars
  <2>2. Still /\ (loop' = "running" <=> loop = "running")
    BY <2>1, StillThere DEF producerVars, loopVars
  <2> QED  BY <1>1, <2>1, <2>2, StillKept, Unseen, OwnIsContract
<1> QED  BY <1>2, <1>3, <1>4 DEF Next

LEMMA KeepingStart == Init => Keeping /\ Contract!PeerInit /\ Contract!WireInit
BY InitOK, KeepingInit
   DEF Init, IInv, ProducerInit, WireInit, Contract!PeerInit, Contract!WireInit

\* The producer implements its contract, whatever its consumer, the network
\* and the user do: if messages do not fail and methods do not panic, what it
\* does on the wire is what Peer allows.
THEOREM ProducerKeepsContract ==
  ASSUME ~ProducerFaulty, ~MethodsMayPanic
  PROVE  Spec => KeepsContract
<1>1. IInv /\ Keeping /\ [Next]_vars => Keeping' /\ ContractStep
  BY KeepingNext
<1>2. ContractStep <=>
        [Contract!PeerNext \/ Contract!PeerEnvironment]_<<Contract!peerVars, Contract!wire>>
  BY DEF ContractStep
<1> QED
  BY <1>1, <1>2, KeepingStart, Invariance, PTL DEF Spec, KeepsContract, Contract!PeerSpec

\* Under the same conditions every step of the producer is one that Peer
\* allows the producer, and not only the consumer or the network: it closes
\* the connection only when nothing is left to be done or sent.
THEOREM ProducerActsAsPeer ==
  ASSUME ~ProducerFaulty, ~MethodsMayPanic
  PROVE  Spec => ActsAsPeer
<1>1. IInv /\ Keeping /\ [Next]_vars
        => Keeping'
           /\ [producerVars' # producerVars
                 => [Contract!PeerOwn]_<<Contract!peerVars, wire>>]_vars
  BY KeepingNext DEF OwnStep, Contract!wire, wire
<1> QED
  BY <1>1, KeepingStart, Invariance, PTL DEF Spec, ActsAsPeer
=============================================================================
