----------------------------- MODULE ContractProofs -----------------------------
(***************************************************************************)
(* A session over a transport that loses nothing implements the contract   *)
(* its callers rely on (RequestContract), for any number of calls and any  *)
(* capacity: every step is a step of the contract or a stutter. What a     *)
(* handle finds in its oneshot has a reason at the other end, or the       *)
(* session is down. On a single-threaded executor, the last word about a   *)
(* request nobody wants is its abort as well: abort() cannot run inside a  *)
(* poll, so no request is queued behind its own abort, and a handle that   *)
(* is dropped without an abort has had its answer.                         *)
(***************************************************************************)
EXTENDS DeliveryProofs

-----------------------------------------------------------------------------
(* The reasons                                                             *)

Over        == ~TaskUp \/ ~connected
Answered(r) == peer[r] \in {"open", "done"}

\* Only stream methods have Streams.
KindKept(r) == phase[r] \in {"streaming", "checking", "ended"} => r \in StreamRequests

\* The producer gets a request once, even from a task that is gone, and says
\* nothing about it before it has answered.
AskedOnce(r) ==
  /\ Unique(up, RequestMsg(r))
  /\ peer[r] # "idle" => ~Has(up, RequestMsg(r))
  /\ ~Answered(r) => Silent(down, r)

\* What is in the oneshot has a reason.
ResultGrounded(r) ==
  /\ result[r] = "Ok" => Answered(r)
  /\ result[r] \in Errors => Over

\* Its sender is dropped only with the answer, or when the request is given up:
\* until then the task knows of it, and an opened stream has had its answer.
SenderKept(r) ==
  ~Over =>
    /\ entries[r] = "open" => result[r] = "Ok"
    /\ phase[r] \in {"polling", "waiting"} /\ result[r] = "empty" /\ Wanted(r) => Known(r)

Grounded(r) == KindKept(r) /\ AskedOnce(r) /\ ResultGrounded(r) /\ SenderKept(r)
Grounds     == ~Faulty => \A r \in Requests : Grounded(r)

-----------------------------------------------------------------------------
(* Steps of the handles                                                    *)

\* What a handle's step does to a oneshot: nothing, unless it makes the request.
LEMMA HandleResults ==
  ASSUME ConsumerTypeOK, NEW r \in Requests, Begin(r) \/ Finish(r), NEW q \in Requests,
         KindKept(q)
  PROVE  /\ KindKept(q)'
         /\ \/ result'[q] = result[q]
            \/ q = r /\ SendRequest(r) /\ Unmade(q) /\ result'[q] = "empty"
         /\ phase'[q] \in {"polling", "waiting"} =>
              phase[q] \in {"polling", "waiting"} \/ Unmade(q)
<1> USE DEF ConsumerTypeOK, ClientTypeOK, ChannelTypeOK, KindKept, Unmade, Resolve, Between,
            channelVars
<1>1. CASE Call(r)
  BY <1>1 DEF Call
<1>2. CASE Poll(r)
  BY <1>2 DEF Poll
<1>3. CASE SendRequest(r)
  BY <1>3 DEF SendRequest
<1>4. CASE PollResult(r)
  BY <1>4 DEF PollResult
<1>5. CASE PollNext(r)
  BY <1>5 DEF PollNext
<1>6. CASE CheckAbort(r)
  BY <1>6 DEF CheckAbort
<1>7. CASE DropHandle(r)
  BY <1>7 DEF DropHandle
<1>8. CASE AbortSend(r)
  BY <1>8 DEF AbortSend
<1>9. CASE AbortSignal(r)
  BY <1>9 DEF AbortSignal
<1> QED  BY <1>1, <1>2, <1>3, <1>4, <1>5, <1>6, <1>7, <1>8, <1>9 DEF Begin, Finish

\* A handle's step leaves every oneshot its reason.
LEMMA HandleGrounds ==
  ASSUME ConsumerTypeOK, HandFull, TaskUp => \A p \in Requests : Tracked(p),
         NEW r \in Requests, Begin(r) \/ Finish(r), UNCHANGED peerVars,
         NEW q \in Requests, Grounded(q)
  PROVE  Grounded(q)'
<1> USE DEF Grounded
<1>1. UNCHANGED <<task, inHand, entries, peer, up, down, connected>>
  BY HandleStepType DEF taskVars, wire, peerVars
<1>2. AskedOnce(q)' /\ (Over' <=> Over)
  BY <1>1 DEF AskedOnce, Answered, Over, TaskUp
<1>3. KindKept(q)' /\ ResultGrounded(q)'
  BY <1>1, <1>2, HandleResults DEF ResultGrounded, Answered, Results, Errors
<1>4. ASSUME ~Over
      PROVE  SenderKept(q)'
  <2>1. TaskUp /\ Tracked(q)
    BY <1>4 DEF Over
  <2>2. entries'[q] = "open" => result'[q] = "Ok"
    BY <1>1, <1>4, <2>1, HandleResults DEF SenderKept, Tracked, OnePlace, Coming
  <2>3. ASSUME phase'[q] \in {"polling", "waiting"}, result'[q] = "empty", Wanted(q)'
        PROVE  Known(q)'
    <3>1. Wanted(q) /\ (Coming(q) => Coming(q)')
      BY <2>1, <2>3, HandleLives
    <3>2. Coming(q) \/ entries[q] # "absent"
      BY <1>4, <2>3, <3>1, HandleResults DEF SenderKept, Known, Coming, Unmade
    <3> QED  BY <1>1, <3>1, <3>2 DEF Known
  <2> QED  BY <2>2, <2>3 DEF SenderKept
<1>5. SenderKept(q)'
  BY <1>2, <1>4 DEF SenderKept
<1> QED  BY <1>2, <1>3, <1>5

-----------------------------------------------------------------------------
(* Steps of the producer                                                   *)

\* The producer says something, about a request it has answered if about any.
LEMMA SayAsks ==
  ASSUME WireTypeOK, NEW q \in Requests, AskedOnce(q), up' = up,
         NEW msg \in DownMessages, down' = Append(down, msg),
         About(msg, q) => Answered(q)', Answered(q) => Answered(q)',
         peer[q] = "idle" => peer'[q] = "idle"
  PROVE  AskedOnce(q)'
BY AppendOrder DEF AskedOnce, WireTypeOK, Answered

\* What a producer has done stays done, and a request is asked of it once.
LEMMA PeerAdvances ==
  ASSUME PeerTypeOK, WireTypeOK, NEW q \in Requests, AskedOnce(q), PeerNext
  PROVE  /\ AskedOnce(q)'
         /\ Answered(q) => Answered(q)'
         /\ peer[q] = "done" => peer'[q] = "done" /\ itemsSent'[q] = itemsSent[q]
         /\ itemsSent[q] <= itemsSent'[q]
         /\ connected' => connected
<1> USE DEF PeerTypeOK, WireTypeOK, Answered
<1>1. CASE PeerReceive
  <2> DEFINE msg == Head(up)
  <2>1. up \in Seq(UpMessages) /\ up # <<>> /\ up' = Tail(up) /\ msg \in UpMessages
    BY <1>1, HeadTailProperties DEF PeerReceive
  <2>2. UNCHANGED <<itemsSent, down, connected>>
    BY <1>1 DEF PeerReceive
  <2>3. CASE msg = RequestMsg(q)
    <3>1. peer' = [peer EXCEPT ![q] = "serving"]
      BY <1>1, <2>3, RequestsDiffer DEF PeerReceive
    <3>2. Has(up, RequestMsg(q))
      BY <2>1, <2>3, TailIndex DEF Has
    <3>3. peer[q] = "idle" /\ ~Has(up', RequestMsg(q)) /\ Unique(up', RequestMsg(q))
      BY <2>1, <2>3, <3>2, TailOrder DEF AskedOnce
    <3> QED  BY <2>2, <3>1, <3>3 DEF AskedOnce
  <2>4. CASE msg # RequestMsg(q)
    <3>1. peer'[q] = peer[q]
      BY <1>1, <2>1, <2>4, RequestsDiffer DEF PeerReceive, UpMessages
    <3> QED  BY <2>1, <2>2, <3>1, TailOrder DEF AskedOnce
  <2> QED  BY <2>3, <2>4
<1>2. ASSUME NEW r \in Requests, PeerReplies(r)
      PROVE  /\ Answered(q) => Answered(q)'
             /\ peer[q] = "done" => peer'[q] = "done" /\ itemsSent'[q] = itemsSent[q]
             /\ itemsSent[q] <= itemsSent'[q]
             /\ connected' = connected /\ up' = up
             /\ peer[q] = "idle" => peer'[q] = "idle"
             /\ q = r => Answered(q)'
  BY <1>2 DEF PeerReplies, PeerAnswer, PeerOpen, PeerItem, PeerClose, Reply, Send
<1>3. ASSUME NEW r \in Requests, PeerReplies(r)
      PROVE  AskedOnce(q)'
  <2>1. PICK msg \in {ValueMsg(r), OpenMsg(r), ClosedMsg(r), ItemMsg(r, itemsSent[r] + 1)} :
          down' = Append(down, msg)
    BY <1>3 DEF PeerReplies, PeerAnswer, PeerOpen, PeerItem, PeerClose, Reply, Send
  <2>2. itemsSent[r] + 1 \in Nat
    OBVIOUS
  <2>3. msg \in DownMessages /\ (About(msg, q) => q = r)
    BY <2>2, MessageTypes, RepliesDiffer
  <2> QED  BY <1>2, <1>3, <2>1, <2>3, SayAsks
<1>4. ASSUME NEW r \in Requests, PeerUnheard(r) \/ PeerCancel(r)
      PROVE  /\ AskedOnce(q)'
             /\ Answered(q) => Answered(q)'
             /\ peer[q] = "done" => peer'[q] = "done" /\ itemsSent'[q] = itemsSent[q]
             /\ itemsSent[q] <= itemsSent'[q]
             /\ connected' = connected
  <2>1. /\ UNCHANGED <<up, down, connected>>
        /\ peer[q] = "idle" => peer'[q] = "idle"
        /\ Answered(q) => Answered(q)'
        /\ peer[q] = "done" => peer'[q] = "done" /\ itemsSent'[q] = itemsSent[q]
        /\ itemsSent[q] <= itemsSent'[q]
    BY <1>4 DEF PeerUnheard, PeerCancel, Working, wire
  <2> QED  BY <2>1 DEF AskedOnce
<1>5. CASE PeerStop \/ PeerHangup
  BY <1>5 DEF PeerStop, PeerHangup, AskedOnce, wire, peerVars
<1>6. CASE PeerAnnounce
  <2>1. UNCHANGED <<peer, itemsSent, up, connected>>
    BY <1>6 DEF PeerAnnounce, Send, wire
  <2>2. CASE connected
    <3>1. /\ Head(notice) \in DownMessages /\ Head(notice) \in [tag : StopTags]
          /\ down' = Append(down, Head(notice))
      BY <1>6, <2>2, HeadTailProperties DEF PeerAnnounce, Send, DownMessages
    <3>2. AskedOnce(q)'
      BY <2>1, <3>1, RepliesDiffer, SayAsks
    <3> QED  BY <2>1, <3>2
  <2>3. CASE ~connected
    BY <1>6, <2>1, <2>3 DEF PeerAnnounce, AskedOnce, wire
  <2> QED  BY <2>2, <2>3
<1>7. CASE Disconnect /\ UNCHANGED peerVars
  <2>1. PICK n \in 0..Len(up) : up' = SubSeq(up, 1, n)
    BY <1>7 DEF Disconnect
  <2>2. PICK k \in 0..Len(down) : down' = SubSeq(down, 1, k)
    BY <1>7 DEF Disconnect
  <2>3. ~connected' /\ UNCHANGED <<peer, itemsSent>>
    BY <1>7 DEF Disconnect, peerVars
  <2> QED  BY <2>1, <2>2, <2>3, PrefixOrder DEF AskedOnce
<1> QED  BY <1>1, <1>2, <1>3, <1>4, <1>5, <1>6, <1>7 DEF PeerNext, PeerOwn

\* A step of the producer's end leaves every oneshot its reason.
LEMMA PeerGrounds ==
  ASSUME PeerTypeOK, WireTypeOK, NEW q \in Requests, Grounded(q), PeerNext,
         UNCHANGED consumerVars
  PROVE  Grounded(q)'
<1> USE DEF Grounded
<1>1. /\ AskedOnce(q)' /\ (Answered(q) => Answered(q)') /\ (connected' => connected)
  BY PeerAdvances
<1>2. UNCHANGED <<phase, abort, result, entries, task>>
  BY DEF consumerVars, clientVars, channelVars, taskVars
<1>3. Over => Over'
  BY <1>1, <1>2 DEF Over, TaskUp
<1>4. KindKept(q)' /\ ResultGrounded(q)'
  BY <1>1, <1>2, <1>3 DEF KindKept, ResultGrounded
<1>5. SenderKept(q)'
  BY <1>2, <1>3, ConsumerStays DEF SenderKept
<1> QED  BY <1>1, <1>4, <1>5

-----------------------------------------------------------------------------
(* Steps of the consumer task                                              *)

\* A shutdown leaves in the oneshots what was there, or an error.
LEMMA ShutDownResults ==
  ASSUME ChannelTypeOK, NEW cause \in ShutdownTypes, ShutDown(cause), NEW q \in Requests
  PROVE  ~TaskUp' /\ result'[q] \in {result[q]} \cup Errors
BY DEF ShutDown, TaskUp, ShutdownTypes, ErrorFrom, Errors, ChannelTypeOK

\* The answer to a request is what the producer said.
LEMMA HandleMessageResults ==
  ASSUME ChannelTypeOK, TaskTypeOK, NEW msg \in DownMessages, HandleMessage(msg),
         NEW q \in Requests
  PROVE  \/ ~TaskUp' /\ result'[q] \in {result[q]} \cup Errors
         \/ /\ UNCHANGED task /\ UNCHANGED inHand /\ UNCHANGED queue
            /\ result'[q] = result[q] /\ entries'[q] = entries[q]
         \/ /\ UNCHANGED task /\ UNCHANGED inHand /\ UNCHANGED queue
            /\ entries[q] = "pending" /\ About(msg, q) /\ result'[q] = "Ok"
         \/ /\ UNCHANGED task /\ UNCHANGED inHand /\ UNCHANGED queue
            /\ msg = ClosedMsg(q) /\ result'[q] = result[q] /\ entries'[q] = "absent"
<1> USE DEF ChannelTypeOK, TaskTypeOK
<1>1. CASE msg.tag = "value" /\ HandleValue(msg.id)
  BY <1>1 DEF HandleValue, About, ResponseTags
<1>2. CASE msg.tag = "open" /\ HandleOpen(msg.id)
  BY <1>2 DEF HandleOpen, About, ResponseTags
<1>3. CASE msg.tag = "item" /\ HandleItem(msg.id, msg.item)
  BY <1>3 DEF HandleItem
<1>4. CASE msg.tag = "closed" /\ HandleClosed(msg.id)
  BY <1>4, ReplyIs DEF HandleClosed
<1>5. ASSUME NEW cause \in {"Aborted", "Shutdown"}, ShutDown(cause)
      PROVE  ~TaskUp' /\ result'[q] \in {result[q]} \cup Errors
  <2>1. cause \in ShutdownTypes
    BY DEF ShutdownTypes
  <2> QED  BY <1>5, <2>1, ShutDownResults
<1> QED  BY <1>1, <1>2, <1>3, <1>4, <1>5 DEF HandleMessage

\* Reading a message leaves every oneshot its reason.
LEMMA ReceiveGrounds ==
  ASSUME ChannelTypeOK, TaskTypeOK, WireTypeOK, Receive, UNCHANGED peerVars,
         NEW q \in Requests, Tracked(q), Grounded(q)
  PROVE  ResultGrounded(q)' /\ SenderKept(q)'
<1> USE DEF Grounded
<1> DEFINE msg == Head(down)
<1>1. /\ msg \in DownMessages /\ HandleMessage(msg)
      /\ down \in Seq(DownMessages) /\ down # <<>>
      /\ \A r : Silent(down, r) => ~About(msg, r)
      /\ UNCHANGED <<phase, abort, connected, peer>> /\ task = "running"
  BY OldestIsThere DEF Receive, peerVars
<1>2. CASE ~TaskUp' /\ result'[q] \in {result[q]} \cup Errors
  BY <1>1, <1>2 DEF Over, SenderKept, ResultGrounded, Answered, Errors
<1> SUFFICES ASSUME TaskUp', task' = task, inHand' = inHand, queue' = queue
             PROVE  ResultGrounded(q)' /\ SenderKept(q)'
  BY <1>1, <1>2, HandleMessageResults DEF TaskUp
<1>3. /\ Over' <=> Over
      /\ Coming(q)' <=> Coming(q)
      /\ Wanted(q)' <=> Wanted(q)
  BY <1>1 DEF Over, TaskUp, Coming, Unmade, Queued, InHand, Wanted
<1>4. CASE result'[q] = result[q] /\ entries'[q] = entries[q]
  BY <1>1, <1>3, <1>4 DEF ResultGrounded, SenderKept, Known, Answered
<1>5. CASE entries[q] = "pending" /\ About(msg, q) /\ result'[q] = "Ok"
  <2>1. Answered(q)
    BY <1>1, <1>5 DEF AskedOnce
  <2> QED  BY <1>1, <1>5, <2>1 DEF ResultGrounded, SenderKept, Answered, Errors
<1>6. CASE msg = ClosedMsg(q) /\ result'[q] = result[q] /\ entries'[q] = "absent"
  <2>1. entries[q] # "pending"
    BY <1>1, <1>6, TailOrder DEF Tracked, OpenFirst
  <2>2. ResultGrounded(q)'
    BY <1>1, <1>3, <1>6 DEF ResultGrounded, Answered
  <2>3. SenderKept(q)'
    <3>1. entries[q] = "open" /\ ~Over => result[q] = "Ok"
      BY DEF SenderKept
    <3> QED
      BY <1>1, <1>3, <1>6, <2>1, <3>1 DEF SenderKept, Known, TaskTypeOK
  <2> QED  BY <2>2, <2>3
<1> QED  BY <1>1, <1>4, <1>5, <1>6, HandleMessageResults DEF Errors

\* The end of a send leaves every oneshot its reason: it fails only with the
\* connection.
LEMMA SentGrounds ==
  ASSUME ChannelTypeOK, TaskOK, ~Faulty, SendOk \/ SendErr, UNCHANGED peerVars,
         NEW q \in Requests, AbortMeant(q), Grounded(q)
  PROVE  ResultGrounded(q)' /\ SenderKept(q)'
<1> USE DEF Grounded
<1> DEFINE msg == Head(inHand)
<1>1. /\ UNCHANGED <<phase, abort, connected>>
      /\ Wanted(q) /\ connected /\ Known(q) => Known(q)'
      /\ UNCHANGED peer
  BY SentKnows DEF peerVars
<1>2. TaskUp /\ TaskUp' /\ (Over' <=> Over)
  BY <1>1 DEF SendOk, SendErr, TaskUp, Over
<1>3. CASE SendOk
  <2>1. result' = result
    BY <1>3 DEF SendOk, channelVars
  <2>2. entries'[q] = "open" => entries[q] = "open"
    BY <1>3 DEF SendOk, Register, Forget, TaskOK, TaskTypeOK
  <2>3. ResultGrounded(q)'
    BY <1>1, <1>2, <2>1 DEF ResultGrounded, Answered
  <2>4. Wanted(q)' <=> Wanted(q)
    BY <1>1 DEF Wanted
  <2>5. SenderKept(q)'
    BY <1>1, <1>2, <2>1, <2>2, <2>4 DEF SenderKept, Over
  <2> QED  BY <2>3, <2>5
<1>4. CASE SendErr
  <2>1. ~connected /\ Over' /\ result'[q] \in {result[q], "ErrClosed"}
    BY <1>1, <1>4 DEF SendErr, Over, ChannelTypeOK
  <2>2. SenderKept(q)'
    BY <2>1 DEF SenderKept
  <2>3. ResultGrounded(q)'
    BY <1>1, <2>1 DEF ResultGrounded, Answered
  <2> QED  BY <2>2, <2>3
<1> QED  BY <1>3, <1>4

\* What every step of the task does to the session as a whole.
LEMMA TaskSession ==
  ASSUME WireTypeOK, TaskStep
  PROVE  /\ connected' => connected
         /\ TaskUp' => TaskUp
         /\ ~TaskUp' => up' = up
         /\ down' = down \/ (down # <<>> /\ down' = Tail(down))
         /\ UNCHANGED clientVars
BY DEF TaskStep, Receive, ReceiveError, ReceiveClosed, TakeMessage, FeedMessage, SendOk,
       SendErr, TimeoutArm, ShutdownArm, DropArm, DropState, TaskUp, wire

\* Every step of the task leaves every oneshot its reason.
LEMMA TaskGrounds ==
  ASSUME ConsumerTypeOK, WireTypeOK, TaskOK, ~Faulty, TaskStep, UNCHANGED peerVars,
         NEW q \in Requests, Grounded(q), Routed \/ ~TaskUp,
         TaskUp => Tracked(q) /\ AbortMeant(q), TaskUp' => Tracked(q)'
  PROVE  Grounded(q)'
<1>1. /\ UNCHANGED <<phase, abort, peer>>
      /\ (Over => Over') /\ (Wanted(q)' <=> Wanted(q))
  BY TaskSession DEF clientVars, peerVars, Over, Wanted
<1>2. KindKept(q)'
  BY <1>1 DEF Grounded, KindKept
<1>3. AskedOnce(q)'
  <2>1. ~Answered(q)' => Silent(down, q)
    BY <1>1 DEF Grounded, AskedOnce, Answered
  <2>2. ~Answered(q)' => Silent(down', q)
    BY <2>1, TaskSession, TailOrder DEF WireTypeOK
  <2>3. Unique(up', RequestMsg(q)) /\ (peer'[q] # "idle" => ~Has(up', RequestMsg(q)))
    BY <1>1, TaskSession DEF Grounded, AskedOnce, Tracked, SentOnce
  <2> QED  BY <2>2, <2>3 DEF AskedOnce
<1>4. ASSUME ~TaskUp', result'[q] \in {result[q]} \cup Errors
      PROVE  ResultGrounded(q)' /\ SenderKept(q)'
  BY <1>1, <1>4 DEF Grounded, ResultGrounded, SenderKept, Over, Answered, Errors
<1>5. ASSUME result' = result, entries' = entries, Known(q)' <=> Known(q)
      PROVE  ResultGrounded(q)' /\ SenderKept(q)'
  BY <1>1, <1>5 DEF Grounded, ResultGrounded, SenderKept, Answered
<1>6. CASE Receive
  <2>1. TaskUp
    BY <1>6 DEF Receive, TaskUp
  <2> QED  BY <1>2, <1>3, <1>6, <2>1, ReceiveGrounds DEF Grounded, ConsumerTypeOK
<1>7. CASE ReceiveClosed \/ TimeoutArm \/ ShutdownArm
  <2>1. PICK cause \in ShutdownTypes : ShutDown(cause)
    BY <1>7, ConsumerAssumption DEF ReceiveClosed, TimeoutArm, ShutdownArm, ShutdownTypes
  <2> QED  BY <1>2, <1>3, <1>4, <2>1, ShutDownResults DEF Grounded, ConsumerTypeOK
<1>8. CASE DropArm \/ DropState
  <2>1. ~TaskUp' /\ result' = result
    BY <1>8 DEF DropArm, DropState, TaskUp, channelVars
  <2> QED  BY <1>2, <1>3, <1>4, <2>1 DEF Grounded
<1>9. ASSUME NEW m \in Methods, TakeMessage(m)
      PROVE  Grounded(q)'
  <2>1. TaskUp /\ result' = result /\ entries' = entries
    BY <1>9 DEF TakeMessage, TaskUp
  <2> QED  BY <1>2, <1>3, <1>5, <1>9, <2>1, TakeKnows DEF Grounded
<1>10. CASE FeedMessage
  <2>1. /\ UNCHANGED <<inHand, entries, queue, phase, result>>
        /\ task' \in {"sending", "flushing"} /\ task \in {"sending", "flushing"}
    BY <1>10 DEF FeedMessage, clientVars, channelVars
  <2>2. Known(q)' <=> Known(q)
    BY <2>1 DEF Known, Coming, Unmade, Queued, InHand
  <2> QED  BY <1>2, <1>3, <1>5, <2>1, <2>2 DEF Grounded
<1>11. CASE SendOk \/ SendErr
  <2>1. TaskUp
    BY <1>11 DEF SendOk, SendErr, TaskUp
  <2> QED  BY <1>2, <1>3, <1>11, <2>1, SentGrounds DEF Grounded, ConsumerTypeOK
<1> QED
  BY <1>6, <1>7, <1>8, <1>9, <1>10, <1>11 DEF TaskStep, ReceiveError

-----------------------------------------------------------------------------
(* The inductive invariant                                                 *)

\* In a new session nobody has an answer.
LEMMA GroundsInit == Fresh => Grounds
<1> SUFFICES ASSUME Fresh, NEW r \in Requests
             PROVE  Grounded(r)
  BY DEF Grounds
<1> USE DEF Fresh, ConsumerInit, WireInit
<1>1. 1..Len(<<>>) = {}
  OBVIOUS
<1>2. AskedOnce(r)
  BY <1>1 DEF AskedOnce, Unique, Silent, Has
<1> QED
  BY <1>2 DEF Grounded, KindKept, ResultGrounded, SenderKept, Errors

\* Every step leaves every oneshot its reason.
LEMMA GroundsNext ==
  IInv /\ Order /\ Delivery /\ Grounds /\ Order' /\ [Next]_vars => Grounds'
<1> SUFFICES ASSUME IInv, Order, Delivery, Grounds, Order', [Next]_vars, ~Faulty,
                    NEW q \in Requests
             PROVE  Grounded(q)'
  BY DEF Grounds
<1>1. ConsumerTypeOK /\ PeerTypeOK /\ WireTypeOK /\ TaskOK /\ HandFull
  BY DEF IInv, TypeOK, ConsumerTypeOK, TaskOK
<1>2. /\ Grounded(q)
      /\ TaskUp => Routed /\ AbortMeant(q) /\ \A p \in Requests : Tracked(p)
      /\ TaskUp' => Tracked(q)'
  BY DEF Grounds, Order, Delivery, Flowing
<1>3. ASSUME UNCHANGED <<phase, abort, queue, result, task, inHand, entries, peer, wire>>
      PROVE  Grounded(q)'
  BY <1>2, <1>3
     DEF Grounded, KindKept, AskedOnce, ResultGrounded, SenderKept, Answered, Over, TaskUp,
         Known, Coming, Unmade, Queued, InHand, Wanted, wire
<1>4. ASSUME NEW r \in Requests, Begin(r) \/ Finish(r), UNCHANGED peerVars
      PROVE  Grounded(q)'
  BY <1>1, <1>2, <1>4, HandleGrounds
<1>5. CASE DropConsumer /\ UNCHANGED peerVars
  BY <1>3, <1>5 DEF DropConsumer, channelVars, taskVars, peerVars
<1>6. CASE TimerElapses /\ UNCHANGED peerVars
  BY <1>3, <1>6 DEF TimerElapses, clientVars, channelVars, peerVars
<1>7. CASE TaskStep /\ UNCHANGED peerVars
  BY <1>1, <1>2, <1>7, TaskGrounds
<1>8. CASE PeerNext /\ UNCHANGED consumerVars
  BY <1>1, <1>2, <1>8, PeerGrounds
<1>9. CASE UNCHANGED vars
  BY <1>3, <1>9 DEF vars, consumerVars, clientVars, channelVars, taskVars, peerVars
<1> QED
  BY <1>4, <1>5, <1>6, <1>7, <1>8, <1>9 DEF Next, ConsumerNext

\* Answers have reasons throughout every behaviour.
THEOREM GroundsHold == Spec => []Grounds
<1>1. IInv /\ Order /\ Delivery /\ Grounds /\ Order' /\ [Next]_vars => Grounds'
  BY GroundsNext
<1> QED
  BY <1>1, InitFresh, GroundsInit, Invariance, OrderHolds, DeliveryHolds, PTL DEF Spec

-----------------------------------------------------------------------------
(* Steps of a session are steps of the contract                            *)

Handles == [r \in Requests |-> HandleState(r)]

\* A step that no caller sees is one by which the session proceeds.
LEMMA Proceeds ==
  ASSUME \A q \in Requests : HandleState(q)' = HandleState(q),
         UNCHANGED <<outcome, delivered>>,
         \A q \in Requests :
           /\ abort[q] # "armed" => abort'[q] # "armed"
           /\ Answered(q) => Answered(q)'
           /\ peer[q] = "done" => peer'[q] = "done" /\ itemsSent'[q] = itemsSent[q]
           /\ itemsSent[q] <= itemsSent'[q] /\ itemsSent[q] \in Nat /\ itemsSent'[q] \in Nat,
         Over => Over'
  PROVE  Caller!Proceed
BY DEF Caller!Proceed, Caller!callers, Answered, Over, TaskUp

\* A handle that moves is a caller's step, during which the session stands still.
LEMMA Moves ==
  ASSUME ConsumerTypeOK, NEW r \in Requests, NEW p, phase' = [phase EXCEPT ![r] = p],
         UNCHANGED <<abort, task, connected, peer, itemsSent>>,
         NEW from, HandleState(r) \in from
  PROVE  Caller!Move(r, from, HandleState(r)')
<1>1. \A q \in Requests \ {r} : HandleState(q)' = HandleState(q)
  BY DEF HandleState, ConsumerTypeOK, ClientTypeOK
<1>2. Handles' = [Handles EXCEPT ![r] = HandleState(r)']
  BY <1>1 DEF Handles
<1> QED  BY <1>2 DEF Caller!Move, Caller!session, Handles

\* A request whose result sender is gone, with nothing in its oneshot, has been
\* called off, or the session is over.
LEMMA DroppedMeansOver ==
  ASSUME TaskTypeOK, HandFull, NEW r \in Requests, Grounded(r), phase[r] = "polling",
         result[r] = "empty", ~ResultSenderAlive(r)
  PROVE  abort[r] # "armed" \/ Over
<1>1. /\ entries[r] # "pending" /\ ~Queued(r) /\ ~Contains(inHand, RequestMsg(r))
  BY DEF ResultSenderAlive, InPipeline, Contains, Queued, Has
<1>2. ASSUME InHand(r) PROVE FALSE
  <2>1. inHand \in Seq(UpMessages) /\ inHand # <<>>
    BY <1>2 DEF InHand, HandFull, TaskTypeOK
  <2>2. 1 \in 1..Len(inHand) /\ inHand[1] = RequestMsg(r)
    BY <1>2, <2>1, TailIndex DEF InHand
  <2> QED  BY <1>1, <2>2 DEF Contains
<1>3. Known(r) => entries[r] = "open"
  BY <1>1, <1>2 DEF Known, Coming, Unmade, TaskTypeOK
<1> QED  BY <1>3 DEF Grounded, SenderKept, Wanted

\* A step of a handle, or of its Aborter, is one that the contract allows its
\* caller, or one by which the session proceeds.
LEMMA HandleRefines ==
  ASSUME ConsumerTypeOK, PeerTypeOK, HandFull, ~Faulty, StreamsEndComplete',
         NEW r \in Requests, Begin(r) \/ Finish(r), UNCHANGED peerVars,
         Grounded(r), Numbered(r)
  PROVE  Caller!Next
<1> USE DEF ConsumerTypeOK, ClientTypeOK
<1>0. /\ UNCHANGED <<task, connected, peer, itemsSent>>
      /\ \A q \in Requests : itemsSent[q] \in Nat
      /\ Over' <=> Over
  BY HandleStepType DEF taskVars, wire, peerVars, PeerTypeOK, Over, TaskUp
<1>1. ASSUME \A q \in Requests : HandleState(q)' = HandleState(q), UNCHANGED <<outcome, delivered>>,
             \A q \in Requests : abort[q] # "armed" => abort'[q] # "armed"
      PROVE  Caller!Next
  <2>1. Caller!Proceed
    BY <1>0, <1>1, Proceeds DEF Answered
  <2> QED  BY <2>1 DEF Caller!Next
<1>2. ASSUME NEW res \in Errors, Resolve(r, res), HandleState(r) = "pending",
             UNCHANGED <<abort, delivered>>,
             abort[r] # "armed" \/ Over, ~Over => res \in {"ErrAborted", "ErrDropped"}
      PROVE  Caller!Next
  <2>1. Caller!Move(r, {"pending"}, "over")
    <3>1. HandleState(r)' = "over" /\ phase' = [phase EXCEPT ![r] = "resolved"]
      BY <1>2 DEF Resolve, HandleState
    <3> QED  BY <1>0, <1>2, <3>1, Moves
  <2>2. outcome' = [outcome EXCEPT ![r] = res] /\ res \in Results \ {"Ok"}
    BY <1>2 DEF Resolve, Results, Errors
  <2>3. Caller!Fail(r)
    BY <1>2, <2>1, <2>2 DEF Caller!Fail, Over, TaskUp
  <2> QED  BY <2>3 DEF Caller!Next
<1>3. ASSUME HandleState(r) = "pending", UNCHANGED <<abort, delivered>>,
             NEW p, phase' = [phase EXCEPT ![r] = p], outcome' = [outcome EXCEPT ![r] = "Ok"],
             HandleState(r)' = IF r \in StreamRequests THEN "streaming" ELSE "over",
             Answered(r) \/ (Over /\ r \in StreamRequests)
      PROVE  Caller!Next
  <2>1. Caller!Move(r, {"pending"}, IF r \in StreamRequests THEN "streaming" ELSE "over")
    BY <1>0, <1>3, Moves
  <2>2. Caller!Succeed(r)
    BY <1>3, <2>1 DEF Caller!Succeed, Answered, Over, TaskUp
  <2> QED  BY <2>2 DEF Caller!Next
<1>4. ASSUME HandleState(r) = "streaming", UNCHANGED <<abort, outcome, delivered>>,
             phase' = [phase EXCEPT ![r] = "ended"],
             \/ abort[r] # "armed"
             \/ Over
             \/ peer[r] = "done" /\ Len(delivered[r]) = itemsSent[r]
      PROVE  Caller!Next
  <2>1. Caller!Move(r, {"streaming"}, "over")
    <3>1. HandleState(r)' = "over"
      BY <1>4 DEF HandleState
    <3> QED  BY <1>0, <1>4, <3>1, Moves
  <2>2. Caller!End(r)
    BY <1>4, <2>1 DEF Caller!End, Over, TaskUp
  <2> QED  BY <2>2 DEF Caller!Next
<1>5. CASE Call(r)
  <2>1. HandleState(r) = "uncalled" /\ HandleState(r)' = "pending"
    BY <1>5 DEF Call, HandleState
  <2>2. Caller!Move(r, {"uncalled"}, "pending")
    BY <1>0, <1>5, <2>1, Moves DEF Call
  <2> QED  BY <1>5, <2>2 DEF Call, Caller!Call, Caller!Next
<1>6. CASE Poll(r)
  <2>1. HandleState(r) = "pending"
    BY <1>6 DEF Poll, HandleState
  <2>2. CASE abort[r] = "signalled"
    BY <1>2, <1>6, <2>1, <2>2 DEF Poll, Errors
  <2>3. CASE abort[r] # "signalled"
    BY <1>1, <1>6, <2>3 DEF Poll, HandleState
  <2> QED  BY <2>2, <2>3
<1>7. CASE SendRequest(r)
  <2>1. HandleState(r) = "pending"
    BY <1>7 DEF SendRequest, HandleState
  <2>2. CASE task = "stopped"
    BY <1>2, <1>7, <2>1, <2>2 DEF SendRequest, Errors, Over, TaskUp
  <2>3. CASE task # "stopped"
    BY <1>1, <1>7, <2>3 DEF SendRequest, HandleState
  <2> QED  BY <2>2, <2>3
<1>8. CASE PollResult(r)
  <2>1. HandleState(r) = "pending" /\ UNCHANGED <<abort, delivered>>
    BY <1>8 DEF PollResult, HandleState
  <2>2. ResultGrounded(r)
    BY DEF Grounded
  <2>3. CASE result[r] \in Results /\ r \in StreamRequests
    <3>1. /\ phase' = [phase EXCEPT ![r] = "streaming"]
          /\ outcome' = [outcome EXCEPT ![r] = "Ok"]
      BY <1>8, <2>3 DEF PollResult, Results, Errors
    <3>2. HandleState(r)' = "streaming" /\ (Answered(r) \/ Over)
      BY <2>2, <2>3, <3>1 DEF HandleState, ResultGrounded, Results
    <3> QED  BY <1>3, <2>1, <2>3, <3>1, <3>2
  <2>4. CASE result[r] \in Results /\ r \notin StreamRequests
    <3>1. Resolve(r, result[r])
      BY <1>8, <2>4 DEF PollResult, Results, Errors
    <3>2. CASE result[r] = "Ok"
      <4>1. HandleState(r)' = "over" /\ phase' = [phase EXCEPT ![r] = "resolved"]
        BY <3>1 DEF Resolve, HandleState
      <4> QED  BY <1>3, <2>1, <2>2, <2>4, <3>1, <3>2, <4>1 DEF Resolve, ResultGrounded
    <3>3. CASE result[r] \in Errors
      BY <1>2, <2>1, <2>2, <3>1, <3>3 DEF ResultGrounded
    <3> QED  BY <2>4, <3>2, <3>3 DEF Results
  <2>5. CASE result[r] = "empty" /\ ~ResultSenderAlive(r)
    <3>1. Resolve(r, "ErrDropped")
      BY <1>8, <2>5 DEF PollResult, Results, Errors
    <3>2. abort[r] # "armed" \/ Over
      BY <1>8, <2>5, DroppedMeansOver DEF PollResult
    <3> QED  BY <1>2, <2>1, <3>1, <3>2 DEF Errors
  <2>6. CASE result[r] = "empty" /\ ResultSenderAlive(r)
    BY <1>1, <1>8, <2>6 DEF PollResult, HandleState, Results, Errors
  <2> QED  BY <1>8, <2>3, <2>4, <2>5, <2>6 DEF PollResult
<1>9. CASE PollNext(r)
  <2>1. HandleState(r) = "streaming" /\ r \in StreamRequests /\ UNCHANGED <<abort, outcome>>
    BY <1>9 DEF PollNext, HandleState, Grounded, KindKept
  <2>2. CASE values[r] # <<>>
    <3>1. /\ delivered' = [delivered EXCEPT ![r] = Append(@, Head(values[r]))]
          /\ phase' = phase
      BY <1>9, <2>2 DEF PollNext
    <3>2. /\ values[r] \in Seq(Nat) /\ Len(values[r]) \in Nat \ {0}
          /\ Head(values[r]) = values[r][1] /\ Len(delivered[r]) \in Nat
      BY <2>2, TailIndex, LenProperties DEF ChannelTypeOK
    <3>3. Head(values[r]) = Len(delivered[r]) + 1 /\ Len(delivered[r]) < itemsSent[r]
      BY <1>0, <3>2 DEF Numbered, Got
    <3>4. Caller!Move(r, {"streaming"}, "streaming")
      <4>1. phase' = [phase EXCEPT ![r] = "streaming"] /\ HandleState(r)' = "streaming"
        BY <1>9, <2>1, <3>1 DEF PollNext, HandleState
      <4> QED  BY <1>0, <2>1, <4>1, Moves
    <3>5. Caller!Return(r)
      BY <2>1, <3>1, <3>3, <3>4 DEF Caller!Return
    <3> QED  BY <3>5 DEF Caller!Next
  <2>3. CASE values[r] = <<>> /\ ValuesSenderAlive(r)
    BY <1>1, <1>9, <2>3 DEF PollNext, HandleState
  <2>4. CASE values[r] = <<>> /\ ~ValuesSenderAlive(r)
    <3>1. phase' = [phase EXCEPT ![r] = "ended"] /\ UNCHANGED delivered
      BY <1>9, <2>4 DEF PollNext
    <3>2. ASSUME abort[r] = "armed", ~Over
          PROVE  peer[r] = "done" /\ Len(delivered[r]) = itemsSent[r]
      <4>1. peer[r] = "done" /\ delivered[r] = Upto(itemsSent[r])
        BY <1>0, <2>1, <3>1, <3>2 DEF StreamsEndComplete, Over, TaskUp, Upto
      <4> QED  BY <1>0, <4>1 DEF Upto
    <3> QED  BY <1>4, <2>1, <3>1, <3>2
  <2> QED  BY <2>2, <2>3, <2>4
<1>10. CASE CheckAbort(r)
  <2>1. CASE abort[r] = "signalled"
    BY <1>4, <1>10, <2>1 DEF CheckAbort, HandleState
  <2>2. CASE abort[r] # "signalled"
    BY <1>1, <1>10, <2>2 DEF CheckAbort, HandleState
  <2> QED  BY <2>1, <2>2
<1>11. CASE DropHandle(r)
  <2>1. HandleState(r) \in {"pending", "streaming", "over"} /\ HandleState(r)' = "dropped"
    BY <1>11 DEF DropHandle, HandleState, Between
  <2>2. Caller!Move(r, {"pending", "streaming", "over"}, "dropped")
    BY <1>0, <1>11, <2>1, Moves DEF DropHandle
  <2> QED  BY <1>11, <2>2 DEF DropHandle, Caller!Drop, Caller!Next
<1>12. CASE AbortSend(r) \/ AbortSignal(r)
  BY <1>1, <1>12 DEF AbortSend, AbortSignal, HandleState
<1> QED
  BY <1>5, <1>6, <1>7, <1>8, <1>9, <1>10, <1>11, <1>12 DEF Begin, Finish

\* A new session is a new session to its callers.
LEMMA InitRefines == Fresh => Caller!Init
BY DEF Fresh, ConsumerInit, WireInit, Caller!Init, HandleState

\* Every step of a session is a step of the contract, or a stutter.
LEMMA StepRefines ==
  ASSUME ~Faulty, IInv, Delivery, Grounds, StreamsEndComplete', IInv', [Next]_vars
  PROVE  [Caller!Next]_<<Caller!callers, Caller!session>>
<1>1. ConsumerTypeOK /\ PeerTypeOK /\ WireTypeOK /\ TaskOK /\ HandFull
  BY DEF IInv, TypeOK, ConsumerTypeOK, TaskOK
<1>2. \A q \in Requests : Grounded(q) /\ Numbered(q) /\ AskedOnce(q)
  BY DEF Grounds, Delivery, Grounded
<1>3. \A q \in Requests : itemsSent[q] \in Nat /\ itemsSent'[q] \in Nat
  BY DEF IInv, TypeOK, PeerTypeOK
<1>4. ASSUME UNCHANGED <<phase, outcome, abort, delivered, peer, itemsSent>>, Over => Over'
      PROVE  Caller!Next
  <2>1. Caller!Proceed
    BY <1>3, <1>4, Proceeds DEF HandleState, Answered
  <2> QED  BY <2>1 DEF Caller!Next
<1>5. ASSUME NEW r \in Requests, Begin(r) \/ Finish(r), UNCHANGED peerVars
      PROVE  Caller!Next
  BY <1>1, <1>2, <1>5, HandleRefines
<1>6. CASE (DropConsumer \/ TimerElapses) /\ UNCHANGED peerVars
  BY <1>4, <1>6 DEF DropConsumer, TimerElapses, taskVars, clientVars, peerVars, wire, Over,
                    TaskUp
<1>7. CASE TaskStep /\ UNCHANGED peerVars
  BY <1>1, <1>4, <1>7, TaskSession DEF Over, clientVars, peerVars
<1>8. CASE PeerNext /\ UNCHANGED consumerVars
  <2>1. /\ UNCHANGED <<phase, outcome, abort, delivered>>
        /\ task' = task
    BY <1>8 DEF consumerVars, clientVars, taskVars
  <2>2. \A q \in Requests :
          /\ Answered(q) => Answered(q)'
          /\ peer[q] = "done" => peer'[q] = "done" /\ itemsSent'[q] = itemsSent[q]
          /\ itemsSent[q] <= itemsSent'[q]
    BY <1>1, <1>2, <1>8, PeerAdvances
  <2>3. Over => Over'
    <3>1. CASE Requests = {}
      BY <1>8, <2>1, <3>1
         DEF Over, TaskUp, PeerNext, PeerOwn, PeerReceive, PeerStop, PeerAnnounce,
             PeerHangup, Send, Disconnect, wire
    <3>2. CASE Requests # {}
      BY <1>1, <1>2, <1>8, <2>1, <3>2, PeerAdvances DEF Over, TaskUp
    <3> QED  BY <3>1, <3>2
  <2>4. Caller!Proceed
    BY <1>3, <2>1, <2>2, <2>3, Proceeds DEF HandleState
  <2> QED  BY <2>4 DEF Caller!Next
<1>9. CASE UNCHANGED vars
  BY <1>4, <1>9
     DEF vars, consumerVars, clientVars, taskVars, peerVars, wire, Over, TaskUp
<1> QED
  BY <1>5, <1>6, <1>7, <1>8, <1>9 DEF Next, ConsumerNext

\* A session implements the contract with its callers: one outcome per request,
\* no failure without a cause, items in order and none missing, whatever poll,
\* abort, drop, the select! loop and the producer do to each other on the way.
THEOREM ContractKept ==
  ASSUME ~Faulty
  PROVE  Spec => KeepsCallersContract
<1>1. IInv /\ IInv' /\ Delivery /\ Grounds /\ StreamsEndComplete' /\ [Next]_vars
        => [Caller!Next]_<<Caller!callers, Caller!session>>
  BY StepRefines
<1> QED
  BY <1>1, InitFresh, InitRefines, Invariance, DeliveryHolds, GroundsHold,
     StreamsComplete, PTL
     DEF Spec, KeepsCallersContract, Caller!Spec

-----------------------------------------------------------------------------
(* The last word                                                           *)

\* A poll that is about to queue the request has found no abort.
NoRace(r) == phase[r] = "starting" => abort[r] = "armed"

\* Only streams are opened.
OpenKept(r) == peer[r] = "open" => r \in StreamRequests

\* A request that resolves without an abort has been answered.
Settled(r) ==
  phase[r] = "resolved" /\ Wanted(r) /\ ~Over => r \in ValueRequests /\ result[r] = "Ok"

\* The abort of r has not reached the transport yet.
Feeding(msg)  == task = "sending" /\ Head(inHand) = msg
ToBeSent(r)   == Feeding(AbortMsg(r)) \/ Has(queue[MethodOf[r]], AbortMsg(r))

\* Wherever a request that was given up is, its abort is behind it.
LastWord(r) ==
  ~Wanted(r) /\ ~Over /\ listening =>
    /\ Followed(up, RequestMsg(r), AbortMsg(r)) \/ ToBeSent(r)
    /\ Feeding(RequestMsg(r)) => ToBeSent(r)
    /\ Followed(queue[MethodOf[r]], RequestMsg(r), AbortMsg(r))
    /\ r \in Working \ cancelled => Has(up, AbortMsg(r)) \/ ToBeSent(r)

CalledOff(r) == NoRace(r) /\ OpenKept(r) /\ Settled(r) /\ LastWord(r)

\* The task sends one message at a time.
OneInHand == task = "sending" => inHand = <<Head(inHand)>>

LastWords == /\ OneInHand
             /\ ~Faulty /\ ~MultiThreaded => \A r \in Requests : CalledOff(r)

-----------------------------------------------------------------------------
(* Steps of the handles                                                    *)

\* On a single thread, the abort oneshot is looked at before a poll begins, and
\* does not change until it ends.
LEMMA HandleKeepsOrder ==
  ASSUME ConsumerTypeOK, TaskTypeOK, HandFull, ~Faulty, ~MultiThreaded,
         NEW r \in Requests, Finish(r) \/ (Preemptible /\ Begin(r)), UNCHANGED peerVars,
         NEW q \in Requests, Grounded(q), NoRace(q), Settled(q)
  PROVE  NoRace(q)' /\ Settled(q)'
<1> USE DEF ConsumerTypeOK, ClientTypeOK, ChannelTypeOK, NoRace, Between
<1>0. /\ UNCHANGED <<task, connected>>
      /\ Over' <=> Over
  BY HandleStepType DEF Begin, Finish, taskVars, wire, Over, TaskUp
<1>1. ASSUME UNCHANGED result, phase'[q] = "resolved" => phase[q] = "resolved",
             abort'[q] = "armed" => abort[q] = "armed"
      PROVE  Settled(q)'
  BY <1>0, <1>1 DEF Settled, Wanted
<1>2. CASE Call(r)
  BY <1>1, <1>2 DEF Call, channelVars
<1>3. CASE Preemptible /\ Poll(r)
  <2>1. NoRace(q)'
    BY <1>3 DEF Poll, Preemptible, Resolve
  <2>2. Settled(q)'
    BY <1>0, <1>3 DEF Poll, Resolve, Settled, Wanted
  <2> QED  BY <2>1, <2>2
<1>4. CASE SendRequest(r)
  BY <1>0, <1>4 DEF SendRequest, Resolve, Settled, Wanted, Over, TaskUp
<1>5. CASE PollResult(r)
  <2>1. NoRace(q)'
    BY <1>5 DEF PollResult, Resolve
  <2>2. CASE q # r
    BY <1>1, <1>5, <2>2 DEF PollResult, Resolve
  <2>3. ASSUME q = r, phase'[r] = "resolved", Wanted(r)', ~Over
        PROVE  r \in ValueRequests /\ result[r] = "Ok"
    <3>1. Wanted(r) /\ (result[r] = "empty" /\ ~ResultSenderAlive(r) => Over)
      BY <1>5, <2>3, DroppedMeansOver DEF PollResult, Wanted
    <3>2. result[r] \in Results /\ r \notin StreamRequests
      BY <1>5, <2>3, <3>1 DEF PollResult
    <3> QED  BY <2>3, <3>2 DEF Grounded, ResultGrounded, Results, ValueRequests
  <2> QED  BY <1>0, <1>5, <2>1, <2>2, <2>3 DEF Settled, PollResult
<1>6. CASE PollNext(r)
  BY <1>1, <1>6 DEF PollNext
<1>7. CASE CheckAbort(r)
  BY <1>1, <1>7 DEF CheckAbort
<1>8. CASE DropHandle(r)
  BY <1>1, <1>8 DEF DropHandle
<1>9. CASE Preemptible /\ AbortSend(r)
  BY <1>1, <1>9 DEF AbortSend, Preemptible, MidPoll
<1>10. CASE AbortSignal(r)
  BY <1>1, <1>10 DEF AbortSignal, channelVars
<1> QED
  BY <1>2, <1>3, <1>4, <1>5, <1>6, <1>7, <1>8, <1>9, <1>10 DEF Begin, Finish

\* A handle that is given up has queued its abort, unless it has terminated.
LEMMA HandleGivesUp ==
  ASSUME ConsumerTypeOK, TaskUp, NEW r \in Requests, Begin(r) \/ Finish(r), NoRace(r),
         ~Wanted(r)'
  PROVE  \/ queue' = [queue EXCEPT ![MethodOf[r]] = Append(@, AbortMsg(r))]
         \/ queue' = queue /\ (Wanted(r) => phase[r] \in {"resolved", "ended"})
<1> USE DEF ConsumerTypeOK, ClientTypeOK, NoRace, Wanted, TaskUp, Enqueue, Between, Resolve,
            channelVars
<1>1. CASE Call(r)
  BY <1>1 DEF Call
<1>2. CASE Poll(r)
  BY <1>2 DEF Poll
<1>3. CASE SendRequest(r)
  BY <1>3 DEF SendRequest
<1>4. CASE PollResult(r)
  BY <1>4 DEF PollResult
<1>5. CASE PollNext(r)
  BY <1>5 DEF PollNext
<1>6. CASE CheckAbort(r)
  BY <1>6 DEF CheckAbort
<1>7. CASE DropHandle(r)
  BY <1>7 DEF DropHandle
<1>8. CASE AbortSend(r)
  BY <1>8 DEF AbortSend
<1>9. CASE AbortSignal(r)
  BY <1>9 DEF AbortSignal
<1> QED  BY <1>1, <1>2, <1>3, <1>4, <1>5, <1>6, <1>7, <1>8, <1>9 DEF Begin, Finish

\* Of a request that resolved or a stream that ended, unaborted in a session
\* that is up, nothing is left on the way to the producer or at it.
Gone(q) ==
  /\ q \notin Working /\ ~Has(up, RequestMsg(q))
  /\ ~Queued(q) /\ ~Feeding(RequestMsg(q))

LEMMA SettledIsGone ==
  ASSUME NEW q \in Requests, Tracked(q), Grounded(q), Flowing(q), Settled(q), OpenKept(q),
         phase[q] \in {"resolved", "ended"}, Wanted(q), ~Over
  PROVE  Gone(q)
<1>1. peer[q] = "done"
  <2>1. CASE phase[q] = "resolved"
    BY <2>1 DEF Settled, Grounded, ResultGrounded, Answered, OpenKept, ValueRequests
  <2>2. CASE phase[q] = "ended"
    BY <2>2 DEF Grounded, KindKept, Flowing, EndForgotten, Complete, Over
  <2> QED  BY <2>1, <2>2
<1>2. ~Has(up, RequestMsg(q)) /\ ~Unsent(q)
  BY <1>1 DEF Grounded, AskedOnce, Tracked, SentOnce
<1> QED  BY <1>1, <1>2 DEF Gone, Working, Unsent, InHand, Feeding

\* A handle's step keeps the last word: giving a request up queues its abort.
LEMMA HandleLastWord ==
  ASSUME ConsumerTypeOK, NEW r \in Requests, Begin(r) \/ Finish(r), UNCHANGED peerVars,
         NEW q \in Requests, NoRace(q), LastWord(q),
         phase[q] \in {"resolved", "ended"} /\ Wanted(q) /\ ~Over => Gone(q)
  PROVE  LastWord(q)'
<1> SUFFICES ASSUME ~Wanted(q)', ~Over', listening'
             PROVE  /\ Followed(up', RequestMsg(q), AbortMsg(q)) \/ ToBeSent(q)'
                    /\ Feeding(RequestMsg(q))' => ToBeSent(q)'
                    /\ Followed(queue'[MethodOf[q]], RequestMsg(q), AbortMsg(q))
                    /\ (q \in Working \ cancelled)'
                         => Has(up', AbortMsg(q)) \/ ToBeSent(q)'
  BY DEF LastWord
<1>0. /\ UNCHANGED <<task, inHand, up, connected, peer, cancelled, listening>>
      /\ TaskUp /\ ~Over /\ listening
  BY HandleStepType DEF taskVars, wire, peerVars, Over, TaskUp
<1>1. /\ Working' = Working
      /\ \A msg : Feeding(msg)' <=> Feeding(msg)
  BY <1>0 DEF Working, Feeding
<1>2. ASSUME queue' = queue, ~Wanted(q) \/ Gone(q)
      PROVE  /\ Followed(up', RequestMsg(q), AbortMsg(q)) \/ ToBeSent(q)'
             /\ Feeding(RequestMsg(q))' => ToBeSent(q)'
             /\ Followed(queue'[MethodOf[q]], RequestMsg(q), AbortMsg(q))
             /\ q \in Working' \ cancelled' => Has(up', AbortMsg(q)) \/ ToBeSent(q)'
  <2>1. ToBeSent(q)' <=> ToBeSent(q)
    BY <1>1, <1>2 DEF ToBeSent
  <2> QED  BY <1>0, <1>1, <1>2, <2>1, NoneFollowed DEF LastWord, Gone, Queued
<1>3. ASSUME NEW msg \in {AbortMsg(r), RequestMsg(r)},
             queue' = [queue EXCEPT ![MethodOf[r]] = Append(@, msg)]
      PROVE  /\ msg # RequestMsg(q) /\ Followed(queue[MethodOf[q]], RequestMsg(q), AbortMsg(q))
                  => Followed(queue'[MethodOf[q]], RequestMsg(q), AbortMsg(q))
             /\ ToBeSent(q) => ToBeSent(q)'
             /\ msg = AbortMsg(q) => /\ Followed(queue'[MethodOf[q]], RequestMsg(q), AbortMsg(q))
                                     /\ ToBeSent(q)'
  <2>1. CASE MethodOf[q] = MethodOf[r]
    <3>1. /\ queue[MethodOf[q]] \in Seq(UpMessages) /\ msg \in UpMessages
          /\ queue'[MethodOf[q]] = Append(queue[MethodOf[q]], msg)
      BY <1>3, <2>1, TransportAssumption, MessageTypes DEF ConsumerTypeOK, ChannelTypeOK
    <3>2. RequestMsg(q) # AbortMsg(q)
      BY RequestsDiffer
    <3> QED  BY <1>1, <3>1, <3>2, AppendFollowed, AppendOrder DEF ToBeSent
  <2>2. CASE MethodOf[q] # MethodOf[r]
    <3>1. queue'[MethodOf[q]] = queue[MethodOf[q]]
      BY <1>3, <2>2, TransportAssumption DEF ConsumerTypeOK, ChannelTypeOK
    <3>2. msg.id = r /\ AbortMsg(q).id = q
      BY <1>3, RequestsDiffer
    <3> QED  BY <1>1, <2>2, <3>1, <3>2 DEF ToBeSent
  <2> QED  BY <2>1, <2>2
<1>4. CASE q # r
  <2>1. ~Wanted(q)
    BY <1>4, HandlePhases DEF Wanted
  <2>2. AbortMsg(r) # RequestMsg(q) /\ RequestMsg(r) # RequestMsg(q)
    BY <1>4, RequestsDiffer
  <2> QED  BY <1>0, <1>1, <1>2, <1>3, <2>1, <2>2, HandleMoves DEF LastWord
<1>5. CASE q = r
  <2>1. CASE queue' = queue /\ (Wanted(r) => phase[r] \in {"resolved", "ended"})
    BY <1>0, <1>2, <1>5, <2>1
  <2>2. CASE queue' = [queue EXCEPT ![MethodOf[r]] = Append(@, AbortMsg(r))]
    BY <1>3, <1>5, <2>2
  <2> QED  BY <1>0, <1>5, <2>1, <2>2, HandleGivesUp
<1> QED  BY <1>4, <1>5

-----------------------------------------------------------------------------
(* Steps of the producer                                                   *)

\* The producer reads the messages in order, and comes to the abort of every
\* request it has started to work on.
LEMMA PeerLastWord ==
  ASSUME PeerTypeOK, WireTypeOK, PeerNext, UNCHANGED consumerVars, NEW q \in Requests,
         OpenKept(q), LastWord(q)
  PROVE  OpenKept(q)' /\ LastWord(q)'
<1> USE DEF PeerTypeOK, WireTypeOK
<1>0. /\ UNCHANGED <<phase, abort, queue, task, inHand>>
      /\ (Wanted(q)' <=> Wanted(q)) /\ (ToBeSent(q)' <=> ToBeSent(q))
      /\ \A msg : Feeding(msg)' <=> Feeding(msg)
  BY DEF consumerVars, clientVars, channelVars, taskVars, Wanted, ToBeSent, Feeding
<1>1. ASSUME Over'
      PROVE  LastWord(q)'
  BY <1>1 DEF LastWord
<1>2. ASSUME UNCHANGED <<up, connected, cancelled, listening>>,
             q \in Working' => q \in Working
      PROVE  LastWord(q)'
  BY <1>0, <1>2 DEF LastWord, Over, TaskUp
<1>3. CASE PeerReceive
  <2> DEFINE msg == Head(up)
  <2>1. /\ up \in Seq(UpMessages) /\ up # <<>> /\ up' = Tail(up) /\ msg \in UpMessages
        /\ UNCHANGED <<connected, listening>>
    BY <1>3, HeadTailProperties DEF PeerReceive
  <2>2. ASSUME ~Wanted(q), ~Over, listening
        PROVE  Followed(up', RequestMsg(q), AbortMsg(q)) \/ ToBeSent(q)
    BY <2>1, <2>2, TailFollowed DEF LastWord
  <2>3. CASE msg = RequestMsg(q)
    <3>1. peer' = [peer EXCEPT ![q] = "serving"]
      BY <1>3, <2>3, RequestsDiffer DEF PeerReceive
    <3>2. ASSUME ~Wanted(q), ~Over, listening
          PROVE  Has(up', AbortMsg(q)) \/ ToBeSent(q)
      BY <2>1, <2>3, <3>2, TailFollowed DEF LastWord
    <3> QED  BY <1>0, <2>1, <2>2, <3>1, <3>2 DEF LastWord, OpenKept, Over, TaskUp
  <2>4. CASE msg = AbortMsg(q)
    <3>1. peer' = peer /\ cancelled' = cancelled \cup ({q} \cap Working)
      BY <1>3, <2>4, RequestsDiffer DEF PeerReceive
    <3>2. q \notin Working' \ cancelled'
      BY <3>1 DEF Working
    <3> QED  BY <1>0, <2>1, <2>2, <3>1, <3>2 DEF LastWord, OpenKept, Over, TaskUp
  <2>5. CASE msg # RequestMsg(q) /\ msg # AbortMsg(q)
    <3>1. peer'[q] = peer[q] /\ (q \in cancelled => q \in cancelled')
      BY <1>3, <2>1, <2>5, RequestsDiffer DEF PeerReceive, UpMessages
    <3>2. Has(up, AbortMsg(q)) => Has(up', AbortMsg(q))
      BY <2>1, <2>5, TailOrder
    <3> QED  BY <1>0, <2>1, <2>2, <3>1, <3>2 DEF LastWord, OpenKept, Over, TaskUp, Working
  <2> QED  BY <2>3, <2>4, <2>5
<1>4. ASSUME NEW r \in Requests, PeerReplies(r)
      PROVE  OpenKept(q)' /\ LastWord(q)'
  <2>1. /\ UNCHANGED <<up, connected, cancelled, listening>>
        /\ q \in Working' => q \in Working
        /\ OpenKept(q)'
    BY <1>4
       DEF PeerReplies, PeerAnswer, PeerOpen, PeerItem, PeerClose, Reply, Send, Working,
           OpenKept
  <2> QED  BY <1>2, <2>1
<1>5. ASSUME NEW r \in Requests, PeerUnheard(r) \/ PeerCancel(r)
      PROVE  OpenKept(q)' /\ LastWord(q)'
  <2>1. /\ UNCHANGED <<up, connected, cancelled, listening>>
        /\ q \in Working' => q \in Working
        /\ OpenKept(q)'
    BY <1>5 DEF PeerUnheard, PeerCancel, Working, OpenKept, wire
  <2> QED  BY <1>2, <2>1
<1>6. CASE PeerStop
  BY <1>6 DEF PeerStop, LastWord, OpenKept
<1>7. CASE PeerAnnounce
  BY <1>2, <1>7 DEF PeerAnnounce, Send, wire, Working, OpenKept
<1>8. CASE PeerHangup \/ (Disconnect /\ UNCHANGED peerVars)
  BY <1>1, <1>8 DEF PeerHangup, Disconnect, peerVars, OpenKept, Over
<1> QED  BY <1>3, <1>4, <1>5, <1>6, <1>7, <1>8 DEF PeerNext, PeerOwn

-----------------------------------------------------------------------------
(* Steps of the consumer task                                              *)

\* Taking a message from its method's channel keeps the order.
LEMMA TakeLastWord ==
  ASSUME TaskOK, Routed, NEW m \in Methods, TakeMessage(m), UNCHANGED peerVars,
         NEW q \in Requests, LastWord(q)
  PROVE  LastWord(q)'
<1> USE TransportAssumption
<1> DEFINE s == queue[m]
           msg == Head(s)
<1>1. /\ queue \in [Methods -> Seq(UpMessages)] /\ s \in Seq(UpMessages) /\ s # <<>>
      /\ queue' = [queue EXCEPT ![m] = Tail(s)] /\ inHand' = <<msg>>
      /\ task = "running" /\ task' = "sending"
      /\ UNCHANGED <<phase, abort, up, connected>>
  BY DEF TakeMessage, TaskOK, ChannelTypeOK, clientVars, wire
<1>2. /\ UNCHANGED <<peer, cancelled, listening>> /\ Working' = Working
      /\ (Over' <=> Over) /\ (Wanted(q)' <=> Wanted(q))
  BY <1>1 DEF peerVars, Working, Over, TaskUp, Wanted
<1>3. /\ \A x : ~Feeding(x) /\ (Feeding(x)' <=> msg = x)
  BY <1>1 DEF Feeding
<1>4. MethodOf[msg.id] = m
  <2>1. msg = s[1] /\ 1 \in 1..Len(s)
    BY <1>1, TailIndex
  <2> QED  BY <2>1 DEF Routed
<1> SUFFICES ASSUME ~Wanted(q), ~Over, listening
             PROVE  /\ ToBeSent(q) => ToBeSent(q)'
                    /\ msg = RequestMsg(q) => ToBeSent(q)'
                    /\ Followed(queue'[MethodOf[q]], RequestMsg(q), AbortMsg(q))
  BY <1>1, <1>2, <1>3 DEF LastWord
<1>5. Followed(queue[MethodOf[q]], RequestMsg(q), AbortMsg(q))
  BY DEF LastWord
<1>6. CASE m = MethodOf[q]
  <2>1. queue'[MethodOf[q]] = Tail(s) /\ queue[MethodOf[q]] = s
    BY <1>1, <1>6
  <2>2. /\ Followed(Tail(s), RequestMsg(q), AbortMsg(q))
        /\ msg = RequestMsg(q) => Has(Tail(s), AbortMsg(q))
    BY <1>1, <1>5, <2>1, TailFollowed
  <2>3. Has(s, AbortMsg(q)) => Has(Tail(s), AbortMsg(q)) \/ msg = AbortMsg(q)
    BY <1>1, TailOrder
  <2> QED  BY <1>3, <2>1, <2>2, <2>3 DEF ToBeSent
<1>7. CASE m # MethodOf[q]
  <2>1. queue'[MethodOf[q]] = queue[MethodOf[q]]
    BY <1>1, <1>7
  <2>2. msg # RequestMsg(q)
    BY <1>4, <1>7, RequestsDiffer
  <2> QED  BY <1>3, <1>5, <2>1, <2>2 DEF ToBeSent
<1> QED  BY <1>6, <1>7

\* So does the transport that takes it.
LEMMA FeedLastWord ==
  ASSUME TaskOK, WireTypeOK, FeedMessage, UNCHANGED peerVars, NEW q \in Requests,
         LastWord(q)
  PROVE  LastWord(q)'
<1> DEFINE msg == Head(inHand)
<1>1. /\ up \in Seq(UpMessages) /\ msg \in UpMessages /\ up' = Append(up, msg)
      /\ task = "sending" /\ task' = "flushing"
      /\ UNCHANGED <<phase, abort, queue, inHand, connected>>
  BY HeadTailProperties
     DEF FeedMessage, TaskOK, TaskTypeOK, HandFull, WireTypeOK, clientVars, channelVars
<1>2. /\ UNCHANGED <<peer, cancelled, listening>> /\ Working' = Working
      /\ (Over' <=> Over) /\ (Wanted(q)' <=> Wanted(q))
  BY <1>1 DEF peerVars, Working, Over, TaskUp, Wanted
<1>3. \A x : ~Feeding(x)' /\ (Feeding(x) <=> msg = x)
  BY <1>1 DEF Feeding
<1>4. RequestMsg(q) # AbortMsg(q)
  BY RequestsDiffer
<1>5. CASE msg = AbortMsg(q)
  <2>1. Followed(up', RequestMsg(q), AbortMsg(q)) /\ Has(up', AbortMsg(q))
    BY <1>1, <1>4, <1>5, AppendFollowed, AppendOrder
  <2> QED  BY <1>1, <1>2, <1>3, <2>1 DEF LastWord
<1>6. CASE msg # AbortMsg(q)
  <2>1. ToBeSent(q)' <=> ToBeSent(q)
    BY <1>1, <1>3, <1>6 DEF ToBeSent
  <2>2. /\ msg # RequestMsg(q) /\ Followed(up, RequestMsg(q), AbortMsg(q))
             => Followed(up', RequestMsg(q), AbortMsg(q))
        /\ Has(up, AbortMsg(q)) => Has(up', AbortMsg(q))
    BY <1>1, <1>4, AppendFollowed, AppendOrder
  <2> QED  BY <1>1, <1>2, <1>3, <2>1, <2>2 DEF LastWord
<1> QED  BY <1>5, <1>6

\* Every step of the task keeps what has been called off so.
LEMMA TaskCallsOff ==
  ASSUME ChannelTypeOK, TaskOK, WireTypeOK, ~Faulty, TaskStep, UNCHANGED peerVars,
         TaskUp => Routed, NEW q \in Requests, CalledOff(q)
  PROVE  CalledOff(q)'
<1> USE DEF CalledOff
<1>1. /\ UNCHANGED <<phase, abort, peer, cancelled, listening>>
      /\ (Over => Over') /\ (Wanted(q)' <=> Wanted(q)) /\ Working' = Working
  BY TaskSession DEF clientVars, peerVars, Over, Wanted, Working
<1>2. NoRace(q)' /\ OpenKept(q)'
  BY <1>1 DEF NoRace, OpenKept
<1>3. ASSUME Over'
      PROVE  CalledOff(q)'
  BY <1>2, <1>3 DEF Settled, LastWord
<1>4. ASSUME result[q] = "Ok" => result'[q] = "Ok", LastWord(q)'
      PROVE  CalledOff(q)'
  BY <1>1, <1>2, <1>4 DEF Settled
<1>5. CASE ReceiveClosed \/ TimeoutArm \/ ShutdownArm \/ DropArm \/ DropState
  <2>1. Over'
    BY <1>5
       DEF ReceiveClosed, TimeoutArm, ShutdownArm, DropArm, DropState, ShutDown, Over, TaskUp
  <2> QED  BY <1>3, <2>1
<1>6. CASE Receive
  <2>1. Head(down) \in DownMessages /\ HandleMessage(Head(down)) /\ task = "running"
        /\ UNCHANGED <<up, connected>>
    BY <1>6, DownTail DEF Receive
  <2>2. CASE ~TaskUp'
    BY <1>3, <2>2 DEF Over
  <2>3. CASE TaskUp'
    <3>1. /\ UNCHANGED <<task, inHand, queue>>
          /\ result[q] = "Ok" => result'[q] = "Ok"
      BY <2>1, <2>3, HandleMessageResults DEF TaskOK
    <3>2. LastWord(q)'
      BY <1>1, <2>1, <3>1 DEF LastWord, ToBeSent, Feeding, Over, TaskUp
    <3> QED  BY <1>4, <3>1, <3>2
  <2> QED  BY <2>2, <2>3
<1>7. ASSUME NEW m \in Methods, TakeMessage(m)
      PROVE  CalledOff(q)'
  <2>1. TaskUp /\ result' = result
    BY <1>7 DEF TakeMessage, TaskUp
  <2> QED  BY <1>4, <1>7, <2>1, TakeLastWord
<1>8. CASE FeedMessage
  <2>1. result' = result
    BY <1>8 DEF FeedMessage, channelVars
  <2> QED  BY <1>4, <1>8, <2>1, FeedLastWord
<1>9. CASE SendOk
  <2>1. /\ UNCHANGED <<result, queue, up, connected>>
        /\ task = "flushing" /\ task' = "running"
    BY <1>9 DEF SendOk, channelVars, wire
  <2>2. LastWord(q)'
    BY <1>1, <2>1 DEF LastWord, ToBeSent, Feeding, Over, TaskUp
  <2> QED  BY <1>4, <2>1, <2>2
<1>10. CASE SendErr
  BY <1>3, <1>10 DEF SendErr, Over, wire
<1> QED
  BY <1>5, <1>6, <1>7, <1>8, <1>9, <1>10 DEF TaskStep, ReceiveError

-----------------------------------------------------------------------------
(* The inductive invariant                                                 *)

\* In a new session nobody has given anything up.
LEMMA LastWordsInit == Init => LastWords
<1> SUFFICES ASSUME Init, NEW r \in Requests
             PROVE  CalledOff(r)
  BY DEF LastWords, OneInHand, Init, ConsumerInit
<1> QED
  BY DEF Init, ConsumerInit, PeerInit, WireInit, CalledOff, NoRace, OpenKept, Settled,
         LastWord, Wanted

\* Every step leaves the task with one message at most.
LEMMA OneInHandNext ==
  ASSUME ConsumerTypeOK, OneInHand, [Next]_vars
  PROVE  OneInHand'
<1>1. ASSUME UNCHANGED taskVars
      PROVE  OneInHand'
  BY <1>1 DEF OneInHand, taskVars
<1>2. CASE \E r \in Requests : Begin(r) \/ Finish(r)
  BY <1>1, <1>2, HandleStepType
<1>3. CASE DropConsumer \/ TimerElapses
  BY <1>3 DEF DropConsumer, TimerElapses, OneInHand, taskVars
<1>4. CASE TaskStep
  BY <1>4
     DEF TaskStep, Receive, ReceiveError, ReceiveClosed, TakeMessage, FeedMessage, SendOk,
         SendErr, TimeoutArm, ShutdownArm, DropArm, DropState, HandleMessage, HandleValue,
         HandleOpen, HandleItem, HandleClosed, ShutDown, OneInHand
<1>5. CASE UNCHANGED consumerVars \/ UNCHANGED vars
  BY <1>1, <1>5 DEF vars, consumerVars
<1> QED  BY <1>2, <1>3, <1>4, <1>5 DEF Next, ConsumerNext

\* Every step keeps the last word.
LEMMA LastWordsNext ==
  IInv /\ Order /\ Delivery /\ Grounds /\ LastWords /\ [Next]_vars => LastWords'
<1>0. IInv /\ LastWords /\ [Next]_vars => OneInHand'
  BY OneInHandNext DEF IInv, TypeOK, LastWords
<1> SUFFICES ASSUME IInv, Order, Delivery, Grounds, LastWords, [Next]_vars, ~Faulty,
                    ~MultiThreaded, NEW q \in Requests
             PROVE  CalledOff(q)'
  BY <1>0 DEF LastWords
<1>1. ConsumerTypeOK /\ PeerTypeOK /\ WireTypeOK /\ TaskOK /\ HandFull
  BY DEF IInv, TypeOK, ConsumerTypeOK, TaskOK
<1>2. /\ Grounded(q) /\ CalledOff(q)
      /\ TaskUp => Routed /\ Tracked(q) /\ Flowing(q)
  BY DEF Grounds, Order, Delivery, LastWords
<1>3. ASSUME UNCHANGED <<phase, abort, queue, result, task, inHand, peerVars, wire>>
      PROVE  CalledOff(q)'
  BY <1>2, <1>3
     DEF CalledOff, NoRace, OpenKept, Settled, LastWord, ToBeSent, Feeding, Wanted, Over,
         TaskUp, Working, wire, peerVars
<1>4. ASSUME NEW r \in Requests, Finish(r) \/ (Preemptible /\ Begin(r)), UNCHANGED peerVars
      PROVE  CalledOff(q)'
  <2>1. NoRace(q)' /\ Settled(q)'
    BY <1>1, <1>2, <1>4, HandleKeepsOrder DEF CalledOff, ConsumerTypeOK
  <2>2. OpenKept(q)'
    BY <1>2, <1>4 DEF CalledOff, OpenKept, peerVars
  <2>3. phase[q] \in {"resolved", "ended"} /\ Wanted(q) /\ ~Over => Gone(q)
    BY <1>2, SettledIsGone DEF CalledOff, Over
  <2>4. LastWord(q)'
    BY <1>1, <1>2, <1>4, <2>3, HandleLastWord DEF CalledOff
  <2> QED  BY <2>1, <2>2, <2>4 DEF CalledOff
<1>5. CASE DropConsumer /\ UNCHANGED peerVars
  BY <1>3, <1>5 DEF DropConsumer, channelVars, taskVars
<1>6. CASE TimerElapses /\ UNCHANGED peerVars
  BY <1>3, <1>6 DEF TimerElapses, clientVars, channelVars
<1>7. CASE TaskStep /\ UNCHANGED peerVars
  BY <1>1, <1>2, <1>7, TaskCallsOff DEF ConsumerTypeOK
<1>8. CASE PeerNext /\ UNCHANGED consumerVars
  <2>1. OpenKept(q)' /\ LastWord(q)'
    BY <1>1, <1>2, <1>8, PeerLastWord DEF CalledOff
  <2>2. (Over => Over') /\ UNCHANGED <<phase, abort, result>>
    BY <1>1, <1>2, <1>8, PeerAdvances
       DEF Grounded, Over, TaskUp, consumerVars, clientVars, channelVars, taskVars
  <2> QED  BY <1>2, <2>1, <2>2 DEF CalledOff, NoRace, Settled, Wanted
<1>9. CASE UNCHANGED vars
  BY <1>3, <1>9 DEF vars, consumerVars, clientVars, channelVars, taskVars
<1> QED
  BY <1>4, <1>5, <1>6, <1>7, <1>8, <1>9 DEF Next, ConsumerNext

\* Aborts come last throughout every behaviour.
THEOREM LastWordsHold == Spec => []LastWords
<1>1. IInv /\ Order /\ Delivery /\ Grounds /\ LastWords /\ [Next]_vars => LastWords'
  BY LastWordsNext
<1> QED
  BY <1>1, LastWordsInit, Invariance, OrderHolds, DeliveryHolds, GroundsHold, PTL DEF Spec

\* Where the messages of one sequence are in two put together.
LEMMA Joined ==
  ASSUME NEW S, NEW s \in Seq(S), NEW t \in Seq(S), NEW x, NEW y
  PROVE  /\ s \o t \in Seq(S)
         /\ Has(s \o t, x) <=> Has(s, x) \/ Has(t, x)
         /\ Has(t, y) \/ Followed(s, x, y) => (Followed(t, x, y) => Followed(s \o t, x, y))
<1> DEFINE w == s \o t
<1>1. /\ w \in Seq(S) /\ Len(s) \in Nat /\ Len(t) \in Nat /\ Len(w) = Len(s) + Len(t)
      /\ \A i \in 1..Len(s) : i \in 1..Len(w) /\ w[i] = s[i]
      /\ \A i \in 1..Len(t) : Len(s) + i \in 1..Len(w) /\ w[Len(s) + i] = t[i]
  BY ConcatProperties, LenProperties
<1> HIDE DEF w
<1>2. \A i \in 1..Len(w) : i \in 1..Len(s) \/ i - Len(s) \in 1..Len(t)
  BY <1>1
<1>3. ASSUME NEW i \in 1..Len(w), i \notin 1..Len(s)
      PROVE  i - Len(s) \in 1..Len(t) /\ w[i] = t[i - Len(s)]
  <2>1. i - Len(s) \in 1..Len(t)
    BY <1>2, <1>3
  <2>2. Len(s) + (i - Len(s)) = i
    BY <1>1
  <2> QED  BY <1>1, <2>1, <2>2
<1>4. Has(w, x) <=> Has(s, x) \/ Has(t, x)
  <2>1. Has(w, x) => Has(s, x) \/ Has(t, x)
    BY <1>1, <1>3 DEF Has
  <2>2. Has(s, x) \/ Has(t, x) => Has(w, x)
    BY <1>1 DEF Has
  <2> QED  BY <2>1, <2>2
<1>5. ASSUME Has(t, y) \/ Followed(s, x, y), Followed(t, x, y), NEW i \in 1..Len(w), w[i] = x
      PROVE  \E j \in (i+1)..Len(w) : w[j] = y
  <2>1. CASE i \in 1..Len(s)
    <3>1. CASE Has(t, y)
      <4>1. PICK j \in 1..Len(t) : t[j] = y
        BY <3>1 DEF Has
      <4>2. Len(s) + j \in (i+1)..Len(w) /\ w[Len(s) + j] = y
        BY <1>1, <2>1, <4>1
      <4> QED  BY <4>2
    <3>2. CASE Followed(s, x, y)
      <4>1. PICK j \in (i+1)..Len(s) : s[j] = y
        BY <1>1, <1>5, <2>1, <3>2 DEF Followed
      <4>2. j \in 1..Len(s) /\ j \in (i+1)..Len(w)
        BY <1>1, <2>1
      <4> QED  BY <1>1, <4>1, <4>2
    <3> QED  BY <1>5, <3>1, <3>2
  <2>2. CASE i \notin 1..Len(s)
    <3>1. i - Len(s) \in 1..Len(t) /\ t[i - Len(s)] = x
      BY <1>3, <1>5, <2>2
    <3>2. PICK j \in (i - Len(s) + 1)..Len(t) : t[j] = y
      BY <1>5, <3>1 DEF Followed
    <3>3. j \in 1..Len(t) /\ Len(s) + j \in (i+1)..Len(w)
      BY <1>1, <3>1
    <3> QED  BY <1>1, <3>2, <3>3
  <2> QED  BY <2>1, <2>2
<1> QED  BY <1>1, <1>4, <1>5 DEF Followed, w

\* Work nobody waits for is called off, on a single thread: Aborter::abort and
\* the Drop of each handle put the abort behind the request, handle_message
\* comes to it, and handles that terminated have nothing to call off.
THEOREM AbandonedIsAborted ==
  ASSUME ~Faulty, ~MultiThreaded
  PROVE  Spec => []AbandonedWorkIsAborted
<1>1. ASSUME IInv, LastWords
      PROVE  AbandonedWorkIsAborted
  <2>1. ASSUME NEW r \in Requests, Abandoned(r), SessionUp
        PROVE  /\ Followed(Pipeline(r), RequestMsg(r), AbortMsg(r))
               /\ r \in Working \ cancelled => Has(Pipeline(r), AbortMsg(r))
    <3> DEFINE x == RequestMsg(r)
               y == AbortMsg(r)
               h == IF task = "sending" THEN inHand ELSE <<>>
               t == queue[MethodOf[r]]
    <3>1. LastWord(r) /\ ~Wanted(r) /\ ~Over
      BY <1>1, <2>1 DEF LastWords, CalledOff, Abandoned, Wanted, Over, TaskUp, SessionUp
    <3>2. up \in Seq(UpMessages) /\ h \in Seq(UpMessages) /\ t \in Seq(UpMessages)
      BY <1>1, TransportAssumption, EmptySeq
         DEF IInv, TypeOK, WireTypeOK, ConsumerTypeOK, ChannelTypeOK, TaskTypeOK
    <3>3. x # y
      BY RequestsDiffer
    <3>4. \A z : Has(h, z) <=> Feeding(z)
      <4>1. CASE task = "sending"
        <5>1. h = <<Head(inHand)>>
          BY <1>1, <4>1 DEF LastWords, OneInHand
        <5>2. /\ Len(<<Head(inHand)>>) = 1
              /\ <<Head(inHand)>>[1] = Head(inHand)
          OBVIOUS
        <5>3. \A z : Has(<<Head(inHand)>>, z) <=> Head(inHand) = z
          <6> DEFINE one == <<Head(inHand)>>
          <6>1. 1..Len(one) = {1} /\ one[1] = Head(inHand)
            BY <5>2
          <6> HIDE DEF one
          <6>2. \A z : Has(one, z) <=> Head(inHand) = z
            BY <6>1 DEF Has
          <6> QED  BY <6>2 DEF one
        <5> HIDE DEF h
        <5> QED  BY <4>1, <5>1, <5>3 DEF Feeding
      <4>2. CASE task # "sending"
        BY <4>2 DEF Has, Feeding
      <4> QED  BY <4>1, <4>2
    <3> HIDE DEF x, y, h, t
    <3>5. /\ Followed(up, x, y) \/ Has(h, y) \/ Has(t, y)
          /\ Has(h, x) => Has(h, y) \/ Has(t, y)
          /\ Followed(t, x, y)
          /\ r \in Working \ cancelled => Has(up, y) \/ Has(h, y) \/ Has(t, y)
      BY <2>1, <3>1, <3>4 DEF LastWord, ToBeSent, SessionUp, x, y, t
    <3>6. Has(h, y) => ~Has(h, x)
      BY <3>3, <3>4 DEF Feeding
    <3>7. Has(t, y) \/ Followed(up \o h, x, y)
      BY <3>2, <3>5, <3>6, NoneFollowed, Joined
    <3>8. up \o h \in Seq(UpMessages) /\ Pipeline(r) = (up \o h) \o t
      <4>1. up \o h \in Seq(UpMessages)
        BY <3>2, Joined
      <4>2. Pipeline(r) = (up \o h) \o t
        BY DEF Pipeline, h, t
      <4> QED  BY <4>1, <4>2
    <3> DEFINE w == up \o h
    <3>9. /\ w \in Seq(UpMessages)
          /\ Has(w, y) <=> Has(up, y) \/ Has(h, y)
          /\ Pipeline(r) = w \o t /\ (Has(t, y) \/ Followed(w, x, y))
      BY <3>2, <3>7, <3>8, Joined
    <3> HIDE DEF w
    <3>10. /\ Has(w \o t, y) <=> Has(w, y) \/ Has(t, y)
           /\ Followed(w \o t, x, y)
      <4>1. Has(w \o t, y) <=> Has(w, y) \/ Has(t, y)
        BY <3>2, <3>9, Joined
      <4>2. Followed(w \o t, x, y)
        BY <3>2, <3>5, <3>9, Joined
      <4> QED  BY <4>1, <4>2
    <3>11. /\ Followed(Pipeline(r), x, y)
           /\ r \in Working \ cancelled => Has(Pipeline(r), y)
      BY <3>5, <3>9, <3>10
    <3> QED  BY <3>11 DEF x, y
  <2> QED
    BY <2>1 DEF AbandonedWorkIsAborted, AbandonedWorkCalledOff, Followed, Has, Contains
<1> QED  BY <1>1, Invariance, LastWordsHold, PTL

=============================================================================
