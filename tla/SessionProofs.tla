----------------------------- MODULE SessionProofs -----------------------------
(***************************************************************************)
(* Type correctness of a session, and the bookkeeping of                   *)
(* ConsumerState.pending, for every set of calls, every capacity and every *)
(* configuration. Both facts need each other: `pending -= 1` keeps pending *)
(* a natural number only because pending covers the results owed.          *)
(***************************************************************************)
EXTENDS Session, TransportProofs, FiniteSetTheorems

\* The task always has the message that it is sending.
HandFull == task \in {"sending", "flushing"} => inHand # <<>>

IInv == TypeOK /\ HandFull /\ PendingCoversOwed

-----------------------------------------------------------------------------
(* Counting the results owed                                               *)

Owed(e) == {r \in Requests : e[r] = "pending"}

\* The number of results owed is a natural number, whatever the map.
LEMMA OwedIsFinite ==
  ASSUME NEW e
  PROVE  /\ IsFiniteSet(Owed(e))
         /\ Cardinality(Owed(e)) \in Nat
BY TransportAssumption, FS_Subset, FS_CardinalityType DEF Owed

\* A map that owes no result the other does not owe owes no more of them.
LEMMA OwedShrinks ==
  ASSUME NEW e, NEW f, Owed(f) \subseteq Owed(e)
  PROVE  Cardinality(Owed(f)) <= Cardinality(Owed(e))
BY OwedIsFinite, FS_Subset

\* Settling one result that is owed leaves one fewer.
LEMMA OwedSettles ==
  ASSUME NEW e, NEW f, NEW r \in Owed(e), Owed(f) \subseteq Owed(e) \ {r}
  PROVE  Cardinality(Owed(f)) <= Cardinality(Owed(e)) - 1
<1>1. /\ IsFiniteSet(Owed(e) \ {r})
      /\ Cardinality(Owed(e) \ {r}) = Cardinality(Owed(e)) - 1
  BY OwedIsFinite, FS_RemoveElement
<1>2. Cardinality(Owed(f)) <= Cardinality(Owed(e) \ {r})
  BY <1>1, FS_Subset
<1> QED  BY <1>1, <1>2

\* Owing the result of one more request adds at most one.
LEMMA OwedGrows ==
  ASSUME NEW e, NEW f, NEW r, Owed(f) \subseteq Owed(e) \cup {r}
  PROVE  Cardinality(Owed(f)) <= Cardinality(Owed(e)) + 1
<1>1. /\ IsFiniteSet(Owed(e) \cup {r})
      /\ Cardinality(Owed(e) \cup {r}) <= Cardinality(Owed(e)) + 1
  BY OwedIsFinite, FS_AddElement
<1>2. Cardinality(Owed(f)) <= Cardinality(Owed(e) \cup {r})
  BY <1>1, FS_Subset
<1>3. /\ Cardinality(Owed(e) \cup {r}) \in Nat
      /\ Cardinality(Owed(f)) \in Nat
      /\ Cardinality(Owed(e)) \in Nat
  BY <1>1, OwedIsFinite, FS_CardinalityType
<1> QED  BY <1>1, <1>2, <1>3

-----------------------------------------------------------------------------
(* Steps of the handles                                                    *)

\* unbounded_send puts a well-formed message on one method's channel.
LEMMA EnqueueType ==
  ASSUME ConsumerTypeOK, NEW r \in Requests, NEW msg \in UpMessages,
         Enqueue(r, msg)
  PROVE  queue' \in [Methods -> Seq(UpMessages)]
<1>1. MethodOf[r] \in Methods
  BY TransportAssumption
<1>2. Append(queue[MethodOf[r]], msg) \in Seq(UpMessages)
  BY <1>1, AppendProperties DEF ConsumerTypeOK, ChannelTypeOK
<1> QED  BY <1>1, <1>2 DEF Enqueue, ConsumerTypeOK, ChannelTypeOK

\* Resolving a request keeps the types of what it writes.
LEMMA ResolveType ==
  ASSUME ConsumerTypeOK, NEW r \in Requests, NEW res \in Results,
         Resolve(r, res)
  PROVE  /\ phase' \in [Requests -> Phases]
         /\ outcome' \in [Requests -> {"none"} \cup Results]
         /\ values' \in [Requests -> Seq(Nat)]
BY DEF Resolve, ConsumerTypeOK, ClientTypeOK, ChannelTypeOK, Phases, Between

\* Every step of a handle or its Aborter keeps the types, and touches neither
\* the consumer task nor the wire.
LEMMA HandleStepType ==
  ASSUME ConsumerTypeOK, NEW r \in Requests, Begin(r) \/ Finish(r)
  PROVE  /\ ClientTypeOK' /\ ChannelTypeOK'
         /\ UNCHANGED <<taskVars, wire>>
<1> USE DEF ConsumerTypeOK, ClientTypeOK, ChannelTypeOK, Phases, Between, MidPoll,
            channelVars
<1>1. CASE Call(r)
  BY <1>1 DEF Call
<1>2. CASE Poll(r)
  BY <1>2, ResolveType DEF Poll, Results, Errors
<1>3. CASE SendRequest(r)
  <2>1. queue' \in [Methods -> Seq(UpMessages)]
    BY <1>3, MessageTypes, EnqueueType DEF SendRequest
  <2>2. CASE task = "stopped"
    BY <1>3, <2>1, <2>2, ResolveType DEF SendRequest, Results, Errors
  <2>3. CASE task # "stopped"
    BY <1>3, <2>1, <2>3 DEF SendRequest
  <2> QED  BY <2>2, <2>3
<1>4. CASE PollResult(r)
  <2>1. CASE result[r] \in Results /\ r \notin StreamRequests
    BY <1>4, <2>1, ResolveType DEF PollResult, Results, Errors
  <2>2. CASE result[r] \in Results /\ r \in StreamRequests
    BY <1>4, <2>2 DEF PollResult, Results, Errors
  <2>3. CASE result[r] = "empty" /\ ~ResultSenderAlive(r)
    BY <1>4, <2>3, ResolveType DEF PollResult, Results, Errors
  <2>4. CASE result[r] = "empty" /\ ResultSenderAlive(r)
    BY <1>4, <2>4 DEF PollResult, Results, Errors
  <2> QED  BY <1>4, <2>1, <2>2, <2>3, <2>4 DEF PollResult
<1>5. CASE PollNext(r)
  <2>1. CASE values[r] # <<>>
    <3>1. /\ Head(values[r]) \in Nat
          /\ Tail(values[r]) \in Seq(Nat)
      BY <2>1, HeadTailProperties
    <3>2. Append(delivered[r], Head(values[r])) \in Seq(Nat)
      BY <3>1, AppendProperties
    <3> QED  BY <1>5, <2>1, <3>1, <3>2 DEF PollNext
  <2>2. CASE values[r] = <<>>
    BY <1>5, <2>2 DEF PollNext
  <2> QED  BY <2>1, <2>2
<1>6. CASE CheckAbort(r)
  <2>1. CASE abort[r] = "signalled"
    <3>0. values' = [values EXCEPT ![r] = <<>>]
      BY <1>6, <2>1 DEF CheckAbort
    <3>1. values' \in [Requests -> Seq(Nat)]
      BY <3>0
    <3>2. phase' \in [Requests -> Phases]
      BY <1>6, <2>1 DEF CheckAbort
    <3> QED  BY <1>6, <3>1, <3>2 DEF CheckAbort
  <2>2. CASE abort[r] # "signalled"
    BY <1>6, <2>2 DEF CheckAbort
  <2> QED  BY <2>1, <2>2
<1>7. CASE DropHandle(r)
  <2>1. queue' \in [Methods -> Seq(UpMessages)]
    BY <1>7, MessageTypes, EnqueueType DEF DropHandle
  <2> QED  BY <1>7, <2>1 DEF DropHandle
<1>8. CASE AbortSend(r)
  <2>1. queue' \in [Methods -> Seq(UpMessages)]
    BY <1>8, MessageTypes, EnqueueType DEF AbortSend
  <2> QED  BY <1>8, <2>1 DEF AbortSend
<1>9. CASE AbortSignal(r)
  BY <1>9 DEF AbortSignal
<1> QED  BY <1>1, <1>2, <1>3, <1>4, <1>5, <1>6, <1>7, <1>8, <1>9 DEF Begin, Finish

-----------------------------------------------------------------------------
(* Steps of the consumer task                                              *)

\* What a step of the task preserves, apart from what it does to the wire.
TaskOK == ChannelTypeOK /\ TaskTypeOK /\ HandFull /\ PendingCoversOwed

\* A step that forgets entries, and none of whose other entries becomes owed
\* again, keeps pending covering what is owed.
LEMMA CoverKept ==
  ASSUME TaskOK, Owed(entries') \subseteq Owed(entries), pending' = pending
  PROVE  pending' \in Nat /\ PendingCoversOwed'
<1>1. /\ AwaitingResult = Owed(entries)
      /\ AwaitingResult' = Owed(entries')
  BY DEF AwaitingResult, Owed
<1> QED
  BY <1>1, OwedShrinks, OwedIsFinite DEF TaskOK, TaskTypeOK, PendingCoversOwed

\* `pending -= 1` where a result is settled keeps the cover, and cannot wrap.
LEMMA CoverSettled ==
  ASSUME TaskOK, NEW r \in Owed(entries),
         Owed(entries') \subseteq Owed(entries) \ {r}, pending' = pending - 1
  PROVE  pending' \in Nat /\ PendingCoversOwed'
<1>1. /\ AwaitingResult = Owed(entries)
      /\ AwaitingResult' = Owed(entries')
  BY DEF AwaitingResult, Owed
<1>2. Cardinality(Owed(entries')) <= Cardinality(Owed(entries)) - 1
  BY OwedSettles
<1> QED
  BY <1>1, <1>2, OwedIsFinite DEF TaskOK, TaskTypeOK, PendingCoversOwed

\* ShutDown settles everything that is owed.
LEMMA ShutDownOK ==
  ASSUME TaskOK, NEW cause \in ShutdownTypes, ShutDown(cause)
  PROVE  ChannelTypeOK' /\ HandFull' /\ PendingCoversOwed'
         /\ task' = "draining" /\ UNCHANGED <<inHand, pending>>
         /\ entries' \in [Requests -> {"absent", "pending", "open"}]
<1>1. ErrorFrom[cause] \in Results
  BY DEF ErrorFrom, ShutdownTypes, Results, Errors
<1>2. PendingCoversOwed'
  BY CoverKept DEF ShutDown, Owed
<1>3. ChannelTypeOK'
  BY <1>1 DEF ShutDown, TaskOK, ChannelTypeOK
<1> QED  BY <1>2, <1>3 DEF ShutDown, HandFull

\* Each handler of a response keeps what the task keeps.
LEMMA HandleValueOK ==
  ASSUME TaskOK, NEW r \in Requests, HandleValue(r), timer' \in {"never", "running"}
  PROVE  TaskOK'
<1>1. CASE entries[r] = "pending"
  <2>1. pending' \in Nat /\ PendingCoversOwed'
    BY <1>1, CoverSettled DEF HandleValue, TaskOK, TaskTypeOK, Owed
  <2> QED
    BY <1>1, <2>1 DEF HandleValue, TaskOK, TaskTypeOK, ChannelTypeOK, HandFull, Results
<1>2. CASE entries[r] # "pending"
  <2>1. pending' \in Nat /\ PendingCoversOwed'
    BY <1>2, CoverKept DEF HandleValue
  <2> QED
    BY <1>2, <2>1 DEF HandleValue, TaskOK, TaskTypeOK, ChannelTypeOK, HandFull
<1> QED  BY <1>1, <1>2

\* Open settles the result, once.
LEMMA HandleOpenOK ==
  ASSUME TaskOK, NEW r \in Requests, HandleOpen(r), timer' \in {"never", "running"}
  PROVE  TaskOK'
<1>1. CASE entries[r] = "pending"
  <2>1. pending' \in Nat /\ PendingCoversOwed'
    BY <1>1, CoverSettled DEF HandleOpen, TaskOK, TaskTypeOK, Owed
  <2> QED
    BY <1>1, <2>1 DEF HandleOpen, TaskOK, TaskTypeOK, ChannelTypeOK, HandFull, Results
<1>2. CASE entries[r] # "pending"
  <2>1. pending' \in Nat /\ PendingCoversOwed'
    BY <1>2, CoverKept DEF HandleOpen
  <2> QED
    BY <1>2, <2>1 DEF HandleOpen, TaskOK, TaskTypeOK, ChannelTypeOK, HandFull
<1> QED  BY <1>1, <1>2

\* An item settles nothing.
LEMMA HandleItemOK ==
  ASSUME TaskOK, NEW r \in Requests, NEW n \in Nat, HandleItem(r, n),
         timer' \in {"never", "running"}
  PROVE  TaskOK'
<1>1. pending' \in Nat /\ PendingCoversOwed'
  BY CoverKept DEF HandleItem
<1>2. Append(values[r], n) \in Seq(Nat)
  BY AppendProperties DEF TaskOK, ChannelTypeOK
<1>3. values' \in [Requests -> Seq(Nat)]
  BY <1>2 DEF HandleItem, TaskOK, ChannelTypeOK
<1> QED  BY <1>1, <1>3 DEF HandleItem, TaskOK, TaskTypeOK, ChannelTypeOK, HandFull

\* Closed forgets the stream, and may only owe less for it.
LEMMA HandleClosedOK ==
  ASSUME TaskOK, NEW r \in Requests, HandleClosed(r), timer' \in {"never", "running"}
  PROVE  TaskOK'
<1>1. pending' \in Nat /\ PendingCoversOwed'
  BY CoverKept DEF HandleClosed, Owed, TaskOK, TaskTypeOK
<1> QED  BY <1>1 DEF HandleClosed, TaskOK, TaskTypeOK, ChannelTypeOK, HandFull

\* Forgetting a request settles its result if it was owed.
LEMMA ForgetOK ==
  ASSUME TaskOK, NEW r \in Requests, Forget(r)
  PROVE  /\ entries' \in [Requests -> {"absent", "pending", "open"}]
         /\ pending' \in Nat /\ PendingCoversOwed'
<1>1. CASE entries[r] = "pending"
  BY <1>1, CoverSettled DEF Forget, TaskOK, TaskTypeOK, Owed
<1>2. CASE entries[r] # "pending"
  BY <1>2, CoverKept DEF Forget, TaskOK, TaskTypeOK, Owed
<1> QED  BY <1>1, <1>2

\* Registering a request counts its result.
LEMMA RegisterOK ==
  ASSUME TaskOK, NEW r \in Requests, Register(r)
  PROVE  /\ entries' \in [Requests -> {"absent", "pending", "open"}]
         /\ pending' \in Nat /\ PendingCoversOwed'
<1>1. /\ AwaitingResult = Owed(entries)
      /\ AwaitingResult' = Owed(entries')
  BY DEF AwaitingResult, Owed
<1>2. Owed(entries') \subseteq Owed(entries) \cup {r}
  BY DEF Register, Owed, TaskOK, TaskTypeOK
<1>3. Cardinality(Owed(entries')) <= Cardinality(Owed(entries)) + 1
  BY <1>2, OwedGrows
<1> QED
  BY <1>1, <1>3, OwedIsFinite DEF Register, TaskOK, TaskTypeOK, PendingCoversOwed

\* The timer has a type of its own, whether or not it is configured.
LEMMA ResetTimerType ==
  ASSUME ResetTimer
  PROVE  timer' \in {"never", "running"}
BY DEF ResetTimer

\* handle_message, whatever the message.
LEMMA HandleMessageOK ==
  ASSUME TaskOK, NEW msg \in DownMessages, HandleMessage(msg), ResetTimer
  PROVE  TaskOK'
<1> timer' \in {"never", "running"}
  BY ResetTimerType
<1>1. CASE msg.tag = "value" /\ HandleValue(msg.id)
  BY <1>1, ResponseFields, HandleValueOK DEF ResponseTags
<1>2. CASE msg.tag = "open" /\ HandleOpen(msg.id)
  BY <1>2, ResponseFields, HandleOpenOK DEF ResponseTags
<1>3. CASE msg.tag = "item" /\ HandleItem(msg.id, msg.item)
  BY <1>3, ResponseFields, HandleItemOK DEF ResponseTags
<1>4. CASE msg.tag = "closed" /\ HandleClosed(msg.id)
  BY <1>4, ResponseFields, HandleClosedOK DEF ResponseTags
<1>5. ASSUME NEW cause \in {"Aborted", "Shutdown"}, ShutDown(cause)
      PROVE  TaskOK'
  <2>1. cause \in ShutdownTypes
    BY DEF ShutdownTypes
  <2> QED  BY <1>5, <2>1, ShutDownOK DEF TaskOK, TaskTypeOK
<1> QED  BY <1>1, <1>2, <1>3, <1>4, <1>5 DEF HandleMessage

\* A message that the task reads from the wire leaves a well-formed wire.
LEMMA DownTail ==
  ASSUME WireTypeOK, down # <<>>
  PROVE  Head(down) \in DownMessages /\ Tail(down) \in Seq(DownMessages)
BY HeadTailProperties DEF WireTypeOK

\* Every step of the consumer task keeps the types, the message in hand and
\* the cover of the results owed.
LEMMA TaskStepOK ==
  ASSUME TaskOK, WireTypeOK, TaskStep
  PROVE  TaskOK' /\ WireTypeOK' /\ UNCHANGED clientVars
<1>1. CASE Receive
  <2>1. TaskOK'
    BY <1>1, DownTail, HandleMessageOK DEF Receive
  <2> QED  BY <1>1, <2>1, DownTail DEF Receive, WireTypeOK
<1>2. CASE ReceiveError
  <2> timer' \in {"never", "running"}
    BY <1>2, ResetTimerType DEF ReceiveError
  <2>1. WireTypeOK' /\ UNCHANGED clientVars
    BY <1>2, DownTail DEF ReceiveError, WireTypeOK
  <2>2. ASSUME UNCHANGED <<channelVars, task, inHand, entries, pending>>
        PROVE  TaskOK'
    BY <2>2 DEF TaskOK, channelVars, ChannelTypeOK, TaskTypeOK, HandFull,
                PendingCoversOwed, AwaitingResult
  <2>3. ASSUME NEW strategy \in ReceiveStrategies \ {Ignore}, ShutDown(strategy)
        PROVE  TaskOK'
    <3>1. strategy \in ShutdownTypes
      BY ConsumerAssumption DEF Strategies
    <3> QED  BY <2>3, <3>1, ShutDownOK DEF TaskOK, TaskTypeOK
  <2> QED  BY <1>2, <2>1, <2>2, <2>3 DEF ReceiveError
<1>3. ASSUME NEW cause \in ShutdownTypes, ShutDown(cause),
             UNCHANGED <<timer, clientVars, wire>>
      PROVE  TaskOK' /\ WireTypeOK' /\ UNCHANGED clientVars
  BY <1>3, ShutDownOK DEF TaskOK, TaskTypeOK, wire, WireTypeOK
<1>4. CASE ReceiveClosed
  BY <1>3, <1>4 DEF ReceiveClosed, ShutdownTypes
<1>5. CASE TimeoutArm
  BY <1>3, <1>5 DEF TimeoutArm, ShutdownTypes
<1>6. CASE ShutdownArm
  BY <1>3, <1>6, ConsumerAssumption DEF ShutdownArm
<1>7. ASSUME NEW m \in Methods, TakeMessage(m)
      PROVE  TaskOK' /\ WireTypeOK' /\ UNCHANGED clientVars
  <2>1. /\ Head(queue[m]) \in UpMessages
        /\ Tail(queue[m]) \in Seq(UpMessages)
    BY <1>7, HeadTailProperties DEF TakeMessage, TaskOK, ChannelTypeOK
  <2>2. pending' \in Nat /\ PendingCoversOwed'
    BY <1>7, CoverKept DEF TakeMessage
  <2>3. timer' \in {"never", "running"}
    BY <1>7, ResetTimerType DEF TakeMessage
  <2>4. queue' \in [Methods -> Seq(UpMessages)]
    BY <1>7, <2>1 DEF TakeMessage, TaskOK, ChannelTypeOK
  <2>5. inHand' \in Seq(UpMessages) /\ inHand' # <<>>
    BY <1>7, <2>1 DEF TakeMessage
  <2>6. TaskOK'
    BY <1>7, <2>2, <2>3, <2>4, <2>5
       DEF TakeMessage, TaskOK, ChannelTypeOK, TaskTypeOK, HandFull
  <2> QED  BY <1>7, <2>6 DEF TakeMessage, wire, WireTypeOK
<1>8. CASE FeedMessage
  <2>1. Head(inHand) \in UpMessages
    BY <1>8, HeadTailProperties DEF FeedMessage, TaskOK, TaskTypeOK, HandFull
  <2>2. up' \in Seq(UpMessages)
    BY <1>8, <2>1, AppendProperties DEF FeedMessage, WireTypeOK
  <2>3. TaskOK'
    BY <1>8 DEF FeedMessage, TaskOK, channelVars, ChannelTypeOK, TaskTypeOK,
                HandFull, PendingCoversOwed, AwaitingResult
  <2> QED  BY <1>8, <2>2, <2>3 DEF FeedMessage, WireTypeOK
<1>9. ASSUME NEW msg \in UpMessages, inHand' = <<>>, task' = "running",
             UNCHANGED <<timer, wire, clientVars, queue, values>>,
             \/ Register(msg.id) /\ UNCHANGED result
             \/ Forget(msg.id) /\ UNCHANGED result
             \/ UNCHANGED <<entries, pending>>
                  /\ \E err \in Results : result' = [result EXCEPT ![msg.id] = err]
      PROVE  TaskOK' /\ WireTypeOK' /\ UNCHANGED clientVars
  <2>1. msg.id \in Requests
    BY DEF UpMessages
  <2>2. /\ entries' \in [Requests -> {"absent", "pending", "open"}]
        /\ pending' \in Nat /\ PendingCoversOwed'
    BY <1>9, <2>1, RegisterOK, ForgetOK, CoverKept DEF TaskOK, TaskTypeOK
  <2>3. ChannelTypeOK'
    BY <1>9, <2>1 DEF TaskOK, ChannelTypeOK
  <2> QED
    BY <1>9, <2>2, <2>3 DEF TaskOK, TaskTypeOK, HandFull, wire, WireTypeOK
<1>10. CASE SendOk
  <2>1. Head(inHand) \in UpMessages
    BY <1>10, HeadTailProperties DEF SendOk, TaskOK, TaskTypeOK, HandFull
  <2> QED  BY <1>9, <1>10, <2>1 DEF SendOk, channelVars
<1>11. CASE SendErr
  <2>1. Head(inHand) \in UpMessages
    BY <1>11, HeadTailProperties DEF SendErr, TaskOK, TaskTypeOK, HandFull
  <2>2. {"ErrClosed", "ErrTransport"} \subseteq Results
    BY DEF Results, Errors
  <2> QED  BY <1>9, <1>11, <2>1, <2>2 DEF SendErr
<1>12. CASE DropArm
  <2>1. TaskOK'
    BY <1>12 DEF DropArm, TaskOK, channelVars, ChannelTypeOK, TaskTypeOK,
                 HandFull, PendingCoversOwed, AwaitingResult
  <2> QED  BY <1>12, <2>1 DEF DropArm, wire, WireTypeOK
<1>13. CASE DropState
  <2>1. pending' \in Nat /\ PendingCoversOwed'
    BY <1>13, CoverKept DEF DropState, Owed
  <2>2. ChannelTypeOK'
    BY <1>13, EmptySeq DEF DropState, TaskOK, ChannelTypeOK
  <2>3. TaskOK'
    BY <1>13, <2>1, <2>2 DEF DropState, TaskOK, TaskTypeOK, HandFull
  <2> QED  BY <1>13, <2>3 DEF DropState, WireTypeOK
<1> QED
  BY <1>1, <1>2, <1>4, <1>5, <1>6, <1>7, <1>8, <1>10, <1>11, <1>12, <1>13
     DEF TaskStep

-----------------------------------------------------------------------------
(* Steps of the producer                                                   *)

\* A producer that sends a message, and moves a request on as it does, keeps
\* the types.
LEMMA SendOK ==
  ASSUME WireTypeOK, NEW msg \in DownMessages, Send(msg)
  PROVE  WireTypeOK'
<1>1. down' \in Seq(DownMessages)
  BY AppendProperties DEF Send, WireTypeOK
<1> QED  BY <1>1 DEF Send, WireTypeOK

\* A reply of the producer keeps the types of its end and of the wire.
LEMMA ReplyOK ==
  ASSUME PeerTypeOK, WireTypeOK, NEW r \in Requests, NEW msg \in DownMessages,
         NEW from, NEW to \in {"idle", "serving", "open", "done"},
         Reply(r, from, to, msg), itemsSent' \in [Requests -> 0..MaxItems]
  PROVE  PeerTypeOK' /\ WireTypeOK'
BY SendOK DEF Reply, PeerTypeOK

\* Every step of the producer, or of the network, keeps the types.
LEMMA PeerStepOK ==
  ASSUME PeerTypeOK, WireTypeOK, PeerNext
  PROVE  PeerTypeOK' /\ WireTypeOK'
<1>1. CASE PeerReceive
  <2>1. Head(up) \in UpMessages /\ Tail(up) \in Seq(UpMessages)
    BY <1>1, HeadTailProperties DEF PeerReceive, WireTypeOK
  <2>2. Head(up).id \in Requests
    BY <2>1 DEF UpMessages
  <2> QED  BY <1>1, <2>1, <2>2 DEF PeerReceive, PeerTypeOK, WireTypeOK
<1>2. ASSUME NEW r \in Requests, PeerReplies(r)
      PROVE  PeerTypeOK' /\ WireTypeOK'
  <2>1. CASE PeerAnswer(r)
    BY <2>1, MessageTypes, ReplyOK DEF PeerAnswer, PeerTypeOK
  <2>2. CASE PeerOpen(r)
    BY <2>2, MessageTypes, ReplyOK DEF PeerOpen, PeerTypeOK
  <2>3. CASE PeerItem(r)
    <3>1. itemsSent[r] + 1 \in 0..MaxItems
      BY <2>3, TransportAssumption DEF PeerItem, PeerTypeOK
    <3>2. itemsSent' \in [Requests -> 0..MaxItems]
      BY <2>3, <3>1 DEF PeerItem, PeerTypeOK
    <3>3. ItemMsg(r, itemsSent[r] + 1) \in DownMessages
      BY <3>1, MessageTypes
    <3> QED  BY <2>3, <3>2, <3>3, ReplyOK DEF PeerItem
  <2>4. CASE PeerClose(r)
    BY <2>4, MessageTypes, ReplyOK DEF PeerClose, PeerTypeOK
  <2> QED  BY <1>2, <2>1, <2>2, <2>3, <2>4 DEF PeerReplies
<1>3. ASSUME NEW r \in Requests, PeerCancel(r)
      PROVE  PeerTypeOK' /\ WireTypeOK'
  BY <1>3 DEF PeerCancel, PeerTypeOK, WireTypeOK, wire
<1>4. CASE PeerStop
  <2>1. \A cause \in ShutdownTypes : Announcement(cause) \in Seq([tag : StopTags])
    <3>1. /\ <<StopMsg("stop_shutdown")>> \in Seq([tag : StopTags])
          /\ <<StopMsg("stop_aborted")>> \in Seq([tag : StopTags])
      BY DEF StopMsg, StopTags
    <3>2. ASSUME NEW cause \in ShutdownTypes
          PROVE  Announcement(cause) \in {<<StopMsg("stop_shutdown")>>,
                                          <<StopMsg("stop_aborted")>>, <<>>}
      BY DEF Announcement, ShutdownTypes
    <3> QED  BY <3>1, <3>2, EmptySeq
  <2>2. notice' \in Seq([tag : StopTags])
    BY <1>4, <2>1, PeerAssumption DEF PeerStop
  <2> QED  BY <1>4, <2>2 DEF PeerStop, PeerTypeOK, Working, WireTypeOK, wire
<1>5. CASE PeerAnnounce
  <2>1. Head(notice) \in DownMessages
    BY <1>5, HeadTailProperties DEF PeerAnnounce, PeerTypeOK, DownMessages
  <2>2. WireTypeOK'
    BY <1>5, <2>1, SendOK DEF PeerAnnounce, WireTypeOK, wire
  <2> QED  BY <1>5, <2>2, EmptySeq DEF PeerAnnounce, PeerTypeOK
<1>6. ASSUME NEW r \in Requests, PeerUnheard(r)
      PROVE  PeerTypeOK' /\ WireTypeOK'
  <2>1. itemsSent' \in [Requests -> 0..MaxItems]
    BY <1>6 DEF PeerUnheard, PeerTypeOK
  <2>2. peer' \in [Requests -> {"idle", "serving", "open", "done"}]
    BY <1>6 DEF PeerUnheard, PeerTypeOK
  <2> QED  BY <1>6, <2>1, <2>2 DEF PeerUnheard, PeerTypeOK, WireTypeOK, wire
<1>7. CASE PeerHangup
  BY <1>7 DEF PeerHangup, peerVars, PeerTypeOK, WireTypeOK
<1>8. CASE Disconnect /\ UNCHANGED peerVars
  <2>1. up' \in Seq(UpMessages) /\ down' \in Seq(DownMessages)
    BY <1>8, PrefixType DEF Disconnect, WireTypeOK
  <2> QED  BY <1>8, <2>1 DEF Disconnect, peerVars, PeerTypeOK, WireTypeOK
<1> QED  BY <1>1, <1>2, <1>3, <1>4, <1>5, <1>6, <1>7, <1>8 DEF PeerNext, PeerOwn

-----------------------------------------------------------------------------
(* The inductive invariant                                                 *)

\* A session nobody has used yet, whichever tasks may be told to abort.
Fresh ==
  /\ ConsumerInit /\ WireInit
  /\ peer = [r \in Requests |-> "idle"]
  /\ itemsSent = [r \in Requests |-> 0]
  /\ cancelled \subseteq Requests
  /\ listening = TRUE
  /\ notice = <<>>

\* A new session is one.
LEMMA InitFresh == Init => Fresh
BY DEF Init, PeerInit, Fresh

\* It owes nothing.
LEMMA InitOK == Fresh => IInv
<1> SUFFICES ASSUME Fresh PROVE IInv
  OBVIOUS
<1> USE DEF Fresh, ConsumerInit, WireInit
<1>1. ConsumerTypeOK
  BY EmptySeq DEF ConsumerTypeOK, ClientTypeOK, ChannelTypeOK, TaskTypeOK, Phases
<1>2. PeerTypeOK /\ WireTypeOK
  BY EmptySeq, TransportAssumption DEF PeerTypeOK, WireTypeOK
<1>3. AwaitingResult = {}
  BY DEF AwaitingResult
<1>4. PendingCoversOwed
  BY <1>3, FS_EmptySet DEF PendingCoversOwed
<1> QED  BY <1>1, <1>2, <1>4 DEF IInv, TypeOK, HandFull

\* Every step of either side, or of the network, keeps the invariant.
LEMMA NextOK == IInv /\ [Next]_vars => IInv'
<1> SUFFICES ASSUME IInv, [Next]_vars PROVE IInv'
  OBVIOUS
<1>1. ConsumerTypeOK /\ PeerTypeOK /\ WireTypeOK /\ TaskOK
  BY DEF IInv, TypeOK, ConsumerTypeOK, TaskOK
<1>2. ASSUME UNCHANGED <<taskVars, wire, peerVars>>, ClientTypeOK', ChannelTypeOK'
      PROVE  IInv'
  BY <1>1, <1>2
     DEF TaskOK, IInv, TypeOK, ConsumerTypeOK, TaskTypeOK, PeerTypeOK, WireTypeOK,
         HandFull, PendingCoversOwed, AwaitingResult, taskVars, wire, peerVars
<1>3. ASSUME UNCHANGED peerVars, UNCHANGED clientVars, TaskOK', WireTypeOK'
      PROVE  IInv'
  BY <1>1, <1>3
     DEF TaskOK, IInv, TypeOK, ConsumerTypeOK, ClientTypeOK, PeerTypeOK, clientVars,
         peerVars
<1>4. ASSUME UNCHANGED consumerVars, PeerTypeOK', WireTypeOK'
      PROVE  IInv'
  BY <1>1, <1>4
     DEF TaskOK, IInv, TypeOK, ConsumerTypeOK, ClientTypeOK, ChannelTypeOK, TaskTypeOK,
         HandFull, PendingCoversOwed, AwaitingResult, consumerVars, clientVars,
         channelVars, taskVars
<1>5. ASSUME NEW r \in Requests, Begin(r) \/ Finish(r), UNCHANGED peerVars
      PROVE  IInv'
  BY <1>1, <1>2, <1>5, HandleStepType
<1>6. CASE DropConsumer /\ UNCHANGED peerVars
  BY <1>1, <1>2, <1>6
     DEF DropConsumer, ConsumerTypeOK, ClientTypeOK, ChannelTypeOK, channelVars
<1>7. CASE TimerElapses /\ UNCHANGED peerVars
  <2>1. TaskOK' /\ WireTypeOK'
    BY <1>1, <1>7
       DEF TimerElapses, TaskOK, channelVars, ChannelTypeOK, TaskTypeOK, HandFull,
           PendingCoversOwed, AwaitingResult, wire, WireTypeOK
  <2> QED  BY <1>3, <1>7, <2>1 DEF TimerElapses
<1>8. CASE TaskStep /\ UNCHANGED peerVars
  BY <1>1, <1>3, <1>8, TaskStepOK
<1>9. CASE PeerNext /\ UNCHANGED consumerVars
  BY <1>1, <1>4, <1>9, PeerStepOK
<1>10. CASE UNCHANGED vars
  BY <1>1, <1>4, <1>10 DEF vars, peerVars, wire, PeerTypeOK, WireTypeOK
<1> QED
  BY <1>5, <1>6, <1>7, <1>8, <1>9, <1>10 DEF Next, ConsumerNext

\* The inductive invariant holds throughout every behaviour.
THEOREM Invariance == Spec => []IInv
BY InitFresh, InitOK, NextOK, PTL DEF Spec

\* Type correctness: in particular `pending -= 1` (the derive macro's
\* ConsumerState) never takes the counter below zero.
THEOREM TypeCorrect == Spec => []TypeOK
<1>1. IInv => TypeOK
  BY DEF IInv
<1> QED  BY <1>1, Invariance, PTL

\* A consumer that owes somebody a result never counts itself idle, so its
\* timeout can end it: for any calls, any lossy transport and any callbacks.
THEOREM PendingCovers == Spec => []PendingCoversOwed
<1>1. IInv => PendingCoversOwed
  BY DEF IInv
<1> QED  BY <1>1, Invariance, PTL
=============================================================================
