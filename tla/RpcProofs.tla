------------------------------- MODULE RpcProofs -------------------------------
(***************************************************************************)
(* A whole session, for every set of calls, capacity and configuration of  *)
(* callbacks, timeouts and shutdowns:                                      *)
(*   - two sides that wait for each other in send never move again;        *)
(*   - the inductive invariant of both sides and of the wire between them, *)
(*     put together from the invariants PeerProofs and ContractProofs      *)
(*     prove of each side against any peer, read under the maps P and C;   *)
(*   - while the session runs, an entry of the consumer's map and a task   *)
(*     of the producer account for each other.                             *)
(***************************************************************************)
EXTENDS Rpc, TransportProofs, FiniteSetTheorems

Stuck == connected /\ Wedged

\* A direction that is full has no room.
LEMMA FullHasNoRoom == ~(Capacity < Capacity)
BY TransportAssumption

\* The consumer's side cannot free itself: of the task's steps only the ones
\* of send are enabled, and send needs room or an error.
LEMMA ConsumerStaysStuck ==
  ASSUME ~Faulty, Stuck, ConsumerNext, UNCHANGED producerVars
  PROVE  Stuck'
<1> USE DEF Stuck, Wedged, wire, taskVars
<1>1. CASE \E r \in Requests : Finish(r)
  BY <1>1 DEF Finish, SendRequest, PollResult, CheckAbort, AbortSignal,
              producerVars, loopVars, replyVars
<1>2. CASE \E r \in Requests : Begin(r)
  BY <1>2 DEF Begin, Call, Poll, PollNext, DropHandle, AbortSend,
              producerVars, loopVars, replyVars
<1>3. CASE DropConsumer
  BY <1>3 DEF DropConsumer, producerVars, loopVars, replyVars
<1>4. CASE TaskStep
  <2>1. ~FeedMessage
    BY FullHasNoRoom, Zenon DEF FeedMessage
  <2>2. ~SendErr
    BY DEF SendErr
  <2>3. /\ ~Receive /\ ~ReceiveError /\ ~ReceiveClosed
        /\ ~\E m \in Methods : TakeMessage(m)
        /\ ~SendOk
    BY DEF Receive, ReceiveError, ReceiveClosed, TakeMessage, SendOk
  <2>4. ~TimeoutArm /\ ~ShutdownArm /\ ~DropArm /\ ~DropState
    BY DEF TimeoutArm, ShutdownArm, DropArm, DropState
  <2> QED  BY <1>4, <2>1, <2>2, <2>3, <2>4 DEF TaskStep
<1>5. CASE TimerElapses
  BY <1>5 DEF TimerElapses, producerVars, loopVars, replyVars
<1> QED  BY <1>1, <1>2, <1>3, <1>4, <1>5 DEF ConsumerNext

\* Nor can the producer's: its loop has stopped reading, its tasks only queue
\* more replies, and its reply task needs room or an error.
LEMMA ProducerStaysStuck ==
  ASSUME ~ProducerFaulty, Stuck, ProducerNext, UNCHANGED consumerVars
  PROVE  Stuck'
<1> USE DEF Stuck, Wedged, wire, loopVars, replyVars, consumerVars, taskVars
<1>1. CASE LoopStep
  <2>1. /\ ~ProducerReceive /\ ~ProducerReceiveError /\ ~ProducerReceiveClosed
        /\ ~RemoveAborter /\ ~ProducerTimeoutArm /\ ~StopArm /\ ~ProducerShutdownArm
    BY DEF ProducerReceive, ProducerReceiveError, ProducerReceiveClosed, RemoveAborter,
           ProducerTimeoutArm, StopArm, ProducerShutdownArm
  <2>2. DrainAborters
    BY <1>1, <2>1 DEF LoopStep
  <2> QED  BY <2>2 DEF DrainAborters
<1>2. CASE \E r \in Requests : WorkStep(r) \/ PanicTask(r)
  BY <1>2 DEF WorkStep, FinishValue, OpenStream, YieldItem, EndStream, QueueReply,
              Retire, AbortTask, PanicTask
<1>3. CASE ReplyStep
  <2>1. ~TakeReply /\ ~ReplyOk /\ ~EndReplies
    BY DEF TakeReply, ReplyOk, EndReplies
  <2>2. ~FeedReply
    BY FullHasNoRoom, Zenon DEF FeedReply
  <2>3. ~ReplyErr
    BY DEF ReplyErr
  <2> QED  BY <1>3, <2>1, <2>2, <2>3 DEF ReplyStep
<1>4. CASE ProducerTimerElapses
  BY <1>4 DEF ProducerTimerElapses
<1> QED  BY <1>1, <1>2, <1>3, <1>4 DEF ProducerNext

\* A session that is stuck stays stuck: what finding_wedge reaches is no delay.
THEOREM NothingFreesAStuckSession ==
  ASSUME ~Faulty, ~ProducerFaulty
  PROVE  Spec => StuckStaysStuck
<1>1. ASSUME [Next]_vars, Stuck
      PROVE  Stuck'
  <2>1. CASE ConsumerNext /\ UNCHANGED producerVars
    BY <1>1, <2>1, ConsumerStaysStuck
  <2>2. CASE ProducerNext /\ UNCHANGED consumerVars
    BY <1>1, <2>2, ProducerStaysStuck
  <2>3. CASE UNCHANGED vars
    BY <1>1, <2>3 DEF Stuck, Wedged, vars, wire, consumerVars, taskVars, producerVars,
                      loopVars, replyVars
  <2> QED  BY <1>1, <2>1, <2>2, <2>3 DEF Next
<1>2. [Next]_vars => [connected /\ Wedged => (connected /\ Wedged)']_vars
  BY <1>1 DEF Stuck
<1> QED  BY <1>2, PTL DEF Spec, StuckStaysStuck

-----------------------------------------------------------------------------
(* The two sides                                                           *)

Unmade(r)    == phase[r] \in {"uncalled", "created", "starting"}
Queued(r)    == Has(queue[MethodOf[r]], RequestMsg(r))
Holding(msg) == task \in {"sending", "flushing"} /\ Head(inHand) = msg
Coming(r)    == Unmade(r) \/ Queued(r) \/ Holding(RequestMsg(r))

\* Coming, and still out of the producer's sight.
Unsent(r) == Unmade(r) \/ Queued(r) \/ (Holding(RequestMsg(r)) /\ task = "sending")
Requested == {r \in Requests : ~Unsent(r)}

\* The producer's side: its client has requested what is on the wire. What the
\* proofs of the producer use of aborts is left out of the map: they need not be
\* counted, and any task may have been told to stop.
P == INSTANCE PeerProofs WITH
  MaxAborts  <- 0,
  requested  <- Requested,
  abortsSent <- [r \in Requests |-> 0],
  told       <- Requests

\* The consumer's side: its peer is the producer, which listens while its loop
\* runs and stops when its reply task ends, and may drop any task: nothing that
\* is proved of the consumer here depends on which tasks were told to. Nobody
\* else closes the connection.
C == INSTANCE ContractProofs WITH
  PeerStops   <- ShutdownTypes,
  Disconnects <- FALSE,
  peer        <- P!PeerMap,
  itemsSent   <- P!SentMap,
  cancelled   <- Requests,
  listening   <- loop = "running",
  notice      <- P!Notice

\* What the proofs of the consumer's side assume of the constants.
LEMMA ConsumerFacts ==
  /\ C!IsFiniteSet(Requests)
  /\ ReceiveStrategies \subseteq C!Strategies
  /\ ShutdownCauses \subseteq C!ShutdownTypes
  /\ ShutdownTypes \subseteq C!ShutdownTypes
BY TransportAssumption, ConsumerAssumption
   DEF IsFiniteSet, C!IsFiniteSet, Strategies, C!Strategies, ShutdownTypes,
       C!ShutdownTypes, Ignore, C!Ignore

\* And those of the producer's side.
LEMMA ProducerFacts ==
  /\ P!IsFiniteSet(Requests)
  /\ ProducerReceiveStrategies \subseteq P!Strategies
  /\ SendStrategies \in [P!SendErrors -> SUBSET P!Strategies]
  /\ ProducerShutdownCauses \subseteq P!ShutdownTypes
  /\ 0 \in Nat
BY TransportAssumption, ProducerAssumption
   DEF IsFiniteSet, P!IsFiniteSet, Strategies, P!Strategies, ShutdownTypes,
       P!ShutdownTypes, Ignore, P!Ignore, SendErrors, P!SendErrors

\* The types of the consumer's variables read the same in both modules.
LEMMA SameConsumer ==
  /\ ClientTypeOK <=> C!ClientTypeOK
  /\ ChannelTypeOK <=> C!ChannelTypeOK
  /\ TaskTypeOK <=> C!TaskTypeOK
  /\ WireTypeOK <=> C!WireTypeOK
BY DEF ClientTypeOK, C!ClientTypeOK, ChannelTypeOK, C!ChannelTypeOK, TaskTypeOK,
       C!TaskTypeOK, WireTypeOK, C!WireTypeOK, Phases, C!Phases, MidPoll, C!MidPoll,
       Between, C!Between, Results, C!Results, Errors, C!Errors, UpMessages,
       C!UpMessages, DownMessages, C!DownMessages, ResponseTags, C!ResponseTags,
       StopTags, C!StopTags

\* So do those of the producer's.
LEMMA SameProducer ==
  /\ ProducerTypeOK <=> P!ProducerTypeOK
  /\ WireTypeOK <=> P!WireTypeOK
BY DEF ProducerTypeOK, P!ProducerTypeOK, LoopTypeOK, WorkTypeOK, ReplyTypeOK,
       WireTypeOK, P!LoopTypeOK, P!WorkTypeOK, P!ReplyTypeOK, P!WireTypeOK,
       DownMessages, P!DownMessages, UpMessages, P!UpMessages, ShutdownTypes,
       P!ShutdownTypes, ResponseTags, P!ResponseTags, StopTags, P!StopTags

\* A step of a handle is one under C.
LEMMA SameHandle ==
  ASSUME NEW r \in Requests
  PROVE  (Begin(r) <=> C!Begin(r)) /\ (Finish(r) <=> C!Finish(r))
<1> USE DEF taskVars, C!taskVars, wire, C!wire, channelVars, C!channelVars, Resolve,
            C!Resolve, Enqueue, C!Enqueue, RequestMsg, C!RequestMsg, AbortMsg,
            C!AbortMsg, StreamRequests, C!StreamRequests, ResultSenderAlive,
            C!ResultSenderAlive, ValuesSenderAlive, C!ValuesSenderAlive, InPipeline,
            C!InPipeline, Contains, C!Contains, Results, C!Results, Errors, C!Errors,
            Between, C!Between
<1>1. Begin(r) <=> C!Begin(r)
  BY DEF Begin, C!Begin, Call, C!Call, Poll, C!Poll, PollNext, C!PollNext, DropHandle,
         C!DropHandle, AbortSend, C!AbortSend
<1>2. Finish(r) <=> C!Finish(r)
  BY DEF Finish, C!Finish, SendRequest, C!SendRequest, PollResult, C!PollResult,
         CheckAbort, C!CheckAbort, AbortSignal, C!AbortSignal
<1> QED BY <1>1, <1>2

\* So is a step of the consumer task.
LEMMA SameTask == TaskStep <=> C!TaskStep
<1> USE DEF wire, C!wire, channelVars, C!channelVars, clientVars, C!clientVars,
            ResetTimer, C!ResetTimer, Forget, C!Forget, Register, C!Register
<1>1. \A cause : ShutDown(cause) <=> C!ShutDown(cause)
  BY DEF ShutDown, C!ShutDown, ErrorFrom, C!ErrorFrom
<1>2. \A msg : HandleMessage(msg) <=> C!HandleMessage(msg)
  BY <1>1 DEF HandleMessage, C!HandleMessage, HandleValue, C!HandleValue, HandleOpen,
              C!HandleOpen, HandleItem, C!HandleItem, HandleClosed, C!HandleClosed,
              ValuesReceiverAlive, C!ValuesReceiverAlive
<1>3. Receive <=> C!Receive
  BY <1>2 DEF Receive, C!Receive
<1>4. ReceiveError <=> C!ReceiveError
  BY <1>1 DEF ReceiveError, C!ReceiveError, Ignore, C!Ignore
<1>5. ReceiveClosed <=> C!ReceiveClosed
  BY <1>1 DEF ReceiveClosed, C!ReceiveClosed
<1>6. \A m \in Methods : TakeMessage(m) <=> C!TakeMessage(m)
  BY DEF TakeMessage, C!TakeMessage
<1>7. /\ FeedMessage <=> C!FeedMessage
      /\ SendOk <=> C!SendOk
      /\ SendErr <=> C!SendErr
  BY DEF FeedMessage, C!FeedMessage, SendOk, C!SendOk, SendErr, C!SendErr
<1>8. /\ TimeoutArm <=> C!TimeoutArm
      /\ ShutdownArm <=> C!ShutdownArm
  BY <1>1 DEF TimeoutArm, C!TimeoutArm, ShutdownArm, C!ShutdownArm
<1>9. /\ DropArm <=> C!DropArm
      /\ DropState <=> C!DropState
  BY DEF DropArm, C!DropArm, DropState, C!DropState
<1> QED  BY <1>3, <1>4, <1>5, <1>6, <1>7, <1>8, <1>9 DEF TaskStep, C!TaskStep

\* A step of the producer's loop is one under P.
LEMMA SameLoop == LoopStep <=> P!LoopStep
<1> USE DEF ResetIdleTimer, P!ResetIdleTimer, loopVars, P!loopVars, workVars,
            P!workVars, replyVars, P!replyVars, wire, P!wire
<1>1. ProducerReceive <=> P!ProducerReceive
  BY DEF ProducerReceive, P!ProducerReceive, StartTask, P!StartTask, AbortRequest,
         P!AbortRequest
<1>2. \A cause : HandleShutdown(cause) <=> P!HandleShutdown(cause)
  BY DEF HandleShutdown, P!HandleShutdown, StopMsg, P!StopMsg
<1>3. ProducerReceiveError <=> P!ProducerReceiveError
  BY <1>2 DEF ProducerReceiveError, P!ProducerReceiveError, Ignore, P!Ignore
<1>4. ProducerReceiveClosed <=> P!ProducerReceiveClosed
  BY <1>2 DEF ProducerReceiveClosed, P!ProducerReceiveClosed
<1>5. RemoveAborter <=> P!RemoveAborter
  BY DEF RemoveAborter, P!RemoveAborter
<1>6. ProducerTimeoutArm <=> P!ProducerTimeoutArm
  BY <1>2 DEF ProducerTimeoutArm, P!ProducerTimeoutArm
<1>7. StopArm <=> P!StopArm
  BY <1>2 DEF StopArm, P!StopArm
<1>8. ProducerShutdownArm <=> P!ProducerShutdownArm
  BY <1>2 DEF ProducerShutdownArm, P!ProducerShutdownArm
<1>9. DrainAborters <=> P!DrainAborters
  BY DEF DrainAborters, P!DrainAborters
<1> QED BY <1>1, <1>3, <1>4, <1>5, <1>6, <1>7, <1>8, <1>9 DEF LoopStep, P!LoopStep

\* So is a step of a request's task.
LEMMA SameWork ==
  ASSUME NEW r \in Requests
  PROVE  WorkStep(r) \/ PanicTask(r) <=> P!WorkStep(r) \/ P!PanicTask(r)
BY DEF WorkStep, P!WorkStep, FinishValue, P!FinishValue, OpenStream, P!OpenStream,
       YieldItem, P!YieldItem, EndStream, P!EndStream, Retire, P!Retire, AbortTask,
       P!AbortTask, PanicTask, P!PanicTask, QueueReply, P!QueueReply, loopVars,
       P!loopVars, replyVars, P!replyVars, wire, P!wire, ValueRequests,
       P!ValueRequests, StreamRequests, P!StreamRequests, ValueMsg, P!ValueMsg,
       OpenMsg, P!OpenMsg, ItemMsg, P!ItemMsg, ClosedMsg, P!ClosedMsg

\* So is a step of the reply task.
LEMMA SameReply == ReplyStep <=> P!ReplyStep
<1> USE DEF loopVars, P!loopVars, workVars, P!workVars, wire, P!wire
<1>1. SendAnswers = P!SendAnswers
  BY DEF SendAnswers, P!SendAnswers, SendErrors, P!SendErrors
<1>2. ReplyErr <=> P!ReplyErr
  BY <1>1 DEF ReplyErr, P!ReplyErr, ResponseTags, P!ResponseTags, Ignore, P!Ignore
<1> QED
  BY <1>2 DEF ReplyStep, P!ReplyStep, TakeReply, P!TakeReply, FeedReply, P!FeedReply,
              ReplyOk, P!ReplyOk, EndReplies, P!EndReplies

-----------------------------------------------------------------------------
(* One place for each request                                              *)

\* A channel holds the messages of its own method.
Routed ==
  \A m \in Methods : \A i \in 1..Len(queue[m]) : MethodOf[queue[m][i].id] = m

\* Until the producer's end has it, a request is in one place, and has no entry.
OnePlace(r) ==
  /\ Unmade(r) => ~Queued(r) /\ ~Holding(RequestMsg(r))
  /\ Queued(r) => ~Holding(RequestMsg(r))
  /\ Unique(queue[MethodOf[r]], RequestMsg(r))
  /\ Coming(r) => entries[r] = "absent"

OnePlaces == Routed /\ \A r \in Requests : OnePlace(r)

\* A task that was started was given an abort sender.
TasksKnown == \A r \in Requests : work[r] # "idle" => r \in aborters \cup aborted

IInv ==
  /\ C!ClientTypeOK /\ C!TaskOK /\ OnePlaces
  /\ P!ProducerOK /\ P!RemovedDone /\ TasksKnown

\* What a step of a handle does to the channels, and to the request itself.
LEMMA HandleQueues ==
  ASSUME ConsumerTypeOK, NEW r \in Requests, Begin(r) \/ Finish(r)
  PROVE  /\ \A q \in Requests : Unmade(q)' => Unmade(q)
         /\ UNCHANGED <<taskVars, wire>>
         /\ \/ queue' = queue
            \/ queue' = [queue EXCEPT ![MethodOf[r]] = Append(@, AbortMsg(r))]
            \/ /\ queue' = [queue EXCEPT ![MethodOf[r]] = Append(@, RequestMsg(r))]
               /\ Unmade(r) /\ ~Unmade(r)'
<1> USE DEF ConsumerTypeOK, ClientTypeOK, Unmade, Resolve, Enqueue, Between, channelVars
<1>1. CASE Call(r)
  BY <1>1 DEF Call
<1>2. CASE Poll(r)
  BY <1>2 DEF Poll
<1>3. CASE SendRequest(r)
  BY <1>3 DEF SendRequest
<1>4. CASE PollResult(r)
  BY <1>4 DEF PollResult
<1>5. CASE PollNext(r)
  BY <1>5 DEF PollNext
<1>6. CASE CheckAbort(r)
  BY <1>6 DEF CheckAbort
<1>7. CASE DropHandle(r)
  BY <1>7 DEF DropHandle
<1>8. CASE AbortSend(r)
  BY <1>8 DEF AbortSend
<1>9. CASE AbortSignal(r)
  BY <1>9 DEF AbortSignal
<1> QED  BY <1>1, <1>2, <1>3, <1>4, <1>5, <1>6, <1>7, <1>8, <1>9 DEF Begin, Finish

\* A message to the producer is the request or the abort of its own id.
LEMMA UpMessageIs ==
  /\ \A q, r : RequestMsg(q) # AbortMsg(r)
  /\ \A q, r : RequestMsg(q) = RequestMsg(r) => q = r
  /\ \A q, r : AbortMsg(q) = AbortMsg(r) => q = r
  /\ \A msg \in UpMessages : /\ msg.id \in Requests
                             /\ msg.payload = "request" <=> msg = RequestMsg(msg.id)
                             /\ msg.payload # "request" <=> msg = AbortMsg(msg.id)
  /\ \A r : RequestMsg(r).id = r /\ AbortMsg(r).id = r
BY DEF RequestMsg, AbortMsg, UpMessages

\* One message more on one channel: Routed stays true, and a request that was
\* not queued is queued once.
LEMMA EnqueuedPlaces ==
  ASSUME ConsumerTypeOK, OnePlaces, NEW r \in Requests, NEW msg \in UpMessages, msg.id = r,
         queue' = [queue EXCEPT ![MethodOf[r]] = Append(@, msg)],
         UNCHANGED <<task, inHand, entries>>,
         \A q \in Requests : Unmade(q)' => Unmade(q),
         msg = RequestMsg(r) => Unmade(r) /\ ~Unmade(r)'
  PROVE  /\ OnePlaces'
         /\ \A q \in Requests : Unsent(q)' => Unsent(q)
<1>1. /\ \A q \in Requests : MethodOf[q] \in Methods
      /\ \A m \in Methods : queue[m] \in Seq(UpMessages)
  BY TransportAssumption DEF ConsumerTypeOK, ChannelTypeOK
<1>2. \A m \in Methods : queue'[m] = IF m = MethodOf[r] THEN Append(queue[m], msg) ELSE queue[m]
  BY DEF ConsumerTypeOK, ChannelTypeOK
<1>3. /\ Len(queue[MethodOf[r]]) \in Nat
      /\ Len(queue'[MethodOf[r]]) = Len(queue[MethodOf[r]]) + 1
      /\ \A i \in 1..Len(queue[MethodOf[r]]) : queue'[MethodOf[r]][i] = queue[MethodOf[r]][i]
      /\ queue'[MethodOf[r]][Len(queue[MethodOf[r]]) + 1] = msg
  <2>1. /\ queue[MethodOf[r]] \in Seq(UpMessages)
        /\ queue'[MethodOf[r]] = Append(queue[MethodOf[r]], msg)
    BY <1>1, <1>2
  <2> QED  BY <2>1, AppendIndex
<1>4. Routed'
  <2> SUFFICES ASSUME NEW m \in Methods, NEW i \in 1..Len(queue'[m])
               PROVE  MethodOf[queue'[m][i].id] = m
    BY DEF Routed
  <2>1. CASE m = MethodOf[r]
    BY <1>3, <2>1 DEF OnePlaces, Routed
  <2>2. CASE m # MethodOf[r]
    BY <1>2, <2>2 DEF OnePlaces, Routed
  <2> QED  BY <2>1, <2>2
<1>5. ASSUME NEW q \in Requests
      PROVE  OnePlace(q)' /\ (Unsent(q)' => Unsent(q))
  <2>1. Holding(RequestMsg(q))' <=> Holding(RequestMsg(q))
    BY DEF Holding
  <2>2. OnePlace(q)
    BY DEF OnePlaces
  <2>3. CASE RequestMsg(q) # msg
    <3>1. Queued(q)' <=> Queued(q)
      BY <1>2, <1>3, <2>3 DEF Queued, Has
    <3>2. Unique(queue[MethodOf[q]], RequestMsg(q))'
      <4>1. CASE MethodOf[q] = MethodOf[r]
        BY <1>3, <2>2, <2>3, <4>1 DEF OnePlace, Unique
      <4>2. CASE MethodOf[q] # MethodOf[r]
        BY <1>1, <1>2, <2>2, <4>2 DEF OnePlace
      <4> QED  BY <4>1, <4>2
    <3> QED  BY <2>1, <2>2, <3>1, <3>2 DEF OnePlace, Coming, Unsent
  <2>4. CASE RequestMsg(q) = msg
    <3>1. q = r /\ Unmade(r) /\ ~Unmade(r)'
      BY <2>4, UpMessageIs
    <3>2. ~Queued(r) /\ ~Holding(RequestMsg(r))
      BY <2>2, <3>1 DEF OnePlace
    <3>3. Unique(queue[MethodOf[r]], RequestMsg(r))'
      BY <1>3, <3>2 DEF Queued, Has, Unique
    <3> QED  BY <2>1, <2>2, <3>1, <3>2, <3>3 DEF OnePlace, Coming, Unsent
  <2> QED  BY <2>3, <2>4
<1> QED  BY <1>4, <1>5 DEF OnePlaces

\* A step that leaves the channels alone, takes nothing in hand, and makes no
\* entry for a request that is still coming.
LEMMA QuietPlaces ==
  ASSUME OnePlaces, queue' = queue,
         \A q \in Requests : Unmade(q)' => Unmade(q),
         \A msg : Holding(msg)' => Holding(msg),
         task' = "sending" => task = "sending",
         \A q \in Requests : entries'[q] = "absent" \/ entries'[q] = entries[q] \/ ~Coming(q)'
  PROVE  /\ OnePlaces'
         /\ \A q \in Requests : Unsent(q)' => Unsent(q)
<1>1. Routed'
  BY DEF OnePlaces, Routed
<1>2. ASSUME NEW q \in Requests
      PROVE  OnePlace(q)' /\ (Unsent(q)' => Unsent(q))
  BY DEF OnePlaces, OnePlace, Queued, Coming, Unsent
<1> QED  BY <1>1, <1>2 DEF OnePlaces

\* The task takes the oldest message of a channel in hand.
LEMMA TakePlaces ==
  ASSUME ConsumerTypeOK, OnePlaces, NEW m \in Methods, TakeMessage(m)
  PROVE  /\ OnePlaces'
         /\ \A q \in Requests : Unsent(q)' => Unsent(q)
<1>1. /\ queue[m] \in Seq(UpMessages) /\ queue[m] # <<>> /\ Head(queue[m]) \in UpMessages
      /\ \A q \in Requests : MethodOf[q] \in Methods
  BY FrontType, TransportAssumption DEF TakeMessage, ConsumerTypeOK, ChannelTypeOK
<1>2. \A n \in Methods : queue'[n] = IF n = m THEN Tail(queue[n]) ELSE queue[n]
  BY DEF TakeMessage, ConsumerTypeOK, ChannelTypeOK
<1>3. /\ Len(queue[m]) \in Nat \ {0} /\ Len(Tail(queue[m])) = Len(queue[m]) - 1
      /\ \A i \in 1..Len(Tail(queue[m])) : Tail(queue[m])[i] = queue[m][i+1]
      /\ Head(queue[m]) = queue[m][1]
  BY <1>1, TailIndex
<1>4. Routed'
  <2> SUFFICES ASSUME NEW n \in Methods, NEW i \in 1..Len(queue'[n])
               PROVE  MethodOf[queue'[n][i].id] = n
    BY DEF Routed
  <2>1. CASE n = m
    <3>1. queue'[m] = Tail(queue[m]) /\ i \in 1..Len(Tail(queue[m]))
      BY <1>2, <2>1
    <3>2. i+1 \in 1..Len(queue[m]) /\ queue'[m][i] = queue[m][i+1]
      BY <1>3, <3>1
    <3> QED  BY <2>1, <3>2 DEF OnePlaces, Routed
  <2>2. CASE n # m
    BY <1>2, <2>2 DEF OnePlaces, Routed
  <2> QED  BY <2>1, <2>2
<1>5. ASSUME NEW q \in Requests
      PROVE  OnePlace(q)' /\ (Unsent(q)' => Unsent(q))
  <2>1. /\ Unmade(q)' <=> Unmade(q)
        /\ Holding(RequestMsg(q))' <=> Head(queue[m]) = RequestMsg(q)
        /\ ~Holding(RequestMsg(q)) /\ entries'[q] = entries[q]
    BY DEF TakeMessage, Unmade, Holding, clientVars
  <2>2. OnePlace(q)
    BY DEF OnePlaces
  <2>3. CASE MethodOf[q] = m
    <3>1. /\ Queued(q)' => Queued(q)
          /\ Head(queue[m]) = RequestMsg(q) => Queued(q) /\ ~Queued(q)'
          /\ Unique(queue[MethodOf[q]], RequestMsg(q))'
      <4>1. /\ Has(Tail(queue[m]), RequestMsg(q)) => Has(queue[m], RequestMsg(q))
            /\ Unique(Tail(queue[m]), RequestMsg(q))
            /\ Head(queue[m]) = RequestMsg(q) => ~Has(Tail(queue[m]), RequestMsg(q))
        BY <1>1, <2>2, <2>3, TailOrder DEF OnePlace
      <4>2. Head(queue[m]) = RequestMsg(q) => Has(queue[m], RequestMsg(q))
        BY <1>3 DEF Has
      <4>3. Queued(q)' <=> Has(Tail(queue[m]), RequestMsg(q))
        BY <1>2, <2>3 DEF Queued
      <4> QED  BY <1>2, <2>3, <4>1, <4>2, <4>3 DEF Queued
    <3> QED  BY <2>1, <2>2, <3>1 DEF OnePlace, Coming, Unsent
  <2>4. CASE MethodOf[q] # m
    <3>1. queue'[MethodOf[q]] = queue[MethodOf[q]]
      BY <1>1, <1>2, <2>4
    <3>2. Head(queue[m]) # RequestMsg(q)
      <4>1. 1 \in 1..Len(queue[m])
        BY <1>3
      <4> QED  BY <1>3, <2>4, <4>1, UpMessageIs DEF OnePlaces, Routed
    <3> QED  BY <2>1, <2>2, <3>1, <3>2 DEF OnePlace, Coming, Unsent, Queued
  <2> QED  BY <2>3, <2>4
<1> QED  BY <1>4, <1>5 DEF OnePlaces

\* Handling a message from the producer, or a shutdown, makes no entries.
LEMMA HandledEntries ==
  ASSUME ConsumerTypeOK, NEW msg \in DownMessages, HandleMessage(msg)
  PROVE  /\ queue' = queue /\ inHand' = inHand
         /\ task' \in {task, "draining"}
         /\ \A q \in Requests : entries'[q] = "absent" \/ entries'[q] = entries[q]
                                \/ entries[q] # "absent"
<1> USE DEF ConsumerTypeOK, TaskTypeOK
<1>1. CASE msg.tag = "value" /\ HandleValue(msg.id)
  BY <1>1 DEF HandleValue
<1>2. CASE msg.tag = "open" /\ HandleOpen(msg.id)
  BY <1>2 DEF HandleOpen
<1>3. CASE msg.tag = "item" /\ HandleItem(msg.id, msg.item)
  BY <1>3 DEF HandleItem
<1>4. CASE msg.tag = "closed" /\ HandleClosed(msg.id)
  BY <1>4 DEF HandleClosed
<1>5. CASE ShutDown("Aborted") \/ ShutDown("Shutdown")
  BY <1>5 DEF ShutDown
<1> QED  BY <1>1, <1>2, <1>3, <1>4, <1>5 DEF HandleMessage

\* Every step of the consumer task but the two that move a message keeps each
\* request in its place.
LEMMA TaskPlaces ==
  ASSUME ConsumerTypeOK, C!HandFull, WireTypeOK, OnePlaces, TaskStep
  PROVE  /\ OnePlaces'
         /\ \A q \in Requests : Unsent(q)' => Unsent(q)
<1>1. CASE \E m \in Methods : TakeMessage(m)
  BY <1>1, TakePlaces
<1>2. CASE FeedMessage
  <2>1. /\ queue' = queue /\ entries' = entries /\ phase' = phase /\ inHand' = inHand
        /\ task = "sending" /\ task' = "flushing"
    BY <1>2 DEF FeedMessage, channelVars, clientVars
  <2>2. \A msg : Holding(msg)' => Holding(msg)
    BY <2>1 DEF Holding
  <2> QED  BY <2>1, <2>2, QuietPlaces DEF Unmade
<1>3. ASSUME NEW cause, ShutDown(cause), phase' = phase
      PROVE  /\ OnePlaces'
             /\ \A q \in Requests : Unsent(q)' => Unsent(q)
  <2>1. /\ queue' = queue /\ task' = "draining"
        /\ \A q \in Requests : entries'[q] = "absent"
    BY <1>3 DEF ShutDown
  <2> QED  BY <1>3, <2>1, QuietPlaces DEF Unmade, Holding
<1>4. CASE Receive
  <2>1. Head(down) \in DownMessages /\ HandleMessage(Head(down)) /\ phase' = phase
    BY <1>4, FrontType DEF Receive, WireTypeOK, clientVars
  <2>2. /\ queue' = queue /\ task' \notin {"sending", "flushing"}
        /\ \A q \in Requests : entries'[q] = "absent" \/ entries'[q] = entries[q]
                               \/ entries[q] # "absent"
    BY <1>4, <2>1, HandledEntries DEF Receive
  <2>3. ASSUME NEW q \in Requests, Coming(q)'
        PROVE  entries[q] = "absent"
    <3>1. Coming(q)
      BY <2>1, <2>2, <2>3 DEF Coming, Unmade, Queued, Holding
    <3> QED  BY <3>1 DEF OnePlaces, OnePlace
  <2>4. \A q \in Requests : entries'[q] = "absent" \/ entries'[q] = entries[q] \/ ~Coming(q)'
    BY <2>2, <2>3
  <2>5. (\A msg : ~Holding(msg)') /\ \A q \in Requests : Unmade(q)' => Unmade(q)
    BY <2>1, <2>2 DEF Holding, Unmade
  <2> QED  BY <2>2, <2>4, <2>5, QuietPlaces
<1>5. CASE ReceiveError
  <2>1. CASE UNCHANGED <<channelVars, task, inHand, entries, pending>>
    <3>1. phase' = phase /\ queue' = queue /\ task' = "running" /\ entries' = entries
      BY <1>5, <2>1 DEF ReceiveError, clientVars, channelVars
    <3> QED  BY <3>1, QuietPlaces DEF Unmade, Holding
  <2>2. CASE \E cause \in ReceiveStrategies : ShutDown(cause)
    BY <1>3, <1>5, <2>2 DEF ReceiveError, clientVars
  <2> QED  BY <1>5, <2>1, <2>2 DEF ReceiveError
<1>6. CASE ReceiveClosed \/ TimeoutArm \/ ShutdownArm
  BY <1>3, <1>6 DEF ReceiveClosed, TimeoutArm, ShutdownArm, clientVars
<1>7. CASE DropArm
  <2>1. queue' = queue /\ task' = "draining" /\ entries' = entries /\ phase' = phase
    BY <1>7 DEF DropArm, channelVars, clientVars
  <2> QED  BY <2>1, QuietPlaces DEF Unmade, Holding
<1>8. CASE DropState
  <2>1. /\ queue' = [m \in Methods |-> <<>>] /\ task' = "stopped" /\ phase' = phase
        /\ \A q \in Requests : entries'[q] = "absent"
        /\ \A q \in Requests : MethodOf[q] \in Methods
    BY <1>8, TransportAssumption DEF DropState, clientVars
  <2>2. \A m \in Methods : queue'[m] = <<>> /\ Len(queue'[m]) = 0
    BY <2>1
  <2>3. Routed'
    BY <2>2 DEF Routed
  <2>4. ASSUME NEW q \in Requests
        PROVE  OnePlace(q)' /\ (Unsent(q)' => Unsent(q))
    <3>1. ~Queued(q)' /\ Unique(queue[MethodOf[q]], RequestMsg(q))'
      BY <2>1, <2>2 DEF Queued, Has, Unique
    <3> QED  BY <2>1, <3>1 DEF OnePlace, Coming, Unsent, Unmade, Holding
  <2> QED  BY <2>3, <2>4 DEF OnePlaces
<1>9. CASE SendOk \/ SendErr
  <2>1. /\ queue' = queue /\ task' = "running" /\ phase' = phase
        /\ task \in {"sending", "flushing"}
    BY <1>9 DEF SendOk, SendErr, channelVars, clientVars
  <2>2. Head(inHand) \in UpMessages
    BY <2>1, FrontType DEF ConsumerTypeOK, TaskTypeOK, C!HandFull
  <2>3. ASSUME NEW q \in Requests
        PROVE  entries'[q] = "absent" \/ entries'[q] = entries[q] \/ ~Coming(q)'
    <3>1. CASE Head(inHand).payload = "request" /\ q = Head(inHand).id
      <4>1. Holding(RequestMsg(q))
        BY <2>1, <2>2, <3>1, UpMessageIs DEF Holding
      <4>2. ~Unmade(q) /\ ~Queued(q)
        BY <4>1 DEF OnePlaces, OnePlace
      <4>3. ~Coming(q)'
        BY <2>1, <4>2 DEF Coming, Unmade, Queued, Holding
      <4> QED  BY <4>3
    <3>2. CASE ~(Head(inHand).payload = "request" /\ q = Head(inHand).id)
      BY <1>9, <3>2
         DEF SendOk, SendErr, Register, Forget, ConsumerTypeOK, TaskTypeOK
    <3> QED  BY <3>1, <3>2
  <2> QED  BY <2>1, <2>3, QuietPlaces DEF Unmade, Holding
<1> QED  BY <1>1, <1>2, <1>4, <1>5, <1>6, <1>7, <1>8, <1>9 DEF TaskStep

-----------------------------------------------------------------------------
(* The inductive invariant of both sides                                   *)

\* The invariant in the terms of this module.
LEMMA BothTyped ==
  ASSUME IInv
  PROVE  ConsumerTypeOK /\ ProducerTypeOK /\ WireTypeOK
BY SameConsumer, SameProducer DEF IInv, ConsumerTypeOK, C!TaskOK, P!ProducerOK

\* The same of the next state.
LEMMA SameNext ==
  /\ C!WireTypeOK' <=> WireTypeOK'
  /\ P!WireTypeOK' <=> WireTypeOK'
  /\ C!WireTypeOK <=> WireTypeOK
BY DEF WireTypeOK, P!WireTypeOK, C!WireTypeOK, UpMessages, P!UpMessages, C!UpMessages,
       DownMessages, P!DownMessages, C!DownMessages, ResponseTags, P!ResponseTags,
       C!ResponseTags, StopTags, P!StopTags, C!StopTags

\* The producer's side while the consumer moves, as far as it goes by itself.
LEMMA ProducerRests ==
  ASSUME IInv, UNCHANGED producerVars, WireTypeOK', P!RequestedOnce'
  PROVE  P!ProducerOK' /\ P!RemovedDone' /\ TasksKnown'
<1> USE DEF producerVars, loopVars, workVars, replyVars
<1>1. /\ P!ProducerOK /\ P!HandFull /\ P!ProducerTypeOK
      /\ P!LoopTypeOK /\ P!ReplyTypeOK
  BY DEF IInv, P!ProducerOK, P!ProducerTypeOK
<1>2. P!WireTypeOK'
  BY SameNext
<1>3. P!LoopTypeOK' /\ P!HandFull'
  BY <1>1 DEF P!LoopTypeOK, P!HandFull
<1>4. /\ replies' \in Seq(P!DownMessages)
      /\ replyHand' \in Seq(P!DownMessages)
      /\ replyTask' \in {"waiting", "sending", "flushing", "stopped"}
  BY <1>1 DEF P!ReplyTypeOK
<1>5. P!ProducerOK'
  BY <1>1, <1>2, <1>3, <1>4, P!UndisturbedOK, ProducerFacts, TransportAssumption, ProducerAssumption
     DEF P!workVars
<1>6. P!RemovedDone' /\ TasksKnown'
  BY DEF IInv, P!RemovedDone, TasksKnown
<1> QED  BY <1>5, <1>6

\* A request that is not on the wire yet stays unknown to the producer.
LEMMA RequestsRest ==
  ASSUME IInv, UNCHANGED producerVars, up' = up,
         \A q \in Requests : Unsent(q)' => Unsent(q)
  PROVE  P!RequestedOnce'
<1>1. P!RequestedOnce /\ Requested \subseteq Requested'
  BY DEF IInv, P!ProducerOK, P!Bookkeeping, Requested
<1> QED  BY <1>1 DEF P!RequestedOnce, P!IsRequest, producerVars, loopVars

\* A request is fed to the transport once.
LEMMA RequestFed ==
  ASSUME IInv, UNCHANGED producerVars, FeedMessage,
         \A q \in Requests : Unsent(q)' => Unsent(q)
  PROVE  P!RequestedOnce'
<1>1. /\ P!RequestedOnce /\ Requested \subseteq Requested' /\ up \in Seq(P!UpMessages)
      /\ UNCHANGED <<aborters, aborted>>
  BY DEF IInv, P!ProducerOK, P!Bookkeeping, Requested, P!WireTypeOK, producerVars,
         loopVars
<1>2. PICK msg \in UpMessages : Head(inHand) = msg
  BY BothTyped, FrontType DEF IInv, FeedMessage, C!TaskOK, C!HandFull, ConsumerTypeOK,
                              TaskTypeOK
<1>3. msg \in P!UpMessages /\ up' = Append(up, msg)
  BY <1>2 DEF FeedMessage, UpMessages, P!UpMessages
<1>4. ASSUME msg.payload = "request"
      PROVE  msg.id \in Requested' \ Requested
  <2>1. msg = RequestMsg(msg.id) /\ msg.id \in Requests
    BY <1>2, <1>4, UpMessageIs
  <2>2. Holding(RequestMsg(msg.id)) /\ task = "sending" /\ task' = "flushing"
    BY <1>2, <2>1 DEF Holding, FeedMessage
  <2>3. ~Unmade(msg.id) /\ ~Queued(msg.id)
    BY <2>1, <2>2 DEF IInv, OnePlaces, OnePlace
  <2>4. ~Unsent(msg.id)' /\ Unsent(msg.id)
    BY <2>2, <2>3 DEF Unsent, Unmade, Queued, FeedMessage, clientVars, channelVars
  <2> QED  BY <2>1, <2>4 DEF Requested
<1> QED
  BY <1>1, <1>3, <1>4, P!AppendOnce, ProducerFacts, TransportAssumption, ProducerAssumption
     DEF P!IsRequest

\* Every step of the consumer's side keeps the invariant.
LEMMA ConsumerInvariant ==
  ASSUME IInv, ConsumerNext, UNCHANGED producerVars
  PROVE  IInv'
<1>1. ConsumerTypeOK /\ WireTypeOK /\ C!TaskOK /\ C!ClientTypeOK /\ OnePlaces
  BY BothTyped DEF IInv
<1>2. C!ConsumerTypeOK /\ C!WireTypeOK
  BY <1>1, SameNext DEF C!TaskOK, C!ConsumerTypeOK
<1>3. ASSUME NEW r \in Requests, Begin(r) \/ Finish(r)
      PROVE  IInv'
  <2>1. C!Begin(r) \/ C!Finish(r)
    BY <1>3, SameHandle
  <2>2. C!ClientTypeOK' /\ C!ChannelTypeOK'
    BY <1>2, <2>1, C!HandleStepType, ConsumerFacts, TransportAssumption, ConsumerAssumption
  <2>3. /\ \A q \in Requests : Unmade(q)' => Unmade(q)
        /\ UNCHANGED <<taskVars, wire>>
        /\ \/ queue' = queue
           \/ queue' = [queue EXCEPT ![MethodOf[r]] = Append(@, AbortMsg(r))]
           \/ /\ queue' = [queue EXCEPT ![MethodOf[r]] = Append(@, RequestMsg(r))]
              /\ Unmade(r) /\ ~Unmade(r)'
    BY <1>1, <1>3, HandleQueues
  <2>4. C!TaskOK'
    BY <1>1, <2>2, <2>3
       DEF C!TaskOK, C!TaskTypeOK, C!HandFull, C!PendingCoversOwed, C!AwaitingResult,
           taskVars
  <2>5. OnePlaces' /\ \A q \in Requests : Unsent(q)' => Unsent(q)
    <3>1. /\ UNCHANGED <<task, inHand, entries>>
          /\ AbortMsg(r) \in UpMessages /\ RequestMsg(r) \in UpMessages
      BY <2>3, MessageTypes DEF taskVars
    <3>2. CASE queue' = queue
      BY <1>1, <2>3, <3>1, <3>2, QuietPlaces DEF Holding
    <3>3. CASE queue' = [queue EXCEPT ![MethodOf[r]] = Append(@, AbortMsg(r))]
      BY <1>1, <2>3, <3>1, <3>3, UpMessageIs, EnqueuedPlaces
    <3>4. CASE /\ queue' = [queue EXCEPT ![MethodOf[r]] = Append(@, RequestMsg(r))]
               /\ Unmade(r) /\ ~Unmade(r)'
      BY <1>1, <2>3, <3>1, <3>4, UpMessageIs, EnqueuedPlaces
    <3> QED  BY <2>3, <3>2, <3>3, <3>4
  <2>6. P!RequestedOnce' /\ WireTypeOK'
    BY <1>1, <2>3, <2>5, RequestsRest DEF wire, WireTypeOK
  <2> QED  BY <2>2, <2>4, <2>5, <2>6, ProducerRests DEF IInv
<1>4. CASE TaskStep
  <2>1. C!TaskStep
    BY <1>4, SameTask
  <2>2. C!TaskOK' /\ C!WireTypeOK' /\ UNCHANGED C!clientVars
    BY <1>1, <1>2, <2>1, C!TaskStepOK, ConsumerFacts, TransportAssumption, ConsumerAssumption
  <2>3. C!ClientTypeOK'
    BY <1>1, <2>2 DEF C!clientVars, C!ClientTypeOK
  <2>4. OnePlaces' /\ \A q \in Requests : Unsent(q)' => Unsent(q)
    BY <1>1, <1>4, TaskPlaces DEF C!TaskOK
  <2>5. P!RequestedOnce'
    <3>1. CASE FeedMessage
      BY <2>4, <3>1, RequestFed
    <3>2. CASE ~FeedMessage
      <4>1. up' = up
        BY <1>4, <3>2
           DEF TaskStep, Receive, ReceiveError, ReceiveClosed, TakeMessage, SendOk,
               SendErr, TimeoutArm, ShutdownArm, DropArm, DropState, wire
      <4> QED  BY <2>4, <4>1, RequestsRest
    <3> QED  BY <3>1, <3>2
  <2>6. WireTypeOK'
    BY <2>2, SameNext
  <2> QED  BY <2>2, <2>3, <2>4, <2>5, <2>6, ProducerRests DEF IInv
<1>5. CASE DropConsumer
  <2>1. UNCHANGED <<phase, outcome, abort, delivered, channelVars, taskVars, wire>>
        /\ owner' = "dropped"
    BY <1>5 DEF DropConsumer
  <2>2. C!ClientTypeOK' /\ C!TaskOK' /\ WireTypeOK'
    BY <1>1, <2>1
       DEF C!ClientTypeOK, C!TaskOK, C!ChannelTypeOK, C!TaskTypeOK, C!HandFull,
           C!PendingCoversOwed, C!AwaitingResult, channelVars, taskVars, wire, WireTypeOK
  <2>3. OnePlaces' /\ \A q \in Requests : Unsent(q)' => Unsent(q)
    BY <1>1, <2>1, QuietPlaces DEF channelVars, taskVars, Unmade, Holding
  <2>4. P!RequestedOnce'
    BY <2>1, <2>3, RequestsRest DEF wire
  <2> QED  BY <2>2, <2>3, <2>4, ProducerRests DEF IInv
<1>6. CASE TimerElapses
  <2>1. UNCHANGED <<task, inHand, entries, pending, clientVars, channelVars, wire>>
        /\ timer' = "elapsed"
    BY <1>6 DEF TimerElapses
  <2>2. C!ClientTypeOK' /\ C!TaskOK' /\ WireTypeOK'
    BY <1>1, <2>1
       DEF C!ClientTypeOK, C!TaskOK, C!ChannelTypeOK, C!TaskTypeOK, C!HandFull,
           C!PendingCoversOwed, C!AwaitingResult, channelVars, clientVars, wire, WireTypeOK
  <2>3. OnePlaces' /\ \A q \in Requests : Unsent(q)' => Unsent(q)
    BY <1>1, <2>1, QuietPlaces DEF channelVars, clientVars, Unmade, Holding
  <2>4. P!RequestedOnce'
    BY <2>1, <2>3, RequestsRest DEF wire
  <2> QED  BY <2>2, <2>3, <2>4, ProducerRests DEF IInv
<1> QED  BY <1>3, <1>4, <1>5, <1>6 DEF ConsumerNext

\* A task that was started, and one that is done, stay what they are.
LEMMA LoopTasks ==
  ASSUME IInv, LoopStep
  PROVE  P!RemovedDone' /\ TasksKnown'
<1>1. /\ work \in [Requests -> {"idle", "running", "streaming", "retiring", "done"}]
      /\ removals \in Seq(Requests) /\ up \in Seq(UpMessages)
      /\ \A i \in 1..Len(removals) : work[removals[i]] = "done"
      /\ P!RequestedOnce
  BY BothTyped
     DEF ProducerTypeOK, WorkTypeOK, LoopTypeOK, WireTypeOK, IInv, P!RemovedDone,
         P!ProducerOK, P!Bookkeeping
<1>2. CASE ProducerReceive
  <2>1. PICK msg \in UpMessages : Head(up) = msg
    BY <1>1, <1>2, FrontType DEF ProducerReceive
  <2>2. msg.id \in Requests /\ removals' = removals
    BY <1>2, <2>1, UpMessageIs DEF ProducerReceive
  <2>3. CASE msg.payload = "request"
    <3>1. StartTask(msg.id)
      BY <1>2, <2>1, <2>3 DEF ProducerReceive
    <3>2. 1 \in 1..Len(up) /\ up[1] = msg
      BY <1>1, <1>2, <2>1, TailIndex DEF ProducerReceive
    <3>3. msg.id \notin aborters \cup aborted
      BY <1>1, <2>3, <3>2 DEF P!RequestedOnce, P!IsRequest
    <3>4. work[msg.id] = "idle"
      BY <2>2, <3>3 DEF IInv, TasksKnown
    <3>5. P!RemovedDone'
      BY <1>1, <2>2, <3>1, <3>4, ElementOfSeq DEF P!RemovedDone, StartTask
    <3>6. TasksKnown'
      BY <1>1, <2>2, <3>1 DEF IInv, TasksKnown, StartTask
    <3> QED  BY <3>5, <3>6
  <2>4. CASE msg.payload # "request"
    <3>1. AbortRequest(msg.id)
      BY <1>2, <2>1, <2>4 DEF ProducerReceive
    <3> QED  BY <1>1, <2>2, <3>1 DEF IInv, TasksKnown, P!RemovedDone, AbortRequest
  <2> QED  BY <2>3, <2>4
<1>3. CASE RemoveAborter
  <2>1. /\ removals # <<>> /\ removals' = Tail(removals) /\ UNCHANGED work
        /\ aborters \cup aborted = aborters' \cup aborted'
    BY <1>3 DEF RemoveAborter, workVars
  <2>2. /\ Len(removals) \in Nat \ {0} /\ Len(Tail(removals)) = Len(removals) - 1
        /\ \A i \in 1..Len(Tail(removals)) : Tail(removals)[i] = removals[i+1]
    BY <1>1, <2>1, TailIndex
  <2>3. \A i \in 1..Len(Tail(removals)) : i+1 \in 1..Len(removals)
    BY <2>2
  <2> QED  BY <1>1, <2>1, <2>2, <2>3 DEF IInv, TasksKnown, P!RemovedDone
<1>4. CASE DrainAborters
  <2>1. Len(<<>>) = 0
    OBVIOUS
  <2> QED
    BY <1>4, <2>1 DEF DrainAborters, IInv, TasksKnown, P!RemovedDone, workVars
<1>5. CASE \/ ProducerReceiveError \/ ProducerReceiveClosed \/ ProducerTimeoutArm
           \/ StopArm \/ ProducerShutdownArm
  <2>1. UNCHANGED <<aborters, aborted, removals, workVars>>
    BY <1>5
       DEF ProducerReceiveError, ProducerReceiveClosed, ProducerTimeoutArm, StopArm,
           ProducerShutdownArm
  <2> QED  BY <2>1 DEF IInv, TasksKnown, P!RemovedDone, workVars
<1> QED  BY <1>2, <1>3, <1>4, <1>5 DEF LoopStep

\* So do the tasks' own steps.
LEMMA WorkTasks ==
  ASSUME IInv, NEW r \in Requests, WorkStep(r) \/ PanicTask(r)
  PROVE  P!RemovedDone' /\ TasksKnown'
<1>1. /\ work \in [Requests -> {"idle", "running", "streaming", "retiring", "done"}]
      /\ removals \in Seq(Requests)
      /\ \A i \in 1..Len(removals) : work[removals[i]] = "done"
  BY BothTyped
     DEF ProducerTypeOK, WorkTypeOK, LoopTypeOK, IInv, P!RemovedDone
<1>2. /\ UNCHANGED <<aborters, aborted>>
      /\ work[r] \in {"running", "streaming", "retiring"}
      /\ \E to \in {"streaming", "retiring", "done"} : work' = [work EXCEPT ![r] = to]
  BY DEF WorkStep, FinishValue, OpenStream, YieldItem, EndStream, QueueReply, Retire,
         AbortTask, PanicTask, loopVars
<1>3. TasksKnown'
  BY <1>1, <1>2 DEF IInv, TasksKnown
<1>4. removals' = removals \/ (removals' = Append(removals, r) /\ work'[r] = "done")
  BY <1>1
     DEF WorkStep, FinishValue, OpenStream, YieldItem, EndStream, QueueReply, Retire,
         AbortTask, PanicTask, loopVars
<1>5. \A i \in 1..Len(removals) : removals[i] # r /\ removals[i] \in Requests
  BY <1>1, <1>2, ElementOfSeq
<1>6. CASE removals' = removals
  <2>1. \A i \in 1..Len(removals) : work'[removals[i]] = "done"
    BY <1>1, <1>2, <1>5
  <2> QED  BY <1>3, <1>6, <2>1 DEF P!RemovedDone
<1>7. CASE removals' = Append(removals, r) /\ work'[r] = "done"
  <2>1. /\ Len(removals) \in Nat /\ Len(removals') = Len(removals) + 1
        /\ \A i \in 1..Len(removals) : removals'[i] = removals[i]
        /\ removals'[Len(removals) + 1] = r
    BY <1>1, <1>7, AppendIndex
  <2>2. ASSUME NEW i \in 1..Len(removals')
        PROVE  work'[removals'[i]] = "done"
    <3>1. CASE i \in 1..Len(removals)
      BY <1>1, <1>2, <1>5, <2>1, <3>1
    <3>2. CASE i = Len(removals) + 1
      BY <1>7, <2>1, <3>2
    <3> QED  BY <2>1, <3>1, <3>2
  <2> QED  BY <1>3, <2>2 DEF P!RemovedDone
<1> QED  BY <1>3, <1>4, <1>6, <1>7

\* Every step of the producer's side keeps the invariant.
LEMMA ProducerInvariant ==
  ASSUME IInv, ProducerNext, UNCHANGED consumerVars
  PROVE  IInv'
<1> USE ProducerFacts, TransportAssumption, ProducerAssumption
<1>1. UNCHANGED P!clientSide
  BY DEF P!clientSide, Requested, Unsent, Unmade, Queued, Holding, consumerVars,
         clientVars, channelVars, taskVars
<1>2. P!ProducerOK
  BY DEF IInv
<1>3. P!ProducerOK' /\ P!RemovedDone' /\ TasksKnown'
  <2>1. CASE LoopStep
    BY <1>1, <1>2, <2>1, SameLoop, LoopTasks, P!LoopStepOK
  <2>2. CASE \E r \in Requests : WorkStep(r) \/ PanicTask(r)
    <3>1. PICK r \in Requests : WorkStep(r) \/ PanicTask(r)
      BY <2>2
    <3>2. P!WorkStep(r) \/ P!PanicTask(r)
      BY <3>1, SameWork
    <3> QED  BY <1>1, <1>2, <3>1, <3>2, WorkTasks, P!WorkStepOK
  <2>3. CASE ReplyStep
    <3>1. P!ProducerOK'
      BY <1>1, <1>2, <2>3, SameReply, P!ReplyStepOK
    <3>2. UNCHANGED <<aborters, aborted, removals, work>>
      BY <2>3 DEF ReplyStep, TakeReply, FeedReply, ReplyOk, ReplyErr, EndReplies,
                  loopVars, workVars
    <3> QED  BY <3>1, <3>2 DEF IInv, P!RemovedDone, TasksKnown
  <2>4. CASE ProducerTimerElapses
    <3>1. /\ UNCHANGED <<loop, aborters, aborted, removals, returnValue, workVars, replies,
                         replyVars, wire>>
          /\ idleTimer' = "elapsed"
      BY <2>4 DEF ProducerTimerElapses
    <3>2. P!RemovedDone' /\ TasksKnown'
      BY <3>1 DEF IInv, P!RemovedDone, TasksKnown, workVars
    <3>3. /\ P!LoopTypeOK' /\ P!WireTypeOK' /\ P!HandFull' /\ P!RequestedOnce'
          /\ replies' \in Seq(P!DownMessages)
          /\ replyHand' \in Seq(P!DownMessages)
          /\ replyTask' \in {"waiting", "sending", "flushing", "stopped"}
      BY <1>1, <1>2, <3>1
         DEF P!ProducerOK, P!ProducerTypeOK, P!LoopTypeOK, P!WireTypeOK, P!HandFull,
             P!ReplyTypeOK, P!Bookkeeping, P!RequestedOnce, P!clientSide, replyVars, wire
    <3>4. P!ProducerOK'
      BY <1>2, <3>1, <3>3, P!UndisturbedOK DEF P!workVars, workVars, replyVars
    <3> QED  BY <3>2, <3>4
  <2> QED  BY <2>1, <2>2, <2>3, <2>4 DEF ProducerNext
<1>4. C!ClientTypeOK' /\ C!TaskOK'
  BY DEF IInv, C!ClientTypeOK, C!TaskOK, C!ChannelTypeOK, C!TaskTypeOK, C!HandFull,
         C!PendingCoversOwed, C!AwaitingResult, consumerVars, clientVars, channelVars, taskVars
<1>5. OnePlaces'
  BY DEF IInv, OnePlaces, Routed, OnePlace, Coming, Unmade, Queued, Holding,
         consumerVars, clientVars, channelVars, taskVars
<1> QED  BY <1>3, <1>4, <1>5 DEF IInv

\* Nothing has been asked for, nothing is counted, nothing has started.
LEMMA InitInvariant == Init => IInv
<1> SUFFICES ASSUME Init PROVE IInv
  OBVIOUS
<1> USE DEF Init, ConsumerInit, ProducerInit, WireInit
<1>1. C!ClientTypeOK
  BY EmptySeq DEF C!ClientTypeOK, C!Phases
<1>2. C!TaskOK
  <2>1. C!AwaitingResult = {}
    BY DEF C!AwaitingResult
  <2>2. C!Cardinality({}) = 0
    BY FS_EmptySet DEF Cardinality, C!Cardinality
  <2>3. C!ChannelTypeOK /\ C!TaskTypeOK /\ C!HandFull
    BY EmptySeq DEF C!ChannelTypeOK, C!TaskTypeOK, C!HandFull
  <2> QED  BY <2>1, <2>2, <2>3 DEF C!TaskOK, C!PendingCoversOwed
<1>3. OnePlaces
  <2>1. \A m \in Methods : queue[m] = <<>> /\ Len(queue[m]) = 0
    OBVIOUS
  <2>2. \A r \in Requests : OnePlace(r)
    BY <2>1, TransportAssumption DEF OnePlace, Queued, Has, Unique, Holding, Coming,
                                     Unmade
  <2> QED  BY <2>1, <2>2 DEF OnePlaces, Routed
<1>4. P!ProducerOK
  <2>1. P!ProducerTypeOK /\ P!WireTypeOK /\ P!HandFull
    BY EmptySeq, TransportAssumption
       DEF P!ProducerTypeOK, P!LoopTypeOK, P!WorkTypeOK, P!ReplyTypeOK, P!WireTypeOK,
           P!HandFull
  <2>2. P!RequestedOnce
    BY DEF P!RequestedOnce
  <2>3. P!Bookkeeping /\ P!NoAborterLeak /\ P!TimedOutIdle
    BY <2>2
       DEF P!Bookkeeping, P!StopIsAnswer, P!Undecided, P!Drained, P!BusyCovered,
           P!FiredOnce, P!NoAborterLeak, P!TimedOutIdle
  <2> QED  BY <2>1, <2>3 DEF P!ProducerOK
<1>5. P!RemovedDone /\ TasksKnown
  BY DEF P!RemovedDone, TasksKnown
<1> QED  BY <1>1, <1>2, <1>3, <1>4, <1>5 DEF IInv

\* Each side keeps it, whichever moves.
LEMMA NextInvariant == IInv /\ [Next]_vars => IInv'
<1> SUFFICES ASSUME IInv, [Next]_vars PROVE IInv'
  OBVIOUS
<1>1. CASE ConsumerNext /\ UNCHANGED producerVars
  BY <1>1, ConsumerInvariant
<1>2. CASE ProducerNext /\ UNCHANGED consumerVars
  BY <1>2, ProducerInvariant
<1>3. CASE UNCHANGED vars
  <2>1. UNCHANGED <<consumerVars, producerVars, wire>>
    BY <1>3 DEF vars
  <2>2. C!ClientTypeOK' /\ C!TaskOK'
    BY <2>1 DEF IInv, C!ClientTypeOK, C!TaskOK, C!ChannelTypeOK, C!TaskTypeOK,
                C!HandFull, C!PendingCoversOwed, C!AwaitingResult, consumerVars,
                clientVars, channelVars, taskVars
  <2>3. OnePlaces' /\ \A q \in Requests : Unsent(q)' => Unsent(q)
    BY <2>1 DEF IInv, OnePlaces, Routed, OnePlace, Coming, Unsent, Unmade, Queued,
                Holding, consumerVars, clientVars, channelVars, taskVars
  <2>4. WireTypeOK' /\ P!RequestedOnce'
    BY <2>1, <2>3, BothTyped, RequestsRest DEF wire, WireTypeOK
  <2> QED  BY <2>1, <2>2, <2>3, <2>4, ProducerRests DEF IInv
<1> QED  BY <1>1, <1>2, <1>3 DEF Next

\* The invariant of both sides and the wire between them.
THEOREM BothInvariance == Spec => []IInv
BY InitInvariant, NextInvariant, PTL DEF Spec

\* Every variable of a whole session keeps its type.
THEOREM RpcTypeCorrect == Spec => []RpcTypeOK
<1>1. IInv => RpcTypeOK
  BY BothTyped DEF RpcTypeOK
<1> QED  BY <1>1, BothInvariance, PTL

-----------------------------------------------------------------------------
(* Both maps                                                               *)

\* A reply is on its way from its task to the consumer.
Replying(msg) == replyTask = "sending" /\ Head(replyHand) = msg
OnWay(msg)    == Has(down, msg) \/ Replying(msg) \/ Has(replies, msg)

\* What a reply on its way says of its task.
Said(r) ==
  /\ OnWay(ValueMsg(r))  => r \in ValueRequests
  /\ OnWay(OpenMsg(r))   => r \in StreamRequests /\ work[r] \notin {"idle", "running"}
  /\ OnWay(ClosedMsg(r)) => work[r] \in {"retiring", "done"}

\* The consumer has an entry for r, or is about to make one.
Registered(r) == entries[r] # "absent" \/ (Holding(RequestMsg(r)) /\ task = "flushing")

\* The producer owes such an entry a reply, if r's method did not panic. An
\* entry that is still being made counts as one that owes its result.
Owing(r) ==
  \/ entries[r] # "open" /\ (Has(up, RequestMsg(r)) \/ work[r] = "running")
  \/ Panicked(r)
  \/ r \in ValueRequests /\ entries[r] # "open" /\ OnWay(ValueMsg(r))
  \/ /\ r \in StreamRequests
     /\ work[r] = "streaming" \/ OnWay(ClosedMsg(r))
     /\ entries[r] = "open" \/ OnWay(OpenMsg(r))

\* An abort that is ahead of its request finds no task; one that comes behind
\* it leaves the consumer only as its entry goes.
Served(r) ==
  Registered(r) /\ ~Holding(AbortMsg(r)) =>
    /\ Followed(up, AbortMsg(r), RequestMsg(r))
    /\ r \in aborted => work[r] \in {"retiring", "done"}
    /\ Owing(r)

Accounted == Live => \A r \in Requests : Said(r) /\ Served(r)

\* A step that leaves r alone.
Alone(r) ==
  /\ entries'[r] = entries[r] /\ work'[r] = work[r]
  /\ Registered(r)' => Registered(r)
  /\ Holding(AbortMsg(r)) => Holding(AbortMsg(r))'
  /\ Followed(up, AbortMsg(r), RequestMsg(r)) => Followed(up, AbortMsg(r), RequestMsg(r))'
  /\ Has(up, RequestMsg(r)) => Has(up, RequestMsg(r))'
  /\ r \in aborted' => r \in aborted
  /\ Panicked(r) => Panicked(r)'
  /\ OnWay(ValueMsg(r))' <=> OnWay(ValueMsg(r))
  /\ OnWay(OpenMsg(r))' <=> OnWay(OpenMsg(r))
  /\ OnWay(ClosedMsg(r))' <=> OnWay(ClosedMsg(r))

\* It leaves what is said of r alone.
LEMMA LeftAlone ==
  ASSUME NEW r \in Requests, Said(r), Served(r), Alone(r)
  PROVE  Said(r)' /\ Served(r)'
<1>1. Said(r)'
  BY DEF Said, Alone
<1>2. Owing(r) => Owing(r)'
  BY DEF Owing, Alone
<1>3. Served(r)'
  BY <1>2 DEF Served, Alone
<1> QED  BY <1>1, <1>3

\* A request on its way to the producer has no task yet.
LEMMA OnWayIdle ==
  ASSUME IInv, NEW r \in Requests, Has(up, RequestMsg(r))
  PROVE  work[r] = "idle" /\ r \notin aborters \cup aborted
<1>1. PICK i \in 1..Len(up) : up[i] = RequestMsg(r)
  BY DEF Has
<1>2. r \notin aborters \cup aborted
  BY <1>1, RequestsDiffer DEF IInv, P!ProducerOK, P!Bookkeeping, P!RequestedOnce,
                              P!IsRequest
<1> QED  BY <1>2 DEF IInv, TasksKnown

\* One that has not been fed to the transport has none either.
LEMMA UnsentIdle ==
  ASSUME IInv, NEW r \in Requests, Unsent(r)
  PROVE  work[r] = "idle" /\ r \notin aborters \cup aborted
BY DEF IInv, TasksKnown, Requested, P!ProducerOK, P!Bookkeeping, P!RequestedOnce

\* What the consumer does to the producer's replies, short of reading one.
LEMMA RepliesRest ==
  ASSUME UNCHANGED producerVars, down' = down
  PROVE  /\ \A msg : OnWay(msg)' <=> OnWay(msg)
         /\ \A r \in Requests : work'[r] = work[r] /\ (Panicked(r)' <=> Panicked(r))
         /\ aborted' = aborted
BY DEF producerVars, loopVars, workVars, replyVars, OnWay, Replying, Panicked

\* A step of the consumer that leaves the task, its map and the wire alone.
LEMMA QuietConsumer ==
  ASSUME UNCHANGED producerVars, UNCHANGED <<task, inHand, entries, up, down>>, NEW r \in Requests
  PROVE  Alone(r)
BY RepliesRest DEF Alone, Registered, Holding

\* The consumer reads a reply.
LEMMA ReadAccounted ==
  ASSUME IInv, UNCHANGED producerVars, Receive, Live',
         NEW r \in Requests, Said(r), Served(r)
  PROVE  Said(r)' /\ Served(r)'
<1>1. PICK msg \in DownMessages : Head(down) = msg /\ HandleMessage(msg)
  BY BothTyped, FrontType DEF Receive, WireTypeOK
<1>2. /\ down \in Seq(DownMessages) /\ down # <<>> /\ down' = Tail(down)
      /\ task = "running" /\ up' = up
  BY BothTyped DEF Receive, WireTypeOK
<1>3. /\ \A x : Has(down', x) => Has(down, x)
      /\ \A x : Has(down, x) /\ msg # x => Has(down', x)
      /\ Has(down, msg)
  <2>1. 1 \in 1..Len(down) /\ Head(down) = down[1]
    BY <1>2, TailIndex
  <2>2. Has(down, msg)
    BY <1>1, <2>1 DEF Has
  <2> QED  BY <1>1, <1>2, <2>2, TailOrder
<1>4. /\ \A x : OnWay(x)' => OnWay(x)
      /\ \A x : OnWay(x) /\ msg # x => OnWay(x)'
      /\ OnWay(msg)
      /\ \A q \in Requests : work'[q] = work[q] /\ (Panicked(q)' <=> Panicked(q))
      /\ aborted' = aborted
  BY <1>3 DEF producerVars, loopVars, workVars, replyVars, OnWay, Replying, Panicked
<1>5. /\ entries \in [Requests -> {"absent", "pending", "open"}]
      /\ task' = "running"
      /\ entries'[r] = "absent" \/ entries'[r] = entries[r] \/ entries[r] # "absent"
  BY <1>1, <1>2, BothTyped, HandledEntries DEF Live, ConsumerTypeOK, TaskTypeOK
<1>6. Said(r)'
  BY <1>4 DEF Said
<1>7. ASSUME Registered(r)'
      PROVE  /\ Followed(up, AbortMsg(r), RequestMsg(r))'
             /\ r \in aborted' => work'[r] \in {"retiring", "done"}
             /\ Owing(r)'
  <2>1. entries'[r] # "absent" /\ entries[r] # "absent"
    BY <1>5, <1>7 DEF Registered
  <2>2. /\ Followed(up, AbortMsg(r), RequestMsg(r))
        /\ r \in aborted => work[r] \in {"retiring", "done"}
        /\ Owing(r)
    BY <1>2, <2>1 DEF Served, Registered, Holding
  <2>3. CASE msg = ValueMsg(r)
    <3>1. HandleValue(r) /\ r \in ValueRequests
      BY <1>1, <1>4, <2>3 DEF HandleMessage, ValueMsg, Said
    <3>2. entries[r] = "open" /\ entries'[r] = "open"
      BY <1>5, <2>1, <3>1 DEF HandleValue
    <3>3. Panicked(r)
      BY <2>2, <3>1, <3>2 DEF Owing, ValueRequests
    <3> QED  BY <1>2, <1>4, <2>2, <3>3 DEF Owing
  <2>4. CASE msg = OpenMsg(r)
    <3>1. HandleOpen(r) /\ r \in StreamRequests /\ work[r] \notin {"idle", "running"}
      BY <1>1, <1>4, <2>4 DEF HandleMessage, OpenMsg, Said
    <3>2. entries'[r] = "open"
      BY <1>5, <2>1, <3>1 DEF HandleOpen
    <3>3. ~Has(up, RequestMsg(r))
      BY <3>1, OnWayIdle
    <3>4. Panicked(r) \/ work[r] = "streaming" \/ OnWay(ClosedMsg(r))
      BY <2>2, <3>1, <3>3 DEF Owing, ValueRequests
    <3>5. OnWay(ClosedMsg(r)) => OnWay(ClosedMsg(r))'
      BY <1>4, <2>4 DEF OpenMsg, ClosedMsg
    <3> QED  BY <1>2, <1>4, <2>2, <3>1, <3>2, <3>4, <3>5 DEF Owing
  <2>5. CASE msg = ClosedMsg(r)
    <3>1. HandleClosed(r)
      BY <1>1, <2>5 DEF HandleMessage, ClosedMsg
    <3> QED  BY <1>5, <2>1, <3>1 DEF HandleClosed
  <2>6. CASE msg \notin {ValueMsg(r), OpenMsg(r), ClosedMsg(r)}
    <3>1. entries'[r] = entries[r]
      <4>1. CASE msg.tag = "item" /\ HandleItem(msg.id, msg.item)
        BY <4>1 DEF HandleItem
      <4>2. CASE msg.tag = "value" /\ HandleValue(msg.id)
        <5>1. msg.id # r
          BY <2>6, <4>2, ReplyIs
        <5> QED  BY <1>5, <4>2, <5>1 DEF HandleValue
      <4>3. CASE msg.tag = "open" /\ HandleOpen(msg.id)
        <5>1. msg.id # r
          BY <2>6, <4>3, ReplyIs
        <5> QED  BY <1>5, <4>3, <5>1 DEF HandleOpen
      <4>4. CASE msg.tag = "closed" /\ HandleClosed(msg.id)
        <5>1. msg.id # r
          BY <2>6, <4>4, ReplyIs
        <5> QED  BY <1>5, <4>4, <5>1 DEF HandleClosed
      <4>5. CASE ShutDown("Aborted") \/ ShutDown("Shutdown")
        BY <1>5, <4>5 DEF ShutDown
      <4> QED  BY <1>1, <4>1, <4>2, <4>3, <4>4, <4>5 DEF HandleMessage
    <3>2. /\ OnWay(ValueMsg(r)) => OnWay(ValueMsg(r))'
          /\ OnWay(OpenMsg(r)) => OnWay(OpenMsg(r))'
          /\ OnWay(ClosedMsg(r)) => OnWay(ClosedMsg(r))'
      BY <1>4, <2>6
    <3> QED  BY <1>2, <1>4, <2>2, <3>1, <3>2 DEF Owing
  <2> QED  BY <2>3, <2>4, <2>5, <2>6
<1> QED  BY <1>6, <1>7 DEF Served

\* The consumer feeds a message to the transport: a request is on its way from
\* now on, and what was sent for it before is nothing to the producer.
LEMMA FeedAccounted ==
  ASSUME IInv, UNCHANGED producerVars, FeedMessage, NEW r \in Requests, Said(r), Served(r)
  PROVE  Said(r)' /\ Served(r)'
<1>1. PICK msg \in UpMessages : Head(inHand) = msg
  BY BothTyped, FrontType DEF IInv, FeedMessage, C!TaskOK, C!HandFull, ConsumerTypeOK,
                              TaskTypeOK
<1>2. /\ up \in Seq(UpMessages) /\ up' = Append(up, msg) /\ down' = down
      /\ task = "sending" /\ task' = "flushing" /\ inHand' = inHand /\ entries' = entries
  BY <1>1, BothTyped DEF FeedMessage, WireTypeOK
<1>3. /\ Has(up', msg)
      /\ \A x : Has(up, x) => Has(up', x)
  BY <1>2, AppendOrder
<1>4. /\ AbortMsg(r) # RequestMsg(r)
      /\ msg # AbortMsg(r) /\ Followed(up, AbortMsg(r), RequestMsg(r))
           => Followed(up, AbortMsg(r), RequestMsg(r))'
      /\ msg = RequestMsg(r) => Followed(up, AbortMsg(r), RequestMsg(r))'
  BY <1>2, RequestsDiffer, AppendFollowed
<1>5. /\ \A x : OnWay(x)' <=> OnWay(x)
      /\ work'[r] = work[r] /\ (Panicked(r)' <=> Panicked(r)) /\ aborted' = aborted
  BY <1>2, RepliesRest
<1>6. Said(r)'
  BY <1>5 DEF Said
<1>7. CASE msg = RequestMsg(r)
  <2>1. Holding(RequestMsg(r))
    BY <1>1, <1>2, <1>7 DEF Holding
  <2>2. entries[r] = "absent" /\ Unsent(r)
    BY <1>2, <2>1 DEF IInv, OnePlaces, OnePlace, Coming, Unsent
  <2>3. r \notin aborted
    BY <2>2, UnsentIdle
  <2>4. Owing(r)'
    BY <1>2, <1>3, <1>7, <2>2 DEF Owing
  <2> QED  BY <1>4, <1>5, <1>6, <1>7, <2>3, <2>4 DEF Served
<1>8. CASE msg = AbortMsg(r)
  <2>1. Holding(AbortMsg(r))'
    BY <1>1, <1>2, <1>8 DEF Holding
  <2> QED  BY <1>6, <2>1 DEF Served
<1>9. CASE msg # RequestMsg(r) /\ msg # AbortMsg(r)
  <2>1. /\ ~Holding(RequestMsg(r))' /\ ~Holding(AbortMsg(r))
        /\ entries'[r] = entries[r]
    BY <1>1, <1>2, <1>9 DEF Holding
  <2>2. Alone(r)
    BY <1>3, <1>4, <1>5, <1>9, <2>1 DEF Alone, Registered
  <2> QED  BY <2>2, LeftAlone
<1> QED  BY <1>7, <1>8, <1>9

\* The send has succeeded: the entry that was being made is there, or the one
\* that was to be forgotten is not.
LEMMA SentAccounted ==
  ASSUME IInv, UNCHANGED producerVars, SendOk, NEW r \in Requests, Said(r), Served(r)
  PROVE  Said(r)' /\ Served(r)'
<1>1. PICK msg \in UpMessages : Head(inHand) = msg
  BY BothTyped, FrontType DEF IInv, SendOk, C!TaskOK, C!HandFull, ConsumerTypeOK,
                              TaskTypeOK
<1>2. /\ up' = up /\ down' = down /\ task = "flushing" /\ task' = "running"
      /\ IF msg.payload = "request" THEN Register(msg.id) ELSE Forget(msg.id)
      /\ entries \in [Requests -> {"absent", "pending", "open"}]
  BY <1>1, BothTyped DEF SendOk, wire, ConsumerTypeOK, TaskTypeOK
<1>3. /\ \A x : OnWay(x)' <=> OnWay(x)
      /\ work'[r] = work[r] /\ (Panicked(r)' <=> Panicked(r)) /\ aborted' = aborted
  BY <1>2, RepliesRest
<1>4. Said(r)'
  BY <1>3 DEF Said
<1>5. \A x : ~Holding(x)'
  BY <1>2 DEF Holding
<1>6. CASE msg = RequestMsg(r)
  <2>1. Holding(RequestMsg(r)) /\ ~Holding(AbortMsg(r)) /\ msg.payload = "request" /\ msg.id = r
    BY <1>1, <1>2, <1>6, RequestsDiffer DEF Holding
  <2>2. entries[r] = "absent" /\ entries'[r] = "pending" /\ Registered(r)
    BY <1>2, <2>1 DEF IInv, OnePlaces, OnePlace, Coming, Register, Registered
  <2>3. Owing(r)'
    BY <1>2, <1>3, <2>1, <2>2 DEF Served, Owing
  <2> QED  BY <1>2, <1>3, <1>4, <2>1, <2>2, <2>3 DEF Served
<1>7. CASE msg = AbortMsg(r)
  <2>1. entries'[r] = "absent"
    BY <1>2, <1>7, RequestsDiffer DEF Forget
  <2> QED  BY <1>4, <1>5, <2>1 DEF Served, Registered
<1>8. CASE msg # RequestMsg(r) /\ msg # AbortMsg(r)
  <2>1. msg.id # r
    BY <1>8, RequestsDiffer
  <2>2. entries'[r] = entries[r]
    BY <1>2, <2>1 DEF Register, Forget
  <2>3. ~Holding(RequestMsg(r))' /\ ~Holding(AbortMsg(r))
    BY <1>1, <1>5, <1>8 DEF Holding
  <2>4. Alone(r)
    BY <1>2, <1>3, <2>2, <2>3 DEF Alone, Registered
  <2> QED  BY <2>4, LeftAlone
<1> QED  BY <1>6, <1>7, <1>8

\* What the producer does to the consumer's map.
LEMMA MapRests ==
  ASSUME UNCHANGED consumerVars, NEW r \in Requests
  PROVE  /\ entries'[r] = entries[r]
         /\ Registered(r)' <=> Registered(r)
         /\ \A x : Holding(x)' <=> Holding(x)
BY DEF consumerVars, taskVars, Registered, Holding

\* The producer reads a request, which starts its task, or an abort, which
\* finds no task that an entry still waits for.
LEMMA StartAccounted ==
  ASSUME IInv, UNCHANGED consumerVars, ProducerReceive, NEW r \in Requests, Said(r), Served(r)
  PROVE  Said(r)' /\ Served(r)'
<1>1. PICK msg \in UpMessages : Head(up) = msg
  BY BothTyped, FrontType DEF ProducerReceive, WireTypeOK
<1>2. /\ up \in Seq(UpMessages) /\ up # <<>> /\ up' = Tail(up)
      /\ IF msg.payload = "request" THEN StartTask(msg.id) ELSE AbortRequest(msg.id)
      /\ UNCHANGED <<removals, replies, replyVars, down>>
      /\ work \in [Requests -> {"idle", "running", "streaming", "retiring", "done"}]
  BY <1>1, BothTyped DEF ProducerReceive, WireTypeOK, ProducerTypeOK, WorkTypeOK
<1>3. /\ Has(up, msg)
      /\ \A x : Has(up, x) /\ msg # x => Has(up', x)
      /\ Followed(up, AbortMsg(r), RequestMsg(r))
           => Followed(up, AbortMsg(r), RequestMsg(r))'
              /\ (msg = AbortMsg(r) => Has(up, RequestMsg(r)))
  <2>1. 1 \in 1..Len(up) /\ Head(up) = up[1]
    BY <1>2, TailIndex
  <2>2. Has(up, msg)
    BY <1>1, <2>1 DEF Has
  <2>3. /\ \A x : Has(up, x) /\ msg # x => Has(up', x)
        /\ \A x : Has(up', x) => Has(up, x)
    BY <1>1, <1>2, TailOrder
  <2> QED  BY <1>1, <1>2, <2>2, <2>3, TailFollowed
<1>4. \A x : OnWay(x)' <=> OnWay(x)
  BY <1>2 DEF OnWay, Replying, replyVars
<1>5. CASE msg = RequestMsg(r)
  <2>1. work[r] = "idle" /\ r \notin aborters \cup aborted
    BY <1>3, <1>5, OnWayIdle
  <2>2. work'[r] = "running" /\ aborted' = aborted
    BY <1>2, <1>5, RequestsDiffer DEF StartTask
  <2>3. ~OnWay(OpenMsg(r)) /\ ~OnWay(ClosedMsg(r)) /\ ~Panicked(r)
    BY <2>1 DEF Said, Panicked
  <2>4. Said(r)'
    BY <1>4, <2>3 DEF Said
  <2>5. Owing(r) => Owing(r)'
    BY <1>4, <2>1, <2>2, <2>3, MapRests DEF Owing
  <2> QED  BY <1>3, <2>1, <2>2, <2>4, <2>5, MapRests DEF Served
<1>6. CASE msg = AbortMsg(r)
  <2>1. AbortRequest(r)
    BY <1>2, <1>6, RequestsDiffer
  <2>2. Said(r)'
    BY <1>4, <2>1 DEF Said, AbortRequest
  <2>3. ASSUME Registered(r)', ~Holding(AbortMsg(r))'
        PROVE  /\ Followed(up, AbortMsg(r), RequestMsg(r))'
               /\ r \in aborted' => work'[r] \in {"retiring", "done"}
               /\ Owing(r)'
    <3>1. /\ Followed(up, AbortMsg(r), RequestMsg(r)) /\ Owing(r)
      BY <2>3, MapRests DEF Served
    <3>2. r \notin aborters \cup aborted /\ Has(up, RequestMsg(r))
      BY <1>3, <1>6, <3>1, OnWayIdle
    <3>3. work' = work /\ aborted' = aborted /\ ~Panicked(r) /\ Has(up, RequestMsg(r))'
      BY <1>3, <1>6, <2>1, <3>2, RequestsDiffer DEF AbortRequest, Panicked
    <3>4. Owing(r)'
      BY <1>4, <3>1, <3>3, MapRests DEF Owing
    <3> QED  BY <1>3, <3>1, <3>2, <3>3, <3>4
  <2> QED  BY <2>2, <2>3 DEF Served
<1>7. CASE msg # RequestMsg(r) /\ msg # AbortMsg(r)
  <2>1. msg.id # r
    BY <1>7, RequestsDiffer
  <2>2. /\ work'[r] = work[r]
        /\ r \in aborted' <=> r \in aborted
        /\ r \in aborters' <=> r \in aborters
    BY <1>2, <2>1 DEF StartTask, AbortRequest
  <2>3. Panicked(r)' <=> Panicked(r)
    BY <1>2, <2>2 DEF Panicked
  <2>4. Alone(r)
    BY <1>3, <1>4, <1>7, <2>2, <2>3, MapRests DEF Alone
  <2> QED  BY <2>4, LeftAlone
<1> QED  BY <1>5, <1>6, <1>7

\* A task's aborter is removed once the task is done.
LEMMA RemovalAccounted ==
  ASSUME IInv, UNCHANGED consumerVars, RemoveAborter, NEW r \in Requests, Said(r), Served(r)
  PROVE  Said(r)' /\ Served(r)'
<1>1. /\ removals \in Seq(Requests) /\ removals # <<>> /\ removals' = Tail(removals)
      /\ aborted' = aborted \cup ({Head(removals)} \cap aborters)
      /\ aborters' = aborters \ {Head(removals)}
      /\ work' = work
      /\ UNCHANGED <<replies, replyVars, wire>>
  BY BothTyped DEF RemoveAborter, ProducerTypeOK, LoopTypeOK, workVars
<1>2. \A x : OnWay(x)' <=> OnWay(x)
  BY <1>1 DEF OnWay, Replying, replyVars, wire
<1>3. /\ \A x : Has(removals', x) => Has(removals, x)
      /\ Has(removals, Head(removals)) /\ work[Head(removals)] = "done"
  <2>1. 1 \in 1..Len(removals) /\ Head(removals) = removals[1]
    BY <1>1, TailIndex
  <2>2. \A x : Has(removals', x) => Has(removals, x)
    BY <1>1, TailOrder
  <2> QED  BY <2>1, <2>2 DEF Has, IInv, P!RemovedDone
<1>4. Panicked(r) => Panicked(r)' /\ Head(removals) # r
  BY <1>1, <1>3 DEF Panicked, Contains, Has
<1>5. Said(r)'
  BY <1>1, <1>2 DEF Said
<1>6. Owing(r) => Owing(r)'
  BY <1>1, <1>2, <1>4, MapRests DEF Owing, wire
<1>7. r \in aborted' => r \in aborted \/ work[r] = "done"
  BY <1>1, <1>3
<1> QED  BY <1>1, <1>5, <1>6, <1>7, MapRests DEF Served, wire

\* A task queues a reply: it is on its way, and no other reply comes or goes.
LEMMA QueuedOnWay ==
  ASSUME IInv, NEW msg \in DownMessages, replies' = Append(replies, msg),
         UNCHANGED <<replyVars, down>>
  PROVE  \A x : OnWay(x)' <=> OnWay(x) \/ x = msg
<1>1. replies \in Seq(DownMessages)
  BY BothTyped DEF ProducerTypeOK, ReplyTypeOK
<1>2. \A x : Has(replies', x) <=> Has(replies, x) \/ x = msg
  BY <1>1, AppendOrder
<1> QED  BY <1>2 DEF OnWay, Replying, replyVars

\* The task of q moves: those of the other requests, and what they owe, do not.
LEMMA OthersAlone ==
  ASSUME IInv, UNCHANGED consumerVars, NEW q \in Requests, NEW r \in Requests, r # q,
         NEW to, work' = [work EXCEPT ![q] = to],
         UNCHANGED <<aborters, aborted, up>>,
         removals' = removals \/ removals' = Append(removals, q),
         \A x \in {ValueMsg(r), OpenMsg(r), ClosedMsg(r)} : OnWay(x)' <=> OnWay(x)
  PROVE  Alone(r)
<1>1. work'[r] = work[r]
  BY BothTyped DEF ProducerTypeOK, WorkTypeOK
<1>2. Contains(removals', r) => Contains(removals, r)
  <2>1. removals \in Seq(Requests)
    BY BothTyped DEF ProducerTypeOK, LoopTypeOK
  <2>2. \A x : Has(removals', x) /\ x # q => Has(removals, x)
    BY <2>1, AppendOrder
  <2> QED  BY <2>2 DEF Contains, Has
<1>3. Panicked(r) => Panicked(r)'
  BY <1>1, <1>2 DEF Panicked
<1> QED  BY <1>1, <1>3, MapRests DEF Alone

\* Replies to different requests, and of different kinds, are different.
LEMMA RepliesApart ==
  ASSUME NEW q \in Requests, NEW r \in Requests, NEW n \in Nat
  PROVE  /\ \A x \in {ValueMsg(r), OpenMsg(r), ClosedMsg(r)} :
              /\ x # ItemMsg(q, n)
              /\ r # q => x \notin {ValueMsg(q), OpenMsg(q), ClosedMsg(q)}
         /\ ValueMsg(r) # OpenMsg(r) /\ ValueMsg(r) # ClosedMsg(r) /\ OpenMsg(r) # ClosedMsg(r)
BY DEF ValueMsg, OpenMsg, ClosedMsg, ItemMsg

\* Every step of a request's task keeps its reply owed, or sends it.
LEMMA WorkAccounted ==
  ASSUME IInv, UNCHANGED consumerVars, NEW q \in Requests, WorkStep(q) \/ PanicTask(q),
         NEW r \in Requests, Said(r), Served(r)
  PROVE  Said(r)' /\ Served(r)'
<1>1. /\ work \in [Requests -> {"idle", "running", "streaming", "retiring", "done"}]
      /\ yielded \in [Requests -> 0..MaxItems] /\ MaxItems \in Nat
      /\ removals \in Seq(Requests)
  BY BothTyped, TransportAssumption DEF ProducerTypeOK, WorkTypeOK, LoopTypeOK
<1>2. /\ UNCHANGED <<aborters, aborted>> /\ UNCHANGED <<up, down, replyVars>>
      /\ work[q] \in {"running", "streaming", "retiring"}
  BY DEF WorkStep, FinishValue, OpenStream, YieldItem, EndStream, QueueReply, Retire,
         AbortTask, PanicTask, loopVars, wire
<1>3. ~Has(up, RequestMsg(q)) /\ 0 \in Nat
  BY <1>2, OnWayIdle
<1>4. CASE FinishValue(q)
  <2>1. /\ q \in ValueRequests /\ work[q] = "running" /\ work' = [work EXCEPT ![q] = "retiring"]
        /\ removals' = removals /\ replies' = Append(replies, ValueMsg(q))
    BY <1>4 DEF FinishValue, QueueReply, loopVars
  <2>2. \A x : OnWay(x)' <=> OnWay(x) \/ x = ValueMsg(q)
    BY <1>2, <2>1, MessageTypes, QueuedOnWay
  <2>3. CASE r # q
    BY <1>2, <1>3, <2>1, <2>2, <2>3, RepliesApart, OthersAlone, LeftAlone
  <2>4. CASE r = q
    <3>1. Said(r)'
      BY <1>1, <1>3, <2>1, <2>2, <2>4, RepliesApart DEF Said
    <3>2. Owing(r) => Owing(r)'
      BY <1>3, <2>1, <2>2, <2>4, MapRests DEF Owing, Panicked, Said, ValueRequests
    <3> QED  BY <1>1, <1>2, <2>1, <2>4, <3>1, <3>2, MapRests DEF Served
  <2> QED  BY <2>3, <2>4
<1>5. CASE OpenStream(q)
  <2>1. /\ q \in StreamRequests /\ work[q] = "running" /\ work' = [work EXCEPT ![q] = "streaming"]
        /\ removals' = removals /\ replies' = Append(replies, OpenMsg(q))
    BY <1>5 DEF OpenStream, QueueReply, loopVars
  <2>2. \A x : OnWay(x)' <=> OnWay(x) \/ x = OpenMsg(q)
    BY <1>2, <2>1, MessageTypes, QueuedOnWay
  <2>3. CASE r # q
    BY <1>2, <1>3, <2>1, <2>2, <2>3, RepliesApart, OthersAlone, LeftAlone
  <2>4. CASE r = q
    <3>1. Said(r)'
      BY <1>1, <1>3, <2>1, <2>2, <2>4, RepliesApart DEF Said
    <3>2. Owing(r)'
      BY <1>1, <2>1, <2>2, <2>4 DEF Owing
    <3> QED  BY <1>1, <1>2, <2>1, <2>4, <3>1, <3>2, MapRests DEF Served
  <2> QED  BY <2>3, <2>4
<1>6. CASE YieldItem(q)
  <2>1. /\ work[q] = "streaming" /\ work' = [work EXCEPT ![q] = "streaming"]
        /\ removals' = removals /\ replies' = Append(replies, ItemMsg(q, yielded[q] + 1))
        /\ yielded[q] + 1 \in Nat
    BY <1>1, <1>6 DEF YieldItem, QueueReply, loopVars
  <2>2. \A x : OnWay(x)' <=> OnWay(x) \/ x = ItemMsg(q, yielded[q] + 1)
    BY <1>2, <2>1, MessageTypes, QueuedOnWay
  <2>3. \A x \in {ValueMsg(r), OpenMsg(r), ClosedMsg(r)} : OnWay(x)' <=> OnWay(x)
    BY <2>1, <2>2, RepliesApart
  <2>4. work' = work
    BY <1>1, <2>1
  <2>5. Alone(r)
    BY <1>2, <2>1, <2>3, <2>4, MapRests DEF Alone, Panicked
  <2> QED  BY <2>5, LeftAlone
<1>7. CASE EndStream(q)
  <2>1. /\ work[q] = "streaming" /\ work' = [work EXCEPT ![q] = "retiring"]
        /\ removals' = removals /\ replies' = Append(replies, ClosedMsg(q))
    BY <1>7 DEF EndStream, QueueReply, loopVars
  <2>2. \A x : OnWay(x)' <=> OnWay(x) \/ x = ClosedMsg(q)
    BY <1>2, <2>1, MessageTypes, QueuedOnWay
  <2>3. CASE r # q
    BY <1>2, <1>3, <2>1, <2>2, <2>3, RepliesApart, OthersAlone, LeftAlone
  <2>4. CASE r = q
    <3>1. Said(r)'
      BY <1>1, <1>3, <2>1, <2>2, <2>4, RepliesApart DEF Said
    <3>2. Owing(r) => Owing(r)'
      BY <1>3, <2>1, <2>2, <2>4, MapRests DEF Owing, Panicked
    <3> QED  BY <1>1, <1>2, <2>1, <2>4, <3>1, <3>2, MapRests DEF Served
  <2> QED  BY <2>3, <2>4
<1>8. CASE Retire(q) \/ AbortTask(q) \/ PanicTask(q)
  <2>1. /\ work' = [work EXCEPT ![q] = "done"] /\ replies' = replies
        /\ removals' = removals \/ removals' = Append(removals, q)
    BY <1>8 DEF Retire, AbortTask, PanicTask, loopVars
  <2>2. \A x : OnWay(x)' <=> OnWay(x)
    BY <1>2, <2>1 DEF OnWay, Replying, replyVars
  <2>3. CASE r # q
    BY <1>2, <2>1, <2>2, <2>3, OthersAlone, LeftAlone
  <2>4. CASE r = q
    <3>1. Said(r)'
      BY <1>1, <2>1, <2>2, <2>4 DEF Said
    <3>2. ASSUME Owing(r), r \in aborted => work[r] \in {"retiring", "done"}
          PROVE  Owing(r)'
      <4>1. CASE Retire(q)
        <5>1. work[r] = "retiring"
          BY <2>4, <4>1 DEF Retire
        <5> QED  BY <1>3, <2>2, <2>4, <3>2, <5>1, MapRests DEF Owing, Panicked
      <4>2. CASE AbortTask(q)
        BY <2>4, <3>2, <4>2 DEF AbortTask
      <4>3. CASE PanicTask(q)
        <5>1. work[r] \in {"running", "streaming"} /\ removals' = removals
          BY <2>4, <4>3 DEF PanicTask, loopVars
        <5>2. r \in aborters
          BY <3>2, <5>1 DEF IInv, P!ProducerOK, P!Bookkeeping, P!BusyCovered
        <5>3. ~Contains(removals, r)
          BY <5>1 DEF IInv, P!RemovedDone, Contains
        <5>4. Panicked(r)'
          BY <1>1, <1>2, <2>1, <2>4, <5>1, <5>2, <5>3 DEF Panicked
        <5> QED  BY <5>4 DEF Owing
      <4> QED  BY <1>8, <4>1, <4>2, <4>3
    <3> QED  BY <1>1, <1>2, <2>1, <2>4, <3>1, <3>2, MapRests DEF Served
  <2> QED  BY <2>3, <2>4
<1> QED  BY <1>4, <1>5, <1>6, <1>7, <1>8 DEF WorkStep

\* The reply task only moves replies on.
LEMMA ReplyAccounted ==
  ASSUME ~ProducerFaulty, IInv, UNCHANGED consumerVars, ReplyStep, Live',
         connected, NEW r \in Requests
  PROVE  Alone(r)
<1>1. replies \in Seq(DownMessages) /\ down \in Seq(DownMessages)
      /\ replyHand \in Seq(DownMessages)
  BY BothTyped DEF ProducerTypeOK, ReplyTypeOK, WireTypeOK
<1>2. ~ReplyErr /\ ~EndReplies
  BY DEF ReplyErr, EndReplies, Live
<1>3. UNCHANGED <<loopVars, workVars, up>>
  BY <1>2 DEF ReplyStep, TakeReply, FeedReply, ReplyOk, wire
<1>4. \A x : OnWay(x)' <=> OnWay(x)
  <2>1. CASE TakeReply
    <3>1. /\ replies # <<>> /\ replies' = Tail(replies) /\ down' = down
          /\ \A x : ~Replying(x)
          /\ \A x : Replying(x)' <=> Head(replies) = x
      BY <2>1 DEF TakeReply, Replying, wire
    <3>2. 1 \in 1..Len(replies) /\ Head(replies) = replies[1]
      BY <1>1, <3>1, TailIndex
    <3>3. Has(replies, Head(replies))
      BY <3>2 DEF Has
    <3>4. \A x : Has(replies, x) <=> Has(replies', x) \/ Head(replies) = x
      BY <1>1, <3>1, <3>3, TailOrder
    <3> QED  BY <3>1, <3>4 DEF OnWay
  <2>2. CASE FeedReply
    <3>1. Head(replyHand) \in DownMessages
      BY <1>1, <2>2, FrontType DEF FeedReply, IInv, P!ProducerOK, P!HandFull
    <3>2. \A x : Has(down', x) <=> Has(down, x) \/ Head(replyHand) = x
      BY <1>1, <2>2, <3>1, AppendOrder DEF FeedReply
    <3> QED  BY <2>2, <3>2 DEF FeedReply, OnWay, Replying
  <2>3. CASE ReplyOk
    BY <2>3 DEF ReplyOk, OnWay, Replying, wire
  <2> QED  BY <1>2, <2>1, <2>2, <2>3 DEF ReplyStep
<1> QED  BY <1>3, <1>4, MapRests DEF Alone, Panicked, loopVars, workVars

\* While the session runs, every step of the consumer's side keeps both maps
\* accounted for.
LEMMA ConsumerAccounted ==
  ASSUME ~Faulty, IInv, ConsumerNext, UNCHANGED producerVars, Live, Live',
         NEW r \in Requests, Said(r), Served(r)
  PROVE  Said(r)' /\ Served(r)'
<1>1. ASSUME NEW q \in Requests, Begin(q) \/ Finish(q)
      PROVE  Said(r)' /\ Served(r)'
  <2>1. UNCHANGED <<taskVars, wire>>
    BY <1>1, BothTyped, HandleQueues
  <2> QED  BY <2>1, QuietConsumer, LeftAlone DEF taskVars, wire
<1>2. CASE DropConsumer \/ TimerElapses \/ \E m \in Methods : TakeMessage(m)
  <2>1. CASE DropConsumer \/ TimerElapses
    <3>1. UNCHANGED <<task, inHand, entries, up, down>>
      BY <2>1 DEF DropConsumer, TimerElapses, taskVars, wire
    <3> QED  BY <3>1, QuietConsumer, LeftAlone
  <2>2. CASE \E m \in Methods : TakeMessage(m)
    <3>1. /\ task = "running" /\ task' = "sending"
          /\ UNCHANGED <<entries, up, down>>
      BY <2>2 DEF TakeMessage, wire
    <3>2. Alone(r)
      BY <3>1, RepliesRest DEF Alone, Registered, Holding
    <3> QED  BY <3>2, LeftAlone
  <2> QED  BY <1>2, <2>1, <2>2
<1>3. CASE TaskStep /\ ~\E m \in Methods : TakeMessage(m)
  <2>1. ~ReceiveError /\ ~ReceiveClosed /\ ~SendErr
    BY DEF ReceiveError, ReceiveClosed, SendErr, Live
  <2>2. ~TimeoutArm /\ ~ShutdownArm /\ ~DropArm /\ ~DropState
    BY DEF TimeoutArm, ShutdownArm, DropArm, DropState, ShutDown, Live
  <2> QED
    BY <1>3, <2>1, <2>2, ReadAccounted, FeedAccounted, SentAccounted DEF TaskStep
<1> QED  BY <1>1, <1>2, <1>3 DEF ConsumerNext

\* So does every step of the producer's side.
LEMMA ProducerAccounted ==
  ASSUME ~ProducerFaulty, IInv, ProducerNext, UNCHANGED consumerVars, Live, Live',
         NEW r \in Requests, Said(r), Served(r)
  PROVE  Said(r)' /\ Served(r)'
<1>1. CASE LoopStep
  <2>1. ~ProducerReceiveError /\ ~ProducerReceiveClosed /\ ~DrainAborters
    BY DEF ProducerReceiveError, ProducerReceiveClosed, DrainAborters, Live
  <2>2. ~StopArm /\ ~ProducerShutdownArm
    BY DEF StopArm, ProducerShutdownArm, HandleShutdown, Live
  <2>3. CASE ProducerTimeoutArm
    <3>1. UNCHANGED <<aborters, aborted, removals, workVars, replyVars, wire, replies>>
      BY <2>3 DEF ProducerTimeoutArm, HandleShutdown, Live
    <3>2. Alone(r)
      BY <3>1, MapRests DEF Alone, Panicked, OnWay, Replying, workVars, replyVars, wire
    <3> QED  BY <3>2, LeftAlone
  <2> QED
    BY <1>1, <2>1, <2>2, <2>3, StartAccounted, RemovalAccounted DEF LoopStep
<1>2. CASE \E q \in Requests : WorkStep(q) \/ PanicTask(q)
  BY <1>2, WorkAccounted
<1>3. CASE ReplyStep
  BY <1>3, ReplyAccounted, LeftAlone DEF Live
<1>4. CASE ProducerTimerElapses
  <2>1. Alone(r)
    BY <1>4, MapRests
       DEF ProducerTimerElapses, Alone, Panicked, OnWay, Replying, workVars, replyVars,
           wire
  <2> QED  BY <2>1, LeftAlone
<1> QED  BY <1>1, <1>2, <1>3, <1>4 DEF ProducerNext

\* A session that runs has been running.
LEMMA StaysLive ==
  ASSUME Next, Live'
  PROVE  Live
<1>1. CASE ConsumerNext /\ UNCHANGED producerVars
  BY <1>1
     DEF ConsumerNext, Begin, Finish, Call, Poll, PollNext, DropHandle, AbortSend,
         SendRequest, PollResult, CheckAbort, AbortSignal, DropConsumer, TimerElapses, TaskStep,
         Receive, ReceiveError, ReceiveClosed, TakeMessage, FeedMessage, SendOk, SendErr,
         TimeoutArm, ShutdownArm, DropArm, DropState, taskVars, wire, producerVars, loopVars, Live
<1>2. CASE ProducerNext /\ UNCHANGED consumerVars
  BY <1>2
     DEF ProducerNext, LoopStep, ProducerReceive, ProducerReceiveError,
         ProducerReceiveClosed, RemoveAborter, ProducerTimeoutArm, StopArm,
         ProducerShutdownArm, DrainAborters, WorkStep, FinishValue, OpenStream,
         YieldItem, EndStream, QueueReply, Retire, AbortTask, PanicTask, ReplyStep,
         TakeReply, FeedReply, ReplyOk, ReplyErr, EndReplies, ProducerTimerElapses,
         wire, consumerVars, taskVars, loopVars, Live
<1> QED  BY <1>1, <1>2 DEF Next

\* A session starts with both maps empty.
LEMMA AccountedInit == Init => Accounted
<1> SUFFICES ASSUME Init, NEW r \in Requests PROVE Said(r) /\ Served(r)
  BY DEF Accounted
<1> USE DEF Init, ConsumerInit, ProducerInit, WireInit
<1>1. \A x : ~OnWay(x)
  BY DEF OnWay, Has, Replying
<1> QED  BY <1>1 DEF Said, Served, Registered, Holding

\* And stays accounted for, whoever moves.
LEMMA AccountedNext ==
  ASSUME ~Faulty, ~ProducerFaulty, IInv, Accounted, [Next]_vars
  PROVE  Accounted'
<1> SUFFICES ASSUME Live', NEW r \in Requests PROVE Said(r)' /\ Served(r)'
  BY DEF Accounted
<1>1. CASE Next
  <2>1. Live /\ Said(r) /\ Served(r)
    BY <1>1, StaysLive DEF Accounted
  <2> QED  BY <1>1, <2>1, ConsumerAccounted, ProducerAccounted DEF Next
<1>2. CASE UNCHANGED vars
  <2>1. UNCHANGED <<consumerVars, producerVars, wire>>
    BY <1>2 DEF vars
  <2>2. Live
    BY <2>1 DEF Live, consumerVars, taskVars, producerVars, loopVars, wire
  <2>3. Alone(r)
    BY <2>1, QuietConsumer DEF consumerVars, taskVars, wire
  <2> QED  BY <2>2, <2>3, LeftAlone DEF Accounted
<1> QED  BY <1>1, <1>2

\* What is accounted for is what EntriesAccounted says.
LEMMA AccountedEntries == IInv /\ Accounted => EntriesAccounted
<1> SUFFICES ASSUME IInv, Accounted, Live, NEW r \in Requests, entries[r] # "absent",
                    ~Contains(inHand, AbortMsg(r)), ~Panicked(r)
             PROVE  \/ /\ entries[r] = "pending"
                       /\ \/ Contains(up, RequestMsg(r))
                          \/ work[r] = "running"
                          \/ \E msg \in RepliesTo(r) : msg.tag \in {"value", "open"}
                    \/ /\ entries[r] = "open"
                       /\ work[r] = "streaming" \/ ClosedMsg(r) \in RepliesTo(r)
  BY DEF EntriesAccounted
<1>1. entries[r] \in {"pending", "open"}
  BY BothTyped DEF ConsumerTypeOK, TaskTypeOK
<1>2. ~Holding(AbortMsg(r))
  <2> SUFFICES ASSUME Holding(AbortMsg(r)) PROVE FALSE
    OBVIOUS
  <2>1. inHand \in Seq(UpMessages) /\ inHand # <<>>
    BY BothTyped DEF Holding, IInv, C!TaskOK, C!HandFull, ConsumerTypeOK, TaskTypeOK
  <2>2. 1 \in 1..Len(inHand) /\ inHand[1] = AbortMsg(r)
    BY <2>1, TailIndex DEF Holding
  <2> QED  BY <2>2 DEF Contains
<1>3. Owing(r)
  BY <1>2 DEF Accounted, Served, Registered
<1>4. Has(up, RequestMsg(r)) <=> Contains(up, RequestMsg(r))
  BY DEF Has, Contains
<1>5. ASSUME NEW msg \in {ValueMsg(r), OpenMsg(r), ClosedMsg(r)}, OnWay(msg)
      PROVE  msg \in RepliesTo(r)
  <2>1. msg.tag \in ResponseTags /\ msg.id = r
    BY DEF ValueMsg, OpenMsg, ClosedMsg, ResponseTags
  <2>2. CASE Has(down, msg)
    <3>1. msg \in ToSet(down)
      BY <2>2, BothTyped, LenProperties DEF Has, ToSet, WireTypeOK
    <3> QED  BY <2>1, <3>1 DEF RepliesTo
  <2>3. CASE Has(replies, msg)
    <3>1. msg \in ToSet(replies)
      BY <2>3, BothTyped, LenProperties DEF Has, ToSet, ProducerTypeOK, ReplyTypeOK
    <3> QED  BY <2>1, <3>1 DEF RepliesTo
  <2>4. CASE Replying(msg)
    <3>1. replyHand \in Seq(DownMessages) /\ replyHand # <<>>
      BY <2>4, BothTyped
         DEF Replying, IInv, P!ProducerOK, P!HandFull, ProducerTypeOK, ReplyTypeOK
    <3>2. 1 \in DOMAIN replyHand /\ replyHand[1] = msg
      BY <2>4, <3>1, TailIndex, LenProperties DEF Replying
    <3>3. msg \in ToSet(replyHand)
      BY <3>2 DEF ToSet
    <3> QED  BY <2>1, <3>3 DEF RepliesTo
  <2> QED  BY <1>5, <2>2, <2>3, <2>4 DEF OnWay
<1>6. ValueMsg(r).tag = "value" /\ OpenMsg(r).tag = "open"
  BY DEF ValueMsg, OpenMsg
<1> QED  BY <1>1, <1>3, <1>4, <1>5, <1>6 DEF Owing

\* Neither map keeps what the other has forgotten: while the session runs, an
\* entry of the consumer has a task, a request or a reply that will end it, and
\* a task has an entry, or an abort on its way (consumer/mod.rs and the loop of
\* the generated producer).
THEOREM MapsAgree ==
  ASSUME ~Faulty, ~ProducerFaulty
  PROVE  Spec => []EntriesAccounted
<1>1. IInv /\ Accounted /\ [Next]_vars => Accounted'
  BY AccountedNext
<1>2. Spec => []Accounted
  BY <1>1, AccountedInit, BothInvariance, PTL DEF Spec
<1> QED  BY <1>2, AccountedEntries, BothInvariance, PTL

-----------------------------------------------------------------------------
(* Both sides keep the contract between them                               *)

\* With every task told to stop there is nothing left to tell.
LEMMA AllTold == P!Tell
BY DEF P!Tell, P!Busy, P!AbortRead

\* What Peer may do reads the same on both sides.
LEMMA SamePeer ==
  /\ P!Contract!PeerOwn <=> C!PeerOwn
  /\ P!Contract!peerVars = C!peerVars /\ P!Contract!peerVars' = C!peerVars'
<1> USE DEF P!Contract!peerVars, C!peerVars, P!Contract!wire, C!wire, P!Contract!Working,
            C!Working, P!Contract!Send, C!Send, P!Contract!Reply, C!Reply,
            P!Contract!StreamRequests, C!StreamRequests, P!Contract!ValueRequests,
            C!ValueRequests
<1>1. P!Contract!PeerReceive <=> C!PeerReceive
  BY DEF P!Contract!PeerReceive, C!PeerReceive
<1>2. ASSUME NEW r \in Requests
      PROVE  /\ P!Contract!PeerReplies(r) <=> C!PeerReplies(r)
             /\ P!Contract!PeerUnheard(r) <=> C!PeerUnheard(r)
             /\ P!Contract!PeerCancel(r) <=> C!PeerCancel(r)
  <2>1. P!Contract!PeerReplies(r) <=> C!PeerReplies(r)
    BY DEF P!Contract!PeerReplies, C!PeerReplies, P!Contract!PeerAnswer, C!PeerAnswer,
           P!Contract!PeerOpen, C!PeerOpen, P!Contract!PeerItem, C!PeerItem,
           P!Contract!PeerClose, C!PeerClose, P!Contract!ValueMsg, C!ValueMsg,
           P!Contract!OpenMsg, C!OpenMsg, P!Contract!ItemMsg, C!ItemMsg,
           P!Contract!ClosedMsg, C!ClosedMsg
  <2>2. P!Contract!PeerUnheard(r) <=> C!PeerUnheard(r)
    BY DEF P!Contract!PeerUnheard, C!PeerUnheard
  <2>3. P!Contract!PeerCancel(r) <=> C!PeerCancel(r)
    BY DEF P!Contract!PeerCancel, C!PeerCancel
  <2> QED  BY <2>1, <2>2, <2>3
<1>3. P!Contract!PeerStop <=> C!PeerStop
  BY DEF P!Contract!PeerStop, C!PeerStop, P!Contract!Announcement, C!Announcement,
         P!Contract!StopMsg, C!StopMsg, P!ShutdownTypes, ShutdownTypes
<1>4. P!Contract!PeerAnnounce <=> C!PeerAnnounce
  BY DEF P!Contract!PeerAnnounce, C!PeerAnnounce
<1>5. P!Contract!PeerHangup <=> C!PeerHangup
  BY DEF P!Contract!PeerHangup, C!PeerHangup
<1> QED
  BY <1>1, <1>2, <1>3, <1>4, <1>5 DEF P!Contract!PeerOwn, C!PeerOwn

\* The consumer's side of the invariant, under any peer.
LEMMA SameInvariant ==
  ASSUME IInv, C!PeerTypeOK
  PROVE  C!IInv
BY BothTyped, SameConsumer
   DEF IInv, C!IInv, C!TypeOK, C!ConsumerTypeOK, C!TaskOK

\* A step of the consumer's side is one of Session, and the peer sees none.
LEMMA ConsumerSeen ==
  ASSUME IInv, P!Keeping, ConsumerNext, UNCHANGED producerVars
  PROVE  P!Keeping' /\ C!ConsumerNext /\ UNCHANGED C!peerVars
<1>1. P!Still
  <2>1. UNCHANGED <<P!producerVars, Requests>>
    BY DEF producerVars, loopVars, workVars, replyVars, P!producerVars, P!loopVars,
           P!workVars, P!replyVars
  <2> QED  BY <2>1, P!StillThere, ProducerFacts, TransportAssumption, ProducerAssumption
<1>2. P!Keeping' /\ P!PeerMap' = P!PeerMap /\ P!SentMap' = P!SentMap /\ P!Notice' = P!Notice
  BY <1>1, P!StillKept, ProducerFacts, TransportAssumption, ProducerAssumption DEF IInv
<1>3. UNCHANGED C!peerVars
  <2>1. loop' = loop
    BY DEF producerVars, loopVars
  <2> QED  BY <1>2, <2>1 DEF C!peerVars
<1>4. C!ConsumerNext
  <2>1. (Preemptible <=> C!Preemptible) /\ (DropConsumer <=> C!DropConsumer)
        /\ (TimerElapses <=> C!TimerElapses)
    BY DEF Preemptible, C!Preemptible, MidPoll, C!MidPoll, DropConsumer, C!DropConsumer,
           TimerElapses, C!TimerElapses, channelVars, C!channelVars, taskVars, C!taskVars,
           clientVars, C!clientVars, wire, C!wire
  <2> QED  BY <2>1, SameHandle, SameTask DEF ConsumerNext, C!ConsumerNext
<1> QED  BY <1>2, <1>3, <1>4

\* A step of the producer's side is one that its contract allows.
LEMMA ProducerKeeps ==
  ASSUME ~ProducerFaulty, ~MethodsMayPanic, IInv, P!Keeping, ProducerNext
  PROVE  P!Keeping' /\ (C!PeerNext \/ UNCHANGED <<C!peerVars, C!wire>>)
<1>1. P!ProducerNext
  BY SameLoop, SameWork, SameReply
     DEF ProducerNext, P!ProducerNext, ProducerTimerElapses, P!ProducerTimerElapses,
         workVars, P!workVars, replyVars, P!replyVars, wire, P!wire
<1>2. P!Keeping' /\ P!OwnStep
  BY <1>1, AllTold, P!ProducerSeen, ProducerFacts, TransportAssumption, ProducerAssumption
     DEF IInv
<1> QED
  BY <1>2, SamePeer DEF P!OwnStep, C!PeerNext, P!Contract!wire, C!wire

\* Every step of a whole session is one of a session with a peer that keeps
\* its contract, on which all that was proved of the consumer rests.
LEMMA SidesMeet ==
  ASSUME ~ProducerFaulty, ~MethodsMayPanic, IInv, P!Keeping, [Next]_vars
  PROVE  P!Keeping' /\ [C!Next]_C!vars
<1>1. CASE ConsumerNext /\ UNCHANGED producerVars
  BY <1>1, ConsumerSeen DEF C!Next
<1>2. CASE ProducerNext /\ UNCHANGED consumerVars
  <2>1. P!Keeping' /\ (C!PeerNext \/ UNCHANGED <<C!peerVars, C!wire>>)
    BY <1>2, ProducerKeeps
  <2>2. UNCHANGED C!consumerVars
    BY <1>2 DEF consumerVars, clientVars, channelVars, taskVars, C!consumerVars,
                C!clientVars, C!channelVars, C!taskVars
  <2> QED  BY <2>1, <2>2 DEF C!Next, C!vars
<1>3. CASE UNCHANGED vars
  <2>1. UNCHANGED <<P!producerVars, Requests>> /\ UNCHANGED C!consumerVars /\ UNCHANGED C!wire
        /\ loop' = loop
    BY <1>3 DEF vars, producerVars, loopVars, workVars, replyVars, P!producerVars, P!loopVars,
           P!workVars, P!replyVars, consumerVars, clientVars, channelVars, taskVars,
           C!consumerVars, C!clientVars, C!channelVars, C!taskVars, wire, C!wire
  <2>2. P!Still
    BY <2>1, P!StillThere, ProducerFacts, TransportAssumption, ProducerAssumption
  <2>3. P!Keeping' /\ P!PeerMap' = P!PeerMap /\ P!SentMap' = P!SentMap /\ P!Notice' = P!Notice
    BY <2>2, P!StillKept, ProducerFacts, TransportAssumption, ProducerAssumption DEF IInv
  <2> QED  BY <2>1, <2>3 DEF C!vars, C!peerVars
<1> QED  BY <1>1, <1>2, <1>3 DEF Next

\* A new session is one for both sides.
LEMMA NewSession ==
  ASSUME Init
  PROVE  P!Keeping /\ C!Fresh
<1>1. IInv
  BY InitInvariant
<1>2. P!ProducerInit
  BY DEF Init, ProducerInit, P!ProducerInit
<1>3. /\ P!Keeping /\ P!Notice = <<>>
      /\ P!PeerMap = [r \in Requests |-> "idle"]
      /\ P!SentMap = [r \in Requests |-> 0]
  BY <1>1, <1>2, P!KeepingInit, ProducerFacts, TransportAssumption, ProducerAssumption DEF IInv
<1>4. C!ConsumerInit /\ C!WireInit
  BY DEF Init, ConsumerInit, C!ConsumerInit, WireInit, C!WireInit
<1> QED  BY <1>3, <1>4 DEF C!Fresh, Init, ProducerInit

\* What is proved of a consumer and its peer, of the whole session.
Met == IInv /\ P!Keeping /\ C!IInv /\ C!Order /\ C!Delivery /\ C!Grounds

\* It holds of a new session.
LEMMA MetInit == Init => Met
<1> SUFFICES ASSUME Init PROVE Met
  OBVIOUS
<1>1. IInv /\ P!Keeping /\ C!Fresh
  BY InitInvariant, NewSession
<1>2. C!IInv
  BY <1>1, C!InitOK, ConsumerFacts, TransportAssumption, ConsumerAssumption
<1>3. C!Order /\ C!Delivery /\ C!Grounds
  BY <1>1, C!OrderInit, C!DeliveryInit, C!GroundsInit, ConsumerFacts, TransportAssumption,
     ConsumerAssumption
<1> QED  BY <1>1, <1>2, <1>3 DEF Met

\* And of the next state.
LEMMA MetNext ==
  ASSUME ~ProducerFaulty, ~MethodsMayPanic, Met, [Next]_vars
  PROVE  Met' /\ [C!Next]_C!vars
<1>1. IInv' /\ P!Keeping' /\ [C!Next]_C!vars
  BY NextInvariant, SidesMeet DEF Met
<1>2. C!IInv'
  BY <1>1, C!NextOK, ConsumerFacts, TransportAssumption, ConsumerAssumption DEF Met
<1>3. C!Order'
  BY <1>1, C!OrderNext, ConsumerFacts, TransportAssumption, ConsumerAssumption DEF Met
<1>4. C!Delivery'
  BY <1>1, C!DeliveryNext, ConsumerFacts, TransportAssumption, ConsumerAssumption DEF Met
<1>5. C!Grounds'
  BY <1>1, <1>3, C!GroundsNext, ConsumerFacts, TransportAssumption, ConsumerAssumption DEF Met
<1> QED  BY <1>1, <1>2, <1>3, <1>4, <1>5 DEF Met

\* What is proved of a consumer and its peer holds of both sides throughout.
THEOREM MetHolds ==
  ASSUME ~ProducerFaulty, ~MethodsMayPanic
  PROVE  Spec => []Met /\ [][C!Next]_C!vars
<1>1. Met /\ [Next]_vars => Met' /\ [C!Next]_C!vars
  BY MetNext
<1> QED  BY <1>1, MetInit, PTL DEF Spec

\* A whole session implements the contract with its callers: consumer, wire and
\* producer together give every request one outcome, no failure without a cause,
\* and every stream its items in order and none missing.
THEOREM WholeSessionKeepsContract ==
  ASSUME ~Faulty, ~ProducerFaulty, ~MethodsMayPanic
  PROVE  Spec => C!KeepsCallersContract
<1>1. Init => C!Caller!Init
  BY NewSession, C!InitRefines, ConsumerFacts, TransportAssumption, ConsumerAssumption
<1>2. Met => C!IInv /\ C!Delivery /\ C!Grounds /\ C!StreamsEndComplete
  BY C!CompleteNow, ConsumerFacts, TransportAssumption, ConsumerAssumption DEF Met
<1>3. C!IInv /\ C!IInv' /\ C!Delivery /\ C!Grounds /\ C!StreamsEndComplete' /\ [C!Next]_C!vars
        => [C!Caller!Next]_<<C!Caller!callers, C!Caller!session>>
  BY C!StepRefines, ConsumerFacts, TransportAssumption, ConsumerAssumption
<1> QED
  BY <1>1, <1>2, <1>3, MetHolds, PTL DEF Spec, C!KeepsCallersContract, C!Caller!Spec

\* ConsumerState.pending counts the results that are owed while the loop runs,
\* in a session with the producer as with any peer.
THEOREM WholeSessionPending ==
  ASSUME ~ProducerFaulty, ~MethodsMayPanic
  PROVE  Spec => []C!PendingIsExact
<1>1. Met => C!PendingIsExact
  BY DEF Met, C!Order, C!PendingIsExact, C!TaskUp, C!Exact, C!Owed, C!AwaitingResult
<1> QED  BY <1>1, MetHolds, PTL

\* What the peer is said to have sent is what the producer has yielded, short of
\* the items that still wait for the transport.
LEMMA SentIsYielded ==
  ASSUME IInv, P!Keeping, NEW r \in Requests
  PROVE  /\ P!SentMap[r] \in 0..yielded[r]
         /\ P!PeerMap[r] = "done" =>
              work[r] \in {"retiring", "done"} /\ P!SentMap[r] = yielded[r]
<1>1. work[r] \in {"idle", "running", "streaming", "retiring", "done"} /\ yielded[r] \in Nat
  BY BothTyped, TransportAssumption DEF ProducerTypeOK, WorkTypeOK
<1>2. PICK k \in 0..yielded[r] : P!SentItems(r) = 1..k
  BY DEF P!Keeping, P!Kept, P!ItemsLast
<1>3. P!Cardinality(1..k) = k
  BY <1>1, <1>2, P!Counted, ProducerFacts, TransportAssumption, ProducerAssumption
<1>4. P!SentMap[r] = k
  BY <1>2, <1>3 DEF P!SentMap
<1>5. ASSUME P!PeerMap[r] = "done"
      PROVE  work[r] \in {"retiring", "done"} /\ k = yielded[r]
  <2>1. P!PeerState(r) = "done"
    BY <1>5 DEF P!PeerMap
  <2>2. ~P!Continuing(r) /\ work[r] \in {"retiring", "done"}
    BY <1>1, <2>1 DEF P!PeerState
  <2>3. P!SentItems(r) = 1..yielded[r]
    BY <2>2 DEF P!SentItems, P!Continuing
  <2> QED  BY <1>1, <1>2, <2>2, <2>3
<1> QED  BY <1>2, <1>4, <1>5

\* What a Stream returns is what the stream of the user's method yielded, from
\* the task of handle_message through both channels and the wire.
THEOREM ItemsEndToEnd ==
  ASSUME ~Faulty, ~ProducerFaulty, ~MethodsMayPanic
  PROVE  Spec => []StreamsEndToEnd
<1>1. ASSUME Met
      PROVE  StreamsEndToEnd
  <2>1. C!ItemsInOrder /\ C!StreamsEndComplete
    BY <1>1, C!InOrderNow, C!CompleteNow, ConsumerFacts, TransportAssumption,
       ConsumerAssumption DEF Met
  <2>2. ASSUME NEW r \in StreamRequests
        PROVE  /\ \E n \in 0..yielded[r] : delivered[r] \o values[r] = Upto(n)
               /\ phase[r] = "ended" /\ abort[r] = "armed" /\ connected
                    /\ task \notin {"draining", "stopped"}
                    => work[r] \in {"retiring", "done"} /\ delivered[r] = Upto(yielded[r])
    <3>1. r \in Requests /\ r \in C!StreamRequests
      BY DEF StreamRequests, C!StreamRequests
    <3>2. /\ P!SentMap[r] \in 0..yielded[r] /\ yielded[r] \in Nat
          /\ P!PeerMap[r] = "done" =>
               work[r] \in {"retiring", "done"} /\ P!SentMap[r] = yielded[r]
      BY <1>1, <3>1, BothTyped, SentIsYielded, TransportAssumption
         DEF Met, ProducerTypeOK, WorkTypeOK
    <3>3. PICK n \in 0..P!SentMap[r] : delivered[r] \o values[r] = C!Upto(n)
      BY <2>1, <3>1 DEF C!ItemsInOrder
    <3>4. n \in 0..yielded[r]
      BY <3>2
    <3> QED  BY <2>1, <3>1, <3>2, <3>3, <3>4 DEF C!StreamsEndComplete, Upto, C!Upto
  <2> QED  BY <2>2 DEF StreamsEndToEnd
<1>2. Met => StreamsEndToEnd
  BY <1>1
<1> QED  BY <1>2, MetHolds, PTL
=============================================================================
