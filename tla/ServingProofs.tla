----------------------------- MODULE ServingProofs -----------------------------
(***************************************************************************)
(* The producer's map of aborters, for every set of requests, every        *)
(* configuration and any consumer: it holds no task but the ones that run, *)
(* so that its emptiness, which the timeout trusts, means what it says.    *)
(***************************************************************************)
EXTENDS Serving, TransportProofs

\* The reply task always has the message that it is sending.
HandFull == replyTask \in {"sending", "flushing"} => replyHand # <<>>

\* The stop oneshot carries an answer of the callback.
StopIsAnswer == stopSignal # "none" => stopSignal \in SendRequests \ {Ignore}

\* The producer decides once.
Undecided == loop = "running" => returnValue = "none"

\* A stopped loop has no aborters left.
Drained == loop = "stopped" => aborters = {}

\* Every task that runs can be aborted, or has been.
BusyCovered ==
  \A r \in Requests :
    work[r] \in {"running", "streaming"} => r \in aborters \cup aborted

\* A task whose abort was fired is not in the map any more.
FiredOnce == aborters \cap aborted = {}

\* A request reaches the producer once: the one on its way has no task yet,
\* and is not followed by another.
IsRequest(msg) == msg.payload = "request"
RequestedOnce ==
  /\ aborters \cup aborted \subseteq requested
  /\ \A i \in 1..Len(up) :
       IsRequest(up[i]) => up[i].id \in requested \ (aborters \cup aborted)
  /\ \A i, j \in 1..Len(up) :
       IsRequest(up[i]) /\ IsRequest(up[j]) /\ up[i].id = up[j].id => i = j

Bookkeeping == /\ StopIsAnswer /\ Undecided /\ Drained
               /\ BusyCovered /\ FiredOnce /\ RequestedOnce

\* What a step of the producer can disturb, and what it cannot.
ProducerOK ==
  /\ ProducerTypeOK /\ WireTypeOK /\ HandFull
  /\ Bookkeeping /\ NoAborterLeak /\ TimedOutIdle
ClientOK ==
  /\ requested \subseteq Requests
  /\ abortsSent \in [Requests -> 0..MaxAborts]
  /\ told \subseteq Requests

IInv == ProducerOK /\ ClientOK

-----------------------------------------------------------------------------
(* Requests on their way                                                   *)

\* The producer reads a message: the only task it may start is the one asked
\* for.
LEMMA TailOnce ==
  ASSUME RequestedOnce, up \in Seq(UpMessages), up # <<>>,
         up' = Tail(up), requested' = requested,
         \A r \in aborters' \cup aborted' :
           r \in aborters \cup aborted \/ (IsRequest(Head(up)) /\ r = Head(up).id)
  PROVE  RequestedOnce'
<1>1. /\ Len(up) \in Nat /\ Len(up) # 0
      /\ Len(up') = Len(up) - 1
      /\ \A i \in 1..Len(up') : up'[i] = up[i + 1]
      /\ Head(up) = up[1]
  BY HeadTailProperties, LenProperties, EmptySeq
<1>2. \A i \in 1..Len(up') : i + 1 \in 1..Len(up) /\ i + 1 # 1
  BY <1>1
<1>3. 1 \in 1..Len(up)
  BY <1>1
<1>4. aborters' \cup aborted' \subseteq requested'
  BY <1>1, <1>3 DEF RequestedOnce
<1>5. ASSUME NEW i \in 1..Len(up'), IsRequest(up'[i])
      PROVE  up'[i].id \in requested' \ (aborters' \cup aborted')
  <2>1. up'[i] = up[i + 1] /\ i + 1 \in 1..Len(up) /\ i + 1 # 1
    BY <1>1, <1>2, <1>5
  <2>2. up'[i].id \in requested \ (aborters \cup aborted)
    BY <1>5, <2>1 DEF RequestedOnce
  <2>3. ~(IsRequest(up[1]) /\ up[1].id = up'[i].id)
    BY <1>3, <1>5, <2>1 DEF RequestedOnce
  <2> QED  BY <1>1, <2>2, <2>3
<1>6. ASSUME NEW i \in 1..Len(up'), NEW j \in 1..Len(up'),
             IsRequest(up'[i]), IsRequest(up'[j]), up'[i].id = up'[j].id
      PROVE  i = j
  <2>1. /\ up'[i] = up[i + 1] /\ i + 1 \in 1..Len(up)
        /\ up'[j] = up[j + 1] /\ j + 1 \in 1..Len(up)
    BY <1>1, <1>2, <1>6
  <2>2. i + 1 = j + 1
    BY <1>6, <2>1 DEF RequestedOnce
  <2>3. i \in Nat /\ j \in Nat
    BY <1>1
  <2> QED  BY <2>2, <2>3
<1> QED  BY <1>4, <1>5, <1>6 DEF RequestedOnce, IsRequest

\* The consumer sends a message: if a request, then one it never sent.
LEMMA AppendOnce ==
  ASSUME RequestedOnce, up \in Seq(UpMessages), NEW msg \in UpMessages,
         up' = Append(up, msg), UNCHANGED <<aborters, aborted>>,
         requested \subseteq requested',
         IsRequest(msg) => msg.id \in requested' \ requested
  PROVE  RequestedOnce'
<1>1. /\ Len(up) \in Nat
      /\ Len(up') = Len(up) + 1
      /\ \A i \in 1..Len(up) : up'[i] = up[i]
      /\ up'[Len(up) + 1] = msg
  BY AppendProperties, LenProperties
<1>2. \A i \in 1..Len(up') : i \in 1..Len(up) \/ i = Len(up) + 1
  BY <1>1
<1>3. ASSUME NEW i \in 1..Len(up'), IsRequest(up'[i])
      PROVE  /\ up'[i].id \in requested' \ (aborters' \cup aborted')
             /\ up'[i].id \in requested <=> i # Len(up) + 1
  <2>1. CASE i \in 1..Len(up)
    <3>1. i # Len(up) + 1
      BY <1>1, <2>1
    <3> QED  BY <1>1, <1>3, <2>1, <3>1 DEF RequestedOnce
  <2>2. CASE i = Len(up) + 1
    BY <1>1, <1>3, <2>2 DEF RequestedOnce
  <2> QED  BY <1>2, <2>1, <2>2
<1>4. ASSUME NEW i \in 1..Len(up'), NEW j \in 1..Len(up'),
             IsRequest(up'[i]), IsRequest(up'[j]), up'[i].id = up'[j].id
      PROVE  i = j
  <2>1. CASE i = Len(up) + 1 \/ j = Len(up) + 1
    BY <1>3, <1>4, <2>1
  <2>2. CASE i # Len(up) + 1 /\ j # Len(up) + 1
    <3>1. i \in 1..Len(up) /\ j \in 1..Len(up)
      BY <1>2, <2>2
    <3> QED  BY <1>1, <1>4, <3>1 DEF RequestedOnce
  <2> QED  BY <2>1, <2>2
<1> QED  BY <1>3, <1>4 DEF RequestedOnce, IsRequest

\* A disconnection leaves a prefix of what was on its way.
LEMMA PrefixOnce ==
  ASSUME RequestedOnce, up \in Seq(UpMessages), NEW n \in 0..Len(up),
         up' = SubSeq(up, 1, n), UNCHANGED <<aborters, aborted, requested>>
  PROVE  RequestedOnce'
<1>1. Len(up) \in Nat /\ \A i \in 1..n : up[i] \in UpMessages
  BY LenProperties, ElementOfSeq
<1>2. Len(up') = n /\ \A i \in 1..n : up'[i] = up[i]
  BY <1>1, SubSeqProperties
<1>3. 1..n \subseteq 1..Len(up)
  BY <1>1
<1> QED  BY <1>2, <1>3 DEF RequestedOnce, IsRequest

\* A step that leaves the tasks and the map alone leaves the bookkeeping alone.
LEMMA Undisturbed ==
  ASSUME Bookkeeping, NoAborterLeak, TimedOutIdle, RequestedOnce',
         UNCHANGED <<loop, aborters, aborted, removals, returnValue, work, stopSignal>>
  PROVE  Bookkeeping' /\ NoAborterLeak' /\ TimedOutIdle'
BY DEF Bookkeeping, StopIsAnswer, Undecided, Drained, BusyCovered, FiredOnce,
       NoAborterLeak, TimedOutIdle

\* A step that only moves messages and timers keeps the invariant.
LEMMA UndisturbedOK ==
  ASSUME ProducerOK, RequestedOnce', LoopTypeOK', WireTypeOK', HandFull',
         replies' \in Seq(DownMessages),
         UNCHANGED <<loop, aborters, aborted, removals, returnValue, workVars, stopSignal>>,
         replyTask' \in {"waiting", "sending", "flushing", "stopped"},
         replyHand' \in Seq(DownMessages)
  PROVE  ProducerOK'
<1>1. Bookkeeping' /\ NoAborterLeak' /\ TimedOutIdle'
  BY Undisturbed DEF ProducerOK, workVars
<1>2. ProducerTypeOK'
  BY DEF ProducerOK, ProducerTypeOK, WorkTypeOK, ReplyTypeOK, workVars
<1> QED  BY <1>1, <1>2 DEF ProducerOK

-----------------------------------------------------------------------------
(* The loop                                                                *)

\* What the callback may answer now is among what it may ever answer.
LEMMA SendRequestsType ==
  SendAnswers \subseteq SendRequests /\ SendRequests \subseteq Strategies
BY ProducerAssumption DEF SendAnswers, SendRequests, SendErrors

\* Leaving the loop keeps the invariant, if an own timeout finds no aborters.
LEMMA HandleShutdownOK ==
  ASSUME ProducerOK, NEW cause \in ShutdownTypes, loop = "running",
         HandleShutdown(cause), RequestedOnce', WireTypeOK',
         idleTimer' \in {"never", "running", "elapsed"},
         UNCHANGED <<aborters, aborted, removals, workVars, replyVars>>,
         cause = "Timeout" =>
           \/ aborters = {}
           \/ "Timeout" \in SendRequests \cup OtherStops
  PROVE  ProducerOK'
<1>1. \A t \in StopTags : StopMsg(t) \in DownMessages
  BY DEF StopMsg, DownMessages
<1>2. replies' \in Seq(DownMessages)
  BY <1>1, AppendType
     DEF HandleShutdown, StopTags, ProducerOK, ProducerTypeOK, ReplyTypeOK
<1>3. ProducerTypeOK' /\ HandFull'
  BY <1>2
     DEF ProducerOK, ProducerTypeOK, LoopTypeOK, WorkTypeOK, ReplyTypeOK, HandFull,
         HandleShutdown, workVars, replyVars
<1>4. Bookkeeping' /\ NoAborterLeak'
  BY DEF ProducerOK, Bookkeeping, StopIsAnswer, Undecided, Drained, BusyCovered, FiredOnce,
         NoAborterLeak, HandleShutdown, workVars, replyVars
<1>5. TimedOutIdle'
  BY DEF ProducerOK, Bookkeeping, BusyCovered, TimedOutIdle, HandleShutdown, workVars
<1> QED  BY <1>3, <1>4, <1>5 DEF ProducerOK

\* Reading a request starts a task that the map knows.
LEMMA StartTaskOK ==
  ASSUME ProducerOK, ProducerReceive, IsRequest(Head(up)), requested' = requested
  PROVE  ProducerOK'
<1> DEFINE r == Head(up).id
<1>1. Head(up) \in UpMessages /\ Tail(up) \in Seq(UpMessages) /\ r \in Requests
  <2>1. Head(up) \in UpMessages /\ Tail(up) \in Seq(UpMessages)
    BY FrontType DEF ProducerOK, WireTypeOK, ProducerReceive
  <2> QED  BY <2>1 DEF UpMessages
<1>2. /\ StartTask(r) /\ ResetIdleTimer
      /\ loop = "running" /\ up # <<>> /\ up' = Tail(up)
      /\ UNCHANGED <<loop, removals, returnValue, yielded, replies, replyVars,
                     down, connected>>
  BY DEF ProducerReceive, IsRequest
<1>3. RequestedOnce'
  BY <1>1, <1>2, TailOnce DEF ProducerOK, Bookkeeping, WireTypeOK, StartTask
<1>4. ProducerTypeOK' /\ WireTypeOK' /\ HandFull'
  BY <1>1, <1>2
     DEF ProducerOK, ProducerTypeOK, LoopTypeOK, WorkTypeOK, ReplyTypeOK, WireTypeOK,
         HandFull, StartTask, ResetIdleTimer, replyVars
<1>5. r \notin aborters \cup aborted
  <2>1. 1 \in 1..Len(up) /\ Head(up) = up[1]
    BY <1>2, LenProperties, EmptySeq, HeadTailProperties DEF ProducerOK, WireTypeOK
  <2> QED  BY <2>1 DEF ProducerOK, Bookkeeping, RequestedOnce
<1>6. Bookkeeping'
  BY <1>1, <1>2, <1>3, <1>5
     DEF ProducerOK, ProducerTypeOK, WorkTypeOK, Bookkeeping, StopIsAnswer, Undecided,
         Drained, BusyCovered, FiredOnce, StartTask, replyVars
<1>7. NoAborterLeak'
  BY <1>1, <1>2
     DEF ProducerOK, ProducerTypeOK, WorkTypeOK, LoopTypeOK, NoAborterLeak, StartTask
<1>8. TimedOutIdle'
  BY <1>2 DEF ProducerOK, Bookkeeping, Undecided, TimedOutIdle
<1> QED  BY <1>3, <1>4, <1>6, <1>7, <1>8 DEF ProducerOK

\* Taking an aborter out of the map and firing it keeps the invariant: reading
\* an abort and reading a removal both do this.
LEMMA FireOK ==
  ASSUME ProducerOK, NEW r \in Requests, loop = "running",
         aborted' = aborted \cup ({r} \cap aborters),
         aborters' = aborters \ {r},
         NoAborterLeak', RequestedOnce',
         UNCHANGED <<loop, returnValue, workVars, stopSignal>>
  PROVE  Bookkeeping' /\ TimedOutIdle'
BY DEF ProducerOK, Bookkeeping, StopIsAnswer, Undecided, Drained, BusyCovered,
       FiredOnce, TimedOutIdle, workVars

\* Reading an abort.
LEMMA AbortRequestOK ==
  ASSUME ProducerOK, ProducerReceive, ~IsRequest(Head(up)), requested' = requested
  PROVE  ProducerOK'
<1> DEFINE r == Head(up).id
<1>1. Head(up) \in UpMessages /\ Tail(up) \in Seq(UpMessages) /\ r \in Requests
  <2>1. Head(up) \in UpMessages /\ Tail(up) \in Seq(UpMessages)
    BY FrontType DEF ProducerOK, WireTypeOK, ProducerReceive
  <2> QED  BY <2>1 DEF UpMessages
<1>2. /\ AbortRequest(r) /\ ResetIdleTimer
      /\ loop = "running" /\ up # <<>> /\ up' = Tail(up)
      /\ UNCHANGED <<loop, removals, returnValue, yielded, replies, replyVars,
                     down, connected>>
  BY DEF ProducerReceive, IsRequest
<1>3. RequestedOnce'
  BY <1>1, <1>2, TailOnce DEF ProducerOK, Bookkeeping, WireTypeOK, AbortRequest
<1>4. ProducerTypeOK' /\ WireTypeOK' /\ HandFull'
  BY <1>1, <1>2
     DEF ProducerOK, ProducerTypeOK, LoopTypeOK, WorkTypeOK, ReplyTypeOK, WireTypeOK,
         HandFull, AbortRequest, ResetIdleTimer, replyVars
<1>5. NoAborterLeak'
  BY <1>2 DEF ProducerOK, NoAborterLeak, AbortRequest
<1>6. Bookkeeping' /\ TimedOutIdle'
  BY <1>1, <1>2, <1>3, <1>5, FireOK DEF AbortRequest, workVars, replyVars
<1> QED  BY <1>3, <1>4, <1>5, <1>6 DEF ProducerOK

\* A completed task's aborter leaves the map.
LEMMA RemoveAborterOK ==
  ASSUME ProducerOK, RemoveAborter, requested' = requested
  PROVE  ProducerOK'
<1> DEFINE r == Head(removals)
<1>1. r \in Requests /\ Tail(removals) \in Seq(Requests)
  BY FrontType DEF ProducerOK, ProducerTypeOK, LoopTypeOK, RemoveAborter
<1>2. ProducerTypeOK' /\ WireTypeOK' /\ HandFull'
  BY <1>1
     DEF ProducerOK, ProducerTypeOK, LoopTypeOK, WorkTypeOK, ReplyTypeOK, WireTypeOK,
         HandFull, RemoveAborter, workVars, replyVars, wire
<1>3. RequestedOnce'
  BY DEF ProducerOK, Bookkeeping, RequestedOnce, RemoveAborter, wire
<1>4. ASSUME NEW q \in Requests, q # r, Contains(removals, q)
      PROVE  Contains(Tail(removals), q)
  <2>1. PICK i \in 1..Len(removals) : removals[i] = q
    BY <1>4 DEF Contains
  <2>2. /\ Len(removals) \in Nat
        /\ Len(Tail(removals)) = Len(removals) - 1
        /\ \A j \in 1..Len(Tail(removals)) : Tail(removals)[j] = removals[j + 1]
        /\ r = removals[1]
    BY HeadTailProperties, LenProperties
       DEF ProducerOK, ProducerTypeOK, LoopTypeOK, RemoveAborter
  <2>3. i # 1
    BY <1>4, <2>1, <2>2
  <2>4. i - 1 \in 1..Len(Tail(removals)) /\ (i - 1) + 1 = i
    BY <2>1, <2>2, <2>3
  <2>5. Tail(removals)[i - 1] = q
    BY <2>1, <2>2, <2>4
  <2> QED  BY <2>4, <2>5 DEF Contains
<1>5. NoAborterLeak'
  BY <1>4
     DEF ProducerOK, ProducerTypeOK, LoopTypeOK, NoAborterLeak, RemoveAborter, workVars
<1>6. Bookkeeping' /\ TimedOutIdle'
  BY <1>1, <1>3, <1>5, FireOK DEF RemoveAborter, replyVars
<1> QED  BY <1>2, <1>3, <1>5, <1>6 DEF ProducerOK

\* After the loop, every aborter left is fired.
LEMMA DrainAbortersOK ==
  ASSUME ProducerOK, DrainAborters, requested' = requested
  PROVE  ProducerOK'
<1>1. ProducerTypeOK' /\ WireTypeOK' /\ HandFull'
  BY EmptySeq
     DEF ProducerOK, ProducerTypeOK, LoopTypeOK, WorkTypeOK, ReplyTypeOK, WireTypeOK,
         HandFull, DrainAborters, workVars, replyVars, wire
<1>2. RequestedOnce'
  BY DEF ProducerOK, Bookkeeping, RequestedOnce, DrainAborters, wire
<1>3. Bookkeeping' /\ NoAborterLeak' /\ TimedOutIdle'
  BY <1>2
     DEF ProducerOK, Bookkeeping, StopIsAnswer, Undecided, Drained, BusyCovered,
         FiredOnce, NoAborterLeak, TimedOutIdle, DrainAborters, workVars, replyVars
<1> QED  BY <1>1, <1>3 DEF ProducerOK

\* Every step of the loop keeps the invariant.
LEMMA LoopStepOK ==
  ASSUME ProducerOK, LoopStep, UNCHANGED clientSide
  PROVE  ProducerOK'
<1> USE DEF clientSide
<1>1. CASE ProducerReceive
  BY <1>1, StartTaskOK, AbortRequestOK
<1>2. CASE ProducerReceiveError
  <2>1. /\ up # <<>> /\ up \in Seq(UpMessages) /\ down \in Seq(DownMessages)
        /\ connected \in BOOLEAN /\ up' = Tail(up) /\ UNCHANGED <<down, connected>>
    BY <1>2 DEF ProducerReceiveError, ProducerOK, WireTypeOK
  <2>2. WireTypeOK'
    BY <2>1, FrontType DEF WireTypeOK
  <2>3. RequestedOnce'
    BY <1>2, <2>1, TailOnce DEF ProducerReceiveError, ProducerOK, Bookkeeping
  <2>4. idleTimer' \in {"never", "running", "elapsed"}
    BY <1>2 DEF ProducerReceiveError, ResetIdleTimer
  <2>5. PICK strategy \in ProducerReceiveStrategies :
          IF strategy = Ignore
            THEN UNCHANGED <<loop, returnValue, replies>>
            ELSE HandleShutdown(strategy)
    BY <1>2 DEF ProducerReceiveError
  <2>6. CASE strategy = Ignore
    BY <1>2, <2>2, <2>3, <2>4, <2>5, <2>6, UndisturbedOK
       DEF ProducerReceiveError, ProducerOK, ProducerTypeOK, LoopTypeOK, ReplyTypeOK,
           HandFull, replyVars
  <2>7. CASE strategy # Ignore
    <3>1. strategy \in ShutdownTypes
      BY <2>7, ProducerAssumption DEF Strategies
    <3> QED
      BY <1>2, <2>2, <2>3, <2>4, <2>5, <2>7, <3>1, HandleShutdownOK
         DEF ProducerReceiveError, OtherStops
  <2> QED  BY <2>6, <2>7
<1>3. ASSUME UNCHANGED wire
      PROVE  WireTypeOK' /\ (UNCHANGED <<aborters, aborted>> => RequestedOnce')
  BY <1>3 DEF wire, ProducerOK, WireTypeOK, Bookkeeping, RequestedOnce
<1>4. idleTimer \in {"never", "running", "elapsed"}
  BY DEF ProducerOK, ProducerTypeOK, LoopTypeOK
<1>5. CASE ProducerReceiveClosed
  BY <1>3, <1>5, HandleShutdownOK DEF ProducerReceiveClosed, ResetIdleTimer, ShutdownTypes
<1>6. CASE RemoveAborter
  BY <1>6, RemoveAborterOK
<1>7. CASE ProducerTimeoutArm
  <2>1. CASE aborters = {}
    BY <1>3, <1>4, <1>7, <2>1, HandleShutdownOK DEF ProducerTimeoutArm, ShutdownTypes
  <2>2. CASE aborters # {}
    BY <1>3, <1>7, <2>2, UndisturbedOK
       DEF ProducerTimeoutArm, ResetIdleTimer, ProducerOK, ProducerTypeOK, LoopTypeOK,
           ReplyTypeOK, HandFull, replyVars
  <2> QED  BY <2>1, <2>2
<1>8. CASE StopArm
  <2>1. stopSignal \in ShutdownTypes /\ stopSignal \in SendRequests
    BY <1>8, SendRequestsType
       DEF StopArm, ProducerOK, Bookkeeping, StopIsAnswer, Strategies
  <2> QED  BY <1>3, <1>4, <1>8, <2>1, HandleShutdownOK DEF StopArm
<1>9. CASE ProducerShutdownArm
  <2>1. PICK cause \in ProducerShutdownCauses : HandleShutdown(cause)
    BY <1>9 DEF ProducerShutdownArm
  <2>2. cause \in ShutdownTypes
    BY ProducerAssumption
  <2> QED  BY <1>3, <1>4, <1>9, <2>1, <2>2, HandleShutdownOK
           DEF ProducerShutdownArm, OtherStops
<1>10. CASE DrainAborters
  BY <1>10, DrainAbortersOK
<1> QED
  BY <1>1, <1>2, <1>5, <1>6, <1>7, <1>8, <1>9, <1>10 DEF LoopStep

-----------------------------------------------------------------------------
(* The tasks of the requests                                               *)

\* A task that queues a reply, and goes on or retires, keeps the invariant.
LEMMA QueueReplyOK ==
  ASSUME ProducerOK, requested' = requested,
         NEW r \in Requests, NEW from \in {"running", "streaming"},
         NEW to \in {"streaming", "retiring"}, NEW msg \in DownMessages,
         QueueReply(r, from, to, msg),
         yielded' \in [Requests -> 0..MaxItems]
  PROVE  ProducerOK'
<1>1. replies' \in Seq(DownMessages)
  BY AppendType DEF QueueReply, ProducerOK, ProducerTypeOK, ReplyTypeOK
<1>2. ProducerTypeOK' /\ WireTypeOK' /\ HandFull'
  BY <1>1
     DEF ProducerOK, ProducerTypeOK, LoopTypeOK, WorkTypeOK, ReplyTypeOK, WireTypeOK,
         HandFull, QueueReply, loopVars, replyVars, wire
<1>3. RequestedOnce'
  BY DEF ProducerOK, Bookkeeping, RequestedOnce, QueueReply, loopVars, wire
<1>4. /\ work \in [Requests -> {"idle", "running", "streaming", "retiring", "done"}]
      /\ work[r] \in {"running", "streaming"}
      /\ work' = [work EXCEPT ![r] = to]
      /\ UNCHANGED <<loop, aborters, aborted, removals, returnValue, stopSignal>>
  BY DEF ProducerOK, ProducerTypeOK, WorkTypeOK, QueueReply, loopVars, replyVars
<1>5. Bookkeeping'
  BY <1>3, <1>4
     DEF ProducerOK, Bookkeeping, StopIsAnswer, Undecided, Drained, BusyCovered, FiredOnce
<1>6. NoAborterLeak'
  BY <1>4 DEF ProducerOK, ProducerTypeOK, LoopTypeOK, NoAborterLeak
<1>7. TimedOutIdle'
  BY <1>4 DEF ProducerOK, TimedOutIdle
<1> QED  BY <1>2, <1>5, <1>6, <1>7 DEF ProducerOK

\* A task that ends, and has no aborter in the map or says so, keeps the
\* invariant.
LEMMA EndTaskOK ==
  ASSUME ProducerOK, requested' = requested,
         NEW r \in Requests, work' = [work EXCEPT ![r] = "done"],
         removals' \in Seq(Requests),
         \A q \in Requests : Contains(removals, q) => Contains(removals', q),
         MethodsMayPanic \/ r \notin aborters \/ Contains(removals', r),
         UNCHANGED <<loop, aborters, aborted, returnValue, idleTimer, yielded,
                     replies, replyVars, wire>>
  PROVE  ProducerOK'
<1>1. ProducerTypeOK' /\ WireTypeOK' /\ HandFull'
  BY DEF ProducerOK, ProducerTypeOK, LoopTypeOK, WorkTypeOK, ReplyTypeOK, WireTypeOK,
         HandFull, replyVars, wire
<1>2. RequestedOnce'
  BY DEF ProducerOK, Bookkeeping, RequestedOnce, wire
<1>3. Bookkeeping'
  BY <1>2
     DEF ProducerOK, ProducerTypeOK, WorkTypeOK, Bookkeeping, StopIsAnswer, Undecided,
         Drained, BusyCovered, FiredOnce, replyVars
<1>4. NoAborterLeak'
  BY DEF ProducerOK, ProducerTypeOK, LoopTypeOK, WorkTypeOK, NoAborterLeak
<1>5. TimedOutIdle'
  BY DEF ProducerOK, ProducerTypeOK, WorkTypeOK, TimedOutIdle
<1> QED  BY <1>1, <1>3, <1>4, <1>5 DEF ProducerOK

\* Every step of a request's task keeps the invariant, its panic included.
LEMMA WorkStepOK ==
  ASSUME ProducerOK, NEW r \in Requests, WorkStep(r) \/ PanicTask(r),
         UNCHANGED clientSide
  PROVE  ProducerOK'
<1> USE DEF clientSide
<1>1. /\ removals \in Seq(Requests)
      /\ yielded \in [Requests -> 0..MaxItems]
  BY DEF ProducerOK, ProducerTypeOK, LoopTypeOK, WorkTypeOK
<1>2. CASE FinishValue(r)
  BY <1>1, <1>2, MessageTypes, QueueReplyOK DEF FinishValue
<1>3. CASE OpenStream(r)
  BY <1>1, <1>3, MessageTypes, QueueReplyOK DEF OpenStream
<1>4. CASE YieldItem(r)
  <2>1. /\ yielded[r] + 1 \in 0..MaxItems /\ yielded[r] + 1 \in Nat
    BY <1>1, <1>4, TransportAssumption DEF YieldItem
  <2>2. yielded' \in [Requests -> 0..MaxItems]
    BY <1>1, <1>4, <2>1 DEF YieldItem
  <2>3. ItemMsg(r, yielded[r] + 1) \in DownMessages
    BY <2>1, MessageTypes
  <2> QED  BY <1>4, <2>2, <2>3, QueueReplyOK DEF YieldItem
<1>5. CASE EndStream(r)
  BY <1>1, <1>5, MessageTypes, QueueReplyOK DEF EndStream
<1>6. CASE Retire(r)
  <2>1. CASE loop = "stopped"
    BY <1>1, <1>6, <2>1, EndTaskOK DEF Retire, ProducerOK, Bookkeeping, Drained
  <2>2. CASE loop # "stopped"
    <3>1. removals' = Append(removals, r) /\ removals' \in Seq(Requests)
      BY <1>1, <1>6, <2>2, AppendType DEF Retire
    <3>2. /\ Len(removals) \in Nat /\ Len(removals') = Len(removals) + 1
          /\ \A i \in 1..Len(removals) : removals'[i] = removals[i]
          /\ removals'[Len(removals) + 1] = r
      BY <1>1, <3>1, AppendProperties, LenProperties
    <3>3. /\ \A q \in Requests : Contains(removals, q) => Contains(removals', q)
          /\ Contains(removals', r)
      BY <3>2 DEF Contains
    <3> QED  BY <1>6, <3>1, <3>3, EndTaskOK DEF Retire
  <2> QED  BY <2>1, <2>2
<1>7. CASE AbortTask(r)
  BY <1>1, <1>7, EndTaskOK DEF AbortTask, loopVars, ProducerOK, Bookkeeping, FiredOnce
<1>8. CASE PanicTask(r)
  BY <1>1, <1>8, EndTaskOK DEF PanicTask, loopVars
<1> QED
  BY <1>2, <1>3, <1>4, <1>5, <1>6, <1>7, <1>8 DEF WorkStep

-----------------------------------------------------------------------------
(* The reply task                                                          *)

\* Every step of the reply task keeps the invariant.
LEMMA ReplyStepOK ==
  ASSUME ProducerOK, ReplyStep, UNCHANGED clientSide
  PROVE  ProducerOK'
<1> USE DEF clientSide
<1>1. /\ LoopTypeOK /\ WireTypeOK /\ replies \in Seq(DownMessages)
      /\ replyHand \in Seq(DownMessages)
  BY DEF ProducerOK, ProducerTypeOK, ReplyTypeOK
<1>2. ASSUME UNCHANGED <<loopVars, up>>
      PROVE  LoopTypeOK' /\ RequestedOnce'
  BY <1>1, <1>2 DEF loopVars, LoopTypeOK, ProducerOK, Bookkeeping, RequestedOnce
<1>3. CASE TakeReply
  <2>1. Head(replies) \in DownMessages /\ Tail(replies) \in Seq(DownMessages)
    BY <1>1, <1>3, FrontType DEF TakeReply
  <2>2. replyHand' \in Seq(DownMessages) /\ replyHand' # <<>>
    BY <1>3, <2>1 DEF TakeReply
  <2> QED
    BY <1>1, <1>2, <1>3, <2>1, <2>2, UndisturbedOK
       DEF TakeReply, HandFull, WireTypeOK, loopVars, wire
<1>4. CASE FeedReply
  <2>1. replyHand # <<>> /\ Head(replyHand) \in DownMessages
    BY <1>1, <1>4, FrontType DEF FeedReply, ProducerOK, HandFull
  <2>2. WireTypeOK'
    BY <1>1, <1>4, <2>1, AppendType DEF FeedReply, WireTypeOK
  <2> QED
    BY <1>1, <1>2, <1>4, <2>1, <2>2, UndisturbedOK DEF FeedReply, HandFull, loopVars
<1>5. CASE ReplyOk
  BY <1>1, <1>2, <1>5, EmptySeq, UndisturbedOK
     DEF ReplyOk, HandFull, WireTypeOK, loopVars, wire
<1>6. CASE ReplyErr
  <2>1. stopSignal' # "none" => stopSignal' \in SendRequests \ {Ignore}
    BY <1>6, SendRequestsType DEF ReplyErr, ProducerOK, Bookkeeping, StopIsAnswer
  <2>2. ProducerTypeOK' /\ WireTypeOK' /\ HandFull'
    <3>1. stopSignal' \in {"none"} \cup ShutdownTypes
      BY <2>1, SendRequestsType DEF Strategies
    <3> QED
      BY <1>1, <1>6, <3>1, EmptySeq
         DEF ReplyErr, ProducerOK, ProducerTypeOK, LoopTypeOK, WorkTypeOK, ReplyTypeOK,
             WireTypeOK, HandFull, loopVars, workVars, wire
  <2>3. RequestedOnce'
    BY <1>2, <1>6 DEF ReplyErr, wire
  <2>4. Bookkeeping' /\ NoAborterLeak' /\ TimedOutIdle'
    BY <1>6, <2>1, <2>3
       DEF ReplyErr, ProducerOK, Bookkeeping, StopIsAnswer, Undecided, Drained,
           BusyCovered, FiredOnce, NoAborterLeak, TimedOutIdle, loopVars, workVars
  <2> QED  BY <2>2, <2>4 DEF ProducerOK
<1>7. CASE EndReplies
  BY <1>1, <1>2, <1>7, UndisturbedOK DEF EndReplies, HandFull, WireTypeOK, loopVars
<1> QED  BY <1>3, <1>4, <1>5, <1>6, <1>7 DEF ReplyStep

-----------------------------------------------------------------------------
(* The consumer's end                                                      *)

\* What the consumer and the connection do keeps the invariant.
LEMMA ClientStepOK ==
  ASSUME ProducerOK, ClientOK, ClientNext, UNCHANGED <<producerVars, told>>
  PROVE  ProducerOK' /\ ClientOK'
<1> USE DEF clientSide
<1>1. /\ LoopTypeOK /\ HandFull
      /\ up \in Seq(UpMessages) /\ down \in Seq(DownMessages) /\ connected \in BOOLEAN
      /\ RequestedOnce
  BY DEF ProducerOK, ProducerTypeOK, WireTypeOK, Bookkeeping
<1>2. ASSUME WireTypeOK', RequestedOnce'
      PROVE  ProducerOK'
  <2>1. LoopTypeOK' /\ HandFull'
    BY <1>1 DEF LoopTypeOK, HandFull, producerVars, loopVars, replyVars
  <2> QED
    BY <1>2, <2>1, UndisturbedOK
       DEF ProducerOK, ProducerTypeOK, ReplyTypeOK, producerVars, loopVars, replyVars
<1>3. ASSUME NEW r \in Requests, ClientRequest(r)
      PROVE  ProducerOK' /\ ClientOK'
  <2>1. RequestMsg(r) \in UpMessages /\ RequestMsg(r).id = r
    BY MessageTypes DEF RequestMsg
  <2>2. WireTypeOK'
    BY <1>1, <1>3, <2>1, AppendType DEF ClientRequest, ClientSend, WireTypeOK
  <2>3. RequestedOnce'
    BY <1>1, <1>3, <2>1, AppendOnce
       DEF ClientRequest, ClientSend, producerVars, loopVars
  <2>4. ClientOK'
    BY <1>3 DEF ClientOK, ClientRequest
  <2> QED  BY <1>2, <2>2, <2>3, <2>4
<1>4. ASSUME NEW r \in Requests, ClientAbort(r)
      PROVE  ProducerOK' /\ ClientOK'
  <2>1. AbortMsg(r) \in UpMessages /\ ~IsRequest(AbortMsg(r))
    BY MessageTypes DEF AbortMsg, IsRequest
  <2>2. WireTypeOK'
    BY <1>1, <1>4, <2>1, AppendType DEF ClientAbort, ClientSend, WireTypeOK
  <2>3. RequestedOnce'
    BY <1>1, <1>4, <2>1, AppendOnce
       DEF ClientAbort, ClientSend, producerVars, loopVars
  <2>4. ClientOK'
    BY <1>4, ServingAssumption DEF ClientOK, ClientAbort
  <2> QED  BY <1>2, <2>2, <2>3, <2>4
<1>5. ASSUME UNCHANGED clientSide
      PROVE  ClientOK'
  BY <1>5 DEF ClientOK
<1>6. ASSUME UNCHANGED <<up, clientSide>>
      PROVE  RequestedOnce'
  BY <1>1, <1>6 DEF RequestedOnce, producerVars, loopVars
<1>7. CASE ClientRead
  BY <1>1, <1>2, <1>5, <1>6, <1>7, FrontType DEF ClientRead, WireTypeOK
<1>8. CASE ClientHangup
  BY <1>1, <1>2, <1>5, <1>6, <1>8 DEF ClientHangup, WireTypeOK
<1>9. CASE Disconnect /\ UNCHANGED clientSide
  <2>1. WireTypeOK'
    BY <1>1, <1>9, PrefixType DEF Disconnect, WireTypeOK
  <2>2. RequestedOnce'
    BY <1>1, <1>9, PrefixOnce DEF Disconnect, producerVars, loopVars
  <2> QED  BY <1>2, <1>5, <1>9, <2>1, <2>2
<1> QED  BY <1>3, <1>4, <1>7, <1>8, <1>9 DEF ClientNext

-----------------------------------------------------------------------------
(* The inductive invariant                                                 *)

\* The invariant holds before the first message.
LEMMA InitOK == Init => IInv
<1> SUFFICES ASSUME Init PROVE IInv
  OBVIOUS
<1> USE DEF Init, ProducerInit, WireInit
<1>1. ProducerTypeOK /\ WireTypeOK /\ HandFull
  BY EmptySeq, TransportAssumption
     DEF ProducerTypeOK, LoopTypeOK, WorkTypeOK, ReplyTypeOK, WireTypeOK, HandFull
<1>2. RequestedOnce
  BY DEF RequestedOnce
<1>3. Bookkeeping /\ NoAborterLeak /\ TimedOutIdle
  BY <1>2
     DEF Bookkeeping, StopIsAnswer, Undecided, Drained, BusyCovered, FiredOnce,
         NoAborterLeak, TimedOutIdle
<1>4. ClientOK
  BY ServingAssumption DEF ClientOK
<1> QED  BY <1>1, <1>3, <1>4 DEF IInv, ProducerOK

\* Every step of the producer, its consumer and the connection keeps it.
LEMMA NextOK == IInv /\ [Next]_vars => IInv'
<1> SUFFICES ASSUME IInv, [Next]_vars PROVE IInv'
  OBVIOUS
<1>1. ProducerOK /\ ClientOK
  BY DEF IInv
<1>2. CASE ProducerNext /\ Tell /\ UNCHANGED clientSide
  <2>1. told' \subseteq Requests
    BY <1>1, <1>2 DEF Tell, Busy, AbortRead, ClientOK
  <2>2. ClientOK'
    BY <1>1, <1>2, <2>1 DEF ClientOK, clientSide
  <2>3. CASE ProducerTimerElapses
    <3>1. LoopTypeOK' /\ WireTypeOK' /\ HandFull' /\ RequestedOnce'
      BY <1>1, <1>2, <2>3
         DEF ProducerTimerElapses, ProducerOK, ProducerTypeOK, LoopTypeOK, WireTypeOK,
             HandFull, Bookkeeping, RequestedOnce, replyVars, wire, clientSide
    <3> QED
      BY <1>1, <2>2, <2>3, <3>1, UndisturbedOK
         DEF IInv, ProducerTimerElapses, ProducerOK, ProducerTypeOK, ReplyTypeOK, replyVars
  <2> QED
    BY <1>1, <1>2, <2>2, <2>3, LoopStepOK, WorkStepOK, ReplyStepOK
       DEF IInv, ProducerNext
<1>3. CASE ClientNext /\ UNCHANGED <<producerVars, told>>
  BY <1>1, <1>3, ClientStepOK DEF IInv
<1>4. CASE UNCHANGED vars
  BY <1>1, <1>4
     DEF IInv, ProducerOK, ClientOK, ProducerTypeOK, LoopTypeOK, WorkTypeOK, ReplyTypeOK,
         WireTypeOK, HandFull, Bookkeeping, StopIsAnswer, Undecided, Drained, BusyCovered,
         FiredOnce, RequestedOnce, NoAborterLeak, TimedOutIdle, vars, producerVars,
         loopVars, workVars, replyVars, wire, clientSide
<1> QED  BY <1>2, <1>3, <1>4 DEF Next

\* The inductive invariant holds throughout every behaviour.
THEOREM Invariance == Spec => []IInv
BY InitOK, NextOK, PTL DEF Spec

\* Type correctness: what the reply task passes on is a shutdown type, and it
\* never sends without a message.
THEOREM ServingTypeCorrect == Spec => []ServingTypeOK
<1>1. IInv => ServingTypeOK
  BY DEF IInv, ProducerOK, ClientOK, ServingTypeOK
<1> QED  BY <1>1, Invariance, PTL

\* The map of aborters keeps no completed task but those whose removal is on
\* its way, whatever the consumer sends and in whatever order tasks complete,
\* are aborted, or the producer stops.
THEOREM AbortersDoNotLeak == Spec => []NoAborterLeak
<1>1. IInv => NoAborterLeak
  BY DEF IInv, ProducerOK
<1> QED  BY <1>1, Invariance, PTL

\* The timeout of a producer only ends one that has nothing to serve, although
\* the loop knows its tasks by the map of aborters alone.
THEOREM TimeoutOnlyIdle == Spec => []TimedOutIdle
<1>1. IInv => TimedOutIdle
  BY DEF IInv, ProducerOK
<1> QED  BY <1>1, Invariance, PTL
-----------------------------------------------------------------------------
(* What Closed says of the connection                                      *)

\* The one premise of the property: nobody but a closed connection may ask for
\* Closed. Under it, neither what the loop returned nor what it is asked to
\* return says Closed while the connection is up.
OnlyCloseCloses ==
  "Closed" \notin SendStrategies["ErrTransport"] \cup OtherStops
ClosedTrue ==
  OnlyCloseCloses /\ "Closed" \in {returnValue, stopSignal} => ~connected

\* The connection never comes back.
LEMMA NeverReconnects == [Next]_vars /\ ~connected => ~connected'
<1> SUFFICES ASSUME [Next]_vars, ~connected PROVE ~connected'
  OBVIOUS
<1>1. CASE LoopStep
  BY <1>1
     DEF LoopStep, ProducerReceive, ProducerReceiveError, ProducerReceiveClosed, wire,
         RemoveAborter, ProducerTimeoutArm, StopArm, ProducerShutdownArm, DrainAborters
<1>2. CASE \E r \in Requests : WorkStep(r) \/ PanicTask(r)
  BY <1>2
     DEF WorkStep, FinishValue, OpenStream, YieldItem, EndStream, QueueReply, Retire,
         AbortTask, PanicTask, wire
<1>3. CASE ReplyStep
  BY <1>3 DEF ReplyStep, TakeReply, FeedReply, ReplyOk, ReplyErr, EndReplies, wire
<1>4. CASE ProducerTimerElapses
  BY <1>4 DEF ProducerTimerElapses, wire
<1>5. CASE ClientNext
  BY <1>5
     DEF ClientNext, ClientRequest, ClientAbort, ClientSend, ClientRead, ClientHangup,
         Disconnect
<1>6. CASE UNCHANGED vars
  BY <1>6 DEF vars, wire
<1> QED  BY <1>1, <1>2, <1>3, <1>4, <1>5, <1>6 DEF Next, ProducerNext

\* Leaving the loop for a cause that says the truth keeps it true.
LEMMA TrueCause ==
  ASSUME ClosedTrue, [Next]_vars, NEW cause, HandleShutdown(cause),
         UNCHANGED stopSignal,
         OnlyCloseCloses /\ cause = "Closed" => ~connected
  PROVE  ClosedTrue'
BY NeverReconnects DEF ClosedTrue, HandleShutdown, OnlyCloseCloses, OtherStops

\* Every step keeps it: the only answer that may say Closed is the callback's
\* to a send that found the connection closed.
LEMMA ClosedStep == ClosedTrue /\ [Next]_vars => ClosedTrue'
<1> SUFFICES ASSUME ClosedTrue, [Next]_vars PROVE ClosedTrue'
  OBVIOUS
<1>1. ASSUME UNCHANGED <<returnValue, stopSignal>> PROVE ClosedTrue'
  BY <1>1, NeverReconnects DEF ClosedTrue, OnlyCloseCloses, OtherStops
<1>2. CASE LoopStep
  <2>1. CASE ProducerReceive \/ RemoveAborter \/ DrainAborters
    BY <1>1, <2>1 DEF ProducerReceive, RemoveAborter, DrainAborters, replyVars
  <2>2. CASE ProducerReceiveError
    <3>1. PICK strategy \in ProducerReceiveStrategies :
            IF strategy = Ignore
              THEN UNCHANGED <<loop, returnValue, replies>>
              ELSE HandleShutdown(strategy)
      BY <2>2 DEF ProducerReceiveError
    <3>2. UNCHANGED stopSignal
      BY <2>2 DEF ProducerReceiveError, replyVars
    <3> QED  BY <1>1, <3>1, <3>2, TrueCause DEF OnlyCloseCloses, OtherStops
  <2>3. CASE ProducerReceiveClosed
    BY <2>3, TrueCause DEF ProducerReceiveClosed, replyVars
  <2>4. CASE ProducerTimeoutArm
    BY <1>1, <2>4, TrueCause DEF ProducerTimeoutArm, replyVars
  <2>5. CASE StopArm
    BY <2>5, TrueCause DEF StopArm, ClosedTrue, replyVars
  <2>6. CASE ProducerShutdownArm
    <3>1. PICK cause \in ProducerShutdownCauses : HandleShutdown(cause)
      BY <2>6 DEF ProducerShutdownArm
    <3>2. UNCHANGED stopSignal
      BY <2>6 DEF ProducerShutdownArm, replyVars
    <3> QED  BY <3>1, <3>2, TrueCause DEF OnlyCloseCloses, OtherStops
  <2> QED  BY <1>2, <2>1, <2>2, <2>3, <2>4, <2>5, <2>6 DEF LoopStep
<1>3. CASE \E r \in Requests : WorkStep(r) \/ PanicTask(r)
  BY <1>1, <1>3
     DEF WorkStep, FinishValue, OpenStream, YieldItem, EndStream, QueueReply, Retire,
         AbortTask, PanicTask, loopVars, replyVars
<1>4. CASE ReplyStep
  <2>1. CASE ReplyErr
    <3>1. OnlyCloseCloses /\ connected => "Closed" \notin SendAnswers
      BY DEF OnlyCloseCloses, SendAnswers, SendErrors
    <3>2. returnValue' = returnValue /\ connected' = connected
      BY <2>1 DEF ReplyErr, loopVars, wire
    <3>3. stopSignal' = stopSignal \/ stopSignal' \in SendAnswers
      BY <2>1 DEF ReplyErr
    <3> QED  BY <3>1, <3>2, <3>3 DEF ClosedTrue, OnlyCloseCloses, OtherStops
  <2>2. CASE TakeReply \/ FeedReply \/ ReplyOk \/ EndReplies
    BY <1>1, <2>2 DEF TakeReply, FeedReply, ReplyOk, EndReplies, loopVars
  <2> QED  BY <1>4, <2>1, <2>2 DEF ReplyStep
<1>5. CASE ProducerTimerElapses
  BY <1>1, <1>5 DEF ProducerTimerElapses, replyVars
<1>6. CASE UNCHANGED producerVars
  BY <1>1, <1>6 DEF producerVars, loopVars, replyVars
<1>7. CASE UNCHANGED vars
  BY <1>1, <1>7 DEF vars, producerVars, loopVars, replyVars
<1> QED  BY <1>2, <1>3, <1>4, <1>5, <1>6, <1>7 DEF Next, ProducerNext

\* Whatever the consumer does and however sends fail, a producer that returns
\* Closed has lost its connection, unless a callback or the user said Closed.
THEOREM ClosedIsTrue == Spec => []ClosedMeansClosed
<1>1. Init => ClosedTrue
  BY DEF Init, ProducerInit, ClosedTrue
<1>2. ClosedTrue => ClosedMeansClosed
  BY DEF ClosedTrue, ClosedMeansClosed, OnlyCloseCloses
<1> QED  BY <1>1, <1>2, ClosedStep, PTL DEF Spec
=============================================================================
