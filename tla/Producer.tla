------------------------------- MODULE Producer -------------------------------
(***************************************************************************)
(* The producer side of a session, as impl_produce generates it: the       *)
(* select! loop that owns the map of aborters, one spawned task per        *)
(* request, and the reply task that owns the sending half of the transport.*)
(* The three are connected by unbounded channels and never wait for each   *)
(* other, so they interleave freely.                                       *)
(***************************************************************************)
EXTENDS Transport

CONSTANTS
  ProducerHasTimeout,         \* Configuration.timeout is Some
  ProducerFaulty,             \* messages may fail with transport errors
  ProducerReceiveStrategies,  \* what receive_error_callback may answer
  SendStrategies,             \* per error: what send_error_callback may answer
  ProducerShutdownCauses,     \* what the shutdown future may resolve with
  MethodsMayPanic             \* a method of the user's producer may panic

ASSUME ProducerAssumption ==
  /\ {ProducerHasTimeout, ProducerFaulty, MethodsMayPanic} \subseteq BOOLEAN
  /\ ProducerReceiveStrategies \subseteq Strategies
  /\ SendStrategies \in [SendErrors -> SUBSET Strategies]
  /\ ProducerShutdownCauses \subseteq ShutdownTypes

VARIABLES
  loop,         \* where the producer's own task is
  aborters,     \* ids whose abort sender is in the map
  aborted,      \* ids whose task finds its abort_receiver ready
  removals,     \* ids on the remove_aborter channel
  returnValue,  \* what the producer returns, once it has decided
  idleTimer,    \* the Timeout future
  work,         \* where each request's task is
  yielded,      \* items each stream's task has queued
  replies,      \* messages queued for the reply task
  replyTask,    \* where the reply task is
  replyHand,    \* the message the reply task is sending, if any
  stopSignal    \* the stop oneshot, from the reply task to the loop

loopVars     == <<loop, aborters, aborted, removals, returnValue, idleTimer>>
workVars     == <<work, yielded>>
replyVars    == <<replyTask, replyHand, stopSignal>>
producerVars == <<loopVars, workVars, replies, replyVars>>

LoopTypeOK ==
  /\ loop \in {"running", "draining", "stopped"}
  /\ aborters \subseteq Requests
  /\ aborted \subseteq Requests
  /\ removals \in Seq(Requests)
  /\ returnValue \in {"none"} \cup ShutdownTypes
  /\ idleTimer \in {"never", "running", "elapsed"}

WorkTypeOK ==
  /\ work \in [Requests -> {"idle", "running", "streaming", "retiring", "done"}]
  /\ yielded \in [Requests -> 0..MaxItems]

ReplyTypeOK ==
  /\ replies \in Seq(DownMessages)
  /\ replyTask \in {"waiting", "sending", "flushing", "stopped"}
  /\ replyHand \in Seq(DownMessages)
  /\ stopSignal \in {"none"} \cup ShutdownTypes

ProducerTypeOK == LoopTypeOK /\ WorkTypeOK /\ ReplyTypeOK

ProducerInit ==
  /\ loop = "running"
  /\ aborters = {}
  /\ aborted = {}
  /\ removals = <<>>
  /\ returnValue = "none"
  /\ idleTimer = IF ProducerHasTimeout THEN "running" ELSE "never"
  /\ work = [r \in Requests |-> "idle"]
  /\ yielded = [r \in Requests |-> 0]
  /\ replies = <<>>
  /\ replyTask = "waiting"
  /\ replyHand = <<>>
  /\ stopSignal = "none"

-----------------------------------------------------------------------------
(* The loop                                                                *)

ResetIdleTimer ==
  idleTimer' = IF ProducerHasTimeout THEN "running" ELSE "never"

\* Mutant: the announcement overtakes the replies that wait.
HandleShutdownFirst(cause) ==
  /\ loop' = "draining"
  /\ returnValue' = cause
  /\ replies' = CASE cause = "Shutdown" -> <<StopMsg("stop_shutdown")>> \o replies
                  [] cause = "Aborted"  -> <<StopMsg("stop_aborted")>> \o replies
                  [] OTHER              -> replies

\* handle_shutdown(cause), then break out of the loop. Shutdown and Aborted
\* queue up behind the replies; Closed and Timeout are not announced.
HandleShutdown(cause) ==
  /\ loop' = "draining"
  /\ returnValue' = cause
  /\ replies' = CASE cause = "Shutdown" -> Append(replies, StopMsg("stop_shutdown"))
                  [] cause = "Aborted"  -> Append(replies, StopMsg("stop_aborted"))
                  [] OTHER              -> replies

\* handle_message, a request: keep an abort sender, spawn the method's task.
StartTask(r) ==
  /\ aborters' = aborters \cup {r}
  /\ work' = [work EXCEPT ![r] = "running"]
  /\ UNCHANGED aborted

\* handle_message, an abort: fire the abort sender, if the map still has it.
AbortRequest(r) ==
  /\ aborted' = aborted \cup ({r} \cap aborters)
  /\ aborters' = aborters \ {r}
  /\ UNCHANGED work

\* receive_option = Some(Ok(message)).
ProducerReceive ==
  /\ loop = "running"
  /\ up # <<>>
  /\ up' = Tail(up)
  /\ ResetIdleTimer
  /\ LET msg == Head(up)
     IN  IF msg.payload = "request" THEN StartTask(msg.id) ELSE AbortRequest(msg.id)
  /\ UNCHANGED <<loop, removals, returnValue, yielded, replies, replyVars,
                 down, connected>>

\* receive_option = Some(Err(error)): the message is lost and the callback
\* decides.
ProducerReceiveError ==
  /\ ProducerFaulty
  /\ loop = "running"
  /\ up # <<>>
  /\ up' = Tail(up)
  /\ ResetIdleTimer
  /\ \E strategy \in ProducerReceiveStrategies :
       IF strategy = Ignore
         THEN UNCHANGED <<loop, returnValue, replies>>
         ELSE HandleShutdown(strategy)
  /\ UNCHANGED <<aborters, aborted, removals, workVars, replyVars, down, connected>>

\* Mutant: a producer that serves does not mind a closed connection.
ProducerReceiveClosedIdle ==
  /\ loop = "running"
  /\ ~connected /\ up = <<>> /\ aborters = {}
  /\ ResetIdleTimer
  /\ HandleShutdown("Closed")
  /\ UNCHANGED <<aborters, aborted, removals, workVars, replyVars, wire>>

\* receive_option = None: the connection is closed.
ProducerReceiveClosed ==
  /\ loop = "running"
  /\ ~connected /\ up = <<>>
  /\ ResetIdleTimer
  /\ HandleShutdown("Closed")
  /\ UNCHANGED <<aborters, aborted, removals, workVars, replyVars, wire>>

\* A task has completed: its abort sender is dropped.
RemoveAborter ==
  /\ loop = "running"
  /\ removals # <<>>
  /\ removals' = Tail(removals)
  /\ aborted' = aborted \cup ({Head(removals)} \cap aborters)
  /\ aborters' = aborters \ {Head(removals)}
  /\ UNCHANGED <<loop, returnValue, idleTimer, workVars, replies, replyVars, wire>>

\* Mutant: the timeout does not look at the requests.
ProducerTimeoutArmAlways ==
  /\ loop = "running"
  /\ idleTimer = "elapsed"
  /\ HandleShutdown("Timeout")
  /\ UNCHANGED <<aborters, aborted, removals, idleTimer, workVars, replyVars, wire>>

\* The timeout future is ready: stop if no request has an aborter, and wait
\* another period otherwise.
ProducerTimeoutArm ==
  /\ loop = "running"
  /\ idleTimer = "elapsed"
  /\ IF aborters = {}
       THEN HandleShutdown("Timeout") /\ UNCHANGED idleTimer
       ELSE ResetIdleTimer /\ UNCHANGED <<loop, returnValue, replies>>
  /\ UNCHANGED <<aborters, aborted, removals, workVars, replyVars, wire>>

ProducerTimerElapses ==
  /\ idleTimer = "running"
  /\ idleTimer' = "elapsed"
  /\ UNCHANGED <<loop, aborters, aborted, removals, returnValue, workVars, replies,
                 replyVars, wire>>

\* The reply task asked to stop.
StopArm ==
  /\ loop = "running"
  /\ stopSignal # "none"
  /\ HandleShutdown(stopSignal)
  /\ UNCHANGED <<aborters, aborted, removals, idleTimer, workVars, replyVars, wire>>

\* The shutdown future resolves.
ProducerShutdownArm ==
  /\ loop = "running"
  /\ \E cause \in ProducerShutdownCauses : HandleShutdown(cause)
  /\ UNCHANGED <<aborters, aborted, removals, idleTimer, workVars, replyVars, wire>>

\* Mutant: the abort senders outlive the loop unused.
DrainAbortersSilent ==
  /\ loop = "draining"
  /\ loop' = "stopped"
  /\ removals' = <<>>
  /\ UNCHANGED <<aborters, aborted, returnValue, idleTimer, workVars, replies,
                 replyVars, wire>>

\* After the loop: fire every abort sender left, and return. The receiving
\* half of the transport and the remove_aborter channel go with the task.
DrainAborters ==
  /\ loop = "draining"
  /\ loop' = "stopped"
  /\ aborted' = aborted \cup aborters
  /\ aborters' = {}
  /\ removals' = <<>>
  /\ UNCHANGED <<returnValue, idleTimer, workVars, replies, replyVars, wire>>

-----------------------------------------------------------------------------
(* The tasks of the requests                                               *)

\* The task of r queues a reply on its way from one place to the next.
QueueReply(r, from, to, msg) ==
  /\ work[r] = from
  /\ work' = [work EXCEPT ![r] = to]
  /\ replies' = Append(replies, msg)
  /\ UNCHANGED <<loopVars, replyVars, wire>>

\* Mutant: an answered value request stays in its select!.
FinishValueAgain(r) ==
  /\ r \in ValueRequests
  /\ QueueReply(r, "running", "running", ValueMsg(r))
  /\ UNCHANGED yielded

\* select!, the method of a value request has completed. Its abort may be
\* ready too: select! takes either.
FinishValue(r) ==
  /\ r \in ValueRequests
  /\ QueueReply(r, "running", "retiring", ValueMsg(r))
  /\ UNCHANGED yielded

\* The method of a stream request has returned its stream. Its abort is not
\* looked at before.
OpenStream(r) ==
  /\ r \in StreamRequests
  /\ QueueReply(r, "running", "streaming", OpenMsg(r))
  /\ UNCHANGED yielded

\* select!, the stream has an item.
YieldItem(r) ==
  /\ yielded[r] < MaxItems
  /\ QueueReply(r, "streaming", "streaming", ItemMsg(r, yielded[r] + 1))
  /\ yielded' = [yielded EXCEPT ![r] = @ + 1]

\* Mutant: the aborter of a stream that has ended is not removed.
EndStreamUnretired(r) ==
  /\ QueueReply(r, "streaming", "done", ClosedMsg(r))
  /\ UNCHANGED yielded

\* select!, the stream has ended.
EndStream(r) ==
  /\ QueueReply(r, "streaming", "retiring", ClosedMsg(r))
  /\ UNCHANGED yielded

\* A completed task has its aborter removed, if the loop still listens.
Retire(r) ==
  /\ work[r] = "retiring"
  /\ work' = [work EXCEPT ![r] = "done"]
  /\ removals' = IF loop = "stopped" THEN removals ELSE Append(removals, r)
  /\ UNCHANGED <<loop, aborters, aborted, returnValue, idleTimer, yielded, replies,
                 replyVars, wire>>

\* select!, the abort_receiver is ready: the task ends without a word.
AbortTask(r) ==
  /\ r \in aborted
  /\ work[r] = IF r \in StreamRequests THEN "streaming" ELSE "running"
  /\ work' = [work EXCEPT ![r] = "done"]
  /\ UNCHANGED <<loopVars, yielded, replies, replyVars, wire>>

\* The user's method panics, and its task with it.
PanicTask(r) ==
  /\ MethodsMayPanic
  /\ work[r] \in {"running", "streaming"}
  /\ work' = [work EXCEPT ![r] = "done"]
  /\ UNCHANGED <<loopVars, yielded, replies, replyVars, wire>>

-----------------------------------------------------------------------------
(* The reply task                                                          *)

\* reply_receiver yields a message, and sender.send(message).await begins.
TakeReply ==
  /\ replyTask = "waiting"
  /\ replies # <<>>
  /\ replyHand' = <<Head(replies)>>
  /\ replies' = Tail(replies)
  /\ replyTask' = "sending"
  /\ UNCHANGED <<loopVars, workVars, stopSignal, wire>>

\* The transport accepts the message; the send still has to flush.
FeedReply ==
  /\ replyTask = "sending"
  /\ connected
  /\ Len(down) < Capacity
  /\ down' = Append(down, Head(replyHand))
  /\ replyTask' = "flushing"
  /\ UNCHANGED <<loopVars, workVars, replies, replyHand, stopSignal, up, connected>>

ReplyOk ==
  /\ replyTask = "flushing"
  /\ replyTask' = "waiting"
  /\ replyHand' = <<>>
  /\ UNCHANGED <<loopVars, workVars, replies, stopSignal, wire>>

\* What the callback may answer to an error that send can return by now.
SendAnswers ==
  UNION {SendStrategies[err] : err \in
           {e \in SendErrors : IF e = "ErrClosed" THEN ~connected ELSE ProducerFaulty}}

\* Mutants: an ignored error is passed on to the loop as well; the connection
\* is taken for closed whatever the error.
ReplyErrForwarding ==
  /\ replyTask \in {"sending", "flushing"}
  /\ ~connected \/ ProducerFaulty
  /\ replyTask' = "waiting"
  /\ replyHand' = <<>>
  /\ \E strategy \in SendAnswers : stopSignal' = strategy
  /\ UNCHANGED <<loopVars, workVars, replies, wire>>

ReplyErrAlwaysClosed ==
  /\ replyTask \in {"sending", "flushing"}
  /\ ~connected \/ ProducerFaulty
  /\ replyTask' = "waiting"
  /\ replyHand' = <<>>
  /\ stopSignal' = "Closed"
  /\ UNCHANGED <<loopVars, workVars, replies, wire>>

\* sender.send(message).await returned an error, before or after the message
\* reached the transport. For a response the callback decides, and the first
\* Stop it answers is passed on to the loop.
ReplyErr ==
  /\ replyTask \in {"sending", "flushing"}
  /\ ~connected \/ ProducerFaulty
  /\ replyTask' = "waiting"
  /\ replyHand' = <<>>
  /\ IF Head(replyHand).tag \in ResponseTags
       THEN \E strategy \in SendAnswers :
              stopSignal' = IF strategy # Ignore /\ stopSignal = "none"
                              THEN strategy ELSE stopSignal
       ELSE UNCHANGED stopSignal
  /\ UNCHANGED <<loopVars, workVars, replies, wire>>

\* Mutant: the reply task ends with the loop and leaves the tasks behind.
EndRepliesEarly ==
  /\ replyTask = "waiting"
  /\ replies = <<>>
  /\ loop = "stopped"
  /\ replyTask' = "stopped"
  /\ connected' = FALSE
  /\ UNCHANGED <<loopVars, workVars, replies, replyHand, stopSignal, up, down>>

\* Every reply_sender is gone: the reply task ends, and drops what is left of
\* the transport, which closes.
EndReplies ==
  /\ replyTask = "waiting"
  /\ replies = <<>>
  /\ loop = "stopped"
  /\ \A r \in Requests : work[r] \in {"idle", "done"}
  /\ replyTask' = "stopped"
  /\ connected' = FALSE
  /\ UNCHANGED <<loopVars, workVars, replies, replyHand, stopSignal, up, down>>

-----------------------------------------------------------------------------

LoopStep == \/ ProducerReceive \/ ProducerReceiveError \/ ProducerReceiveClosed
            \/ RemoveAborter \/ ProducerTimeoutArm \/ StopArm
            \/ ProducerShutdownArm \/ DrainAborters

WorkStep(r) == \/ FinishValue(r) \/ OpenStream(r) \/ YieldItem(r) \/ EndStream(r)
               \/ Retire(r) \/ AbortTask(r)

ReplyStep == TakeReply \/ FeedReply \/ ReplyOk \/ ReplyErr \/ EndReplies

ProducerNext ==
  \/ LoopStep
  \/ \E r \in Requests : WorkStep(r) \/ PanicTask(r)
  \/ ReplyStep
  \/ ProducerTimerElapses
=============================================================================
