------------------------------- MODULE Consumer -------------------------------
(***************************************************************************)
(* The consumer side of a session: the ValueRequest, StreamRequest and     *)
(* Stream handles user tasks hold, their Aborters, the per-method channels *)
(* they share with the consumer task, and that task's select! loop.        *)
(*                                                                         *)
(* A poll is several steps, and so is abort(): on a multi-threaded         *)
(* executor the other threads run in between. Dropping the sending half of *)
(* a oneshot or values channel is not a step: a half is alive as long as   *)
(* something owns it (ResultSenderAlive, ValuesSenderAlive).               *)
(***************************************************************************)
EXTENDS Transport, SequencesExt

CONSTANTS
  MultiThreaded,      \* handles and the consumer task may run in parallel
  HasTimeout,         \* Configuration.timeout is Some
  Faulty,             \* messages may fail with transport errors
  ReceiveStrategies,  \* what receive_error_callback may answer
  ShutdownCauses      \* what the shutdown future may resolve with

ASSUME ConsumerAssumption ==
  /\ {MultiThreaded, HasTimeout, Faulty} \subseteq BOOLEAN
  /\ ReceiveStrategies \subseteq Strategies
  /\ ShutdownCauses \subseteq ShutdownTypes

VARIABLES
  phase,      \* where each handle is in its life
  outcome,    \* what each request future resolved with
  abort,      \* the oneshot from the Aborter to its handle
  delivered,  \* items each Stream returned
  owner,      \* the Consumer is "alive" or "dropped"
  queue,      \* per method: messages sent to the consumer task
  result,     \* per request: the slot of its result oneshot
  values,     \* per request: received items not yet returned
  task,       \* where the consumer task is
  inHand,     \* the message the task is sending, if any
  entries,    \* the *__requests maps: absent, pending (result owed) or open
  pending,    \* ConsumerState.pending
  timer       \* the Timeout future

clientVars   == <<phase, outcome, abort, delivered, owner>>
channelVars  == <<queue, result, values>>
taskVars     == <<task, inHand, entries, pending, timer>>
consumerVars == <<clientVars, channelVars, taskVars>>

MidPoll == {"starting", "polling", "checking"}
Between == {"created", "waiting", "streaming", "resolved", "ended"}
Phases  == {"uncalled", "dropped"} \cup MidPoll \cup Between

ClientTypeOK ==
  /\ phase \in [Requests -> Phases]
  /\ outcome \in [Requests -> {"none"} \cup Results]
  /\ abort \in [Requests -> {"armed", "sending", "signalled"}]
  /\ delivered \in [Requests -> Seq(Nat)]
  /\ owner \in {"alive", "dropped"}

ChannelTypeOK ==
  /\ queue \in [Methods -> Seq(UpMessages)]
  /\ result \in [Requests -> {"none", "empty"} \cup Results]
  /\ values \in [Requests -> Seq(Nat)]

TaskTypeOK ==
  /\ task \in {"running", "sending", "flushing", "draining", "stopped"}
  /\ inHand \in Seq(UpMessages)
  /\ entries \in [Requests -> {"absent", "pending", "open"}]
  /\ pending \in Nat
  /\ timer \in {"never", "running", "elapsed"}

ConsumerTypeOK == ClientTypeOK /\ ChannelTypeOK /\ TaskTypeOK

ConsumerInit ==
  /\ phase = [r \in Requests |-> "uncalled"]
  /\ outcome = [r \in Requests |-> "none"]
  /\ abort = [r \in Requests |-> "armed"]
  /\ delivered = [r \in Requests |-> <<>>]
  /\ owner = "alive"
  /\ queue = [m \in Methods |-> <<>>]
  /\ result = [r \in Requests |-> "none"]
  /\ values = [r \in Requests |-> <<>>]
  /\ task = "running"
  /\ inHand = <<>>
  /\ entries = [r \in Requests |-> "absent"]
  /\ pending = 0
  /\ timer = IF HasTimeout THEN "running" ELSE "never"

-----------------------------------------------------------------------------
(* Who owns what                                                           *)

\* The ResultSender of r is still in its method's channel or in the hands of
\* the consumer task.
InPipeline(r) == \/ Contains(queue[MethodOf[r]], RequestMsg(r))
                 \/ Contains(inHand, RequestMsg(r))

ResultSenderAlive(r) == InPipeline(r) \/ entries[r] = "pending"
ValuesSenderAlive(r) == InPipeline(r) \/ entries[r] # "absent"
ValuesReceiverAlive(r) ==
  phase[r] \in {"polling", "waiting", "streaming", "checking"}

\* unbounded_send fails once the task has dropped its receivers.
Enqueue(r, msg) ==
  queue' = IF task = "stopped" THEN queue
           ELSE [queue EXCEPT ![MethodOf[r]] = Append(@, msg)]

Resolve(r, res) ==
  /\ phase' = [phase EXCEPT ![r] = "resolved"]
  /\ outcome' = [outcome EXCEPT ![r] = res]
  /\ values' = [values EXCEPT ![r] = <<>>]

-----------------------------------------------------------------------------
(* Handles                                                                 *)

\* A consumer method: a fresh id and a handle that has sent nothing yet.
Call(r) ==
  /\ owner = "alive"
  /\ phase[r] = "uncalled"
  /\ phase' = [phase EXCEPT ![r] = "created"]
  /\ UNCHANGED <<outcome, abort, delivered, owner, channelVars, taskVars, wire>>

\* poll, first half: a fired abort ends the request before anything else.
Poll(r) ==
  /\ phase[r] \in {"created", "waiting"}
  /\ IF abort[r] = "signalled"
       THEN Resolve(r, "ErrAborted")
       ELSE /\ phase' = [phase EXCEPT ![r] =
                           IF @ = "created" THEN "starting" ELSE "polling"]
            /\ UNCHANGED <<outcome, values>>
  /\ UNCHANGED <<abort, delivered, owner, queue, result, taskVars, wire>>

\* poll, with request still Some: hand it to the consumer task.
SendRequest(r) ==
  /\ phase[r] = "starting"
  /\ Enqueue(r, RequestMsg(r))
  /\ IF task = "stopped"
       THEN /\ Resolve(r, "ErrShutdown")
            /\ UNCHANGED result
       ELSE /\ phase' = [phase EXCEPT ![r] = "polling"]
            /\ result' = [result EXCEPT ![r] = "empty"]
            /\ UNCHANGED <<outcome, values>>
  /\ UNCHANGED <<abort, delivered, owner, taskVars, wire>>

\* poll, last half: look at the result oneshot. A StreamRequest maps any
\* result it finds there to Ok(Stream); a ValueRequest returns it.
PollResult(r) ==
  /\ phase[r] = "polling"
  /\ \/ /\ result[r] \in Results
        /\ IF r \in StreamRequests
             THEN /\ phase' = [phase EXCEPT ![r] = "streaming"]
                  /\ outcome' = [outcome EXCEPT ![r] = "Ok"]
                  /\ UNCHANGED values
             ELSE Resolve(r, result[r])
     \/ /\ result[r] = "empty" /\ ~ResultSenderAlive(r)
        /\ Resolve(r, "ErrDropped")
     \/ /\ result[r] = "empty" /\ ResultSenderAlive(r)
        /\ phase' = [phase EXCEPT ![r] = "waiting"]
        /\ UNCHANGED <<outcome, values>>
  /\ UNCHANGED <<abort, delivered, owner, queue, result, taskVars, wire>>

\* Mutant: the abort oneshot is looked at before the values.
PollNextAbortFirst(r) ==
  /\ phase[r] = "streaming"
  /\ phase' = [phase EXCEPT ![r] = "checking"]
  /\ UNCHANGED <<delivered, values, outcome, abort, owner, queue, result,
                 taskVars, wire>>

\* Stream::poll_next, first half: the next item, or the end of the values
\* channel, or nothing yet.
PollNext(r) ==
  /\ phase[r] = "streaming"
  /\ \/ /\ values[r] # <<>>
        /\ delivered' = [delivered EXCEPT ![r] = Append(@, Head(values[r]))]
        /\ values' = [values EXCEPT ![r] = Tail(@)]
        /\ UNCHANGED phase
     \/ /\ values[r] = <<>>
        /\ phase' = [phase EXCEPT ![r] = IF ValuesSenderAlive(r)
                                           THEN "checking" ELSE "ended"]
        /\ UNCHANGED <<delivered, values>>
  /\ UNCHANGED <<outcome, abort, owner, queue, result, taskVars, wire>>

\* Stream::poll_next, last half, with no value found: end on a fired abort,
\* dropping the values receiver with what it holds by now.
CheckAbort(r) ==
  /\ phase[r] = "checking"
  /\ IF abort[r] = "signalled"
       THEN /\ phase' = [phase EXCEPT ![r] = "ended"]
            /\ values' = [values EXCEPT ![r] = <<>>]
       ELSE /\ phase' = [phase EXCEPT ![r] = "streaming"]
            /\ UNCHANGED values
  /\ UNCHANGED <<outcome, abort, delivered, owner, queue, result, taskVars, wire>>

\* Mutant: a Stream has no Drop.
DropHandleNoStream(r) ==
  /\ phase[r] \in Between
  /\ phase' = [phase EXCEPT ![r] = "dropped"]
  /\ values' = [values EXCEPT ![r] = <<>>]
  /\ IF phase[r] \in {"resolved", "ended", "streaming"}
       THEN UNCHANGED queue
       ELSE Enqueue(r, AbortMsg(r))
  /\ UNCHANGED <<outcome, abort, delivered, owner, result, taskVars, wire>>

\* Dropping a handle that has not terminated queues an abort.
DropHandle(r) ==
  /\ phase[r] \in Between
  /\ phase' = [phase EXCEPT ![r] = "dropped"]
  /\ values' = [values EXCEPT ![r] = <<>>]
  /\ IF phase[r] \in {"resolved", "ended"}
       THEN UNCHANGED queue
       ELSE Enqueue(r, AbortMsg(r))
  /\ UNCHANGED <<outcome, abort, delivered, owner, result, taskVars, wire>>

\* Aborter::abort, two sends under the aborter's mutex: the message first...
\* A handle that made no Aborter behaves as one whose Aborter is never used.
AbortSend(r) ==
  /\ phase[r] # "uncalled"
  /\ abort[r] = "armed"
  /\ abort' = [abort EXCEPT ![r] = "sending"]
  /\ Enqueue(r, AbortMsg(r))
  /\ UNCHANGED <<phase, outcome, delivered, owner, result, values, taskVars, wire>>

\* ... then the handle's own signal.
AbortSignal(r) ==
  /\ abort[r] = "sending"
  /\ abort' = [abort EXCEPT ![r] = "signalled"]
  /\ UNCHANGED <<phase, outcome, delivered, owner, channelVars, taskVars, wire>>

\* impl Drop for Consumer.
DropConsumer ==
  /\ owner = "alive"
  /\ owner' = "dropped"
  /\ UNCHANGED <<phase, outcome, abort, delivered, channelVars, taskVars, wire>>

-----------------------------------------------------------------------------
(* The consumer task                                                       *)

ResetTimer == timer' = IF HasTimeout THEN "running" ELSE "never"

\* state.shutdown(cause), then break out of the loop.
ShutDown(cause) ==
  /\ result' = [r \in Requests |->
                  IF entries[r] = "pending" THEN ErrorFrom[cause] ELSE result[r]]
  /\ entries' = [r \in Requests |-> "absent"]
  /\ task' = "draining"
  /\ UNCHANGED <<queue, values, inHand, pending>>

\* handle_message, a value method's response.
HandleValue(r) ==
  /\ IF entries[r] = "pending"
       THEN /\ result' = [result EXCEPT ![r] = "Ok"]
            /\ entries' = [entries EXCEPT ![r] = "absent"]
            /\ pending' = pending - 1
       ELSE UNCHANGED <<result, entries, pending>>
  /\ UNCHANGED <<queue, values, task, inHand>>

\* Mutants: an opened stream stays counted; is removed.
HandleOpenCounted(r) ==
  /\ IF entries[r] = "pending"
       THEN /\ result' = [result EXCEPT ![r] = "Ok"]
            /\ entries' = [entries EXCEPT ![r] = "open"]
       ELSE UNCHANGED <<result, entries>>
  /\ UNCHANGED <<pending, queue, values, task, inHand>>

HandleOpenRemoving(r) == HandleValue(r)

\* handle_message, StreamResponse::Open: take the result sender, once.
HandleOpen(r) ==
  /\ IF entries[r] = "pending"
       THEN /\ result' = [result EXCEPT ![r] = "Ok"]
            /\ entries' = [entries EXCEPT ![r] = "open"]
            /\ pending' = pending - 1
       ELSE UNCHANGED <<result, entries, pending>>
  /\ UNCHANGED <<queue, values, task, inHand>>

\* Mutant: values are kept only once the Stream exists.
HandleItemStreaming(r, n) ==
  /\ values' = IF entries[r] # "absent" /\ phase[r] \in {"streaming", "checking"}
                 THEN [values EXCEPT ![r] = Append(@, n)] ELSE values
  /\ UNCHANGED <<queue, result, task, inHand, entries, pending>>

\* handle_message, StreamResponse::Item.
HandleItem(r, n) ==
  /\ values' = IF entries[r] # "absent" /\ ValuesReceiverAlive(r)
                 THEN [values EXCEPT ![r] = Append(@, n)] ELSE values
  /\ UNCHANGED <<queue, result, task, inHand, entries, pending>>

\* Mutant: Closed always discounts the request.
HandleClosedDiscounting(r) ==
  /\ entries' = [entries EXCEPT ![r] = "absent"]
  /\ pending' = pending - 1
  /\ UNCHANGED <<queue, result, values, task, inHand>>

\* handle_message, StreamResponse::Closed: forget the stream. A result still
\* owed is not discounted from pending.
HandleClosed(r) ==
  /\ entries' = [entries EXCEPT ![r] = "absent"]
  /\ UNCHANGED <<queue, result, values, task, inHand, pending>>

HandleMessage(msg) ==
  \/ msg.tag = "value"  /\ HandleValue(msg.id)
  \/ msg.tag = "open"   /\ HandleOpen(msg.id)
  \/ msg.tag = "item"   /\ HandleItem(msg.id, msg.item)
  \/ msg.tag = "closed" /\ HandleClosed(msg.id)
  \/ msg.tag = "stop_aborted"  /\ ShutDown("Aborted")
  \/ msg.tag = "stop_shutdown" /\ ShutDown("Shutdown")

\* receive_option = Some(Ok(message)).
Receive ==
  /\ task = "running"
  /\ down # <<>>
  /\ down' = Tail(down)
  /\ ResetTimer
  /\ HandleMessage(Head(down))
  /\ UNCHANGED <<up, connected, clientVars>>

\* receive_option = Some(Err(error)): the message is lost and the callback
\* decides.
ReceiveError ==
  /\ Faulty
  /\ task = "running"
  /\ down # <<>>
  /\ down' = Tail(down)
  /\ ResetTimer
  /\ \E strategy \in ReceiveStrategies :
       IF strategy = Ignore
         THEN UNCHANGED <<channelVars, task, inHand, entries, pending>>
         ELSE ShutDown(strategy)
  /\ UNCHANGED <<up, connected, clientVars>>

\* Mutant: a closed connection only ends an idle consumer.
ReceiveClosedIdle ==
  /\ task = "running"
  /\ ~connected /\ down = <<>> /\ pending = 0
  /\ ShutDown("Closed")
  /\ UNCHANGED <<timer, clientVars, wire>>

\* receive_option = None: the connection is closed.
ReceiveClosed ==
  /\ task = "running"
  /\ ~connected /\ down = <<>>
  /\ ShutDown("Closed")
  /\ UNCHANGED <<timer, clientVars, wire>>

\* A method's receiver yields a message, and sender.send(message).await begins.
TakeMessage(m) ==
  /\ task = "running"
  /\ queue[m] # <<>>
  /\ inHand' = <<Head(queue[m])>>
  /\ queue' = [queue EXCEPT ![m] = Tail(@)]
  /\ ResetTimer
  /\ task' = "sending"
  /\ UNCHANGED <<result, values, entries, pending, clientVars, wire>>

\* The transport accepts the message; the send still has to flush.
FeedMessage ==
  /\ task = "sending"
  /\ connected
  /\ Len(up) < Capacity
  /\ up' = Append(up, Head(inHand))
  /\ task' = "flushing"
  /\ UNCHANGED <<inHand, entries, pending, timer, down, connected,
                 clientVars, channelVars>>

\* Mutant: a request is not counted.
RegisterUncounted(r) ==
  /\ entries' = [entries EXCEPT ![r] = "pending"]
  /\ pending' = pending

\* After a successful send: register the sender of a request.
Register(r) ==
  /\ entries' = [entries EXCEPT ![r] = "pending"]
  /\ pending' = pending + 1

\* Mutant: an opened stream is discounted again.
ForgetOpenToo(r) ==
  /\ entries' = [entries EXCEPT ![r] = "absent"]
  /\ pending' = IF entries[r] # "absent" THEN pending - 1 ELSE pending

\* Mutant: the entry of an opened stream stays in the map.
ForgetPendingOnly(r) ==
  /\ entries' = [entries EXCEPT ![r] = IF @ = "open" THEN @ ELSE "absent"]
  /\ pending' = IF entries[r] = "pending" THEN pending - 1 ELSE pending

\* ResultSender::Abort, whatever the send returned: forget the request.
Forget(r) ==
  /\ entries' = [entries EXCEPT ![r] = "absent"]
  /\ pending' = IF entries[r] = "pending" THEN pending - 1 ELSE pending

\* sender.send(message).await returned Ok.
SendOk ==
  /\ task = "flushing"
  /\ LET msg == Head(inHand)
     IN  IF msg.payload = "request" THEN Register(msg.id) ELSE Forget(msg.id)
  /\ inHand' = <<>>
  /\ task' = "running"
  /\ UNCHANGED <<timer, wire, clientVars, channelVars>>

\* Mutant: the send is given up when the Consumer is dropped.
SendErrOrDrop ==
  /\ task \in {"sending", "flushing"}
  /\ ~connected \/ Faulty \/ owner = "dropped"
  /\ LET msg == Head(inHand)
     IN  IF msg.payload = "request"
           THEN /\ result' = [result EXCEPT ![msg.id] = "ErrClosed"]
                /\ UNCHANGED <<entries, pending>>
           ELSE /\ Forget(msg.id)
                /\ UNCHANGED result
  /\ inHand' = <<>>
  /\ task' = "running"
  /\ UNCHANGED <<timer, wire, clientVars, queue, values>>

\* sender.send(message).await returned an error, before or after the message
\* reached the transport.
SendErr ==
  /\ task \in {"sending", "flushing"}
  /\ \E err \in {"ErrClosed", "ErrTransport"} :
       /\ err = "ErrClosed" => ~connected
       /\ err = "ErrTransport" => Faulty
       /\ LET msg == Head(inHand)
          IN  IF msg.payload = "request"
                THEN /\ result' = [result EXCEPT ![msg.id] = err]
                     /\ UNCHANGED <<entries, pending>>
                ELSE /\ Forget(msg.id)
                     /\ UNCHANGED result
  /\ inHand' = <<>>
  /\ task' = "running"
  /\ UNCHANGED <<timer, wire, clientVars, queue, values>>

\* The timeout future is ready: shut down unless idle. An idle consumer goes
\* round the loop again with the timer elapsed, until a message resets it.
TimeoutArm ==
  /\ task = "running"
  /\ timer = "elapsed"
  /\ pending # 0
  /\ ShutDown("Timeout")
  /\ UNCHANGED <<timer, clientVars, wire>>

TimerElapses ==
  /\ timer = "running"
  /\ timer' = "elapsed"
  /\ UNCHANGED <<task, inHand, entries, pending, clientVars, channelVars, wire>>

\* The shutdown future resolves.
ShutdownArm ==
  /\ task = "running"
  /\ \E cause \in ShutdownCauses : ShutDown(cause)
  /\ UNCHANGED <<timer, clientVars, wire>>

\* Mutant: the drop is only noticed when the timer elapses.
DropArmTimed ==
  /\ task = "running"
  /\ owner = "dropped" /\ timer = "elapsed"
  /\ task' = "draining"
  /\ UNCHANGED <<inHand, entries, pending, timer, clientVars, channelVars, wire>>

\* Mutant: the drop is put off until no request is registered.
DropArmEmpty ==
  /\ task = "running"
  /\ owner = "dropped" /\ \A r \in Requests : entries[r] = "absent"
  /\ task' = "draining"
  /\ UNCHANGED <<inHand, entries, pending, timer, clientVars, channelVars, wire>>

\* The drop oneshot resolves: break without telling the requests anything.
DropArm ==
  /\ task = "running"
  /\ owner = "dropped"
  /\ task' = "draining"
  /\ UNCHANGED <<inHand, entries, pending, timer, clientVars, channelVars, wire>>

\* The task ends, and what it owns is dropped with it: the state, and both
\* halves of the transport, which closes.
DropState ==
  /\ task = "draining"
  /\ task' = "stopped"
  /\ connected' = FALSE
  /\ queue' = [m \in Methods |-> <<>>]
  /\ entries' = [r \in Requests |-> "absent"]
  /\ UNCHANGED <<result, values, inHand, pending, timer, clientVars, up, down>>

-----------------------------------------------------------------------------

\* The steps that finish what a thread has begun: on a single-threaded
\* executor nothing runs before them.
Finish(r) == SendRequest(r) \/ PollResult(r) \/ CheckAbort(r) \/ AbortSignal(r)
Preemptible ==
  MultiThreaded \/ \A r \in Requests : phase[r] \notin MidPoll /\ abort[r] # "sending"

Begin(r) == Call(r) \/ Poll(r) \/ PollNext(r) \/ DropHandle(r) \/ AbortSend(r)

TaskStep == \/ Receive \/ ReceiveError \/ ReceiveClosed
            \/ \E m \in Methods : TakeMessage(m)
            \/ FeedMessage \/ SendOk \/ SendErr
            \/ TimeoutArm \/ ShutdownArm \/ DropArm \/ DropState

\* What the consumer task must get round to: nothing makes the shutdown future
\* resolve, and nothing but a closed connection makes the transport fail.
TaskDue == \/ Receive \/ ReceiveClosed
           \/ \E m \in Methods : TakeMessage(m)
           \/ FeedMessage \/ SendOk \/ (~connected /\ SendErr)
           \/ TimeoutArm \/ DropArm \/ DropState

ConsumerNext ==
  \/ \E r \in Requests : Finish(r)
  \/ /\ Preemptible
     /\ \/ \E r \in Requests : Begin(r)
        \/ DropConsumer
        \/ TaskStep
  \/ TimerElapses
=============================================================================
