-------------------------------- MODULE Serving --------------------------------
(***************************************************************************)
(* The producer against any consumer: one that may request, abort, read,   *)
(* hang up or lose the connection at any time. What it does on the wire is *)
(* what Peer promises.                                                     *)
(***************************************************************************)
EXTENDS Producer, SequencesExt

CONSTANTS
  MaxAborts   \* bound: aborts the consumer sends for one request

ASSUME ServingAssumption == MaxAborts \in Nat

VARIABLES
  requested,   \* requests the consumer has sent
  abortsSent,  \* per request: aborts the consumer has sent
  told         \* history: tasks that were busy when their abort was read, or
               \* when the producer stopped

clientSide == <<requested, abortsSent>>
vars == <<producerVars, wire, clientSide, told>>

\* The variables keep their types: in particular only a shutdown type is ever
\* passed from the reply task to the loop.
ServingTypeOK ==
  /\ ProducerTypeOK /\ WireTypeOK
  /\ requested \subseteq Requests
  /\ abortsSent \in [Requests -> 0..MaxAborts]
  /\ told \subseteq Requests

Init ==
  /\ ProducerInit /\ WireInit
  /\ requested = {}
  /\ abortsSent = [r \in Requests |-> 0]
  /\ told = {}

-----------------------------------------------------------------------------
(* The consumer's end                                                      *)

ClientSend(msg) ==
  /\ connected
  /\ Len(up) < Capacity
  /\ up' = Append(up, msg)
  /\ UNCHANGED <<down, connected>>

ClientRequest(r) ==
  /\ r \notin requested
  /\ requested' = requested \cup {r}
  /\ ClientSend(RequestMsg(r))
  /\ UNCHANGED abortsSent

\* An abort may overtake its request in the consumer, and may come twice.
ClientAbort(r) ==
  /\ abortsSent[r] < MaxAborts
  /\ abortsSent' = [abortsSent EXCEPT ![r] = @ + 1]
  /\ ClientSend(AbortMsg(r))
  /\ UNCHANGED requested

ClientRead ==
  /\ down # <<>>
  /\ down' = Tail(down)
  /\ UNCHANGED <<up, connected, clientSide>>

ClientHangup ==
  /\ connected
  /\ connected' = FALSE
  /\ UNCHANGED <<up, down, clientSide>>

ClientNext ==
  \/ \E r \in Requests : ClientRequest(r) \/ ClientAbort(r)
  \/ ClientRead
  \/ ClientHangup
  \/ Disconnect /\ UNCHANGED clientSide

-----------------------------------------------------------------------------
(* What Peer sees of the producer. A reply exists for Peer once the        *)
(* transport has it.                                                       *)

Unsent == (IF replyTask = "sending" THEN replyHand ELSE <<>>) \o replies
InLine == ToSet(Unsent)

\* The last message of a stream that was cut short is still being flushed.
Flushing(r) ==
  /\ replyTask = "flushing"
  /\ Head(replyHand).tag \in {"open", "item"}
  /\ Head(replyHand).id = r

\* The items of r that the transport has, or has lost.
SentItems(r) == {n \in 1..yielded[r] : ItemMsg(r, n) \notin InLine}

\* Where Peer has the task of r, by the first of its replies that waits.
Beginning(r) == ValueMsg(r) \in InLine \/ OpenMsg(r) \in InLine
Continuing(r) ==
  ClosedMsg(r) \in InLine \/ \E n \in 1..yielded[r] : ItemMsg(r, n) \in InLine
PeerState(r) ==
  IF Beginning(r) THEN "serving"
  ELSE IF Continuing(r) THEN "open"
  ELSE CASE work[r] = "idle"      -> "idle"
         [] work[r] = "running"   -> "serving"
         [] work[r] = "streaming" -> "open"
         [] OTHER                 -> IF Flushing(r) THEN "open" ELSE "done"

Notice ==
  IF StopMsg("stop_shutdown") \in InLine THEN <<StopMsg("stop_shutdown")>>
  ELSE IF StopMsg("stop_aborted") \in InLine THEN <<StopMsg("stop_aborted")>>
  ELSE <<>>

PeerMap == [r \in Requests |-> PeerState(r)]
SentMap == [r \in Requests |-> Cardinality(SentItems(r))]

Contract == INSTANCE Peer WITH
  PeerStops   <- ShutdownTypes,
  Disconnects <- TRUE,
  peer        <- PeerMap,
  itemsSent   <- SentMap,
  cancelled   <- told,
  listening   <- loop = "running",
  notice      <- Notice

Busy == {r \in Requests : PeerState(r) \in {"serving", "open"}}

AbortRead == IF Head(up).payload = "abort" THEN {Head(up).id} \cap Busy ELSE {}

Tell == told' = told \cup IF loop = "running" /\ loop' = "draining" THEN Busy
                          ELSE IF ProducerReceive THEN AbortRead
                          ELSE {}

Next == \/ ProducerNext /\ Tell /\ UNCHANGED clientSide
        \/ ClientNext /\ UNCHANGED <<producerVars, told>>

Spec == Init /\ [][Next]_vars

\* The executor runs every task that is ready, and select! favours no arm that
\* is. Methods complete, but streams need not end, and nobody has to shut the
\* producer down; the consumer reads what it is sent.
Quiet == Tell /\ UNCHANGED clientSide
FairSpec ==
  /\ Spec
  /\ WF_vars((ProducerReceive \/ ProducerReceiveClosed) /\ Quiet)
  /\ WF_vars(RemoveAborter /\ Quiet)
  /\ WF_vars(ProducerTimeoutArm /\ Quiet)
  /\ WF_vars(StopArm /\ Quiet)
  /\ WF_vars(DrainAborters /\ Quiet)
  /\ WF_vars(ProducerTimerElapses /\ Quiet)
  /\ WF_vars(ReplyStep /\ Quiet)
  /\ \A r \in Requests :
       /\ WF_vars((FinishValue(r) \/ OpenStream(r) \/ Retire(r)) /\ Quiet)
       /\ WF_vars(AbortTask(r) /\ Quiet)
  /\ WF_vars(ClientRead /\ UNCHANGED <<producerVars, told>>)

-----------------------------------------------------------------------------
(* Properties                                                              *)

\* The producer keeps the contract that sessions are checked against: replies
\* in order, at most one end per request, no task ended but by its method or
\* by an abort that reached it. The consumer and the network may close the
\* connection at any time, so this says nothing of who did.
KeepsContract == Contract!PeerSpec

\* What the producer does itself, Peer allows as a step of its own, and not
\* only as one of the consumer or the network: above all it drops the
\* transport only after its loop, when every task has ended and every reply
\* and announcement has been sent or lost. A session without disconnections
\* rests on that.
ActsAsPeer ==
  [][producerVars' # producerVars => [Contract!PeerOwn]_<<Contract!peerVars, wire>>]_vars

\* The map of aborters holds no completed task, but those whose removal is on
\* its way: otherwise the producer would never be idle again. A task that
\* panics does leave its aborter behind.
NoAborterLeak ==
  ~MethodsMayPanic =>
    \A r \in aborters :
      work[r] \in {"running", "streaming", "retiring"} \/ Contains(removals, r)

\* What the callbacks and the shutdown future may ask the loop for.
SendRequests == UNION {SendStrategies[err] : err \in SendErrors}
OtherStops   == ProducerReceiveStrategies \cup ProducerShutdownCauses

\* A producer that timed out by itself (a callback or the shutdown future may
\* say Timeout too) had no request to serve: whatever still runs has been
\* aborted before.
TimedOutIdle ==
  returnValue = "Timeout" /\ "Timeout" \notin SendRequests \cup OtherStops
    => \A r \in Requests : work[r] \in {"running", "streaming"} => r \in aborted

\* A producer that returns Closed has lost its connection, unless it was told
\* to say so: a failed send says nothing of the connection but through the
\* callback, which sees the error, though the loop only sees the answer.
ClosedMeansClosed ==
  returnValue = "Closed" /\ "Closed" \notin SendStrategies["ErrTransport"] \cup OtherStops
    => ~connected

\* A producer that stops tells its consumer: in the end the connection closes.
StopHangsUp == loop # "running" ~> ~connected

\* A producer with a timeout and nothing to do stops.
IdleStops ==
  ProducerHasTimeout =>
    (<>[](up = <<>> /\ \A r \in Requests : work[r] \in {"idle", "done"})
      => <>(loop # "running"))
=============================================================================
