---------------------------------- MODULE Rpc ----------------------------------
(***************************************************************************)
(* A whole session: the consumer side and the producer side in detail, on  *)
(* the same wire. Peer stands for the producer in Session, any client for  *)
(* the consumer in Serving; here nothing stands between the two, which is  *)
(* what the questions about a session as a whole need: who waits for whom, *)
(* and whether work and connection end with it.                            *)
(***************************************************************************)
EXTENDS Consumer, Producer

CONSTANTS
  Hanging   \* calls whose method may never complete

ASSUME RpcAssumption == Hanging \subseteq Requests

vars == <<consumerVars, producerVars, wire>>

Init == ConsumerInit /\ ProducerInit /\ WireInit

Next == \/ ConsumerNext /\ UNCHANGED producerVars
        \/ ProducerNext /\ UNCHANGED consumerVars

Spec == Init /\ [][Next]_vars

\* The variables of both sides and of the wire keep their types.
RpcTypeOK == ConsumerTypeOK /\ ProducerTypeOK /\ WireTypeOK

-----------------------------------------------------------------------------
(* Fairness                                                                *)

ByConsumer == UNCHANGED producerVars
ByProducer == UNCHANGED consumerVars

\* As in Session.
ConsumerFairness ==
  /\ \A r \in Requests :
       /\ WF_vars(Finish(r) /\ ByConsumer)
       /\ SF_vars(Preemptible /\ (Poll(r) \/ PollNext(r)) /\ ByConsumer)
  /\ SF_vars(Preemptible /\ TaskDue /\ ByConsumer)
  /\ WF_vars(TimerElapses /\ ByConsumer)

\* As in Serving. A method completes unless it hangs; a stream need not end,
\* and need not yield.
ProducerFairness ==
  /\ WF_vars((ProducerReceive \/ ProducerReceiveClosed) /\ ByProducer)
  /\ WF_vars(RemoveAborter /\ ByProducer)
  /\ WF_vars(ProducerTimeoutArm /\ ByProducer)
  /\ WF_vars(StopArm /\ ByProducer)
  /\ WF_vars(DrainAborters /\ ByProducer)
  /\ WF_vars(ProducerTimerElapses /\ ByProducer)
  /\ WF_vars(ReplyStep /\ ByProducer)
  /\ \A r \in Requests :
       /\ WF_vars(Retire(r) /\ ByProducer)
       /\ WF_vars(AbortTask(r) /\ ByProducer)
  /\ \A r \in Requests \ Hanging :
       WF_vars((FinishValue(r) \/ OpenStream(r)) /\ ByProducer)

FairSpec == Spec /\ ConsumerFairness /\ ProducerFairness

-----------------------------------------------------------------------------
(* Both maps                                                               *)

Live == /\ connected /\ loop = "running"
        /\ task \notin {"draining", "stopped"}

\* The responses to r that the consumer has not handled yet.
RepliesTo(r) ==
  {msg \in ToSet(down) \cup ToSet(replyHand) \cup ToSet(replies) :
     msg.tag \in ResponseTags /\ msg.id = r}

\* The task of r has panicked: nobody will remove its aborter.
Panicked(r) == work[r] = "done" /\ r \in aborters /\ ~Contains(removals, r)

\* A request the consumer keeps in its map is one the producer has not
\* finished with: it is on its way, or being worked on, or its next reply is
\* on its way, unless its abort is just being sent or its task has panicked. So
\* no caller waits for an answer that nobody owes, and no entry outlives its
\* stream.
EntriesAccounted ==
  Live => \A r \in Requests :
    \/ entries[r] = "absent"
    \/ Contains(inHand, AbortMsg(r))
    \/ Panicked(r)
    \/ /\ entries[r] = "pending"
       /\ \/ Contains(up, RequestMsg(r))
          \/ work[r] = "running"
          \/ \E msg \in RepliesTo(r) : msg.tag \in {"value", "open"}
    \/ /\ entries[r] = "open"
       /\ work[r] = "streaming" \/ ClosedMsg(r) \in RepliesTo(r)

-----------------------------------------------------------------------------
(* Work that ends                                                          *)

Idle(r) == work[r] \notin {"running", "streaming"}

\* A stream's method is awaited without looking at the abort: if it hangs, its
\* task does.
OpeningHangs(r) == r \in StreamRequests \cap Hanging /\ work[r] = "running"

\* The user no longer wants r: the handle was dropped or its abort was seen.
Abandoned(r) ==
  \/ phase[r] = "dropped"
  \/ phase[r] \in {"resolved", "ended"} /\ abort[r] = "signalled"

\* The producer comes to the end of work nobody wants, even of a stream without
\* end, wherever in the pipeline request and abort were when the user gave up.
AbandonedWorkEnds ==
  \A r \in Requests : <>Abandoned(r) => <>[](Idle(r) \/ OpeningHangs(r))

-----------------------------------------------------------------------------
(* Sessions that end                                                       *)

\* Each side waits for the other to read: the consumer task in send, for a
\* loop that has stopped; the reply task in send, for the consumer task.
Wedged ==
  /\ task = "sending" /\ Len(up) = Capacity /\ loop # "running"
  /\ replyTask = "sending" /\ Len(down) = Capacity

\* Nothing helps a session that is stuck, no abort, no drop, no timeout and no
\* shutdown of either side: while the transport is reliable it stays stuck.
StuckStaysStuck == [][connected /\ Wedged => (connected /\ Wedged)']_vars

\* A producer that stops hangs up in the end, and only two things can keep it
\* from doing so: both sides stuck in send, or a stream's method that hangs.
StopHangsUpUnlessStuck ==
  <>(loop # "running") =>
    \/ <>~connected
    \/ <>[]Wedged
    \/ <>[](\E r \in Requests : OpeningHangs(r))

\* The consumer task is in a send that no reading will end: no other arm of its
\* select! is looked at until the connection closes, if it ever does.
Stranded ==
  connected /\ task = "sending" /\ Len(up) = Capacity /\ loop # "running"

\* A Consumer that is dropped hangs up, though its task may be in the middle of
\* a send, which only the producer's reading can end, when the drop comes.
DropHangsUpUnlessStranded ==
  <>(owner = "dropped") => <>~connected \/ <>[]Stranded

Awaited(r)  == phase[r] \in {"starting", "polling", "waiting"}
Consumed(r) == phase[r] \in {"streaming", "checking"}

\* A connection that closes ends both sides, tasks, requests and streams, with
\* the exception of a hanging opening and the reply task that waits for it.
BothSidesEnd ==
  <>~connected =>
    <>[](/\ task = "stopped" /\ loop = "stopped"
         /\ \A r \in Requests : ~Awaited(r) /\ ~Consumed(r)
         /\ \/ replyTask = "stopped"
            \/ \E r \in Requests : OpeningHangs(r))

\* Over a reliable transport no request is left waiting for ever.
AwaitedNotWedged == \A r \in Requests : Awaited(r) => ~Wedged

-----------------------------------------------------------------------------
(* Replies that arrive                                                     *)

Upto(n) == [i \in 1..n |-> i]

\* From the stream of the user's method to the user's Stream: what was returned
\* and what is buffered are the first of the items that were yielded, and a
\* Stream that ends by itself, in a session that is up, has returned them all.
StreamsEndToEnd ==
  \A r \in StreamRequests :
    /\ \E n \in 0..yielded[r] : delivered[r] \o values[r] = Upto(n)
    /\ phase[r] = "ended" /\ abort[r] = "armed" /\ connected
         /\ task \notin {"draining", "stopped"}
         => work[r] \in {"retiring", "done"} /\ delivered[r] = Upto(yielded[r])

\* The user has had enough of r, or of the session.
GivenUp(r) == abort[r] # "armed" \/ phase[r] = "dropped" \/ owner = "dropped"

\* An item that a stream yielded before the producer decided to stop is
\* returned by the consumer's Stream: the stop comes behind it all the way.
\* Unless the consumer task gets stuck in a send and reads no more: one other
\* call whose request fills the transport, and its abort, are enough for that.
ItemsArrive ==
  \/ <>[]Stranded
  \/ \A r \in StreamRequests : \A n \in 1..MaxItems :
       (loop = "running" /\ yielded[r] >= n) ~> (Len(delivered[r]) >= n \/ GivenUp(r))
=============================================================================
