-------------------------------- MODULE Session --------------------------------
(***************************************************************************)
(* The consumer side against any producer that keeps Peer's promises.      *)
(***************************************************************************)
EXTENDS Consumer, Peer

vars == <<consumerVars, peerVars, wire>>

Init == ConsumerInit /\ PeerInit /\ WireInit

Next == \/ ConsumerNext /\ UNCHANGED peerVars
        \/ PeerNext /\ UNCHANGED consumerVars

Spec == Init /\ [][Next]_vars

\* The variables of both ends and of the wire keep their types: in particular
\* `pending -= 1` never wraps.
TypeOK == ConsumerTypeOK /\ PeerTypeOK /\ WireTypeOK

-----------------------------------------------------------------------------
(* Fairness                                                                *)

\* The executor runs every task that is ready, users await the futures and
\* streams they keep, and select! favours no branch. Each arm uses up what
\* makes it ready, so fairness to all of them together leaves none behind.
ConsumerFairness ==
  /\ \A r \in Requests :
       /\ WF_vars(Finish(r) /\ UNCHANGED peerVars)
       /\ SF_vars(Preemptible /\ (Poll(r) \/ PollNext(r)) /\ UNCHANGED peerVars)
  /\ SF_vars(Preemptible /\ TaskDue /\ UNCHANGED peerVars)
  /\ WF_vars(TimerElapses /\ UNCHANGED peerVars)

\* The producer reads what it is sent, and its methods complete.
PeerFairness ==
  /\ WF_vars(PeerReceive /\ UNCHANGED consumerVars)
  /\ WF_vars(PeerAnnounce /\ UNCHANGED consumerVars)
  /\ WF_vars(PeerHangup /\ UNCHANGED consumerVars)
  /\ \A r \in Requests :
       WF_vars((PeerReplies(r) \/ PeerUnheard(r) \/ PeerCancel(r)) /\ UNCHANGED consumerVars)

FairSpec == Spec /\ ConsumerFairness /\ PeerFairness

-----------------------------------------------------------------------------
(* Properties                                                              *)

AwaitingResult == {r \in Requests : entries[r] = "pending"}

\* ConsumerState.pending never falls below the number of registered requests
\* whose result is still owed: `pending -= 1` cannot underflow, and a consumer
\* that owes a result is never idle. Whatever the transport loses.
PendingCoversOwed == pending >= Cardinality(AwaitingResult)

\* Over a transport that loses nothing the count is exact while the loop
\* runs: an idle consumer is never timed out.
PendingIsExact ==
  ~Faulty /\ task \notin {"draining", "stopped"}
    => pending = Cardinality(AwaitingResult)

\* Messages on their way to the producer that r may be among, oldest first.
Pipeline(r) ==
  up \o (IF task = "sending" THEN inHand ELSE <<>>) \o queue[MethodOf[r]]

\* The user no longer wants r: the handle was dropped or its abort was seen.
Abandoned(r) ==
  \/ phase[r] = "dropped"
  \/ phase[r] \in {"resolved", "ended"} /\ abort[r] = "signalled"

\* Neither the network nor either side has ended the session.
SessionUp == connected /\ listening /\ task \notin {"draining", "stopped"}

\* The producer does not work for a caller that is gone: while the session is
\* up, work on an abandoned request that has not been told to stop has an abort
\* on its way.
AbandonedWorkCalledOff ==
  \A r \in Requests :
    Abandoned(r) /\ SessionUp /\ r \in Working \ cancelled =>
      Contains(Pipeline(r), AbortMsg(r))

\* Nor does it begin to: an abandoned request that is still on its way to the
\* producer has its abort behind it, in a channel, in hand or on the wire.
AbandonedWorkIsAborted ==
  /\ AbandonedWorkCalledOff
  /\ \A r \in Requests :
       Abandoned(r) /\ SessionUp =>
         LET line == Pipeline(r)
         IN  \A i \in 1..Len(line) : line[i] = RequestMsg(r) =>
               \E j \in (i+1)..Len(line) : line[j] = AbortMsg(r)

\* A stream returns the producer's items in order, without gap or repetition,
\* and so does what is buffered behind them.
Upto(n) == [i \in 1..n |-> i]
ItemsInOrder ==
  \A r \in StreamRequests :
    \E n \in 0..itemsSent[r] : delivered[r] \o values[r] = Upto(n)

\* A stream that ends by itself, in a session that is up, has returned every
\* item of a producer stream that has ended.
StreamsEndComplete ==
  \A r \in StreamRequests :
    phase[r] = "ended" /\ abort[r] = "armed" /\ connected
      /\ task \notin {"draining", "stopped"}
      => peer[r] = "done" /\ delivered[r] = Upto(itemsSent[r])

\* What the callers see of all this.
HandleState(r) ==
  CASE phase[r] = "uncalled"                 -> "uncalled"
    [] phase[r] = "dropped"                  -> "dropped"
    [] phase[r] \in {"resolved", "ended"}     -> "over"
    [] phase[r] \in {"streaming", "checking"} -> "streaming"
    [] OTHER                                 -> "pending"

Caller == INSTANCE RequestContract WITH
  handle    <- [r \in Requests |-> HandleState(r)],
  answer    <- outcome,
  got       <- delivered,
  sent      <- itemsSent,
  replied   <- {r \in Requests : peer[r] \in {"open", "done"}},
  finished  <- {r \in Requests : peer[r] = "done"},
  calledOff <- {r \in Requests : abort[r] # "armed"},
  down      <- task \in {"draining", "stopped"} \/ ~connected

\* Channels, the task, its maps and the wire together do for every caller what
\* RequestContract says: one outcome, no error without a cause, no item lost,
\* repeated or out of order, no end before the last of them.
KeepsCallersContract == Caller!Spec

\* A stream request whose result is an error does not resolve to a stream.
StreamErrorReported ==
  \A r \in StreamRequests : outcome[r] = "Ok" => result[r] = "Ok"

\* Error::Dropped is only returned once the Consumer was dropped.
DroppedMeansConsumerDropped ==
  \A r \in Requests : outcome[r] = "ErrDropped" => owner = "dropped"

\* Every request that is polled resolves, unless its handle is dropped.
EveryRequestResolves ==
  \A r \in Requests :
    phase[r] \in {"starting", "polling", "waiting"}
      ~> phase[r] \notin {"starting", "polling", "waiting"}

\* Dropping the Consumer ends its task.
DropEndsTask == owner = "dropped" ~> task = "stopped"

\* Values received before abort() was called are returned by the stream.
ValuesBeforeAbortReturned ==
  \A r \in StreamRequests : \A n \in 1..MaxItems :
    (phase[r] \in {"streaming", "checking"} /\ abort[r] = "armed"
       /\ Len(delivered[r]) + Len(values[r]) >= n)
      ~> (Len(delivered[r]) >= n \/ phase[r] = "dropped")
=============================================================================
