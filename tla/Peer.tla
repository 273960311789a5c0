--------------------------------- MODULE Peer ---------------------------------
(***************************************************************************)
(* What a producer promises on the wire, without how it keeps it: it       *)
(* answers the requests it received, each as its method's kind demands,    *)
(* and may stop. An aborted task may still get a last word in: its abort   *)
(* and its result race in a select!.                                       *)
(***************************************************************************)
EXTENDS Transport

CONSTANTS
  PeerStops,    \* ShutdownTypes the producer may stop with
  Disconnects   \* the network may cut the connection

ASSUME PeerAssumption ==
  /\ PeerStops \subseteq ShutdownTypes
  /\ Disconnects \in BOOLEAN

VARIABLES
  peer,        \* per request: idle, serving, open (a stream) or done
  itemsSent,   \* per stream: items sent so far
  cancelled,   \* requests whose task has been told to abort
  listening,   \* the producer's loop is running
  notice       \* the announcement of a stop that is still to be sent, if any

peerVars == <<peer, itemsSent, cancelled, listening, notice>>

PeerTypeOK ==
  /\ peer \in [Requests -> {"idle", "serving", "open", "done"}]
  /\ itemsSent \in [Requests -> 0..MaxItems]
  /\ cancelled \subseteq Requests
  /\ listening \in BOOLEAN
  /\ notice \in Seq([tag : StopTags])

PeerInit ==
  /\ peer = [r \in Requests |-> "idle"]
  /\ itemsSent = [r \in Requests |-> 0]
  /\ cancelled = {}
  /\ listening = TRUE
  /\ notice = <<>>

Working == {r \in Requests : peer[r] \in {"serving", "open"}}

\* handle_message: start a task for a request, or abort one that runs.
PeerReceive ==
  /\ listening
  /\ up # <<>>
  /\ up' = Tail(up)
  /\ LET msg == Head(up)
     IN  IF msg.payload = "request"
           THEN /\ peer' = [peer EXCEPT ![msg.id] = "serving"]
                /\ UNCHANGED cancelled
           ELSE /\ cancelled' = cancelled \cup ({msg.id} \cap Working)
                /\ UNCHANGED peer
  /\ UNCHANGED <<itemsSent, listening, notice, down, connected>>

\* Put msg on the wire, which has room for it.
Send(msg) ==
  /\ connected
  /\ Len(down) < Capacity
  /\ down' = Append(down, msg)
  /\ UNCHANGED <<up, connected>>

\* Move the task of r from one state to the next as it sends msg.
Reply(r, from, to, msg) ==
  /\ peer[r] = from
  /\ peer' = [peer EXCEPT ![r] = to]
  /\ Send(msg)
  /\ UNCHANGED <<cancelled, listening, notice>>

PeerAnswer(r) ==
  /\ r \in ValueRequests
  /\ Reply(r, "serving", "done", ValueMsg(r))
  /\ UNCHANGED itemsSent

PeerOpen(r) ==
  /\ r \in StreamRequests
  /\ Reply(r, "serving", "open", OpenMsg(r))
  /\ UNCHANGED itemsSent

PeerItem(r) ==
  /\ itemsSent[r] < MaxItems
  /\ itemsSent' = [itemsSent EXCEPT ![r] = @ + 1]
  /\ Reply(r, "open", "open", ItemMsg(r, itemsSent[r] + 1))

PeerClose(r) ==
  /\ Reply(r, "open", "done", ClosedMsg(r))
  /\ UNCHANGED itemsSent

\* A reply that finds the connection closed is lost: only the task notices.
PeerUnheard(r) ==
  /\ ~connected
  /\ r \in Working
  /\ \E to \in IF r \in StreamRequests THEN {"open", "done"} ELSE {"done"} :
       peer' = [peer EXCEPT ![r] = to]
  /\ \E n \in {itemsSent[r], itemsSent[r] + 1} \cap 0..MaxItems :
       itemsSent' = [itemsSent EXCEPT ![r] = n]
  /\ UNCHANGED <<cancelled, listening, notice, wire>>

\* The task sees its abort. A stream's task looks only once it has opened.
PeerCancel(r) ==
  /\ r \in cancelled
  /\ peer[r] = IF r \in StreamRequests THEN "open" ELSE "serving"
  /\ peer' = [peer EXCEPT ![r] = "done"]
  /\ UNCHANGED <<itemsSent, cancelled, listening, notice, wire>>

\* handle_shutdown: every task is told to abort. Shutdown and Aborted will be
\* announced, Closed and Timeout will not.
Announcement(cause) == CASE cause = "Shutdown" -> <<StopMsg("stop_shutdown")>>
                         [] cause = "Aborted"  -> <<StopMsg("stop_aborted")>>
                         [] OTHER              -> <<>>

PeerStop ==
  /\ listening
  /\ listening' = FALSE
  /\ cancelled' = cancelled \cup Working
  /\ \E cause \in PeerStops : notice' = Announcement(cause)
  /\ UNCHANGED <<peer, itemsSent, wire>>

\* The announcement takes its turn among the replies, or is lost.
PeerAnnounce ==
  /\ notice # <<>>
  /\ notice' = <<>>
  /\ IF connected THEN Send(Head(notice)) ELSE UNCHANGED wire
  /\ UNCHANGED <<peer, itemsSent, cancelled, listening>>

\* Both halves of the transport are dropped once nothing is left to be sent.
PeerHangup ==
  /\ ~listening /\ Working = {} /\ notice = <<>>
  /\ connected
  /\ connected' = FALSE
  /\ UNCHANGED <<peerVars, up, down>>

PeerReplies(r) == PeerAnswer(r) \/ PeerOpen(r) \/ PeerItem(r) \/ PeerClose(r)

\* The steps of the producer itself: nothing else of it shows on the wire.
PeerOwn ==
  \/ PeerReceive
  \/ \E r \in Requests : PeerReplies(r) \/ PeerUnheard(r) \/ PeerCancel(r)
  \/ PeerStop
  \/ PeerAnnounce
  \/ PeerHangup

PeerNext ==
  \/ PeerOwn
  \/ Disconnects /\ Disconnect /\ UNCHANGED peerVars

\* What the consumer's end does to the wire, for the producer's contract on
\* its own.
PeerEnvironment ==
  /\ \/ \E msg \in UpMessages : up' = Append(up, msg) /\ UNCHANGED <<down, connected>>
     \/ down # <<>> /\ down' = Tail(down) /\ UNCHANGED <<up, connected>>
     \/ connected' = FALSE /\ UNCHANGED <<up, down>>
  /\ UNCHANGED peerVars

PeerSpec ==
  /\ PeerInit /\ WireInit
  /\ [][PeerNext \/ PeerEnvironment]_<<peerVars, wire>>
=============================================================================
