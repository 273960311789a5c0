------------------------------ MODULE Transport ------------------------------
(***************************************************************************)
(* The vocabulary shared by the two ends of a zzrpc session, and the       *)
(* mezzenger transport between them: two first-in first-out directions     *)
(* that a disconnection cuts.                                              *)
(***************************************************************************)
EXTENDS Naturals, Sequences, FiniteSets

CONSTANTS
  Requests,       \* ids handed out by id_counter, one per consumer call
  Methods,        \* methods of the api trait
  StreamMethods,  \* the methods that return impl Stream
  MethodOf,       \* the method each call invokes
  Capacity,       \* messages a direction of the transport holds
  MaxItems        \* bound: items a producer stream yields

ASSUME TransportAssumption ==
  /\ IsFiniteSet(Requests)
  /\ StreamMethods \subseteq Methods
  /\ MethodOf \in [Requests -> Methods]
  /\ Capacity \in Nat \ {0}
  /\ MaxItems \in Nat

StreamRequests == {r \in Requests : MethodOf[r] \in StreamMethods}
ValueRequests  == Requests \ StreamRequests

-----------------------------------------------------------------------------

\* consumer::Message: a request with its arguments, or its abort.
RequestMsg(r) == [id |-> r, payload |-> "request"]
AbortMsg(r)   == [id |-> r, payload |-> "abort"]
UpMessages    == [id : Requests, payload : {"request", "abort"}]

\* producer::Message with the Response it wraps. "value" answers a value
\* method; "open", "item" and "closed" are the three StreamResponses.
ValueMsg(r)    == [tag |-> "value",  id |-> r, item |-> 0]
OpenMsg(r)     == [tag |-> "open",   id |-> r, item |-> 0]
ItemMsg(r, n)  == [tag |-> "item",   id |-> r, item |-> n]
ClosedMsg(r)   == [tag |-> "closed", id |-> r, item |-> 0]
StopMsg(t)     == [tag |-> t]
ResponseTags   == {"value", "open", "item", "closed"}
StopTags       == {"stop_shutdown", "stop_aborted"}
DownMessages   == [tag : ResponseTags \ {"item"}, id : Requests, item : {0}]
                    \cup [tag : {"item"}, id : Requests, item : Nat]
                    \cup [tag : StopTags]

ShutdownTypes == {"Closed", "Shutdown", "Aborted", "Timeout"}
Errors  == {"ErrClosed", "ErrAborted", "ErrShutdown", "ErrTimeout",
            "ErrDropped", "ErrTransport"}
Results == {"Ok"} \cup Errors

\* impl From<ShutdownType> for Error.
ErrorFrom == [Closed |-> "ErrClosed", Shutdown |-> "ErrShutdown",
              Aborted |-> "ErrAborted", Timeout |-> "ErrTimeout"]

\* HandlingStrategy: ignore the error, or stop as the ShutdownType says.
Ignore     == "Ignore"
Strategies == ShutdownTypes \cup {Ignore}

\* How a send can fail, and what the default callbacks answer: a closed
\* connection stops the producer, every other error is ignored.
SendErrors == {"ErrClosed", "ErrTransport"}
DefaultSendStrategies    == [ErrClosed |-> {"Closed"}, ErrTransport |-> {Ignore}]
DefaultReceiveStrategies == {Ignore}

-----------------------------------------------------------------------------

VARIABLES
  up,         \* messages on their way to the producer
  down,       \* messages on their way to the consumer
  connected   \* the connection is up

wire == <<up, down, connected>>

WireTypeOK ==
  /\ up \in Seq(UpMessages)
  /\ down \in Seq(DownMessages)
  /\ connected \in BOOLEAN

WireInit ==
  /\ up = <<>>
  /\ down = <<>>
  /\ connected = TRUE

\* The connection is lost, and with it a suffix of what was in transit each
\* way; what had arrived before can still be read.
Disconnect ==
  /\ connected
  /\ connected' = FALSE
  /\ \E n \in 0..Len(up)   : up'   = SubSeq(up, 1, n)
  /\ \E n \in 0..Len(down) : down' = SubSeq(down, 1, n)
=============================================================================
