------------------------------- MODULE MCServing -------------------------------
(* Instances of Serving for TLC: v1 calls a value method, s1 a stream method. *)
EXTENDS Serving

CONSTANTS v1, s1, get, watch

Kinds == [r \in Requests |-> IF r = s1 THEN watch ELSE get]

AnySendStrategies == [ErrClosed |-> {"Closed", Ignore}, ErrTransport |-> {"Shutdown", Ignore}]
=============================================================================
