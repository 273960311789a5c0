-------------------------------- MODULE MCRpc --------------------------------
(* Instances of Rpc for TLC: v1 and v2 call a value method, s1 a stream      *)
(* method.                                                                   *)
EXTENDS Rpc

CONSTANTS v1, v2, s1, get, watch

Kinds == [r \in Requests |-> IF r = s1 THEN watch ELSE get]

\* A user who drops nothing, and who either reads the stream of s1, calling v1
\* between its items and perhaps aborting it, or who aborts the stream. All that is
\* cut off are calls, aborts and drops, which no fairness asks of the user.
Reading ==
  /\ owner = "alive"
  /\ \A r \in Requests : phase[r] # "dropped"
  /\ phase[v1] # "uncalled" => delivered[s1] # <<>> /\ abort[s1] = "armed"

ReaderSpec ==
  /\ Init /\ [][Next /\ Reading']_vars
  /\ ConsumerFairness /\ ProducerFairness
=============================================================================
