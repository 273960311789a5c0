------------------------------- MODULE MCSession -------------------------------
(* Instances of Session for TLC: calls v1 and v2 of a value method, calls s1 *)
(* and s2 of a stream method.                                                *)
EXTENDS Session

CONSTANTS v1, v2, s1, s2, get, watch

Kinds == [r \in Requests |-> IF r \in {s1, s2} THEN watch ELSE get]
=============================================================================
