---------------------------- MODULE RequestContract ----------------------------
(***************************************************************************)
(* What a caller may rely on, whatever happens in between: a request ends  *)
(* once, in an answer of the producer or in an error there is a reason     *)
(* for; a stream returns what the producer sent, in order, and ends by     *)
(* itself only when it has returned all of it. No channels, no task, no    *)
(* messages: only what the two users of a session see of each other.       *)
(***************************************************************************)
EXTENDS Naturals, Sequences

CONSTANTS
  Requests,        \* calls
  StreamRequests,  \* the calls of methods that return streams
  Results          \* what a request can resolve with: "Ok" and the errors

VARIABLES
  handle,    \* per call: uncalled, pending, streaming, over or dropped
  answer,    \* what each request resolved with
  got,       \* items each stream returned
  sent,      \* items the producer sent for each
  replied,   \* requests the producer answered
  finished,  \* requests the producer has nothing more to say about
  calledOff, \* requests whose abort() was called
  down       \* the session has ended, or is about to

callers == <<handle, answer, got>>
session == <<sent, replied, finished, calledOff, down>>

Init ==
  /\ handle = [r \in Requests |-> "uncalled"]
  /\ answer = [r \in Requests |-> "none"]
  /\ got = [r \in Requests |-> <<>>]
  /\ sent = [r \in Requests |-> 0]
  /\ replied = {} /\ finished = {} /\ calledOff = {}
  /\ down = FALSE

Move(r, from, to) ==
  /\ handle[r] \in from
  /\ handle' = [handle EXCEPT ![r] = to]
  /\ UNCHANGED session

Call(r) == Move(r, {"uncalled"}, "pending") /\ UNCHANGED <<answer, got>>

\* Ok is the producer's answer. A stream request also says Ok when the session
\* ended under it.
Succeed(r) ==
  /\ r \in replied \/ (down /\ r \in StreamRequests)
  /\ Move(r, {"pending"}, IF r \in StreamRequests THEN "streaming" ELSE "over")
  /\ answer' = [answer EXCEPT ![r] = "Ok"]
  /\ UNCHANGED got

\* Nothing fails but what was aborted or lost its session.
Fail(r) ==
  /\ r \in calledOff \/ down
  /\ \E err \in Results \ {"Ok"} :
       /\ ~down => err \in {"ErrAborted", "ErrDropped"}
       /\ answer' = [answer EXCEPT ![r] = err]
  /\ Move(r, {"pending"}, "over")
  /\ UNCHANGED got

\* The next item, neither before it was sent nor twice.
Return(r) ==
  /\ Len(got[r]) < sent[r]
  /\ got' = [got EXCEPT ![r] = Append(@, Len(@) + 1)]
  /\ Move(r, {"streaming"}, "streaming")
  /\ UNCHANGED answer

End(r) ==
  /\ \/ r \in calledOff
     \/ down
     \/ r \in finished /\ Len(got[r]) = sent[r]
  /\ Move(r, {"streaming"}, "over")
  /\ UNCHANGED <<answer, got>>

Drop(r) == Move(r, {"pending", "streaming", "over"}, "dropped") /\ UNCHANGED <<answer, got>>

\* The other side, the network and the aborters move on; nothing is taken back.
Proceed ==
  /\ \A r \in Requests : IF r \in finished THEN sent'[r] = sent[r] ELSE sent'[r] >= sent[r]
  /\ replied \subseteq replied' /\ finished \subseteq finished'
  /\ calledOff \subseteq calledOff'
  /\ down => down'
  /\ UNCHANGED callers

Next ==
  \/ \E r \in Requests :
       Call(r) \/ Succeed(r) \/ Fail(r) \/ Return(r) \/ End(r) \/ Drop(r)
  \/ Proceed

Spec == Init /\ [][Next]_<<callers, session>>
=============================================================================
