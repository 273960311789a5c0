------------------------------ MODULE OrderProofs ------------------------------
(***************************************************************************)
(* ConsumerState.pending is exact over a transport that loses nothing. The *)
(* count drifts when a result is settled twice or not at all: when Closed  *)
(* is read before Open, or a request registered while its answer has gone  *)
(* by. So the proof follows each request on its way to the producer, and   *)
(* its replies back, for any number of calls and any capacity.             *)
(***************************************************************************)
EXTENDS SessionProofs

-----------------------------------------------------------------------------
(* Where a request is                                                      *)

TaskUp == task \notin {"draining", "stopped"}

Unmade(r) == phase[r] \in {"uncalled", "created", "starting"}
Queued(r) == Has(queue[MethodOf[r]], RequestMsg(r))
InHand(r) == task \in {"sending", "flushing"} /\ Head(inHand) = RequestMsg(r)
Coming(r) == Unmade(r) \/ Queued(r) \/ InHand(r)

\* Coming, and still out of the producer's sight.
Unsent(r) == Unmade(r) \/ Queued(r) \/ (InHand(r) /\ task = "sending")

\* Messages are in the channel of their method.
Routed ==
  \A m \in Methods : \A i \in 1..Len(queue[m]) : MethodOf[queue[m][i].id] = m

\* A request is in one place on its way, once, and registered only after.
OnePlace(r) ==
  /\ Unmade(r) => ~Queued(r) /\ ~InHand(r)
  /\ Queued(r) => ~InHand(r)
  /\ Unique(queue[MethodOf[r]], RequestMsg(r))
  /\ Coming(r) => entries[r] = "absent"

\* The producer gets it once, and says nothing about it before.
SentOnce(r) ==
  /\ Unsent(r) => peer[r] = "idle" /\ ~Has(up, RequestMsg(r))
  /\ peer[r] # "idle" => ~Has(up, RequestMsg(r))
  /\ Unique(up, RequestMsg(r))
  /\ peer[r] = "idle" => Silent(down, r) /\ itemsSent[r] = 0

\* As long as the consumer has not read Open, it is on the wire before Closed.
OpenFirst(r) ==
  Coming(r) \/ entries[r] = "pending" =>
    /\ connected /\ peer[r] = "open" => Has(down, OpenMsg(r))
    /\ Before(down, OpenMsg(r), ClosedMsg(r))

Tracked(r) == OnePlace(r) /\ SentOnce(r) /\ OpenFirst(r)
Exact      == pending = Cardinality(Owed(entries))

Order == ~Faulty /\ TaskUp => Routed /\ Exact /\ \A r \in Requests : Tracked(r)

-----------------------------------------------------------------------------
(* Steps of the handles                                                    *)

\* What a handle or its Aborter does to the channels: nothing, queue an abort,
\* or queue the request it has just made. No handle becomes unmade again.
LEMMA HandleMoves ==
  ASSUME ConsumerTypeOK, TaskUp, NEW r \in Requests, Begin(r) \/ Finish(r)
  PROVE  /\ \A q \in Requests : Unmade(q)' => Unmade(q)
         /\ \/ queue' = queue
            \/ /\ queue' = [queue EXCEPT ![MethodOf[r]] = Append(@, AbortMsg(r))]
               /\ abort'[r] # "armed" \/ phase'[r] = "dropped"
            \/ /\ Unmade(r) /\ ~Unmade(r)'
               /\ queue' = [queue EXCEPT ![MethodOf[r]] = Append(@, RequestMsg(r))]
<1> USE DEF ConsumerTypeOK, ClientTypeOK, ChannelTypeOK, Unmade, TaskUp, Between,
            channelVars, Resolve, Enqueue
<1>1. CASE Call(r)
  BY <1>1 DEF Call
<1>2. CASE Poll(r)
  BY <1>2 DEF Poll
<1>3. CASE SendRequest(r)
  BY <1>3 DEF SendRequest
<1>4. CASE PollResult(r)
  BY <1>4 DEF PollResult
<1>5. CASE PollNext(r)
  BY <1>5 DEF PollNext
<1>6. CASE CheckAbort(r)
  BY <1>6 DEF CheckAbort
<1>7. CASE DropHandle(r)
  BY <1>7 DEF DropHandle
<1>8. CASE AbortSend(r)
  BY <1>8 DEF AbortSend
<1>9. CASE AbortSignal(r)
  BY <1>9 DEF AbortSignal
<1> QED  BY <1>1, <1>2, <1>3, <1>4, <1>5, <1>6, <1>7, <1>8, <1>9 DEF Begin, Finish

\* A request whose place has not changed, or only from unmade to queued, is
\* tracked as before: the producer's end is not concerned.
LEMMA TrackedAlike ==
  ASSUME NEW r \in Requests, Tracked(r), OnePlace(r)',
         UNCHANGED <<peer, itemsSent, up, down, connected>>,
         Unsent(r)' => Unsent(r),
         Coming(r)' \/ entries'[r] = "pending" => Coming(r) \/ entries[r] = "pending"
  PROVE  Tracked(r)'
<1>1. SentOnce(r)'
  BY DEF Tracked, SentOnce
<1>2. OpenFirst(r)'
  BY DEF Tracked, OpenFirst
<1> QED  BY <1>1, <1>2 DEF Tracked

\* A handle's step keeps every request tracked.
LEMMA HandleTracks ==
  ASSUME ConsumerTypeOK, TaskUp, Routed, \A q \in Requests : Tracked(q),
         NEW r \in Requests, Begin(r) \/ Finish(r), UNCHANGED peerVars
  PROVE  Routed' /\ \A q \in Requests : Tracked(q)'
<1> USE TransportAssumption
<1>0. /\ UNCHANGED <<task, inHand, entries, peer, itemsSent, up, down, connected>>
      /\ queue \in [Methods -> Seq(UpMessages)]
  BY HandleStepType DEF taskVars, wire, peerVars, ConsumerTypeOK, ChannelTypeOK
<1>1. \A q \in Requests : Unmade(q)' => Unmade(q)
  BY HandleMoves
<1>2. \A q \in Requests : InHand(q)' <=> InHand(q)
  BY <1>0 DEF InHand
<1> DEFINE s == queue[MethodOf[r]]
<1>3. s \in Seq(UpMessages)
  BY <1>0
<1>4. CASE queue' = queue
  <2>1. Routed'
    BY <1>4 DEF Routed
  <2>2. ASSUME NEW q \in Requests
        PROVE  Tracked(q)'
    <3>1. Queued(q)' <=> Queued(q)
      BY <1>4 DEF Queued
    <3>2. OnePlace(q)'
      BY <1>0, <1>1, <1>2, <1>4, <3>1 DEF Tracked, OnePlace, Coming
    <3>3. /\ Unsent(q)' => Unsent(q)
          /\ Coming(q)' => Coming(q)
      BY <1>0, <1>1, <1>2, <3>1 DEF Unsent, Coming
    <3> QED  BY <1>0, <3>2, <3>3, TrackedAlike
  <2> QED  BY <2>1, <2>2
<1>5. ASSUME NEW msg \in {AbortMsg(r), RequestMsg(r)},
             queue' = [queue EXCEPT ![MethodOf[r]] = Append(@, msg)]
      PROVE  Routed'
  <2>1. msg \in UpMessages /\ msg.id = r
    BY MessageTypes, RequestsDiffer
  <2>2. /\ Len(s) \in Nat /\ Len(Append(s, msg)) = Len(s) + 1
        /\ \A i \in 1..Len(s) : Append(s, msg)[i] = s[i]
        /\ Append(s, msg)[Len(s) + 1] = msg
    BY <1>3, <2>1, AppendIndex
  <2>3. ASSUME NEW m \in Methods, NEW i \in 1..Len(queue'[m])
        PROVE  MethodOf[queue'[m][i].id] = m
    <3>1. CASE m # MethodOf[r]
      <4>1. queue'[m] = queue[m]
        BY <1>0, <1>5, <3>1
      <4> QED  BY <2>3, <4>1 DEF Routed
    <3>2. CASE m = MethodOf[r]
      <4>1. queue'[m] = Append(s, msg)
        BY <1>0, <1>5, <3>2
      <4>2. i \in 1..Len(s) \/ i = Len(s) + 1
        BY <2>2, <2>3, <4>1
      <4> QED  BY <2>1, <2>2, <3>2, <4>1, <4>2 DEF Routed
    <3> QED  BY <3>1, <3>2
  <2> QED  BY <2>3 DEF Routed
<1>6. ASSUME NEW msg \in {AbortMsg(r), RequestMsg(r)},
             queue' = [queue EXCEPT ![MethodOf[r]] = Append(@, msg)],
             NEW q \in Requests, msg # RequestMsg(q)
      PROVE  Tracked(q)'
  <2>1. msg \in UpMessages
    BY MessageTypes
  <2>2. /\ Queued(q)' <=> Queued(q)
        /\ Unique(queue[MethodOf[q]], RequestMsg(q))
             => Unique(queue'[MethodOf[q]], RequestMsg(q))
    <3>1. CASE MethodOf[q] # MethodOf[r]
      BY <1>0, <1>6, <3>1 DEF Queued
    <3>2. CASE MethodOf[q] = MethodOf[r]
      <4>1. queue[MethodOf[q]] = s /\ queue'[MethodOf[q]] = Append(s, msg)
        BY <1>0, <1>6, <3>2
      <4> QED  BY <1>3, <1>6, <2>1, <4>1, AppendOrder DEF Queued
    <3> QED  BY <3>1, <3>2
  <2>3. OnePlace(q)'
    BY <1>0, <1>1, <1>2, <2>2 DEF Tracked, OnePlace, Coming
  <2>4. /\ Unsent(q)' => Unsent(q)
        /\ Coming(q)' => Coming(q)
    BY <1>0, <1>1, <1>2, <2>2 DEF Unsent, Coming
  <2> QED  BY <1>0, <2>3, <2>4, TrackedAlike
<1>7. CASE queue' = [queue EXCEPT ![MethodOf[r]] = Append(@, AbortMsg(r))]
  BY <1>5, <1>6, <1>7, RequestsDiffer
<1>8. CASE /\ Unmade(r) /\ ~Unmade(r)'
           /\ queue' = [queue EXCEPT ![MethodOf[r]] = Append(@, RequestMsg(r))]
  <2>1. \A q \in Requests \ {r} : Tracked(q)'
    BY <1>6, <1>8, RequestsDiffer
  <2>2. Tracked(r)'
    <3>1. OnePlace(r)
      BY DEF Tracked
    <3>2. ~Queued(r) /\ ~InHand(r) /\ entries[r] = "absent"
      BY <1>8, <3>1 DEF OnePlace, Coming
    <3>3. queue'[MethodOf[r]] = Append(s, RequestMsg(r))
      BY <1>0, <1>8
    <3>4. Unique(s, RequestMsg(r)) /\ ~Has(s, RequestMsg(r))
      BY <3>1, <3>2 DEF OnePlace, Queued
    <3>5. Unique(queue'[MethodOf[r]], RequestMsg(r))
      BY <1>3, <3>3, <3>4, MessageTypes, AppendOrder
    <3>6. OnePlace(r)'
      BY <1>0, <1>2, <1>8, <3>2, <3>5 DEF OnePlace, Coming
    <3>7. Unsent(r) /\ Coming(r)
      BY <1>8 DEF Unsent, Coming
    <3> QED  BY <1>0, <3>6, <3>7, TrackedAlike
  <2> QED  BY <1>5, <1>8, <2>1, <2>2
<1> QED  BY <1>4, <1>7, <1>8, HandleMoves

-----------------------------------------------------------------------------
(* Steps of the producer                                                   *)

\* A step of the producer's end leaves every request where it is.
LEMMA PlacesStay ==
  ASSUME NEW r \in Requests, Tracked(r), UNCHANGED consumerVars,
         SentOnce(r)', OpenFirst(r)'
  PROVE  Tracked(r)'
BY DEF Tracked, OnePlace, Coming, Unmade, Queued, InHand, consumerVars, clientVars,
       channelVars, taskVars

\* The producer says something about q, for which its task was working, or
\* announces its end; only an open stream is closed, and opening one is said.
LEMMA SayTracks ==
  ASSUME PeerTypeOK, WireTypeOK, NEW r \in Requests, Tracked(r),
         UNCHANGED consumerVars, up' = up, connected' = connected,
         NEW msg \in DownMessages, down' = Append(down, msg),
         About(msg, r) => peer[r] # "idle" /\ peer'[r] # "idle",
         ~About(msg, r) => peer'[r] = peer[r] /\ itemsSent'[r] = itemsSent[r],
         msg = ClosedMsg(r) => connected /\ peer[r] = "open",
         peer'[r] = "open" => peer[r] = "open" \/ msg = OpenMsg(r)
  PROVE  Tracked(r)'
<1> USE DEF Tracked
<1>1. /\ Unsent(r)' <=> Unsent(r)
      /\ Coming(r)' <=> Coming(r)
      /\ entries' = entries
  BY DEF Unsent, Coming, Unmade, Queued, InHand, consumerVars, clientVars,
         channelVars, taskVars
<1>2. down \in Seq(DownMessages)
  BY DEF WireTypeOK
<1>3. SentOnce(r)'
  BY <1>1, <1>2, AppendOrder DEF SentOnce
<1>4. ASSUME Coming(r) \/ entries[r] = "pending"
      PROVE  /\ connected /\ peer'[r] = "open" => Has(down', OpenMsg(r))
             /\ Before(down', OpenMsg(r), ClosedMsg(r))
  BY <1>2, <1>4, AppendOrder DEF OpenFirst
<1>5. OpenFirst(r)'
  BY <1>1, <1>4 DEF OpenFirst
<1> QED  BY <1>3, <1>5, PlacesStay

\* A step that says nothing, takes up no request and opens no stream unless
\* nobody can hear of it.
LEMMA QuietTracks ==
  ASSUME NEW r \in Requests, Tracked(r), UNCHANGED <<consumerVars, up, down>>,
         connected' => connected,
         connected' /\ peer'[r] = "open" => peer[r] = "open",
         peer[r] = "idle" => peer'[r] = "idle" /\ itemsSent'[r] = itemsSent[r],
         peer'[r] = "idle" => peer[r] = "idle"
  PROVE  Tracked(r)'
<1>1. /\ Unsent(r)' <=> Unsent(r)
      /\ Coming(r)' <=> Coming(r)
      /\ entries' = entries
  BY DEF Unsent, Coming, Unmade, Queued, InHand, consumerVars, clientVars,
         channelVars, taskVars
<1>2. SentOnce(r)' /\ OpenFirst(r)'
  BY <1>1 DEF Tracked, SentOnce, OpenFirst
<1> QED  BY <1>2, PlacesStay

\* Every step of the producer, or of the network, keeps every request tracked.
LEMMA PeerTracks ==
  ASSUME PeerTypeOK, WireTypeOK, NEW r \in Requests, Tracked(r), PeerNext,
         UNCHANGED consumerVars
  PROVE  Tracked(r)'
<1> USE DEF PeerTypeOK, WireTypeOK
<1>0. /\ Unsent(r)' <=> Unsent(r)
      /\ Coming(r)' <=> Coming(r)
      /\ entries' = entries
  BY DEF Unsent, Coming, Unmade, Queued, InHand, consumerVars, clientVars,
         channelVars, taskVars
<1>1. CASE PeerReceive
  <2> DEFINE msg == Head(up)
  <2>1. up \in Seq(UpMessages) /\ up # <<>> /\ up' = Tail(up) /\ msg \in UpMessages
    BY <1>1, HeadTailProperties DEF PeerReceive
  <2>2. UNCHANGED <<itemsSent, down, connected>>
    BY <1>1 DEF PeerReceive
  <2>3. CASE msg = RequestMsg(r)
    <3>1. peer' = [peer EXCEPT ![r] = "serving"]
      BY <1>1, <2>3, RequestsDiffer DEF PeerReceive
    <3>2. Has(up, RequestMsg(r))
      BY <2>1, <2>3, TailIndex DEF Has
    <3>3. ~Unsent(r) /\ ~Has(up', RequestMsg(r))
      BY <2>1, <2>3, <3>2, TailOrder DEF Tracked, SentOnce
    <3>4. SentOnce(r)'
      BY <1>0, <2>1, <3>1, <3>3, TailOrder DEF Tracked, SentOnce
    <3>5. OpenFirst(r)'
      BY <1>0, <2>2, <3>1 DEF Tracked, OpenFirst
    <3> QED  BY <3>4, <3>5, PlacesStay
  <2>4. CASE msg # RequestMsg(r)
    <3>1. peer'[r] = peer[r]
      BY <1>1, <2>1, <2>4, RequestsDiffer DEF PeerReceive, UpMessages
    <3>2. SentOnce(r)'
      BY <1>0, <2>1, <2>2, <3>1, TailOrder DEF Tracked, SentOnce
    <3>3. OpenFirst(r)'
      BY <1>0, <2>2, <3>1 DEF Tracked, OpenFirst
    <3> QED  BY <3>2, <3>3, PlacesStay
  <2> QED  BY <2>3, <2>4
<1>2. ASSUME NEW q \in Requests, PeerReplies(q)
      PROVE  Tracked(r)'
  <2>1. CASE PeerAnswer(q)
    <3>1. /\ ValueMsg(q) \in DownMessages
          /\ About(ValueMsg(q), r) <=> q = r
          /\ ValueMsg(q) # ClosedMsg(r)
      BY MessageTypes, RepliesDiffer
    <3> QED  BY <2>1, <3>1, SayTracks DEF PeerAnswer, Reply, Send
  <2>2. CASE PeerOpen(q)
    <3>1. /\ OpenMsg(q) \in DownMessages
          /\ About(OpenMsg(q), r) <=> q = r
          /\ OpenMsg(q) # ClosedMsg(r)
      BY MessageTypes, RepliesDiffer
    <3> QED  BY <2>2, <3>1, SayTracks DEF PeerOpen, Reply, Send
  <2>3. CASE PeerItem(q)
    <3>1. itemsSent[q] + 1 \in Nat
      OBVIOUS
    <3>2. /\ ItemMsg(q, itemsSent[q] + 1) \in DownMessages
          /\ About(ItemMsg(q, itemsSent[q] + 1), r) <=> q = r
          /\ ItemMsg(q, itemsSent[q] + 1) # ClosedMsg(r)
      BY <3>1, MessageTypes, RepliesDiffer
    <3> QED  BY <2>3, <3>2, SayTracks DEF PeerItem, Reply, Send
  <2>4. CASE PeerClose(q)
    <3>1. /\ ClosedMsg(q) \in DownMessages
          /\ About(ClosedMsg(q), r) <=> q = r
          /\ ClosedMsg(q) = ClosedMsg(r) => q = r
      BY MessageTypes, RepliesDiffer
    <3> QED  BY <2>4, <3>1, SayTracks DEF PeerClose, Reply, Send
  <2> QED  BY <1>2, <2>1, <2>2, <2>3, <2>4 DEF PeerReplies
<1>3. ASSUME NEW q \in Requests, PeerUnheard(q)
      PROVE  Tracked(r)'
  BY <1>3, QuietTracks DEF PeerUnheard, Working, wire
<1>4. ASSUME NEW q \in Requests, PeerCancel(q)
      PROVE  Tracked(r)'
  BY <1>4, QuietTracks DEF PeerCancel, wire
<1>5. CASE PeerStop
  BY <1>5, QuietTracks DEF PeerStop, wire
<1>6. CASE PeerAnnounce
  <2>1. CASE connected
    <3>1. /\ Head(notice) \in DownMessages
          /\ Head(notice) \in [tag : StopTags]
      BY <1>6, HeadTailProperties DEF PeerAnnounce, DownMessages
    <3> QED  BY <1>6, <2>1, <3>1, RepliesDiffer, SayTracks DEF PeerAnnounce, Send
  <2>2. CASE ~connected
    BY <1>6, <2>2, QuietTracks DEF PeerAnnounce, wire
  <2> QED  BY <2>1, <2>2
<1>7. CASE PeerHangup
  BY <1>7, QuietTracks DEF PeerHangup, peerVars
<1>8. CASE Disconnect /\ UNCHANGED peerVars
  <2>1. PICK n \in 0..Len(up) : up' = SubSeq(up, 1, n)
    BY <1>8 DEF Disconnect
  <2>2. PICK k \in 0..Len(down) : down' = SubSeq(down, 1, k)
    BY <1>8 DEF Disconnect
  <2>3. ~connected' /\ UNCHANGED <<peer, itemsSent>>
    BY <1>8 DEF Disconnect, peerVars
  <2>4. SentOnce(r)'
    BY <1>0, <2>1, <2>2, <2>3, PrefixOrder DEF Tracked, SentOnce
  <2>5. OpenFirst(r)'
    BY <1>0, <2>2, <2>3, PrefixOrder DEF Tracked, OpenFirst
  <2> QED  BY <2>4, <2>5, PlacesStay
<1> QED  BY <1>1, <1>2, <1>3, <1>4, <1>5, <1>6, <1>7, <1>8 DEF PeerNext, PeerOwn

-----------------------------------------------------------------------------
(* Steps of the consumer task                                              *)

\* Settling one result that is owed leaves exactly one fewer.
LEMMA SettlesOne ==
  ASSUME TaskTypeOK, Exact, NEW r \in Owed(entries),
         Owed(entries') = Owed(entries) \ {r}, pending' = pending - 1
  PROVE  Exact'
<1>1. Cardinality(Owed(entries) \ {r}) = Cardinality(Owed(entries)) - 1
  BY OwedIsFinite, FS_RemoveElement
<1> QED  BY <1>1 DEF Exact

\* Owing one that was not owed adds exactly one.
LEMMA OwesOne ==
  ASSUME TaskTypeOK, Exact, NEW r, r \notin Owed(entries),
         Owed(entries') = Owed(entries) \cup {r}, pending' = pending + 1
  PROVE  Exact'
<1>1. Cardinality(Owed(entries) \cup {r}) = Cardinality(Owed(entries)) + 1
  BY OwedIsFinite, FS_AddElement
<1> QED  BY <1>1 DEF Exact

\* A step that owes the same results, and leaves the count, keeps it exact.
LEMMA OwesSame ==
  ASSUME Exact, Owed(entries') = Owed(entries), pending' = pending
  PROVE  Exact'
BY DEF Exact

\* A message that the task handles, while it goes on: the entries it settles
\* are counted once, because Closed is not read while a result is owed; and
\* once Open is read no result is.
LEMMA HandleMessageTracks ==
  ASSUME TaskOK, WireTypeOK, TaskUp', Exact, NEW msg \in DownMessages,
         HandleMessage(msg),
         \A q \in Requests : entries[q] = "pending" => msg # ClosedMsg(q)
  PROVE  /\ Exact' /\ UNCHANGED <<task, inHand, queue>>
         /\ \A q \in Requests :
              /\ entries[q] = "absent" => entries'[q] = "absent"
              /\ entries'[q] = "pending" => entries[q] = "pending" /\ msg # OpenMsg(q)
<1> USE DEF TaskOK, TaskTypeOK
<1>1. CASE msg.tag = "value" /\ HandleValue(msg.id)
  <2>1. msg.id \in Requests /\ \A q \in Requests : msg # OpenMsg(q)
    BY <1>1, ResponseFields DEF ResponseTags, OpenMsg
  <2>2. CASE entries[msg.id] = "pending"
    <3>1. Owed(entries') = Owed(entries) \ {msg.id} /\ msg.id \in Owed(entries)
      BY <1>1, <2>1, <2>2 DEF HandleValue, Owed
    <3>2. Exact'
      BY <1>1, <2>2, <3>1, SettlesOne DEF HandleValue
    <3> QED  BY <1>1, <2>1, <2>2, <3>2 DEF HandleValue
  <2>3. CASE entries[msg.id] # "pending"
    BY <1>1, <2>1, <2>3, OwesSame DEF HandleValue
  <2> QED  BY <2>2, <2>3
<1>2. CASE msg.tag = "open" /\ HandleOpen(msg.id)
  <2>1. msg.id \in Requests /\ \A q \in Requests : msg = OpenMsg(q) => q = msg.id
    BY <1>2, ResponseFields DEF ResponseTags, OpenMsg
  <2>2. CASE entries[msg.id] = "pending"
    <3>1. Owed(entries') = Owed(entries) \ {msg.id} /\ msg.id \in Owed(entries)
      BY <1>2, <2>1, <2>2 DEF HandleOpen, Owed
    <3>2. Exact'
      BY <1>2, <2>2, <3>1, SettlesOne DEF HandleOpen
    <3> QED  BY <1>2, <2>1, <2>2, <3>2 DEF HandleOpen
  <2>3. CASE entries[msg.id] # "pending"
    BY <1>2, <2>1, <2>3, OwesSame DEF HandleOpen
  <2> QED  BY <2>2, <2>3
<1>3. CASE msg.tag = "item" /\ HandleItem(msg.id, msg.item)
  <2>1. \A q \in Requests : msg # OpenMsg(q)
    BY <1>3 DEF OpenMsg
  <2> QED  BY <1>3, <2>1, OwesSame DEF HandleItem
<1>4. CASE msg.tag = "closed" /\ HandleClosed(msg.id)
  <2>1. /\ msg.id \in Requests /\ msg = ClosedMsg(msg.id)
        /\ \A q \in Requests : msg # OpenMsg(q)
    BY <1>4, ResponseFields, ReplyIs DEF ResponseTags, OpenMsg
  <2>2. entries[msg.id] # "pending"
    BY <2>1
  <2>3. Owed(entries') = Owed(entries)
    BY <1>4, <2>1, <2>2 DEF HandleClosed, Owed
  <2>4. Exact'
    BY <1>4, <2>3, OwesSame DEF HandleClosed
  <2> QED  BY <1>4, <2>1, <2>2, <2>4 DEF HandleClosed
<1>5. ASSUME NEW cause \in {"Aborted", "Shutdown"}, ShutDown(cause)
      PROVE  FALSE
  BY <1>5 DEF ShutDown, TaskUp
<1> QED  BY <1>1, <1>2, <1>3, <1>4, <1>5 DEF HandleMessage

\* Reading the oldest reply keeps every request tracked.
LEMMA ReceiveTracks ==
  ASSUME TaskOK, WireTypeOK, TaskUp', Routed, Exact,
         \A q \in Requests : Tracked(q), Receive, UNCHANGED peerVars
  PROVE  Routed' /\ Exact' /\ \A q \in Requests : Tracked(q)'
<1> DEFINE msg == Head(down)
<1>1. down \in Seq(DownMessages) /\ down # <<>> /\ down' = Tail(down)
      /\ msg \in DownMessages /\ task = "running"
  BY DownTail DEF WireTypeOK, Receive
<1>2. ASSUME NEW q \in Requests, entries[q] = "pending"
      PROVE  msg # ClosedMsg(q)
  BY <1>1, <1>2, TailOrder DEF Tracked, OpenFirst
<1>3. /\ Exact' /\ UNCHANGED <<task, inHand, queue>>
      /\ \A q \in Requests :
           /\ entries[q] = "absent" => entries'[q] = "absent"
           /\ entries'[q] = "pending" => entries[q] = "pending" /\ msg # OpenMsg(q)
  BY <1>1, <1>2, HandleMessageTracks DEF Receive
<1>4. UNCHANGED <<phase, up, connected, peer, itemsSent>>
  BY DEF Receive, clientVars, peerVars
<1>5. Routed'
  BY <1>3 DEF Routed
<1>6. ASSUME NEW q \in Requests
      PROVE  Tracked(q)'
  <2>1. /\ Unsent(q)' <=> Unsent(q)
        /\ Coming(q)' <=> Coming(q)
        /\ Unmade(q)' <=> Unmade(q)
        /\ Queued(q)' <=> Queued(q)
        /\ InHand(q)' <=> InHand(q)
    BY <1>3, <1>4 DEF Unsent, Coming, Unmade, Queued, InHand
  <2>2. OnePlace(q)'
    BY <1>3, <2>1 DEF Tracked, OnePlace
  <2>3. SentOnce(q)'
    BY <1>1, <1>4, <2>1, TailOrder DEF Tracked, SentOnce
  <2>4. CASE Coming(q)
    <3>1. Unsent(q)
      BY <1>1, <2>4 DEF Unsent, Coming, InHand
    <3>2. peer'[q] = "idle" /\ Silent(down, q)
      BY <1>4, <3>1 DEF Tracked, SentOnce
    <3>3. msg # OpenMsg(q)
      <4>1. About(OpenMsg(q), q) /\ 1 \in 1..Len(down) /\ msg = down[1]
        BY <1>1, RepliesDiffer, TailIndex
      <4> QED  BY <3>2, <4>1 DEF Silent
    <3>4. OpenFirst(q)'
      BY <1>1, <2>4, <3>2, <3>3, TailOrder DEF Tracked, OpenFirst
    <3> QED  BY <2>2, <2>3, <3>4 DEF Tracked
  <2>5. CASE ~Coming(q)
    <3>1. OpenFirst(q)'
      BY <1>1, <1>3, <1>4, <2>1, <2>5, TailOrder DEF Tracked, OpenFirst
    <3> QED  BY <2>2, <2>3, <3>1 DEF Tracked
  <2> QED  BY <2>4, <2>5
<1> QED  BY <1>3, <1>5, <1>6

\* Taking a message from its method's channel keeps every request tracked.
LEMMA TakeTracks ==
  ASSUME TaskOK, Routed, Exact, \A q \in Requests : Tracked(q),
         NEW m \in Methods, TakeMessage(m), UNCHANGED peerVars
  PROVE  Routed' /\ Exact' /\ \A q \in Requests : Tracked(q)'
<1> USE TransportAssumption
<1> DEFINE s == queue[m]
           msg == Head(s)
<1>1. /\ queue \in [Methods -> Seq(UpMessages)] /\ s \in Seq(UpMessages) /\ s # <<>>
      /\ queue' = [queue EXCEPT ![m] = Tail(s)] /\ inHand' = <<msg>>
      /\ task = "running" /\ task' = "sending"
  BY DEF TakeMessage, TaskOK, ChannelTypeOK
<1>2. /\ Len(s) \in Nat \ {0} /\ Len(Tail(s)) = Len(s) - 1
      /\ \A i \in 1..Len(Tail(s)) : Tail(s)[i] = s[i+1]
      /\ msg = s[1] /\ msg \in UpMessages
  BY <1>1, TailIndex, HeadTailProperties
<1>3. UNCHANGED <<phase, entries, pending, up, down, connected, peer, itemsSent>>
  BY DEF TakeMessage, clientVars, wire, peerVars
<1>4. Exact'
  BY <1>3, OwesSame
<1>5. Routed'
  <2>1. ASSUME NEW k \in Methods, NEW i \in 1..Len(queue'[k])
        PROVE  MethodOf[queue'[k][i].id] = k
    <3>1. CASE k = m
      <4>1. queue'[k] = Tail(s)
        BY <1>1, <3>1
      <4>2. i+1 \in 1..Len(s) /\ queue'[k][i] = s[i+1]
        BY <1>2, <2>1, <4>1
      <4> QED  BY <3>1, <4>2 DEF Routed
    <3>2. CASE k # m
      <4>1. queue'[k] = queue[k]
        BY <1>1, <3>2
      <4> QED  BY <2>1, <4>1 DEF Routed
    <3> QED  BY <3>1, <3>2
  <2> QED  BY <2>1 DEF Routed
<1>6. ASSUME NEW q \in Requests
      PROVE  Tracked(q)'
  <2>1. ~InHand(q) /\ (InHand(q)' <=> msg = RequestMsg(q)) /\ (Unmade(q)' <=> Unmade(q))
    BY <1>1, <1>3 DEF InHand, Unmade
  <2>2. msg = RequestMsg(q) =>
          /\ m = MethodOf[q] /\ Queued(q) /\ ~Queued(q)'
          /\ Unique(queue'[MethodOf[q]], RequestMsg(q))
    <3> SUFFICES ASSUME msg = RequestMsg(q)
                 PROVE  /\ m = MethodOf[q] /\ Queued(q) /\ ~Queued(q)'
                        /\ Unique(queue'[MethodOf[q]], RequestMsg(q))
      OBVIOUS
    <3>1. m = MethodOf[q]
      BY <1>2, RequestsDiffer DEF Routed
    <3>2. Has(s, RequestMsg(q))
      BY <1>2 DEF Has
    <3>3. Unique(s, RequestMsg(q)) /\ queue'[MethodOf[q]] = Tail(s)
      BY <1>1, <3>1 DEF Tracked, OnePlace
    <3> QED  BY <1>1, <3>1, <3>2, <3>3, TailOrder DEF Queued
  <2>3. msg # RequestMsg(q) =>
          /\ Queued(q)' <=> Queued(q)
          /\ Unique(queue'[MethodOf[q]], RequestMsg(q))
    <3>1. CASE m = MethodOf[q]
      <4>1. queue'[MethodOf[q]] = Tail(s)
        BY <1>1, <3>1
      <4> QED  BY <1>1, <3>1, <4>1, TailOrder DEF Queued, Tracked, OnePlace
    <3>2. CASE m # MethodOf[q]
      <4>1. queue'[MethodOf[q]] = queue[MethodOf[q]]
        BY <1>1, <3>2
      <4> QED  BY <4>1 DEF Queued, Tracked, OnePlace
    <3> QED  BY <3>1, <3>2
  <2>4. OnePlace(q)'
    BY <1>3, <2>1, <2>2, <2>3 DEF Tracked, OnePlace, Coming
  <2>5. /\ Unsent(q)' => Unsent(q)
        /\ Coming(q)' => Coming(q)
    BY <2>1, <2>2, <2>3 DEF Unsent, Coming
  <2> QED  BY <1>3, <2>4, <2>5, TrackedAlike
<1> QED  BY <1>4, <1>5, <1>6

\* Handing it to the transport keeps every request tracked.
LEMMA FeedTracks ==
  ASSUME TaskOK, WireTypeOK, Routed, Exact, \A q \in Requests : Tracked(q),
         FeedMessage, UNCHANGED peerVars
  PROVE  Routed' /\ Exact' /\ \A q \in Requests : Tracked(q)'
<1> DEFINE msg == Head(inHand)
<1>1. /\ msg \in UpMessages /\ up \in Seq(UpMessages) /\ up' = Append(up, msg)
      /\ task = "sending" /\ task' = "flushing"
  BY HeadTailProperties DEF FeedMessage, TaskOK, TaskTypeOK, HandFull, WireTypeOK
<1>2. UNCHANGED <<phase, queue, inHand, entries, pending, down, connected, peer,
                  itemsSent>>
  BY DEF FeedMessage, clientVars, channelVars, peerVars
<1>3. Routed' /\ Exact'
  BY <1>2, OwesSame DEF Routed
<1>4. ASSUME NEW q \in Requests
      PROVE  Tracked(q)'
  <2>1. /\ Unmade(q)' <=> Unmade(q)
        /\ Queued(q)' <=> Queued(q)
        /\ InHand(q)' <=> InHand(q)
        /\ InHand(q) <=> msg = RequestMsg(q)
    BY <1>1, <1>2 DEF Unmade, Queued, InHand
  <2>2. OnePlace(q)'
    BY <1>2, <2>1 DEF Tracked, OnePlace, Coming
  <2>3. OpenFirst(q)'
    BY <1>2, <2>1 DEF Tracked, OpenFirst, Coming
  <2>4. CASE msg = RequestMsg(q)
    <3>1. Unsent(q) /\ ~Unsent(q)'
      BY <1>1, <2>1, <2>4 DEF Unsent, Tracked, OnePlace
    <3>2. SentOnce(q)'
      BY <1>1, <1>2, <2>4, <3>1, AppendOrder DEF Tracked, SentOnce
    <3> QED  BY <2>2, <2>3, <3>2 DEF Tracked
  <2>5. CASE msg # RequestMsg(q)
    <3>1. Unsent(q)' => Unsent(q)
      BY <2>1, <2>5 DEF Unsent
    <3>2. SentOnce(q)'
      BY <1>1, <1>2, <2>5, <3>1, AppendOrder DEF Tracked, SentOnce
    <3> QED  BY <2>2, <2>3, <3>2 DEF Tracked
  <2> QED  BY <2>4, <2>5
<1> QED  BY <1>3, <1>4

\* So does the end of a send, whose request is registered, or lost with the
\* connection, or whose abort makes the task forget.
LEMMA SentTracks ==
  ASSUME TaskOK, Routed, Exact, \A q \in Requests : Tracked(q), ~Faulty,
         SendOk \/ SendErr, UNCHANGED peerVars
  PROVE  Routed' /\ Exact' /\ \A q \in Requests : Tracked(q)'
<1> USE DEF TaskOK, TaskTypeOK
<1> DEFINE msg == Head(inHand)
<1>0. inHand \in Seq(UpMessages) /\ inHand # <<>>
  BY DEF SendOk, SendErr, HandFull
<1>1. msg \in UpMessages /\ msg.id \in Requests
  <2>1. msg \in UpMessages
    BY <1>0, HeadTailProperties
  <2> QED  BY <2>1 DEF UpMessages
<1>2. /\ UNCHANGED <<phase, queue, up, down, connected, peer, itemsSent>>
      /\ task \in {"sending", "flushing"} /\ task' = "running"
  BY DEF SendOk, SendErr, clientVars, channelVars, wire, peerVars
<1>3. Routed'
  BY <1>2 DEF Routed
<1>4. /\ \A q \in Requests : (Unmade(q)' <=> Unmade(q)) /\ (Queued(q)' <=> Queued(q))
      /\ \A q \in Requests : ~InHand(q)' /\ (InHand(q) <=> msg = RequestMsg(q))
      /\ \A q \in Requests : Coming(q)' => Coming(q)
      /\ \A q \in Requests : Unsent(q)' => Unsent(q)
  BY <1>2 DEF Unmade, Queued, InHand, Coming, Unsent
<1>5. ASSUME \A q \in Requests : entries'[q] \in {entries[q], "absent"}
      PROVE  \A q \in Requests : Tracked(q)'
  <2>1. ASSUME NEW q \in Requests
        PROVE  OnePlace(q)'
    BY <1>2, <1>4, <1>5 DEF Tracked, OnePlace, Coming
  <2> QED  BY <1>2, <1>4, <1>5, <2>1, TrackedAlike
<1>6. ASSUME NEW r \in Requests, msg = RequestMsg(r), Register(r)
      PROVE  Routed' /\ Exact' /\ \A q \in Requests : Tracked(q)'
  <2>1. InHand(r)
    BY <1>4, <1>6
  <2>2. entries[r] = "absent" /\ ~Unmade(r) /\ ~Queued(r)
    BY <1>1, <2>1 DEF Tracked, OnePlace, Coming
  <2>3. entries' = [entries EXCEPT ![r] = "pending"] /\ pending' = pending + 1
    BY <1>6 DEF Register
  <2>4. r \notin Owed(entries) /\ Owed(entries') = Owed(entries) \cup {r}
    BY <1>1, <2>2, <2>3 DEF Owed
  <2>5. Exact'
    BY <2>3, <2>4, OwesOne
  <2>6. ASSUME NEW q \in Requests
        PROVE  Tracked(q)'
    <3>1. CASE q = r
      <4>1. ~Coming(r)'
        BY <1>1, <1>4, <2>2 DEF Coming
      <4>2. OnePlace(r)'
        BY <1>1, <1>2, <1>4, <2>2, <4>1 DEF Tracked, OnePlace, Coming
      <4>3. Coming(r)
        BY <2>1 DEF Coming
      <4> QED  BY <1>1, <1>2, <1>4, <3>1, <4>1, <4>2, <4>3, TrackedAlike
    <3>2. CASE q # r
      <4>1. entries'[q] = entries[q]
        BY <2>3, <3>2
      <4>2. OnePlace(q)'
        BY <1>2, <1>4, <4>1 DEF Tracked, OnePlace, Coming
      <4> QED  BY <1>2, <1>4, <4>1, <4>2, TrackedAlike
    <3> QED  BY <3>1, <3>2
  <2> QED  BY <1>3, <2>5, <2>6
<1>7. CASE Forget(msg.id)
  <2>1. \A q \in Requests : entries'[q] \in {entries[q], "absent"}
    BY <1>1, <1>7 DEF Forget
  <2>2. CASE entries[msg.id] = "pending"
    <3>1. msg.id \in Owed(entries) /\ Owed(entries') = Owed(entries) \ {msg.id}
      BY <1>1, <1>7, <2>2 DEF Forget, Owed
    <3> QED  BY <1>3, <1>5, <1>7, <2>1, <2>2, <3>1, SettlesOne DEF Forget
  <2>3. CASE entries[msg.id] # "pending"
    <3>1. Owed(entries') = Owed(entries)
      BY <1>1, <1>7, <2>3 DEF Forget, Owed
    <3> QED  BY <1>3, <1>5, <1>7, <2>1, <2>3, <3>1, OwesSame DEF Forget
  <2> QED  BY <2>2, <2>3
<1>8. CASE UNCHANGED <<entries, pending>>
  BY <1>3, <1>5, <1>8, OwesSame
<1>9. msg.payload = "request" => msg = RequestMsg(msg.id)
  BY <1>1, RequestsDiffer
<1> QED  BY <1>1, <1>6, <1>7, <1>8, <1>9 DEF SendOk, SendErr

\* Every step of the task after which it still runs.
LEMMA TaskTracks ==
  ASSUME TaskOK, WireTypeOK, TaskUp', ~Faulty, Routed, Exact,
         \A q \in Requests : Tracked(q), TaskStep, UNCHANGED peerVars
  PROVE  Routed' /\ Exact' /\ \A q \in Requests : Tracked(q)'
<1>1. ASSUME NEW cause, ShutDown(cause)
      PROVE  FALSE
  BY <1>1 DEF ShutDown, TaskUp
<1>2. ~ReceiveError /\ ~ReceiveClosed /\ ~TimeoutArm /\ ~ShutdownArm /\ ~DropArm /\ ~DropState
  BY <1>1 DEF ReceiveError, ReceiveClosed, TimeoutArm, ShutdownArm, DropArm, DropState,
              TaskUp
<1> QED  BY <1>2, ReceiveTracks, TakeTracks, FeedTracks, SentTracks DEF TaskStep

-----------------------------------------------------------------------------
(* The inductive invariant                                                 *)

\* In a new session no request has been made.
LEMMA OrderInit == Fresh => Order
<1> SUFFICES ASSUME Fresh PROVE Order
  OBVIOUS
<1> USE DEF Fresh, ConsumerInit, WireInit
<1>1. Len(<<>>) = 0 /\ 1..0 = {}
  OBVIOUS
<1>2. \A m \in Methods : queue[m] = <<>>
  OBVIOUS
<1>3. Routed
  BY <1>1, <1>2 DEF Routed
<1>4. Exact
  BY FS_EmptySet DEF Exact, Owed
<1>5. ASSUME NEW r \in Requests
      PROVE  Tracked(r)
  <2>1. /\ \A x : ~Has(<<>>, x) /\ Unique(<<>>, x)
        /\ \A x, y : Before(<<>>, x, y)
        /\ Silent(<<>>, r)
    BY <1>1 DEF Has, Unique, Before, Silent
  <2>2. queue[MethodOf[r]] = <<>>
    BY <1>2, TransportAssumption
  <2> QED
    BY <2>1, <2>2 DEF Tracked, OnePlace, SentOnce, OpenFirst, Queued, InHand
<1> QED  BY <1>3, <1>4, <1>5 DEF Order

\* Every step keeps it.
LEMMA OrderNext == IInv /\ Order /\ [Next]_vars => Order'
<1> SUFFICES ASSUME IInv, Order, [Next]_vars, ~Faulty, TaskUp'
             PROVE  Routed' /\ Exact' /\ \A q \in Requests : Tracked(q)'
  BY DEF Order
<1>1. ConsumerTypeOK /\ PeerTypeOK /\ WireTypeOK /\ TaskOK
  BY DEF IInv, TypeOK, ConsumerTypeOK, TaskOK
<1>2. TaskUp => Routed /\ Exact /\ \A q \in Requests : Tracked(q)
  BY DEF Order
<1>3. ASSUME UNCHANGED <<phase, queue, task, inHand, entries, pending, peerVars, wire>>
      PROVE  Routed' /\ Exact' /\ \A q \in Requests : Tracked(q)'
  <2>1. TaskUp
    BY <1>3 DEF TaskUp
  <2>2. Routed' /\ Exact'
    BY <1>2, <1>3, <2>1, OwesSame DEF Routed
  <2> QED
    BY <1>2, <1>3, <2>1, <2>2
       DEF Tracked, OnePlace, SentOnce, OpenFirst, Coming, Unsent, Unmade, Queued,
           InHand, peerVars, wire
<1>4. ASSUME NEW r \in Requests, Begin(r) \/ Finish(r), UNCHANGED peerVars
      PROVE  Routed' /\ Exact' /\ \A q \in Requests : Tracked(q)'
  <2>1. UNCHANGED taskVars
    BY <1>1, <1>4, HandleStepType
  <2>2. TaskUp /\ Exact'
    BY <1>2, <2>1, OwesSame DEF TaskUp, taskVars
  <2> QED  BY <1>1, <1>2, <1>4, <2>2, HandleTracks
<1>5. CASE DropConsumer /\ UNCHANGED peerVars
  BY <1>3, <1>5 DEF DropConsumer, channelVars, taskVars
<1>6. CASE TimerElapses /\ UNCHANGED peerVars
  BY <1>3, <1>6 DEF TimerElapses, clientVars, channelVars
<1>7. CASE TaskStep /\ UNCHANGED peerVars
  <2>1. TaskUp
    BY <1>7 DEF TaskUp, TaskStep, Receive, ReceiveError, ReceiveClosed, TakeMessage,
                FeedMessage, SendOk, SendErr, TimeoutArm, ShutdownArm, DropArm, DropState
  <2> QED  BY <1>1, <1>2, <1>7, <2>1, TaskTracks
<1>8. CASE PeerNext /\ UNCHANGED consumerVars
  <2>1. UNCHANGED <<queue, task, entries, pending>>
    BY <1>8 DEF consumerVars, channelVars, taskVars
  <2>2. TaskUp
    BY <2>1 DEF TaskUp
  <2>3. Routed' /\ Exact'
    BY <1>2, <2>1, <2>2, OwesSame DEF Routed
  <2> QED  BY <1>1, <1>2, <1>8, <2>2, <2>3, PeerTracks
<1>9. CASE UNCHANGED vars
  BY <1>3, <1>9 DEF vars, consumerVars, clientVars, channelVars, taskVars
<1> QED
  BY <1>4, <1>5, <1>6, <1>7, <1>8, <1>9 DEF Next, ConsumerNext

\* Every request is tracked throughout every behaviour.
THEOREM OrderHolds == Spec => []Order
<1>1. IInv /\ Order /\ [Next]_vars => Order'
  BY OrderNext
<1> QED  BY <1>1, InitFresh, OrderInit, Invariance, PTL DEF Spec

\* ConsumerState.pending is the number of results owed while the loop runs, so
\* that a consumer nobody waits for counts itself idle and is never timed out:
\* for any calls on any threads, any capacity, and a connection that may be cut.
THEOREM PendingExact == Spec => []PendingIsExact
<1>1. Order => PendingIsExact
  BY DEF Order, PendingIsExact, TaskUp, Exact, Owed, AwaitingResult
<1> QED  BY <1>1, OrderHolds, PTL

=============================================================================
