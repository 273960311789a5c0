----------------------------- MODULE DeliveryProofs -----------------------------
(***************************************************************************)
(* Over a transport that loses nothing, streams return the producer's      *)
(* items in order, and one that ends by itself has returned them all. The  *)
(* items on the wire carry on where the handle is, as long as the handle   *)
(* can still hear of them (OrderProofs says where its request is); and     *)
(* what makes the task forget a stream is its Closed, read last, or a user *)
(* who gave it up.                                                         *)
(***************************************************************************)
EXTENDS OrderProofs

-----------------------------------------------------------------------------
(* Items and the last reply in a sequence of messages                      *)

IsItem(msg, r) == msg.tag = "item" /\ msg.id = r

\* The items of r in s are numbered from got + 1, in order, up to sent at most.
Follow(s, r, got, sent) ==
  /\ \A i \in 1..Len(s) : IsItem(s[i], r) =>
       /\ got < s[i].item /\ s[i].item <= sent
       /\ s[i].item = got + 1 \/ \E j \in 1..(i-1) : s[j] = ItemMsg(r, s[i].item - 1)
  /\ \A i, j \in 1..Len(s) :
       IsItem(s[i], r) /\ IsItem(s[j], r) /\ i < j => s[i].item < s[j].item

\* The newest item is the one that s ends with, if not the one already got.
Newest(s, r, got, sent) == sent = got \/ Has(s, ItemMsg(r, sent))

\* Nothing about r follows its Closed.
LastReply(s, r) ==
  \A i \in 1..Len(s) : s[i] = ClosedMsg(r) =>
    \A j \in (i+1)..Len(s) : ~About(s[j], r)

\* Items are told from other replies.
LEMMA ItemsDiffer ==
  ASSUME NEW r \in Requests
  PROVE  /\ \A q \in Requests, n \in Nat :
              /\ IsItem(ItemMsg(q, n), r) <=> q = r
              /\ ItemMsg(q, n).item = n
              /\ ~IsItem(OpenMsg(q), r) /\ ~IsItem(ClosedMsg(q), r) /\ ~IsItem(ValueMsg(q), r)
         /\ \A msg \in DownMessages : IsItem(msg, r) =>
              About(msg, r) /\ msg = ItemMsg(r, msg.item) /\ msg.item \in Nat
         /\ \A msg \in [tag : StopTags] : ~IsItem(msg, r)
<1>1. \A msg \in DownMessages : IsItem(msg, r) =>
        About(msg, r) /\ msg = ItemMsg(r, msg.item) /\ msg.item \in Nat
  BY ReplyIs, ResponseFields DEF IsItem, About, ResponseTags
<1>2. \A msg \in [tag : StopTags] : ~IsItem(msg, r)
  BY DEF IsItem, StopTags
<1> QED
  BY <1>1, <1>2 DEF IsItem, ItemMsg, OpenMsg, ClosedMsg, ValueMsg

\* Reading the first message: an item is the next one, another message leaves
\* the items as they are.
LEMMA FollowTail ==
  ASSUME NEW s \in Seq(DownMessages), s # <<>>, NEW r \in Requests,
         NEW got \in Nat, NEW sent \in Nat, Follow(s, r, got, sent)
  PROVE  /\ ~IsItem(Head(s), r) =>
              /\ Follow(Tail(s), r, got, sent)
              /\ Newest(s, r, got, sent) => Newest(Tail(s), r, got, sent)
         /\ IsItem(Head(s), r) =>
              /\ Head(s).item = got + 1 /\ got + 1 <= sent
              /\ Follow(Tail(s), r, got + 1, sent)
              /\ Newest(s, r, got, sent) => Newest(Tail(s), r, got + 1, sent)
<1> DEFINE t == Tail(s)
<1>1. /\ Len(s) \in Nat \ {0} /\ Len(t) = Len(s) - 1
      /\ \A i \in 1..Len(t) : t[i] = s[i+1]
      /\ Head(s) = s[1]
  BY TailIndex
<1>2. \A i \in 1..Len(s) : s[i] \in DownMessages
  BY ElementOfSeq
<1>3. \A i \in 1..Len(s) : IsItem(s[i], r) => s[i].item \in Nat /\ s[i] = ItemMsg(r, s[i].item)
  BY <1>2, ItemsDiffer
<1>n. \A x : Has(s, x) /\ Head(s) # x => Has(t, x)
  BY TailOrder
<1> HIDE DEF t
<1>4. \A i \in 1..Len(t) : i+1 \in 1..Len(s) /\ t[i] = s[i+1]
  BY <1>1
<1>5. ASSUME NEW i \in 1..Len(t), NEW j \in 1..Len(t), IsItem(t[i], r), IsItem(t[j], r), i < j
      PROVE  t[i].item < t[j].item
  <2>1. i+1 < j+1
    BY <1>5
  <2> QED  BY <1>4, <1>5, <2>1 DEF Follow
<1>6. CASE ~IsItem(Head(s), r)
  <2>1. ASSUME NEW i \in 1..Len(t), IsItem(t[i], r)
        PROVE  /\ got < t[i].item /\ t[i].item <= sent
               /\ t[i].item = got + 1 \/ \E j \in 1..(i-1) : t[j] = ItemMsg(r, t[i].item - 1)
    <3>1. /\ got < s[i+1].item /\ s[i+1].item <= sent
          /\ s[i+1].item = got + 1 \/ \E j \in 1..i : s[j] = ItemMsg(r, s[i+1].item - 1)
      BY <1>4, <2>1 DEF Follow
    <3>2. CASE \E j \in 1..i : s[j] = ItemMsg(r, s[i+1].item - 1) /\ s[i+1].item # got + 1
      <4>1. PICK j \in 1..i : s[j] = ItemMsg(r, s[i+1].item - 1) /\ s[i+1].item # got + 1
        BY <3>2
      <4>2. s[i+1].item - 1 \in Nat
        BY <1>3, <1>4, <2>1, <3>1
      <4>3. IsItem(s[j], r)
        BY <4>1, <4>2, ItemsDiffer
      <4>4. j # 1
        BY <1>1, <1>6, <4>3
      <4>5. j-1 \in 1..(i-1) /\ j-1 \in 1..Len(t) /\ t[j-1] = s[j]
        BY <1>1, <2>1, <4>4
      <4> QED  BY <1>4, <2>1, <3>1, <4>1, <4>5
    <3> QED  BY <1>4, <2>1, <3>1, <3>2
  <2>2. Newest(s, r, got, sent) => Newest(t, r, got, sent)
    <3>1. Head(s) # ItemMsg(r, sent)
      BY <1>6, ItemsDiffer
    <3> QED  BY <1>n, <3>1 DEF Newest
  <2> QED  BY <1>5, <1>6, <2>1, <2>2 DEF Follow, t
<1>7. CASE IsItem(Head(s), r)
  <2>0. 1 \in 1..Len(s) /\ IsItem(s[1], r)
    BY <1>1, <1>7
  <2>1. s[1].item = got + 1 /\ got + 1 <= sent
    BY <2>0 DEF Follow
  <2>2. ASSUME NEW i \in 1..Len(t), IsItem(t[i], r)
        PROVE  /\ got + 1 < t[i].item /\ t[i].item <= sent
               /\ t[i].item = got + 2 \/ \E j \in 1..(i-1) : t[j] = ItemMsg(r, t[i].item - 1)
    <3>1. /\ s[i+1].item \in Nat /\ s[1].item < s[i+1].item /\ s[i+1].item <= sent
      <4>1. i+1 \in 1..Len(s) /\ IsItem(s[i+1], r) /\ 1 < i+1
        BY <1>4, <2>2
      <4> QED  BY <1>3, <2>0, <4>1 DEF Follow
    <3>2. \E j \in 1..i : s[j] = ItemMsg(r, s[i+1].item - 1)
      BY <1>4, <2>1, <2>2, <3>1 DEF Follow
    <3>3. CASE s[i+1].item # got + 2
      <4>1. PICK j \in 1..i : s[j] = ItemMsg(r, s[i+1].item - 1)
        BY <3>2
      <4>2. s[i+1].item - 1 \in Nat
        BY <2>1, <3>1
      <4>3. s[j].item = s[i+1].item - 1
        BY <4>1, <4>2, ItemsDiffer
      <4>4. j # 1
        BY <2>1, <3>1, <3>3, <4>3
      <4>5. j-1 \in 1..(i-1) /\ j-1 \in 1..Len(t) /\ t[j-1] = s[j]
        BY <1>1, <2>2, <4>4
      <4> QED  BY <1>4, <2>1, <2>2, <3>1, <4>1, <4>5
    <3> QED  BY <1>4, <2>1, <2>2, <3>1, <3>3
  <2>3. Newest(s, r, got, sent) => Newest(t, r, got + 1, sent)
    <3>1. CASE sent # got + 1
      <4>1. Head(s) # ItemMsg(r, sent)
        BY <1>1, <2>1, <3>1, ItemsDiffer
      <4> QED  BY <1>n, <2>1, <4>1 DEF Newest
    <3> QED  BY <3>1 DEF Newest
  <2>4. Follow(t, r, got + 1, sent)
    BY <1>5, <2>2 DEF Follow
  <2> QED  BY <1>1, <1>7, <2>1, <2>3, <2>4 DEF t
<1> QED  BY <1>6, <1>7

\* Putting one more message behind them: the next item, or none of r's.
LEMMA FollowAppend ==
  ASSUME NEW s \in Seq(DownMessages), NEW m \in DownMessages, NEW r \in Requests,
         NEW got \in Nat, NEW sent \in Nat, got <= sent, Follow(s, r, got, sent)
  PROVE  /\ ~IsItem(m, r) =>
              /\ Follow(Append(s, m), r, got, sent)
              /\ Newest(s, r, got, sent) => Newest(Append(s, m), r, got, sent)
         /\ m = ItemMsg(r, sent + 1) =>
              /\ Newest(s, r, got, sent) => Follow(Append(s, m), r, got, sent + 1)
              /\ Newest(Append(s, m), r, got, sent + 1)
<1> DEFINE t == Append(s, m)
<1>1. /\ Len(s) \in Nat /\ Len(t) = Len(s) + 1
      /\ \A i \in 1..Len(s) : t[i] = s[i]
      /\ t[Len(s) + 1] = m
  BY AppendIndex
<1>2. \A i \in 1..Len(s) : IsItem(s[i], r) => s[i].item \in Nat
  BY ElementOfSeq, ItemsDiffer
<1>n. Has(t, m) /\ \A x : Has(s, x) => Has(t, x)
  BY AppendOrder
<1> HIDE DEF t
<1>3. ASSUME NEW i \in 1..Len(t)
      PROVE  (i \in 1..Len(s) /\ t[i] = s[i]) \/ (i = Len(s) + 1 /\ t[i] = m)
  <2>1. i \in 1..Len(s) \/ i = Len(s) + 1
    BY <1>1
  <2> QED  BY <1>1, <2>1
<1>4. ASSUME NEW i \in 1..Len(s), IsItem(s[i], r)
      PROVE  /\ got < s[i].item /\ s[i].item <= sent
             /\ s[i].item = got + 1 \/ \E j \in 1..(i-1) : t[j] = ItemMsg(r, s[i].item - 1)
  BY <1>1, <1>4 DEF Follow
<1>5. CASE ~IsItem(m, r)
  <2>1. Follow(t, r, got, sent)
    BY <1>1, <1>3, <1>4, <1>5 DEF Follow
  <2> QED  BY <1>5, <1>n, <2>1, ItemsDiffer DEF Newest, t
<1>6. CASE m = ItemMsg(r, sent + 1)
  <2>1. IsItem(m, r) /\ m.item = sent + 1
    BY <1>6, ItemsDiffer
  <2>2. ASSUME Newest(s, r, got, sent)
        PROVE  Follow(t, r, got, sent + 1)
    <3>1. m.item = got + 1 \/ \E j \in 1..Len(s) : t[j] = ItemMsg(r, m.item - 1)
      <4>1. m.item - 1 = sent
        BY <2>1
      <4> QED  BY <1>1, <2>1, <2>2, <4>1 DEF Newest, Has
    <3>2. ASSUME NEW i \in 1..Len(t), IsItem(t[i], r)
          PROVE  /\ got < t[i].item /\ t[i].item <= sent + 1
                 /\ t[i].item = got + 1
                      \/ \E j \in 1..(i-1) : t[j] = ItemMsg(r, t[i].item - 1)
      <4>1. CASE i \in 1..Len(s) /\ t[i] = s[i]
        BY <1>2, <1>4, <3>2, <4>1
      <4>2. CASE i = Len(s) + 1 /\ t[i] = m
        BY <1>1, <2>1, <3>1, <4>2
      <4> QED  BY <1>3, <4>1, <4>2
    <3>3. ASSUME NEW i \in 1..Len(t), NEW j \in 1..Len(t), IsItem(t[i], r),
                 IsItem(t[j], r), i < j
          PROVE  t[i].item < t[j].item
      <4>1. i \in 1..Len(s) /\ t[i] = s[i]
        BY <1>1, <1>3, <3>3
      <4>2. CASE j \in 1..Len(s) /\ t[j] = s[j]
        BY <3>3, <4>1, <4>2 DEF Follow
      <4>3. CASE j = Len(s) + 1 /\ t[j] = m
        BY <1>2, <1>4, <2>1, <3>3, <4>1, <4>3
      <4> QED  BY <1>3, <4>2, <4>3
    <3> QED  BY <3>2, <3>3 DEF Follow
  <2>3. Newest(t, r, got, sent + 1)
    BY <1>6, <1>n DEF Newest
  <2> QED  BY <1>6, <2>1, <2>2, <2>3 DEF t
<1> QED  BY <1>5, <1>6 DEF t

\* Losing a suffix of them.
LEMMA FollowPrefix ==
  ASSUME NEW s \in Seq(DownMessages), NEW n \in 0..Len(s), NEW r \in Requests,
         NEW got \in Nat, NEW sent \in Nat, Follow(s, r, got, sent)
  PROVE  Follow(SubSeq(s, 1, n), r, got, sent)
<1> DEFINE t == SubSeq(s, 1, n)
<1>1. Len(s) \in Nat /\ Len(t) = n /\ \A i \in 1..n : t[i] = s[i]
  BY PrefixIndex
<1> HIDE DEF t
<1>2. ASSUME NEW i \in 1..Len(t), IsItem(t[i], r)
      PROVE  /\ got < t[i].item /\ t[i].item <= sent
             /\ t[i].item = got + 1 \/ \E j \in 1..(i-1) : t[j] = ItemMsg(r, t[i].item - 1)
  <2>1. i \in 1..Len(s) /\ t[i] = s[i] /\ \A j \in 1..(i-1) : t[j] = s[j]
    BY <1>1
  <2> QED  BY <1>2, <2>1 DEF Follow
<1>3. \A i, j \in 1..Len(t) :
        IsItem(t[i], r) /\ IsItem(t[j], r) /\ i < j => t[i].item < t[j].item
  BY <1>1 DEF Follow
<1> QED  BY <1>2, <1>3 DEF Follow, t

\* More items may have been meant for it than arrived.
LEMMA FollowGrows ==
  ASSUME NEW s \in Seq(DownMessages), NEW r \in Requests, NEW got, NEW sent \in Nat,
         NEW more \in Nat, sent <= more, Follow(s, r, got, sent)
  PROVE  Follow(s, r, got, more)
<1>1. ASSUME NEW i \in 1..Len(s), IsItem(s[i], r)
      PROVE  s[i].item <= more
  <2>1. s[i].item \in Nat /\ s[i].item <= sent
    BY <1>1, ElementOfSeq, ItemsDiffer DEF Follow
  <2> QED  BY <2>1
<1> QED  BY <1>1 DEF Follow

\* Nothing follows Closed in what is left of a sequence, or in a longer one to
\* which nothing was added about a stream that had closed.
LEMMA LastKept ==
  ASSUME NEW s \in Seq(DownMessages), NEW r \in Requests, LastReply(s, r)
  PROVE  /\ s # <<>> => LastReply(Tail(s), r)
         /\ s # <<>> /\ Head(s) = ClosedMsg(r) => Silent(Tail(s), r)
         /\ \A n \in 0..Len(s) : LastReply(SubSeq(s, 1, n), r)
         /\ \A m \in DownMessages :
              ~About(m, r) \/ ~Has(s, ClosedMsg(r)) => LastReply(Append(s, m), r)
<1>1. ASSUME s # <<>>
      PROVE  LastReply(Tail(s), r) /\ (Head(s) = ClosedMsg(r) => Silent(Tail(s), r))
  <2> DEFINE t == Tail(s)
  <2>1. /\ Len(s) \in Nat \ {0} /\ Len(t) = Len(s) - 1
        /\ \A i \in 1..Len(t) : t[i] = s[i+1]
        /\ Head(s) = s[1]
    BY <1>1, TailIndex
  <2> HIDE DEF t
  <2>2. ASSUME NEW i \in 1..Len(t), t[i] = ClosedMsg(r), NEW j \in (i+1)..Len(t)
        PROVE  ~About(t[j], r)
    <3>1. /\ i+1 \in 1..Len(s) /\ s[i+1] = ClosedMsg(r)
          /\ j+1 \in (i+2)..Len(s) /\ t[j] = s[j+1]
      BY <2>1, <2>2
    <3> QED  BY <3>1 DEF LastReply
  <2>3. ASSUME Head(s) = ClosedMsg(r), NEW j \in 1..Len(t)
        PROVE  ~About(t[j], r)
    <3>1. 1 \in 1..Len(s) /\ s[1] = ClosedMsg(r) /\ j+1 \in 2..Len(s) /\ t[j] = s[j+1]
      BY <2>1, <2>3
    <3> QED  BY <3>1 DEF LastReply
  <2> QED  BY <2>2, <2>3 DEF LastReply, Silent, t
<1>2. ASSUME NEW n \in 0..Len(s)
      PROVE  LastReply(SubSeq(s, 1, n), r)
  <2>1. /\ Len(s) \in Nat /\ Len(SubSeq(s, 1, n)) = n
        /\ \A i \in 1..n : SubSeq(s, 1, n)[i] = s[i]
    BY PrefixIndex
  <2> QED  BY <2>1 DEF LastReply
<1>3. ASSUME NEW m \in DownMessages, ~About(m, r) \/ ~Has(s, ClosedMsg(r))
      PROVE  LastReply(Append(s, m), r)
  <2> DEFINE t == Append(s, m)
  <2>1. /\ Len(s) \in Nat /\ Len(t) = Len(s) + 1
        /\ \A i \in 1..Len(s) : t[i] = s[i]
        /\ t[Len(s) + 1] = m
    BY AppendIndex
  <2> HIDE DEF t
  <2>2. ASSUME NEW i \in 1..Len(t), t[i] = ClosedMsg(r), NEW j \in (i+1)..Len(t)
        PROVE  ~About(t[j], r)
    <3>1. i \in 1..Len(s) /\ s[i] = ClosedMsg(r)
      BY <2>1, <2>2
    <3>2. j \in (i+1)..Len(s) \/ j = Len(s) + 1
      BY <2>1, <2>2
    <3>3. (j \in (i+1)..Len(s) /\ t[j] = s[j]) \/ (j = Len(s) + 1 /\ t[j] = m)
      BY <2>1, <3>1, <3>2
    <3> QED  BY <1>3, <3>1, <3>3 DEF LastReply, Has
  <2> QED  BY <2>2 DEF LastReply, t
<1> QED  BY <1>1, <1>2, <1>3

-----------------------------------------------------------------------------
(* What a stream has got, and what is still to come                        *)

Got(r) == Len(delivered[r]) + Len(values[r])

\* What was delivered, and what is buffered behind it, counts up from one; and
\* nothing is left behind a stream that ended.
Numbered(r) ==
  /\ \A i \in 1..Len(delivered[r]) : delivered[r][i] = i
  /\ \A i \in 1..Len(values[r]) : values[r][i] = Len(delivered[r]) + i
  /\ Got(r) <= itemsSent[r]
  /\ phase[r] = "ended" => values[r] = <<>>

Known(r) == Coming(r) \/ entries[r] # "absent"

\* Items that arrive for r are kept, now or once r is registered.
Hearing(r) == (Unmade(r) \/ ValuesReceiverAlive(r)) /\ Known(r)

\* The items on their way carry on where the handle is.
ItemsFollow(r) ==
  Hearing(r) =>
    /\ Follow(down, r, Got(r), itemsSent[r])
    /\ connected => Newest(down, r, Got(r), itemsSent[r])

\* Closed is the last reply, and only a value method answers with a value.
ClosedLast(r) ==
  /\ Has(down, ClosedMsg(r)) => peer[r] = "done"
  /\ LastReply(down, r)
  /\ Has(down, ValueMsg(r)) => r \in ValueRequests

\* Nobody has given r up: neither by its Aborter nor by dropping its handle.
Wanted(r) == abort[r] = "armed" /\ phase[r] # "dropped"

Holding(msg) == task \in {"sending", "flushing"} /\ Head(inHand) = msg
AbortMeant(r) ==
  Wanted(r) => ~Has(queue[MethodOf[r]], AbortMsg(r)) /\ ~Holding(AbortMsg(r))

\* A wanted stream that the task has forgotten is complete.
Complete(r) ==
  r \in StreamRequests /\ Wanted(r) /\ connected /\ ~Known(r) =>
    /\ peer[r] = "done" /\ Silent(down, r)
    /\ ValuesReceiverAlive(r) \/ phase[r] = "ended" => itemsSent[r] = Got(r)

\* A wanted stream ends only once the task has forgotten it.
EndForgotten(r) == r \in StreamRequests /\ phase[r] = "ended" /\ Wanted(r) => ~Known(r)

Flowing(r) ==
  ItemsFollow(r) /\ ClosedLast(r) /\ AbortMeant(r) /\ Complete(r) /\ EndForgotten(r)

Delivery == ~Faulty => /\ \A r \in Requests : Numbered(r)
                       /\ TaskUp => \A r \in Requests : Flowing(r)

\* How many items a stream got is a natural number.
LEMMA GotType ==
  ASSUME ConsumerTypeOK, NEW r \in Requests
  PROVE  Got(r) \in Nat
BY LenProperties DEF Got, ConsumerTypeOK, ClientTypeOK, ChannelTypeOK

-----------------------------------------------------------------------------
(* Steps of the handles                                                    *)

\* What a handle's step does to the items of a request q: none is lost unless
\* nobody will ask for them.
LEMMA HandleNumbers ==
  ASSUME ConsumerTypeOK, NEW r \in Requests, Begin(r) \/ Finish(r),
         NEW q \in Requests, Numbered(q), UNCHANGED itemsSent, itemsSent[q] \in Nat
  PROVE  /\ Numbered(q)'
         /\ \/ Got(q)' = Got(q)
            \/ phase'[q] \in {"resolved", "dropped"}
            \/ phase'[q] = "ended" /\ abort'[q] # "armed"
<1> USE DEF ConsumerTypeOK, ClientTypeOK, ChannelTypeOK
<1>1. /\ delivered[q] \in Seq(Nat) /\ values[q] \in Seq(Nat)
      /\ Len(delivered[q]) \in Nat /\ Len(values[q]) \in Nat /\ Len(<<>>) = 0
  BY LenProperties
<1>2. ASSUME UNCHANGED <<delivered, values>>,
             phase'[q] = "ended" => phase[q] = "ended"
      PROVE  Numbered(q)' /\ Got(q)' = Got(q)
  BY <1>2 DEF Numbered, Got
<1>3. ASSUME UNCHANGED delivered, values'[q] = <<>>
      PROVE  Numbered(q)'
  BY <1>1, <1>3 DEF Numbered, Got
<1>4. ASSUME NEW res \in Results, Resolve(r, res), UNCHANGED delivered
      PROVE  /\ Numbered(q)'
             /\ Got(q)' = Got(q) \/ phase'[q] \in {"resolved", "dropped"}
  <2>1. CASE q = r
    BY <1>3, <1>4, <2>1 DEF Resolve
  <2>2. CASE q # r
    BY <1>4, <2>2 DEF Resolve, Numbered, Got
  <2> QED  BY <2>1, <2>2
<1>5. CASE Call(r)
  BY <1>2, <1>5 DEF Call, channelVars
<1>6. CASE Poll(r)
  <2>1. "ErrAborted" \in Results
    BY DEF Results, Errors
  <2> QED  BY <1>2, <1>4, <1>6, <2>1 DEF Poll
<1>7. CASE SendRequest(r)
  <2>1. "ErrShutdown" \in Results
    BY DEF Results, Errors
  <2> QED  BY <1>2, <1>4, <1>7, <2>1 DEF SendRequest
<1>8. CASE PollResult(r)
  <2>1. "ErrDropped" \in Results
    BY DEF Results, Errors
  <2>2. CASE \E res \in Results : Resolve(r, res)
    BY <1>4, <1>8, <2>2 DEF PollResult
  <2>3. CASE UNCHANGED values /\ phase' \in {[phase EXCEPT ![r] = "streaming"],
                                             [phase EXCEPT ![r] = "waiting"]}
    BY <1>2, <1>8, <2>3 DEF PollResult
  <2> QED  BY <1>8, <2>1, <2>2, <2>3 DEF PollResult
<1>9. CASE PollNext(r)
  <2>1. CASE q # r
    BY <1>9, <2>1 DEF PollNext, Numbered, Got
  <2>2. CASE q = r /\ values[r] # <<>>
    <3> DEFINE v == values[q]
               d == delivered[q]
    <3>1. /\ delivered'[q] = Append(d, Head(v)) /\ values'[q] = Tail(v) /\ phase' = phase
      BY <1>9, <2>2 DEF PollNext
    <3>2. /\ Len(v) \in Nat \ {0} /\ Len(Tail(v)) = Len(v) - 1
          /\ \A i \in 1..Len(Tail(v)) : Tail(v)[i] = v[i+1]
          /\ Head(v) = v[1] /\ Head(v) \in Nat
      BY <1>1, <2>2, TailIndex, HeadTailProperties
    <3>3. /\ Len(Append(d, Head(v))) = Len(d) + 1
          /\ \A i \in 1..Len(d) : Append(d, Head(v))[i] = d[i]
          /\ Append(d, Head(v))[Len(d) + 1] = Head(v)
      BY <1>1, <3>2, AppendIndex
    <3>4. Head(v) = Len(d) + 1
      BY <3>2 DEF Numbered
    <3>5. Got(q)' = Got(q)
      BY <1>1, <3>1, <3>2, <3>3 DEF Got
    <3>6. ASSUME NEW i \in 1..Len(delivered'[q])
          PROVE  delivered'[q][i] = i
      <4>1. i \in 1..Len(d) \/ i = Len(d) + 1
        BY <1>1, <3>1, <3>3
      <4> QED  BY <3>1, <3>3, <3>4, <4>1 DEF Numbered
    <3>7. ASSUME NEW i \in 1..Len(values'[q])
          PROVE  values'[q][i] = Len(delivered'[q]) + i
      <4>1. i+1 \in 1..Len(v) /\ values'[q][i] = v[i+1]
        BY <3>1, <3>2
      <4>2. v[i+1] = Len(d) + (i+1)
        BY <4>1 DEF Numbered
      <4> QED  BY <1>1, <3>1, <3>3, <4>1, <4>2
    <3>8. phase[q] # "ended"
      BY <1>9, <2>2 DEF PollNext
    <3> QED  BY <3>1, <3>5, <3>6, <3>7, <3>8 DEF Numbered
  <2>3. CASE q = r /\ values[r] = <<>>
    BY <1>9, <2>3 DEF PollNext, Numbered, Got
  <2> QED  BY <2>1, <2>2, <2>3
<1>10. CASE CheckAbort(r)
  <2>1. CASE q = r /\ abort[r] = "signalled"
    BY <1>3, <1>10, <2>1 DEF CheckAbort
  <2>2. CASE q # r \/ abort[r] # "signalled"
    BY <1>10, <2>2 DEF CheckAbort, Numbered, Got
  <2> QED  BY <2>1, <2>2
<1>11. CASE DropHandle(r)
  <2>1. CASE q = r
    BY <1>3, <1>11, <2>1 DEF DropHandle
  <2>2. CASE q # r
    BY <1>11, <2>2 DEF DropHandle, Numbered, Got
  <2> QED  BY <2>1, <2>2
<1>12. CASE AbortSend(r)
  BY <1>2, <1>12 DEF AbortSend
<1>13. CASE AbortSignal(r)
  BY <1>2, <1>13 DEF AbortSignal, channelVars
<1> QED
  BY <1>5, <1>6, <1>7, <1>8, <1>9, <1>10, <1>11, <1>12, <1>13 DEF Begin, Finish

\* The one step of its handle by which a wanted request is made, and the one by
\* which a wanted stream ends.
LEMMA HandlePhases ==
  ASSUME ConsumerTypeOK, NEW r \in Requests, Begin(r) \/ Finish(r)
  PROVE  /\ \A q \in Requests \ {r} : phase'[q] = phase[q] /\ abort'[q] = abort[q]
         /\ Wanted(r)' => Wanted(r)
         /\ Unmade(r) /\ ~Unmade(r)' /\ Wanted(r)' => SendRequest(r)
         /\ phase'[r] = "ended" /\ phase[r] # "ended" /\ Wanted(r)' => PollNext(r)
<1> USE DEF ConsumerTypeOK, ClientTypeOK, Wanted, Unmade, Resolve, Between
<1>1. CASE Call(r)
  BY <1>1 DEF Call
<1>2. CASE Poll(r)
  BY <1>2 DEF Poll
<1>3. CASE SendRequest(r)
  BY <1>3 DEF SendRequest
<1>4. CASE PollResult(r)
  BY <1>4 DEF PollResult
<1>5. CASE PollNext(r)
  BY <1>5 DEF PollNext
<1>6. CASE CheckAbort(r)
  BY <1>6 DEF CheckAbort
<1>7. CASE DropHandle(r)
  BY <1>7 DEF DropHandle
<1>8. CASE AbortSend(r)
  BY <1>8 DEF AbortSend
<1>9. CASE AbortSignal(r)
  BY <1>9 DEF AbortSignal
<1> QED  BY <1>1, <1>2, <1>3, <1>4, <1>5, <1>6, <1>7, <1>8, <1>9 DEF Begin, Finish

\* What a handle's step does to the life of a request q, while the task runs:
\* the task knows of q as before, unless q is given up; and q ends by itself
\* only if the task has forgotten it.
LEMMA HandleLives ==
  ASSUME ConsumerTypeOK, TaskUp, HandFull, NEW r \in Requests, Begin(r) \/ Finish(r),
         NEW q \in Requests
  PROVE  /\ Wanted(q)' => Wanted(q)
         /\ Coming(q)' => Coming(q)
         /\ Wanted(q)' /\ Coming(q) => Coming(q)'
         /\ (Unmade(q) \/ ValuesReceiverAlive(q))' => Unmade(q) \/ ValuesReceiverAlive(q)
         /\ phase'[q] = "ended" /\ Wanted(q)' =>
              phase[q] = "ended" \/ (ValuesReceiverAlive(q) /\ ~Known(q))
<1> USE DEF ConsumerTypeOK, ClientTypeOK, ChannelTypeOK
<1>1. UNCHANGED <<task, inHand, entries>>
  BY HandleStepType DEF taskVars
<1>2. /\ InHand(q)' <=> InHand(q)
      /\ Queued(q)' => Queued(q) \/ (q = r /\ Unmade(r))
      /\ Queued(q) => Queued(q)'
  <2>1. InHand(q)' <=> InHand(q)
    BY <1>1 DEF InHand
  <2>2. ASSUME NEW msg \in {AbortMsg(r), RequestMsg(r)},
               queue' = [queue EXCEPT ![MethodOf[r]] = Append(@, msg)]
        PROVE  /\ Queued(q) => Queued(q)'
               /\ Queued(q)' => Queued(q) \/ msg = RequestMsg(q)
    <3>1. CASE MethodOf[q] = MethodOf[r]
      <4>1. /\ queue[MethodOf[q]] \in Seq(UpMessages) /\ msg \in UpMessages
            /\ queue'[MethodOf[q]] = Append(queue[MethodOf[q]], msg)
        BY <2>2, <3>1, TransportAssumption, MessageTypes
      <4> QED  BY <4>1, AppendOrder DEF Queued
    <3>2. CASE MethodOf[q] # MethodOf[r]
      BY <2>2, <3>2, TransportAssumption DEF Queued
    <3> QED  BY <3>1, <3>2
  <2> QED  BY <2>1, <2>2, HandleMoves, RequestsDiffer DEF Queued
<1>3. \A p \in Requests : Unmade(p)' => Unmade(p)
  BY HandleMoves
<1>4. Coming(q)' => Coming(q)
  BY <1>2, <1>3 DEF Coming
<1>5. ASSUME Wanted(q)', Unmade(q), ~Unmade(q)'
      PROVE  Queued(q)'
  <2>1. q = r /\ SendRequest(r)
    BY <1>5, HandlePhases DEF Unmade
  <2>3. queue' = [queue EXCEPT ![MethodOf[r]] = Append(@, RequestMsg(r))]
    BY <2>1 DEF SendRequest, Enqueue, TaskUp
  <2>4. /\ queue[MethodOf[r]] \in Seq(UpMessages) /\ RequestMsg(r) \in UpMessages
        /\ queue'[MethodOf[r]] = Append(queue[MethodOf[r]], RequestMsg(r))
    BY <2>3, TransportAssumption, MessageTypes
  <2> QED  BY <2>1, <2>4, AppendOrder DEF Queued
<1>6. Wanted(q)' /\ Coming(q) => Coming(q)'
  BY <1>2, <1>5 DEF Coming
<1>7. Wanted(q)' => Wanted(q)
  BY HandlePhases DEF Wanted
<1>8. (Unmade(q) \/ ValuesReceiverAlive(q))' => Unmade(q) \/ ValuesReceiverAlive(q)
  BY DEF Begin, Finish, Unmade, ValuesReceiverAlive, Call, Poll, SendRequest, PollResult,
         PollNext, CheckAbort, DropHandle, AbortSend, AbortSignal, Resolve, Between
<1>9. ASSUME phase'[q] = "ended", Wanted(q)', phase[q] # "ended"
      PROVE  ValuesReceiverAlive(q) /\ ~Known(q)
  <2>1. q = r /\ PollNext(r)
    BY <1>9, HandlePhases
  <2>3. phase[r] = "streaming" /\ ~InPipeline(r) /\ entries[r] = "absent"
    BY <1>9, <2>1 DEF PollNext, ValuesSenderAlive
  <2>4. ~Queued(r) /\ ~Contains(inHand, RequestMsg(r))
    BY <2>3 DEF InPipeline, Contains, Queued, Has
  <2>5. ~InHand(r)
    <3>1. ASSUME InHand(r) PROVE FALSE
      <4>1. inHand \in Seq(UpMessages) /\ inHand # <<>>
        BY <3>1 DEF InHand, HandFull, TaskTypeOK
      <4>2. 1 \in 1..Len(inHand) /\ inHand[1] = RequestMsg(r)
        BY <3>1, <4>1, TailIndex DEF InHand
      <4> QED  BY <2>4, <4>2 DEF Contains
    <3> QED  BY <3>1
  <2> QED
    BY <2>1, <2>3, <2>4, <2>5 DEF ValuesReceiverAlive, Known, Coming, Unmade
<1> QED  BY <1>4, <1>6, <1>7, <1>8, <1>9

\* A handle's step keeps what flows to every request.
LEMMA HandleFlows ==
  ASSUME ConsumerTypeOK, PeerTypeOK, TaskUp, HandFull,
         NEW r \in Requests, Begin(r) \/ Finish(r), UNCHANGED peerVars,
         NEW q \in Requests, Numbered(q), Flowing(q)
  PROVE  Flowing(q)'
<1> USE DEF Flowing
<1>1. UNCHANGED <<task, inHand, entries, peer, itemsSent, up, down, connected>>
  BY HandleStepType DEF taskVars, wire, peerVars
<1>2. \/ Got(q)' = Got(q)
      \/ phase'[q] \in {"resolved", "dropped"}
      \/ phase'[q] = "ended" /\ abort'[q] # "armed"
  BY <1>1, HandleNumbers DEF PeerTypeOK
<1>3. /\ Wanted(q)' => Wanted(q)
      /\ Known(q)' => Known(q)
      /\ Wanted(q)' /\ Known(q) => Known(q)'
      /\ (Unmade(q) \/ ValuesReceiverAlive(q))' => Unmade(q) \/ ValuesReceiverAlive(q)
      /\ phase'[q] = "ended" /\ Wanted(q)' =>
           phase[q] = "ended" \/ (ValuesReceiverAlive(q) /\ ~Known(q))
  BY <1>1, HandleLives DEF Known
<1>4. ItemsFollow(q)'
  <2>1. Hearing(q)' => Hearing(q) /\ Got(q)' = Got(q)
    BY <1>2, <1>3 DEF Hearing, Unmade, ValuesReceiverAlive
  <2> QED  BY <1>1, <2>1 DEF ItemsFollow
<1>5. ClosedLast(q)'
  BY <1>1 DEF ClosedLast
<1>6. AbortMeant(q)'
  <2>1. Holding(AbortMsg(q))' <=> Holding(AbortMsg(q))
    BY <1>1 DEF Holding
  <2>2. ASSUME Wanted(q)', NEW msg \in {AbortMsg(r), RequestMsg(r)}, msg # AbortMsg(q),
               queue' = [queue EXCEPT ![MethodOf[r]] = Append(@, msg)]
        PROVE  ~Has(queue'[MethodOf[q]], AbortMsg(q))
    <3>0. ~Has(queue[MethodOf[q]], AbortMsg(q))
      BY <1>3, <2>2 DEF AbortMeant
    <3>1. CASE MethodOf[q] = MethodOf[r]
      <4>1. /\ queue[MethodOf[q]] \in Seq(UpMessages) /\ msg \in UpMessages
            /\ queue'[MethodOf[q]] = Append(queue[MethodOf[q]], msg)
        BY <2>2, <3>1, TransportAssumption, MessageTypes DEF ConsumerTypeOK, ChannelTypeOK
      <4> QED  BY <2>2, <3>0, <4>1, AppendOrder
    <3>2. CASE MethodOf[q] # MethodOf[r]
      BY <2>2, <3>0, <3>2, TransportAssumption DEF ConsumerTypeOK, ChannelTypeOK
    <3> QED  BY <3>1, <3>2
  <2>3. ASSUME queue' = queue, Wanted(q)'
        PROVE  ~Has(queue'[MethodOf[q]], AbortMsg(q))
    BY <1>3, <2>3 DEF AbortMeant
  <2>4. RequestMsg(r) # AbortMsg(q) /\ (AbortMsg(r) = AbortMsg(q) => r = q)
    BY RequestsDiffer
  <2>5. Wanted(q)' => ~Has(queue'[MethodOf[q]], AbortMsg(q))
    <3>1. CASE r = q /\ (abort'[r] # "armed" \/ phase'[r] = "dropped")
      BY <3>1 DEF Wanted
    <3> QED  BY <2>2, <2>3, <2>4, <3>1, HandleMoves
  <2> QED  BY <1>3, <2>1, <2>5 DEF AbortMeant
<1>7. ASSUME q \in StreamRequests, Wanted(q)', connected', ~Known(q)'
      PROVE  /\ peer'[q] = "done" /\ Silent(down', q)
             /\ (ValuesReceiverAlive(q) \/ phase[q] = "ended")' => itemsSent'[q] = Got(q)'
  <2>1. /\ peer[q] = "done" /\ Silent(down, q)
        /\ ValuesReceiverAlive(q) \/ phase[q] = "ended" => itemsSent[q] = Got(q)
    BY <1>1, <1>3, <1>7 DEF Complete
  <2>2. ~Unmade(q)
    BY <1>3, <1>7 DEF Known, Coming
  <2>3. (ValuesReceiverAlive(q) \/ phase[q] = "ended")' =>
           (ValuesReceiverAlive(q) \/ phase[q] = "ended") /\ Got(q)' = Got(q)
    BY <1>2, <1>3, <1>7, <2>2 DEF ValuesReceiverAlive, Wanted
  <2> QED  BY <1>1, <2>1, <2>3
<1>8. Complete(q)'
  BY <1>7 DEF Complete
<1>9. EndForgotten(q)'
  BY <1>3 DEF EndForgotten
<1> QED  BY <1>4, <1>5, <1>6, <1>8, <1>9

-----------------------------------------------------------------------------
(* Steps of the producer                                                   *)

\* A step of the producer's end changes nothing at the consumer's.
LEMMA ConsumerStays ==
  ASSUME UNCHANGED consumerVars, NEW r \in Requests
  PROVE  /\ Got(r)' = Got(r) /\ (Known(r)' <=> Known(r)) /\ (Hearing(r)' <=> Hearing(r))
         /\ Wanted(r)' <=> Wanted(r)
         /\ ValuesReceiverAlive(r)' <=> ValuesReceiverAlive(r)
         /\ (AbortMeant(r)' <=> AbortMeant(r)) /\ (EndForgotten(r)' <=> EndForgotten(r))
         /\ UNCHANGED <<phase, delivered, values>>
BY DEF Got, Known, Hearing, Wanted, ValuesReceiverAlive, AbortMeant, EndForgotten,
       Holding, Coming, Unmade, Queued, InHand, consumerVars, clientVars, channelVars,
       taskVars

\* The producer sends nothing back: it only sends more.
LEMMA PeerNumbers ==
  ASSUME ConsumerTypeOK, PeerTypeOK, UNCHANGED consumerVars, NEW r \in Requests,
         Numbered(r), itemsSent'[r] \in Nat, itemsSent[r] <= itemsSent'[r]
  PROVE  Numbered(r)'
<1>1. Got(r) \in Nat
  BY GotType
<1>2. Got(r)' <= itemsSent'[r]
  BY <1>1, ConsumerStays DEF Numbered, PeerTypeOK
<1> QED  BY <1>2, ConsumerStays DEF Numbered

\* It says something: the next item, the end of a stream that is open, an
\* answer of a value method, or nothing about r.
LEMMA SayFlows ==
  ASSUME ConsumerTypeOK, PeerTypeOK, WireTypeOK, UNCHANGED consumerVars,
         NEW r \in Requests, Numbered(r), Flowing(r), connected' = connected,
         NEW msg \in DownMessages, down' = Append(down, msg),
         About(msg, r) => peer[r] # "done",
         ~About(msg, r) => peer'[r] = peer[r],
         IF IsItem(msg, r)
           THEN /\ connected /\ msg = ItemMsg(r, itemsSent[r] + 1)
                /\ itemsSent'[r] = itemsSent[r] + 1
           ELSE itemsSent'[r] = itemsSent[r],
         msg = ClosedMsg(r) => peer'[r] = "done",
         msg = ValueMsg(r) => r \in ValueRequests
  PROVE  Numbered(r)' /\ Flowing(r)'
<1> USE DEF Flowing
<1>1. /\ down \in Seq(DownMessages) /\ itemsSent[r] \in Nat /\ Got(r) \in Nat
      /\ Got(r) <= itemsSent[r]
  BY LenProperties
     DEF WireTypeOK, PeerTypeOK, Got, Numbered, ConsumerTypeOK, ClientTypeOK, ChannelTypeOK
<1>2. Numbered(r)'
  BY <1>1, PeerNumbers
<1>3. ItemsFollow(r)'
  <2>1. ASSUME Hearing(r)
        PROVE  /\ Follow(down', r, Got(r), itemsSent'[r])
               /\ connected => Newest(down', r, Got(r), itemsSent'[r])
    BY <1>1, <2>1, FollowAppend DEF ItemsFollow
  <2> QED  BY <2>1, ConsumerStays DEF ItemsFollow
<1>4. ClosedLast(r)'
  <2>1. peer[r] = "done" => peer'[r] = "done"
    OBVIOUS
  <2>2. /\ \A x : Has(down', x) => Has(down, x) \/ x = msg
    BY <1>1, AppendOrder
  <2>3. LastReply(down', r)
    BY <1>1, LastKept DEF ClosedLast
  <2> QED  BY <2>1, <2>2, <2>3 DEF ClosedLast
<1>5. ASSUME r \in StreamRequests, Wanted(r), connected, ~Known(r)
      PROVE  /\ peer'[r] = "done" /\ Silent(down', r)
             /\ ValuesReceiverAlive(r) \/ phase[r] = "ended" => itemsSent'[r] = Got(r)
  <2>1. /\ peer[r] = "done" /\ Silent(down, r)
        /\ ValuesReceiverAlive(r) \/ phase[r] = "ended" => itemsSent[r] = Got(r)
    BY <1>5 DEF Complete
  <2>2. ~About(msg, r) /\ ~IsItem(msg, r)
    BY <2>1, ItemsDiffer
  <2> QED  BY <1>1, <2>1, <2>2, AppendOrder
<1>6. Complete(r)'
  BY <1>5, ConsumerStays DEF Complete
<1> QED  BY <1>2, <1>3, <1>4, <1>6, ConsumerStays

\* It says nothing, and revives no stream that is done.
LEMMA QuietFlows ==
  ASSUME ConsumerTypeOK, PeerTypeOK, WireTypeOK, UNCHANGED consumerVars, down' = down,
         NEW r \in Requests, Numbered(r), Flowing(r), connected' => connected,
         peer[r] = "done" => peer'[r] = "done", itemsSent'[r] \in Nat,
         itemsSent'[r] = itemsSent[r] \/ (~connected' /\ itemsSent[r] <= itemsSent'[r])
  PROVE  Numbered(r)' /\ Flowing(r)'
<1> USE DEF Flowing
<1>1. itemsSent[r] \in Nat /\ itemsSent[r] <= itemsSent'[r]
  BY DEF PeerTypeOK
<1>2. Numbered(r)'
  BY <1>1, PeerNumbers
<1>3. ItemsFollow(r)'
  <2>1. Follow(down, r, Got(r), itemsSent[r]) => Follow(down, r, Got(r), itemsSent'[r])
    BY <1>1, FollowGrows DEF WireTypeOK
  <2> QED  BY <1>1, <2>1, ConsumerStays DEF ItemsFollow
<1>4. ClosedLast(r)'
  BY DEF ClosedLast
<1>5. Complete(r)'
  BY ConsumerStays DEF Complete
<1> QED  BY <1>2, <1>3, <1>4, <1>5, ConsumerStays

\* Every step of the producer, or of the network, keeps what flows.
LEMMA PeerFlows ==
  ASSUME ConsumerTypeOK, PeerTypeOK, WireTypeOK, PeerNext, UNCHANGED consumerVars,
         NEW r \in Requests, Numbered(r), Flowing(r), Tracked(r)
  PROVE  Numbered(r)' /\ Flowing(r)'
<1> USE DEF PeerTypeOK
<1>1. CASE PeerReceive
  <2>1. /\ up \in Seq(UpMessages) /\ up # <<>> /\ Head(up) \in UpMessages
        /\ UNCHANGED <<down, connected, itemsSent>>
    BY <1>1, HeadTailProperties DEF PeerReceive, WireTypeOK
  <2>2. ASSUME peer[r] = "done"
        PROVE  peer'[r] = "done"
    <3>1. ~Has(up, RequestMsg(r))
      BY <2>2 DEF Tracked, SentOnce
    <3>2. Head(up) # RequestMsg(r)
      BY <2>1, <3>1, TailIndex DEF Has
    <3> QED  BY <1>1, <2>1, <2>2, <3>2, RequestsDiffer DEF PeerReceive, UpMessages
  <2> QED  BY <2>1, <2>2, QuietFlows
<1>2. ASSUME NEW q \in Requests, PeerReplies(q)
      PROVE  Numbered(r)' /\ Flowing(r)'
  <2>1. CASE PeerAnswer(q)
    <3>1. /\ ValueMsg(q) \in DownMessages
          /\ About(ValueMsg(q), r) <=> q = r
          /\ ValueMsg(q) # ClosedMsg(r) /\ ~IsItem(ValueMsg(q), r)
      BY MessageTypes, RepliesDiffer, ItemsDiffer
    <3>2. ValueMsg(q) = ValueMsg(r) => q = r
      BY DEF ValueMsg
    <3> QED  BY <2>1, <3>1, <3>2, SayFlows DEF PeerAnswer, Reply, Send
  <2>2. CASE PeerOpen(q)
    <3>1. /\ OpenMsg(q) \in DownMessages
          /\ About(OpenMsg(q), r) <=> q = r
          /\ OpenMsg(q) # ClosedMsg(r) /\ ~IsItem(OpenMsg(q), r)
          /\ OpenMsg(q) # ValueMsg(r)
      BY MessageTypes, RepliesDiffer, ItemsDiffer
    <3> QED  BY <2>2, <3>1, SayFlows DEF PeerOpen, Reply, Send
  <2>3. CASE PeerItem(q)
    <3> DEFINE msg == ItemMsg(q, itemsSent[q] + 1)
    <3>1. itemsSent[q] + 1 \in Nat
      OBVIOUS
    <3>2. /\ msg \in DownMessages
          /\ About(msg, r) <=> q = r
          /\ IsItem(msg, r) <=> q = r
          /\ msg # ClosedMsg(r)
      BY <3>1, MessageTypes, RepliesDiffer, ItemsDiffer
    <3>3. msg # ValueMsg(r)
      BY DEF ItemMsg, ValueMsg
    <3> QED  BY <2>3, <3>2, <3>3, SayFlows DEF PeerItem, Reply, Send
  <2>4. CASE PeerClose(q)
    <3>1. /\ ClosedMsg(q) \in DownMessages
          /\ About(ClosedMsg(q), r) <=> q = r
          /\ ~IsItem(ClosedMsg(q), r) /\ ClosedMsg(q) # ValueMsg(r)
          /\ ClosedMsg(q) = ClosedMsg(r) => q = r
      BY MessageTypes, RepliesDiffer, ItemsDiffer
    <3> QED  BY <2>4, <3>1, SayFlows DEF PeerClose, Reply, Send
  <2> QED  BY <1>2, <2>1, <2>2, <2>3, <2>4 DEF PeerReplies
<1>3. ASSUME NEW q \in Requests, PeerUnheard(q)
      PROVE  Numbered(r)' /\ Flowing(r)'
  <2>1. /\ ~connected' /\ UNCHANGED <<down, connected>>
        /\ peer[r] = "done" => peer'[r] = "done"
        /\ itemsSent'[r] \in Nat /\ itemsSent[r] <= itemsSent'[r]
    BY <1>3 DEF PeerUnheard, Working, wire
  <2> QED  BY <2>1, QuietFlows
<1>4. ASSUME NEW q \in Requests, PeerCancel(q)
      PROVE  Numbered(r)' /\ Flowing(r)'
  BY <1>4, QuietFlows DEF PeerCancel, wire
<1>5. CASE PeerStop
  BY <1>5, QuietFlows DEF PeerStop, wire
<1>6. CASE PeerAnnounce
  <2>1. CASE connected
    <3>1. /\ Head(notice) \in DownMessages
          /\ Head(notice) \in [tag : StopTags]
      BY <1>6, HeadTailProperties DEF PeerAnnounce, DownMessages
    <3>2. /\ ~About(Head(notice), r) /\ ~IsItem(Head(notice), r)
          /\ Head(notice) # ClosedMsg(r)
      BY <3>1, RepliesDiffer, ItemsDiffer
    <3>3. Head(notice) # ValueMsg(r)
      BY <3>2, RepliesDiffer
    <3>4. Send(Head(notice)) /\ UNCHANGED <<peer, itemsSent>>
      BY <1>6, <2>1 DEF PeerAnnounce
    <3> QED  BY <3>1, <3>2, <3>3, <3>4, SayFlows DEF Send
  <2>2. CASE ~connected
    BY <1>6, <2>2, QuietFlows DEF PeerAnnounce, wire
  <2> QED  BY <2>1, <2>2
<1>7. CASE PeerHangup
  BY <1>7, QuietFlows DEF PeerHangup, peerVars
<1>8. CASE Disconnect /\ UNCHANGED peerVars
  <2>1. PICK k \in 0..Len(down) : down' = SubSeq(down, 1, k)
    BY <1>8 DEF Disconnect
  <2>2. ~connected' /\ UNCHANGED <<peer, itemsSent>> /\ down \in Seq(DownMessages)
    BY <1>8 DEF Disconnect, peerVars, WireTypeOK
  <2>3. Numbered(r)'
    BY <2>2, PeerNumbers
  <2>4. Got(r) \in Nat
    BY GotType
  <2>5. ItemsFollow(r)'
    BY <2>1, <2>2, <2>4, FollowPrefix, ConsumerStays DEF Flowing, ItemsFollow
  <2>6. ClosedLast(r)'
    BY <2>1, <2>2, PrefixOrder, LastKept DEF Flowing, ClosedLast
  <2>7. Complete(r)'
    BY <2>2 DEF Complete
  <2> QED  BY <2>3, <2>5, <2>6, <2>7, ConsumerStays DEF Flowing
<1> QED  BY <1>1, <1>2, <1>3, <1>4, <1>5, <1>6, <1>7, <1>8 DEF PeerNext, PeerOwn

-----------------------------------------------------------------------------
(* Steps of the consumer task                                              *)

\* The oldest message on the wire is on it.
LEMMA OldestIsThere ==
  ASSUME WireTypeOK, Receive
  PROVE  /\ down \in Seq(DownMessages) /\ down # <<>> /\ down' = Tail(down)
         /\ Head(down) \in DownMessages /\ task = "running"
         /\ Has(down, Head(down)) /\ \A r : Silent(down, r) => ~About(Head(down), r)
         /\ UNCHANGED <<phase, abort, delivered, connected>>
<1>1. /\ down \in Seq(DownMessages) /\ down # <<>> /\ down' = Tail(down)
      /\ Head(down) \in DownMessages /\ task = "running"
      /\ UNCHANGED <<phase, abort, delivered, connected>>
  BY DownTail DEF Receive, WireTypeOK, clientVars
<1>2. 1 \in 1..Len(down) /\ Head(down) = down[1]
  BY <1>1, TailIndex
<1> QED  BY <1>1, <1>2 DEF Has, Silent

\* An item is kept exactly if the handle can hear of it, and is the next one.
LEMMA ReceiveNumbers ==
  ASSUME ConsumerTypeOK, PeerTypeOK, WireTypeOK, Receive, UNCHANGED peerVars,
         NEW q \in Requests, Tracked(q), Numbered(q), ItemsFollow(q)
  PROVE  /\ Numbered(q)'
         /\ Got(q)' = IF Hearing(q) /\ IsItem(Head(down), q) THEN Got(q) + 1 ELSE Got(q)
<1> USE DEF ConsumerTypeOK, ClientTypeOK, ChannelTypeOK
<1> DEFINE msg == Head(down)
<1>1. /\ down \in Seq(DownMessages) /\ down # <<>> /\ msg \in DownMessages
      /\ task = "running" /\ \A r : Silent(down, r) => ~About(msg, r)
      /\ UNCHANGED <<phase, delivered, itemsSent>>
  BY OldestIsThere DEF peerVars
<1>2. IsItem(msg, q) => ~Coming(q)
  <2>1. Coming(q) => Silent(down, q)
    BY <1>1 DEF Coming, Unsent, InHand, Tracked, SentOnce
  <2> QED  BY <1>1, <2>1, ItemsDiffer
<1>3. CASE Hearing(q) /\ IsItem(msg, q)
  <2> DEFINE v == values[q]
             n == msg.item
  <2>1. entries[q] # "absent" /\ ValuesReceiverAlive(q)
    BY <1>2, <1>3 DEF Hearing, Known, Coming
  <2>2. HandleItem(q, n)
    BY <1>3 DEF Receive, HandleMessage, IsItem
  <2>3. values'[q] = Append(v, n)
    BY <2>1, <2>2 DEF HandleItem
  <2>4. /\ Got(q) \in Nat /\ itemsSent[q] \in Nat /\ Len(delivered[q]) \in Nat
        /\ v \in Seq(Nat)
    BY LenProperties DEF Got, PeerTypeOK
  <2>5. n = Got(q) + 1 /\ n <= itemsSent[q]
    BY <1>1, <1>3, <2>4, FollowTail DEF ItemsFollow
  <2>6. /\ Len(v) \in Nat /\ Len(Append(v, n)) = Len(v) + 1
        /\ \A i \in 1..Len(v) : Append(v, n)[i] = v[i]
        /\ Append(v, n)[Len(v) + 1] = n
    BY <2>4, <2>5, AppendIndex
  <2>7. Got(q)' = Got(q) + 1 /\ n = Len(delivered[q]) + (Len(v) + 1)
    BY <1>1, <2>3, <2>4, <2>5, <2>6 DEF Got
  <2>8. ASSUME NEW i \in 1..Len(values'[q])
        PROVE  values'[q][i] = Len(delivered'[q]) + i
    <3>1. i \in 1..Len(v) \/ i = Len(v) + 1
      BY <2>3, <2>6
    <3> QED  BY <1>1, <2>3, <2>6, <2>7, <3>1 DEF Numbered
  <2>9. phase'[q] # "ended"
    BY <1>1, <2>1 DEF ValuesReceiverAlive
  <2> QED  BY <1>1, <1>3, <2>5, <2>7, <2>8, <2>9 DEF Numbered
<1>4. CASE ~(Hearing(q) /\ IsItem(msg, q))
  <2>1. ~(IsItem(msg, q) /\ entries[q] # "absent" /\ ValuesReceiverAlive(q))
    BY <1>4 DEF Hearing, Known
  <2>2. values'[q] = values[q]
    <3>1. CASE msg.tag = "item" /\ HandleItem(msg.id, msg.item)
      BY <2>1, <3>1 DEF HandleItem, IsItem
    <3>2. CASE values' = values
      BY <3>2
    <3> QED
      BY <3>1, <3>2
         DEF Receive, HandleMessage, HandleValue, HandleOpen, HandleClosed, ShutDown
  <2> QED  BY <1>1, <1>4, <2>2 DEF Numbered, Got
<1> QED  BY <1>3, <1>4

\* What makes the task forget a request, while it runs, is its answer or Closed.
LEMMA ForgetsOnLastReply ==
  ASSUME TaskTypeOK, TaskUp', NEW msg \in DownMessages, HandleMessage(msg),
         NEW q \in Requests, entries[q] # "absent", entries'[q] = "absent"
  PROVE  msg = ValueMsg(q) \/ msg = ClosedMsg(q)
<1> USE DEF TaskTypeOK
<1>1. CASE msg.tag = "value" /\ HandleValue(msg.id)
  BY <1>1, ReplyIs DEF HandleValue
<1>2. CASE msg.tag = "open" /\ HandleOpen(msg.id)
  BY <1>2 DEF HandleOpen
<1>3. CASE msg.tag = "item" /\ HandleItem(msg.id, msg.item)
  BY <1>3 DEF HandleItem
<1>4. CASE msg.tag = "closed" /\ HandleClosed(msg.id)
  BY <1>4, ReplyIs DEF HandleClosed
<1>5. ASSUME NEW cause, ShutDown(cause)
      PROVE  FALSE
  BY <1>5 DEF ShutDown, TaskUp
<1> QED  BY <1>1, <1>2, <1>3, <1>4, <1>5 DEF HandleMessage

\* Reading the oldest reply keeps what flows.
LEMMA ReceiveFlows ==
  ASSUME ConsumerTypeOK, PeerTypeOK, WireTypeOK, TaskOK, TaskUp', Exact, Receive,
         UNCHANGED peerVars, \A p \in Requests : Tracked(p),
         NEW q \in Requests, Numbered(q), Flowing(q)
  PROVE  Flowing(q)'
<1> USE DEF Flowing
<1> DEFINE msg == Head(down)
<1>1. /\ down \in Seq(DownMessages) /\ down # <<>> /\ down' = Tail(down)
      /\ msg \in DownMessages /\ task = "running" /\ Has(down, msg)
      /\ UNCHANGED <<phase, abort, delivered, connected>>
  BY OldestIsThere
<1>2. UNCHANGED <<peer, itemsSent>>
  BY DEF peerVars
<1>3. /\ Got(q)' = IF Hearing(q) /\ IsItem(msg, q) THEN Got(q) + 1 ELSE Got(q)
      /\ Numbered(q)'
  BY ReceiveNumbers
<1>4. \A p \in Requests : entries[p] = "pending" => msg # ClosedMsg(p)
  BY <1>1, TailOrder DEF Tracked, OpenFirst
<1>5. /\ UNCHANGED <<task, inHand, queue>>
      /\ entries[q] = "absent" => entries'[q] = "absent"
  BY <1>1, <1>4, HandleMessageTracks DEF Receive
<1>6. /\ Coming(q)' <=> Coming(q)
      /\ Known(q)' => Known(q)
      /\ Hearing(q)' => Hearing(q)
      /\ Wanted(q)' <=> Wanted(q)
      /\ ValuesReceiverAlive(q)' <=> ValuesReceiverAlive(q)
  BY <1>1, <1>5 DEF Coming, Known, Hearing, Wanted, Unmade, Queued, InHand,
                    ValuesReceiverAlive
<1>7. ItemsFollow(q)'
  <2>1. Got(q) \in Nat /\ itemsSent[q] \in Nat
    BY LenProperties
       DEF Got, PeerTypeOK, ConsumerTypeOK, ClientTypeOK, ChannelTypeOK
  <2>2. ASSUME Hearing(q)
        PROVE  /\ Follow(Tail(down), q, Got(q)', itemsSent[q])
               /\ connected => Newest(Tail(down), q, Got(q)', itemsSent[q])
    <3>1. CASE IsItem(msg, q)
      <4>1. Got(q)' = Got(q) + 1
        BY <1>3, <2>2, <3>1
      <4> QED  BY <1>1, <2>1, <2>2, <3>1, <4>1, FollowTail DEF ItemsFollow
    <3>2. CASE ~IsItem(msg, q)
      <4>1. Got(q)' = Got(q)
        BY <1>3, <3>2
      <4> QED  BY <1>1, <2>1, <2>2, <3>2, <4>1, FollowTail DEF ItemsFollow
    <3> QED  BY <3>1, <3>2
  <2> QED  BY <1>1, <1>2, <1>6, <2>2 DEF ItemsFollow
<1>8. ClosedLast(q)'
  BY <1>1, <1>2, TailOrder, LastKept DEF ClosedLast
<1>9. AbortMeant(q)'
  BY <1>5, <1>6 DEF AbortMeant, Holding
<1>10. EndForgotten(q)'
  BY <1>1, <1>6 DEF EndForgotten
<1>11. ASSUME q \in StreamRequests, Wanted(q), connected, ~Known(q)'
       PROVE  /\ peer[q] = "done" /\ Silent(Tail(down), q)
              /\ ValuesReceiverAlive(q) \/ phase[q] = "ended" => itemsSent[q] = Got(q)'
  <2>1. CASE ~Known(q)
    <3>1. Got(q)' = Got(q)
      BY <1>3, <2>1 DEF Hearing
    <3> QED  BY <1>1, <1>11, <2>1, <3>1, TailOrder DEF Complete
  <2>2. CASE Known(q)
    <3>1. ~Coming(q) /\ entries[q] # "absent" /\ entries'[q] = "absent"
      BY <1>6, <1>11, <2>2 DEF Known
    <3>2. msg # ValueMsg(q)
      BY <1>1, <1>11 DEF ClosedLast, ValueRequests
    <3>3. msg = ClosedMsg(q)
      BY <1>1, <3>1, <3>2, ForgetsOnLastReply DEF Receive, TaskOK
    <3>4. peer[q] = "done" /\ Silent(Tail(down), q)
      BY <1>1, <3>3, LastKept DEF ClosedLast
    <3>5. Got(q)' = Got(q)
      BY <1>3, <3>3, ItemsDiffer
    <3>6. phase[q] # "ended"
      BY <1>11, <2>2 DEF EndForgotten
    <3>7. ASSUME ValuesReceiverAlive(q)
          PROVE  itemsSent[q] = Got(q)
      <4>1. Newest(down, q, Got(q), itemsSent[q])
        BY <1>11, <2>2, <3>7 DEF ItemsFollow, Hearing
      <4>2. itemsSent[q] \in Nat
        BY DEF PeerTypeOK
      <4>3. /\ ItemMsg(q, itemsSent[q]) # msg
            /\ About(ItemMsg(q, itemsSent[q]), q)
        BY <3>3, <4>2, RepliesDiffer
      <4>4. ~Has(Tail(down), ItemMsg(q, itemsSent[q]))
        BY <3>4, <4>3 DEF Silent, Has
      <4>5. ~Has(down, ItemMsg(q, itemsSent[q]))
        BY <1>1, <4>3, <4>4, TailOrder
      <4> QED  BY <4>1, <4>5 DEF Newest
    <3> QED  BY <3>4, <3>5, <3>6, <3>7
  <2> QED  BY <2>1, <2>2
<1>12. Complete(q)'
  BY <1>1, <1>2, <1>6, <1>11 DEF Complete
<1> QED  BY <1>7, <1>8, <1>9, <1>10, <1>12

\* Sending a message neither makes the task forget a wanted request, while the
\* connection is up, nor know one that it did not.
LEMMA TakeKnows ==
  ASSUME TaskOK, Routed, NEW m \in Methods, TakeMessage(m),
         NEW q \in Requests, AbortMeant(q)
  PROVE  /\ Known(q)' <=> Known(q)
         /\ AbortMeant(q)'
         /\ UNCHANGED <<phase, abort, delivered, values, down, connected>>
<1> USE TransportAssumption
<1> DEFINE s == queue[m]
           msg == Head(s)
<1>1. /\ queue \in [Methods -> Seq(UpMessages)] /\ s \in Seq(UpMessages) /\ s # <<>>
      /\ queue' = [queue EXCEPT ![m] = Tail(s)] /\ inHand' = <<msg>>
      /\ task = "running" /\ task' = "sending"
      /\ UNCHANGED <<phase, abort, delivered, values, entries, down, connected>>
  BY DEF TakeMessage, TaskOK, ChannelTypeOK, clientVars, wire
<1>2. msg = s[1] /\ 1 \in 1..Len(s) /\ msg \in UpMessages /\ Has(s, msg)
  <2>1. msg = s[1] /\ 1 \in 1..Len(s) /\ msg \in UpMessages
    BY <1>1, TailIndex, HeadTailProperties
  <2> QED  BY <2>1 DEF Has
<1>3. MethodOf[msg.id] = m
  BY <1>2 DEF Routed
<1>4. ASSUME NEW x \in {RequestMsg(q), AbortMsg(q)}
      PROVE  /\ Has(queue'[MethodOf[q]], x) => Has(queue[MethodOf[q]], x)
             /\ Has(queue[MethodOf[q]], x) => Has(queue'[MethodOf[q]], x) \/ msg = x
             /\ msg = x => Has(queue[MethodOf[q]], x)
  <2>1. msg = x => m = MethodOf[q]
    BY <1>3, RequestsDiffer
  <2>2. CASE m = MethodOf[q]
    <3>1. queue'[MethodOf[q]] = Tail(s) /\ queue[MethodOf[q]] = s
      BY <1>1, <2>2
    <3> QED  BY <1>1, <1>2, <3>1, TailOrder
  <2>3. CASE m # MethodOf[q]
    <3>1. queue'[MethodOf[q]] = queue[MethodOf[q]]
      BY <1>1, <2>3
    <3> QED  BY <2>1, <2>3, <3>1
  <2> QED  BY <2>2, <2>3
<1>5. /\ Unmade(q)' <=> Unmade(q)
      /\ ~InHand(q) /\ (InHand(q)' <=> msg = RequestMsg(q))
      /\ Holding(AbortMsg(q))' <=> msg = AbortMsg(q)
      /\ Wanted(q)' <=> Wanted(q)
  BY <1>1 DEF Unmade, InHand, Holding, Wanted
<1>6. Known(q)' <=> Known(q)
  BY <1>1, <1>4, <1>5 DEF Known, Coming, Queued
<1>7. AbortMeant(q)'
  BY <1>4, <1>5 DEF AbortMeant
<1> QED  BY <1>1, <1>6, <1>7

\* So does the end of a send.
LEMMA SentKnows ==
  ASSUME TaskOK, ~Faulty, SendOk \/ SendErr, NEW q \in Requests, AbortMeant(q)
  PROVE  /\ Known(q)' => Known(q)
         /\ Wanted(q) /\ connected /\ Known(q) => Known(q)'
         /\ AbortMeant(q)'
         /\ UNCHANGED <<phase, abort, delivered, values, down, connected>>
<1> USE DEF TaskOK, TaskTypeOK
<1> DEFINE msg == Head(inHand)
<1>0. inHand \in Seq(UpMessages) /\ inHand # <<>>
  BY DEF SendOk, SendErr, HandFull
<1>1. msg \in UpMessages
  BY <1>0, HeadTailProperties
<1>2. /\ UNCHANGED <<phase, abort, delivered, values, queue, down, connected>>
      /\ task \in {"sending", "flushing"} /\ task' = "running"
  BY DEF SendOk, SendErr, clientVars, channelVars, wire
<1>3. /\ Unmade(q)' <=> Unmade(q)
      /\ Queued(q)' <=> Queued(q)
      /\ ~InHand(q)' /\ (InHand(q) <=> msg = RequestMsg(q))
      /\ ~Holding(AbortMsg(q))' /\ (Holding(AbortMsg(q)) <=> msg = AbortMsg(q))
      /\ Wanted(q)' <=> Wanted(q)
  BY <1>2 DEF Unmade, Queued, InHand, Holding, Wanted
<1>4. AbortMeant(q)'
  BY <1>2, <1>3 DEF AbortMeant
<1>5. entries'[q] # entries[q] =>
        \/ msg = RequestMsg(q) /\ entries'[q] = "pending"
        \/ msg = AbortMsg(q)
  BY <1>1, RequestsDiffer DEF SendOk, SendErr, Register, Forget
<1>6. Known(q)' => Known(q)
  <2>1. msg = AbortMsg(q) => entries'[q] \in {entries[q], "absent"}
    BY RequestsDiffer DEF SendOk, SendErr, Register, Forget
  <2> QED  BY <1>3, <1>5, <2>1 DEF Known, Coming
<1>7. ASSUME Wanted(q), connected, Known(q)
      PROVE  Known(q)'
  <2>1. SendOk
    BY <1>7 DEF SendErr
  <2>2. msg # AbortMsg(q)
    BY <1>3, <1>7 DEF AbortMeant
  <2>3. msg = RequestMsg(q) => entries'[q] = "pending"
    BY <2>1, RequestsDiffer DEF SendOk, Register
  <2> QED  BY <1>3, <1>5, <1>7, <2>2, <2>3 DEF Known, Coming
<1> QED  BY <1>2, <1>4, <1>6, <1>7

\* What flows is as before when the task knows of a request as before.
LEMMA KnownFlows ==
  ASSUME NEW q \in Requests, Flowing(q), UNCHANGED peerVars,
         Known(q)' => Known(q), Wanted(q) /\ connected /\ Known(q) => Known(q)',
         AbortMeant(q)',
         UNCHANGED <<phase, abort, delivered, values, down, connected>>
  PROVE  Flowing(q)'
<1>1. UNCHANGED <<peer, itemsSent>>
  BY DEF peerVars
<1>2. /\ Got(q)' = Got(q)
      /\ Hearing(q)' => Hearing(q)
      /\ Wanted(q)' <=> Wanted(q)
      /\ ValuesReceiverAlive(q)' <=> ValuesReceiverAlive(q)
  BY DEF Got, Hearing, Wanted, Unmade, ValuesReceiverAlive
<1>3. ItemsFollow(q)' /\ ClosedLast(q)'
  BY <1>1, <1>2 DEF Flowing, ItemsFollow, ClosedLast
<1>4. Complete(q)' /\ EndForgotten(q)'
  BY <1>1, <1>2 DEF Flowing, Complete, EndForgotten
<1> QED  BY <1>3, <1>4 DEF Flowing

\* Every step of the task keeps the numbers, and what flows while it runs.
LEMMA TaskDelivers ==
  ASSUME ConsumerTypeOK, PeerTypeOK, WireTypeOK, TaskOK, ~Faulty, TaskStep,
         UNCHANGED peerVars, TaskUp => Order,
         \A p \in Requests : Numbered(p), TaskUp => \A p \in Requests : Flowing(p),
         NEW q \in Requests
  PROVE  Numbered(q)' /\ (TaskUp' => Flowing(q)')
<1>1. ASSUME UNCHANGED <<phase, delivered, values>>
      PROVE  Numbered(q)'
  BY <1>1 DEF Numbered, Got, peerVars
<1>2. ASSUME TaskUp
      PROVE  /\ Routed /\ Exact /\ \A p \in Requests : Tracked(p)
             /\ Flowing(q) /\ ItemsFollow(q) /\ AbortMeant(q)
  BY <1>2 DEF Order, Flowing
<1>3. ASSUME NEW cause, ShutDown(cause), UNCHANGED clientVars
      PROVE  Numbered(q)' /\ ~TaskUp'
  BY <1>1, <1>3 DEF ShutDown, TaskUp, clientVars
<1>4. CASE Receive
  <2>1. TaskUp
    BY <1>4 DEF Receive, TaskUp
  <2> QED  BY <1>2, <1>4, <2>1, ReceiveNumbers, ReceiveFlows
<1>5. CASE ReceiveClosed \/ TimeoutArm \/ ShutdownArm
  BY <1>3, <1>5 DEF ReceiveClosed, TimeoutArm, ShutdownArm
<1>6. CASE DropArm \/ DropState
  BY <1>1, <1>6 DEF DropArm, DropState, TaskUp, clientVars, channelVars
<1>7. ASSUME NEW m \in Methods, TakeMessage(m)
      PROVE  Numbered(q)' /\ Flowing(q)'
  <2>1. TaskUp
    BY <1>7 DEF TakeMessage, TaskUp
  <2> QED  BY <1>1, <1>2, <1>7, <2>1, TakeKnows, KnownFlows
<1>8. CASE SendOk \/ SendErr
  <2>1. TaskUp
    BY <1>8 DEF SendOk, SendErr, TaskUp
  <2> QED  BY <1>1, <1>2, <1>8, <2>1, SentKnows, KnownFlows
<1>9. CASE FeedMessage
  <2>1. /\ TaskUp /\ task' \in {"sending", "flushing"} /\ task \in {"sending", "flushing"}
        /\ UNCHANGED <<inHand, entries, queue, phase, abort, delivered, values, down,
                       connected>>
    BY <1>9 DEF FeedMessage, TaskUp, clientVars, channelVars
  <2>2. (Known(q)' <=> Known(q)) /\ (AbortMeant(q)' <=> AbortMeant(q))
    BY <2>1 DEF Known, Coming, Unmade, Queued, InHand, AbortMeant, Wanted, Holding
  <2> QED  BY <1>1, <1>2, <2>1, <2>2, KnownFlows
<1> QED
  BY <1>4, <1>5, <1>6, <1>7, <1>8, <1>9 DEF TaskStep, ReceiveError

-----------------------------------------------------------------------------
(* The inductive invariant                                                 *)

\* In a new session nothing flows.
LEMMA DeliveryInit == Fresh => Delivery
<1> SUFFICES ASSUME Fresh, NEW r \in Requests
             PROVE  Numbered(r) /\ Flowing(r)
  BY DEF Delivery
<1> USE DEF Fresh, ConsumerInit, WireInit
<1>1. Len(<<>>) = 0 /\ 1..0 = {}
  OBVIOUS
<1>2. /\ delivered[r] = <<>> /\ values[r] = <<>> /\ itemsSent[r] = 0 /\ Got(r) = 0
      /\ queue[MethodOf[r]] = <<>> /\ Unmade(r)
  BY <1>1, TransportAssumption DEF Got, Unmade
<1>3. Numbered(r)
  BY <1>1, <1>2 DEF Numbered
<1>4. \A x : ~Has(<<>>, x)
  BY <1>1 DEF Has
<1>5. ItemsFollow(r)
  BY <1>1, <1>2 DEF ItemsFollow, Follow, Newest
<1>6. ClosedLast(r)
  BY <1>1, <1>4 DEF ClosedLast, LastReply
<1>7. AbortMeant(r)
  BY <1>2, <1>4 DEF AbortMeant, Holding
<1>8. Complete(r) /\ EndForgotten(r)
  BY <1>2 DEF Complete, EndForgotten, Known, Coming
<1> QED  BY <1>3, <1>5, <1>6, <1>7, <1>8 DEF Flowing

\* Every step keeps the items in order and what flows.
LEMMA DeliveryNext == IInv /\ Order /\ Delivery /\ [Next]_vars => Delivery'
<1> SUFFICES ASSUME IInv, Order, Delivery, [Next]_vars, ~Faulty, NEW q \in Requests
             PROVE  Numbered(q)' /\ (TaskUp' => Flowing(q)')
  BY DEF Delivery
<1>1. ConsumerTypeOK /\ PeerTypeOK /\ WireTypeOK /\ TaskOK /\ HandFull
  BY DEF IInv, TypeOK, ConsumerTypeOK, TaskOK
<1>2. /\ \A p \in Requests : Numbered(p)
      /\ TaskUp => \A p \in Requests : Tracked(p) /\ Flowing(p)
  BY DEF Order, Delivery
<1>3. ASSUME UNCHANGED <<phase, abort, delivered, values, queue, task, inHand, entries,
                         peerVars, wire>>
      PROVE  Numbered(q)' /\ (TaskUp' => Flowing(q)')
  <2>1. Numbered(q)'
    BY <1>2, <1>3 DEF Numbered, Got, peerVars
  <2>2. /\ (Known(q)' <=> Known(q)) /\ (AbortMeant(q)' <=> AbortMeant(q))
        /\ TaskUp' <=> TaskUp
    BY <1>3 DEF Known, Coming, Unmade, Queued, InHand, AbortMeant, Wanted, Holding, TaskUp
  <2>3. ASSUME TaskUp
        PROVE  Flowing(q)'
    <3>1. Flowing(q) /\ AbortMeant(q)
      BY <1>2, <2>3 DEF Flowing
    <3> QED  BY <1>3, <2>2, <3>1, KnownFlows DEF wire
  <2> QED  BY <2>1, <2>2, <2>3
<1>4. ASSUME NEW r \in Requests, Begin(r) \/ Finish(r), UNCHANGED peerVars
      PROVE  Numbered(q)' /\ (TaskUp' => Flowing(q)')
  <2>1. UNCHANGED task
    BY <1>1, <1>4, HandleStepType DEF taskVars
  <2>2. UNCHANGED itemsSent /\ itemsSent[q] \in Nat
    BY <1>1, <1>4 DEF peerVars, PeerTypeOK
  <2>3. Numbered(q)'
    BY <1>1, <1>2, <1>4, <2>2, HandleNumbers
  <2> QED  BY <1>1, <1>2, <1>4, <2>1, <2>3, HandleFlows DEF TaskUp
<1>5. CASE DropConsumer /\ UNCHANGED peerVars
  BY <1>3, <1>5 DEF DropConsumer, channelVars, taskVars
<1>6. CASE TimerElapses /\ UNCHANGED peerVars
  BY <1>3, <1>6 DEF TimerElapses, clientVars, channelVars
<1>7. CASE TaskStep /\ UNCHANGED peerVars
  BY <1>1, <1>2, <1>7, TaskDelivers
<1>8. CASE PeerNext /\ UNCHANGED consumerVars
  <2>1. TaskUp' <=> TaskUp
    BY <1>8 DEF TaskUp, consumerVars, taskVars
  <2>2. itemsSent'[q] \in Nat /\ itemsSent[q] <= itemsSent'[q]
    BY <1>1, <1>8
       DEF PeerTypeOK, PeerNext, PeerOwn, PeerReceive, PeerReplies, PeerAnswer, PeerOpen,
           PeerItem, PeerClose, Reply, PeerUnheard, PeerCancel, PeerStop, PeerAnnounce,
           PeerHangup, peerVars
  <2>3. Numbered(q)'
    BY <1>1, <1>2, <1>8, <2>2, PeerNumbers
  <2> QED  BY <1>1, <1>2, <1>8, <2>1, <2>3, PeerFlows
<1>9. CASE UNCHANGED vars
  BY <1>3, <1>9 DEF vars, consumerVars, clientVars, channelVars, taskVars
<1> QED
  BY <1>4, <1>5, <1>6, <1>7, <1>8, <1>9 DEF Next, ConsumerNext

\* Items keep their order, and flow, throughout every behaviour.
THEOREM DeliveryHolds == Spec => []Delivery
<1>1. IInv /\ Order /\ Delivery /\ [Next]_vars => Delivery'
  BY DeliveryNext
<1> QED  BY <1>1, InitFresh, DeliveryInit, Invariance, OrderHolds, PTL DEF Spec

\* A sequence that counts up from one is Upto its length.
LEMMA CountsUp ==
  ASSUME NEW s \in Seq(Nat), \A i \in 1..Len(s) : s[i] = i
  PROVE  s = Upto(Len(s))
<1>1. s = [i \in 1..Len(s) |-> s[i]]
  OBVIOUS
<1> QED  BY <1>1 DEF Upto

\* So is one that counts up, followed by one that counts on.
LEMMA CountsOn ==
  ASSUME NEW d \in Seq(Nat), NEW v \in Seq(Nat),
         \A i \in 1..Len(d) : d[i] = i, \A i \in 1..Len(v) : v[i] = Len(d) + i
  PROVE  d \o v = Upto(Len(d) + Len(v))
<1> DEFINE w == d \o v
<1>1. Len(d) \in Nat /\ Len(v) \in Nat
  BY LenProperties
<1>2. w \in Seq(Nat) /\ Len(w) = Len(d) + Len(v)
  BY ConcatProperties
<1>3. \A i \in 1..Len(d) + Len(v) : w[i] = IF i <= Len(d) THEN d[i] ELSE v[i - Len(d)]
  BY ConcatProperties
<1> HIDE DEF w
<1>4. ASSUME NEW i \in 1..Len(w)
      PROVE  w[i] = i
  <2>1. i \in 1..Len(d) + Len(v)
    BY <1>2
  <2>2. CASE i <= Len(d)
    <3>1. i \in 1..Len(d) /\ w[i] = d[i]
      BY <1>1, <1>3, <2>1, <2>2
    <3> QED  BY <3>1
  <2>3. CASE ~(i <= Len(d))
    <3>1. i - Len(d) \in 1..Len(v) /\ w[i] = v[i - Len(d)]
      BY <1>1, <1>3, <2>1, <2>3
    <3>2. v[i - Len(d)] = Len(d) + (i - Len(d))
      BY <3>1
    <3> QED  BY <1>1, <2>1, <3>1, <3>2
  <2> QED  BY <2>2, <2>3
<1>5. w = Upto(Len(w))
  BY <1>2, <1>4, CountsUp
<1> QED  BY <1>2, <1>5 DEF w

\* Items that are numbered are returned in order.
LEMMA InOrderNow ==
  ASSUME ~Faulty, IInv, Delivery
  PROVE  ItemsInOrder
<1>1. ASSUME NEW r \in StreamRequests
      PROVE  \E n \in 0..itemsSent[r] : delivered[r] \o values[r] = Upto(n)
  <2>1. r \in Requests /\ Numbered(r)
    BY DEF StreamRequests, Delivery
  <2>2. delivered[r] \in Seq(Nat) /\ values[r] \in Seq(Nat) /\ itemsSent[r] \in Nat
    BY <2>1
       DEF IInv, TypeOK, ConsumerTypeOK, ClientTypeOK, ChannelTypeOK, PeerTypeOK
  <2>3. delivered[r] \o values[r] = Upto(Got(r))
    BY <2>1, <2>2, CountsOn DEF Numbered, Got
  <2>4. Got(r) \in 0..itemsSent[r]
    <3>1. Got(r) \in Nat
      BY <2>1, GotType DEF IInv, TypeOK
    <3> QED  BY <2>1, <2>2, <3>1 DEF Numbered
  <2> QED  BY <2>3, <2>4
<1> QED  BY <1>1 DEF ItemsInOrder

\* A stream returns the items of the producer in order, without gap or
\* repetition: StreamResponse::Item through the values channel to poll_next,
\* whatever threads run between, and however the stream is cut short.
THEOREM StreamsInOrder ==
  ASSUME ~Faulty
  PROVE  Spec => []ItemsInOrder
<1>1. IInv /\ Delivery => ItemsInOrder
  BY InOrderNow
<1> QED  BY <1>1, Invariance, DeliveryHolds, PTL

\* A stream that the task forgot without an abort is complete.
LEMMA CompleteNow ==
  ASSUME ~Faulty, IInv, Delivery
  PROVE  StreamsEndComplete
<1>1. ASSUME NEW r \in StreamRequests, phase[r] = "ended", abort[r] = "armed", connected,
             task \notin {"draining", "stopped"}
      PROVE  peer[r] = "done" /\ delivered[r] = Upto(itemsSent[r])
  <2>1. r \in Requests /\ Numbered(r) /\ Flowing(r) /\ Wanted(r)
    BY <1>1 DEF StreamRequests, Delivery, TaskUp, Wanted
  <2>2. delivered[r] \in Seq(Nat) /\ Len(delivered[r]) \in Nat
    <3>1. delivered[r] \in Seq(Nat)
      BY <2>1 DEF IInv, TypeOK, ConsumerTypeOK, ClientTypeOK
    <3> QED  BY <3>1, LenProperties
  <2>3. ~Known(r)
    BY <1>1, <2>1 DEF Flowing, EndForgotten
  <2>4. peer[r] = "done" /\ itemsSent[r] = Got(r)
    BY <1>1, <2>1, <2>3 DEF Flowing, Complete
  <2>5. Got(r) = Len(delivered[r])
    <3>1. values[r] = <<>> /\ Len(<<>>) = 0
      BY <1>1, <2>1 DEF Numbered
    <3> QED  BY <2>2, <3>1 DEF Got
  <2>6. delivered[r] = Upto(Len(delivered[r]))
    BY <2>1, <2>2, CountsUp DEF Numbered
  <2> QED  BY <2>4, <2>5, <2>6
<1> QED  BY <1>1 DEF StreamsEndComplete

\* A stream that ends by itself, in a session that is up, has returned every
\* item: handle_message's Closed ends it behind the last of them, and nothing
\* else makes the task drop the values sender of a stream that is wanted.
THEOREM StreamsComplete ==
  ASSUME ~Faulty
  PROVE  Spec => []StreamsEndComplete
<1>1. IInv /\ Delivery => StreamsEndComplete
  BY CompleteNow
<1> QED  BY <1>1, Invariance, DeliveryHolds, PTL

=============================================================================
