---------------------------- MODULE TransportProofs ----------------------------
(***************************************************************************)
(* What both ends of a session rely on about messages and their sequences: *)
(* how messages are told apart, whether a sequence has one, and what       *)
(* reading, sending and cutting a sequence do to the order in it.          *)
(***************************************************************************)
EXTENDS Transport, TLAPS, SequenceTheorems

\* What the constructors build are messages.
LEMMA MessageTypes ==
  ASSUME NEW r \in Requests
  PROVE  /\ RequestMsg(r) \in UpMessages
         /\ AbortMsg(r) \in UpMessages
         /\ ValueMsg(r) \in DownMessages
         /\ OpenMsg(r) \in DownMessages
         /\ ClosedMsg(r) \in DownMessages
         /\ \A n \in Nat : ItemMsg(r, n) \in DownMessages
BY DEF RequestMsg, AbortMsg, UpMessages, ValueMsg, OpenMsg, ItemMsg, ClosedMsg,
       DownMessages, ResponseTags

\* A response carries the id of a request, and an item a number.
LEMMA ResponseFields ==
  ASSUME NEW msg \in DownMessages, msg.tag \in ResponseTags
  PROVE  msg.id \in Requests /\ msg.item \in Nat
BY DEF DownMessages, ResponseTags, StopTags

\* A prefix of a sequence is a sequence of the same messages.
LEMMA PrefixType ==
  ASSUME NEW S, NEW s \in Seq(S), NEW n \in 0..Len(s)
  PROVE  SubSeq(s, 1, n) \in Seq(S)
<1>1. Len(s) \in Nat /\ \A i \in 1..n : s[i] \in S
  BY LenProperties, ElementOfSeq
<1> QED  BY <1>1, SubSeqProperties

\* A message put at the end of a sequence of messages makes one.
LEMMA AppendType ==
  ASSUME NEW S, NEW s \in Seq(S), NEW x \in S
  PROVE  Append(s, x) \in Seq(S)
BY AppendProperties

\* What is read from the front of a sequence of messages is one of them, and
\* what is left is a sequence of them.
LEMMA FrontType ==
  ASSUME NEW S, NEW s \in Seq(S), s # <<>>
  PROVE  Head(s) \in S /\ Tail(s) \in Seq(S)
BY HeadTailProperties

-----------------------------------------------------------------------------
(* Positions in sequences of messages                                      *)

Has(s, x)    == \E i \in 1..Len(s) : s[i] = x
Unique(s, x) == \A i, j \in 1..Len(s) : s[i] = x /\ s[j] = x => i = j

\* Every y in s has an x before it.
Before(s, x, y) ==
  \A i \in 1..Len(s) : s[i] = y => \E j \in 1..(i-1) : s[j] = x

\* Every x in s has a y behind it.
Followed(s, x, y) ==
  \A i \in 1..Len(s) : s[i] = x => \E j \in (i+1)..Len(s) : s[j] = y

\* s holds no reply about r.
About(msg, r) == msg.tag \in ResponseTags /\ msg.id = r
Silent(s, r)  == \A i \in 1..Len(s) : ~About(s[i], r)

\* Where the messages are once the first of them is read.
LEMMA TailIndex ==
  ASSUME NEW S, NEW s \in Seq(S), s # <<>>
  PROVE  /\ Len(s) \in Nat \ {0} /\ Len(Tail(s)) = Len(s) - 1
         /\ \A i \in 1..Len(Tail(s)) : Tail(s)[i] = s[i+1]
         /\ Head(s) = s[1]
BY HeadTailProperties, LenProperties, EmptySeq

\* Where they are once one more is put behind them.
LEMMA AppendIndex ==
  ASSUME NEW S, NEW s \in Seq(S), NEW x \in S
  PROVE  /\ Len(s) \in Nat /\ Len(Append(s, x)) = Len(s) + 1
         /\ \A i \in 1..Len(s) : Append(s, x)[i] = s[i]
         /\ Append(s, x)[Len(s) + 1] = x
BY AppendProperties, LenProperties

\* Where they are once a suffix of them is lost.
LEMMA PrefixIndex ==
  ASSUME NEW S, NEW s \in Seq(S), NEW n \in 0..Len(s)
  PROVE  /\ Len(s) \in Nat /\ Len(SubSeq(s, 1, n)) = n
         /\ \A i \in 1..n : SubSeq(s, 1, n)[i] = s[i]
<1>1. Len(s) \in Nat /\ \A i \in 1..n : s[i] \in S
  BY LenProperties, ElementOfSeq
<1> QED  BY <1>1, SubSeqProperties

\* What reading the first message does to the rest.
LEMMA TailOrder ==
  ASSUME NEW S, NEW s \in Seq(S), s # <<>>
  PROVE  /\ \A x : Has(Tail(s), x) => Has(s, x)
         /\ \A x : Has(s, x) /\ Head(s) # x => Has(Tail(s), x)
         /\ \A x : Unique(s, x) => Unique(Tail(s), x)
         /\ \A x : Unique(s, x) /\ Head(s) = x => ~Has(Tail(s), x)
         /\ \A x, y : Before(s, x, y) => Head(s) # y
         /\ \A x, y : Before(s, x, y) /\ Head(s) # x => Before(Tail(s), x, y)
         /\ \A r : Silent(s, r) => Silent(Tail(s), r)
<1> DEFINE t == Tail(s)
<1>1. /\ Len(s) \in Nat \ {0} /\ Len(t) = Len(s) - 1
      /\ \A i \in 1..Len(t) : t[i] = s[i+1]
      /\ Head(s) = s[1]
  BY TailIndex
<1> HIDE DEF t
<1>2. \A x : Has(t, x) => Has(s, x)
  BY <1>1 DEF Has
<1>3. ASSUME NEW x, Has(s, x), Head(s) # x
      PROVE  Has(t, x)
  <2>1. PICK i \in 1..Len(s) : s[i] = x
    BY <1>3 DEF Has
  <2>2. i-1 \in 1..Len(t) /\ t[i-1] = x
    BY <1>1, <1>3, <2>1
  <2> QED  BY <2>2 DEF Has
<1>4. ASSUME NEW x, Unique(s, x)
      PROVE  Unique(t, x) /\ (Head(s) = x => ~Has(t, x))
  <2>1. \A i \in 1..Len(t) : i+1 \in 1..Len(s) /\ i+1 # 1 /\ t[i] = s[i+1]
    BY <1>1
  <2>2. 1 \in 1..Len(s)
    BY <1>1
  <2>3. Head(s) = x => ~Has(t, x)
    BY <1>1, <1>4, <2>1, <2>2 DEF Has, Unique
  <2>4. ASSUME NEW i \in 1..Len(t), NEW j \in 1..Len(t), t[i] = x, t[j] = x
        PROVE  i = j
    <3>1. i+1 = j+1
      BY <1>4, <2>1, <2>4 DEF Unique
    <3> QED  BY <3>1
  <2> QED  BY <2>3, <2>4 DEF Unique
<1>5. ASSUME NEW x, NEW y, Before(s, x, y)
      PROVE  Head(s) # y /\ (Head(s) # x => Before(t, x, y))
  <2>1. Head(s) # y
    BY <1>1, <1>5 DEF Before
  <2>2. ASSUME Head(s) # x, NEW i \in 1..Len(t), t[i] = y
        PROVE  \E j \in 1..(i-1) : t[j] = x
    <3>1. i+1 \in 1..Len(s) /\ s[i+1] = y
      BY <1>1, <2>2
    <3>2. PICK j \in 1..i : s[j] = x
      BY <1>5, <3>1 DEF Before
    <3>3. j-1 \in 1..(i-1) /\ t[j-1] = x
      BY <1>1, <2>2, <3>2
    <3> QED  BY <3>3
  <2> QED  BY <2>1, <2>2 DEF Before
<1>6. \A r : Silent(s, r) => Silent(t, r)
  BY <1>1 DEF Silent
<1> QED  BY <1>2, <1>3, <1>4, <1>5, <1>6 DEF t

\* What putting one more message behind them does.
LEMMA AppendOrder ==
  ASSUME NEW S, NEW s \in Seq(S), NEW m \in S
  PROVE  /\ Has(Append(s, m), m)
         /\ \A x : Has(s, x) => Has(Append(s, m), x)
         /\ \A x : Has(Append(s, m), x) /\ x # m => Has(s, x)
         /\ \A x : Unique(s, x) /\ (x = m => ~Has(s, x)) => Unique(Append(s, m), x)
         /\ \A x, y : Before(s, x, y) /\ (y = m => Has(s, x))
              => Before(Append(s, m), x, y)
         /\ \A r : Silent(s, r) /\ ~About(m, r) => Silent(Append(s, m), r)
<1> DEFINE t == Append(s, m)
<1>1. /\ Len(s) \in Nat /\ Len(t) = Len(s) + 1
      /\ \A i \in 1..Len(s) : t[i] = s[i]
      /\ t[Len(s) + 1] = m
  BY AppendIndex
<1> HIDE DEF t
<1>0. \A i \in 1..Len(t) : i \in 1..Len(s) \/ i = Len(s) + 1
  BY <1>1
<1>2. Has(t, m)
  BY <1>1 DEF Has
<1>3. \A x : Has(s, x) => Has(t, x)
  BY <1>1 DEF Has
<1>4. \A x : Has(t, x) /\ x # m => Has(s, x)
  BY <1>0, <1>1 DEF Has
<1>5. \A x : Unique(s, x) /\ (x = m => ~Has(s, x)) => Unique(t, x)
  BY <1>0, <1>1 DEF Unique, Has
<1>6. ASSUME NEW x, NEW y, Before(s, x, y), y = m => Has(s, x),
             NEW i \in 1..Len(t), t[i] = y
      PROVE  \E j \in 1..(i-1) : t[j] = x
  <2>1. CASE i \in 1..Len(s)
    <3>1. PICK j \in 1..(i-1) : s[j] = x
      BY <1>1, <1>6, <2>1 DEF Before
    <3>2. t[j] = x
      BY <1>1, <2>1, <3>1
    <3> QED  BY <3>2
  <2>2. CASE i = Len(s) + 1
    BY <1>1, <1>6, <2>2 DEF Has
  <2> QED  BY <1>0, <2>1, <2>2
<1>7. \A r : Silent(s, r) /\ ~About(m, r) => Silent(t, r)
  BY <1>0, <1>1 DEF Silent
<1> QED  BY <1>2, <1>3, <1>4, <1>5, <1>6, <1>7 DEF t, Before

\* What losing a suffix of them does.
LEMMA PrefixOrder ==
  ASSUME NEW S, NEW s \in Seq(S), NEW n \in 0..Len(s)
  PROVE  /\ \A x : Has(SubSeq(s, 1, n), x) => Has(s, x)
         /\ \A x : Unique(s, x) => Unique(SubSeq(s, 1, n), x)
         /\ \A x, y : Before(s, x, y) => Before(SubSeq(s, 1, n), x, y)
         /\ \A r : Silent(s, r) => Silent(SubSeq(s, 1, n), r)
<1> DEFINE t == SubSeq(s, 1, n)
<1>1. /\ Len(s) \in Nat /\ Len(t) = n
      /\ \A i \in 1..n : t[i] = s[i]
  BY PrefixIndex
<1> HIDE DEF t
<1>2. \A i \in 1..Len(t) : i \in 1..Len(s) /\ t[i] = s[i]
  BY <1>1
<1>3. \A x : Has(t, x) => Has(s, x)
  BY <1>2 DEF Has
<1>4. \A x : Unique(s, x) => Unique(t, x)
  BY <1>2 DEF Unique
<1>5. ASSUME NEW x, NEW y, Before(s, x, y), NEW i \in 1..Len(t), t[i] = y
      PROVE  \E j \in 1..(i-1) : t[j] = x
  <2>1. PICK j \in 1..(i-1) : s[j] = x
    BY <1>2, <1>5 DEF Before
  <2>2. t[j] = x
    BY <1>1, <2>1
  <2> QED  BY <2>2
<1>6. \A r : Silent(s, r) => Silent(t, r)
  BY <1>2 DEF Silent
<1> QED  BY <1>3, <1>4, <1>5, <1>6 DEF t, Before

\* What is behind what once the first message is read.
LEMMA TailFollowed ==
  ASSUME NEW S, NEW s \in Seq(S), s # <<>>, NEW x, NEW y, Followed(s, x, y)
  PROVE  Followed(Tail(s), x, y) /\ (Head(s) = x => Has(Tail(s), y))
<1> DEFINE t == Tail(s)
<1>1. /\ Len(s) \in Nat \ {0} /\ Len(t) = Len(s) - 1
      /\ \A i \in 1..Len(t) : t[i] = s[i+1]
      /\ Head(s) = s[1]
  BY TailIndex
<1> HIDE DEF t
<1>2. ASSUME NEW i \in 1..Len(s), s[i] = x
      PROVE  \E j \in i..Len(t) : t[j] = y
  <2>1. PICK j \in (i+1)..Len(s) : s[j] = y
    BY <1>2 DEF Followed
  <2>2. j-1 \in i..Len(t) /\ t[j-1] = s[j]
    BY <1>1, <2>1
  <2> QED  BY <2>1, <2>2
<1>3. ASSUME NEW i \in 1..Len(t), t[i] = x
      PROVE  \E j \in (i+1)..Len(t) : t[j] = y
  <2>1. i+1 \in 1..Len(s) /\ s[i+1] = x
    BY <1>1, <1>3
  <2> QED  BY <1>2, <2>1
<1>4. ASSUME Head(s) = x
      PROVE  Has(t, y)
  <2>1. 1 \in 1..Len(s) /\ s[1] = x
    BY <1>1, <1>4
  <2>2. \E j \in 1..Len(t) : t[j] = y
    BY <1>2, <2>1
  <2> QED  BY <2>2 DEF Has
<1> QED  BY <1>3, <1>4 DEF Followed, t

\* One more message behind them.
LEMMA AppendFollowed ==
  ASSUME NEW S, NEW s \in Seq(S), NEW m \in S, NEW x, NEW y, x # y
  PROVE  /\ m # x /\ Followed(s, x, y) => Followed(Append(s, m), x, y)
         /\ Followed(Append(s, y), x, y) \/ m # y
<1> DEFINE t == Append(s, m)
<1>1. /\ Len(s) \in Nat /\ Len(t) = Len(s) + 1
      /\ \A i \in 1..Len(s) : t[i] = s[i]
      /\ t[Len(s) + 1] = m
  BY AppendIndex
<1> HIDE DEF t
<1>2. \A i \in 1..Len(t) : i \in 1..Len(s) \/ i = Len(s) + 1
  BY <1>1
<1>3. ASSUME m # x, Followed(s, x, y), NEW i \in 1..Len(t), t[i] = x
      PROVE  \E j \in (i+1)..Len(t) : t[j] = y
  <2>1. i \in 1..Len(s) /\ s[i] = x
    BY <1>1, <1>2, <1>3
  <2>2. PICK j \in (i+1)..Len(s) : s[j] = y
    BY <1>3, <2>1 DEF Followed
  <2>3. j \in (i+1)..Len(t) /\ t[j] = y
    BY <1>1, <2>1, <2>2
  <2> QED  BY <2>3
<1>4. ASSUME m = y, NEW i \in 1..Len(t), t[i] = x
      PROVE  \E j \in (i+1)..Len(t) : t[j] = y
  <2>1. i \in 1..Len(s)
    BY <1>1, <1>2, <1>4
  <2>2. Len(s) + 1 \in (i+1)..Len(t) /\ t[Len(s) + 1] = y
    BY <1>1, <1>4, <2>1
  <2> QED  BY <2>2
<1> QED  BY <1>3, <1>4 DEF Followed, t

\* Of what is not there, every one has anything behind it.
LEMMA NoneFollowed ==
  ASSUME NEW s, NEW x, NEW y, ~Has(s, x)
  PROVE  Followed(s, x, y)
BY DEF Has, Followed

-----------------------------------------------------------------------------
(* Messages are told apart                                                 *)

\* Of the messages to the producer.
LEMMA RequestsDiffer ==
  /\ \A r, q : RequestMsg(r) = RequestMsg(q) => r = q
  /\ \A r, q : RequestMsg(r) # AbortMsg(q)
  /\ \A r : RequestMsg(r).id = r /\ AbortMsg(r).id = r
  /\ \A r : RequestMsg(r).payload = "request" /\ AbortMsg(r).payload = "abort"
  /\ \A msg \in UpMessages :
       msg = IF msg.payload = "request" THEN RequestMsg(msg.id) ELSE AbortMsg(msg.id)
BY DEF RequestMsg, AbortMsg, UpMessages

\* Of the replies.
LEMMA RepliesDiffer ==
  ASSUME NEW r \in Requests
  PROVE  /\ \A q \in Requests : OpenMsg(r) = OpenMsg(q) => r = q
         /\ \A q \in Requests : ClosedMsg(r) = ClosedMsg(q) => r = q
         /\ \A q \in Requests, n \in Nat :
              /\ OpenMsg(q) # ClosedMsg(r) /\ ValueMsg(q) # ClosedMsg(r)
              /\ ItemMsg(q, n) # ClosedMsg(r)
              /\ ItemMsg(q, n) # OpenMsg(r) /\ ValueMsg(q) # OpenMsg(r)
              /\ \A msg \in {OpenMsg(q), ClosedMsg(q), ValueMsg(q), ItemMsg(q, n)} :
                   About(msg, r) <=> q = r
         /\ \A msg \in [tag : StopTags] :
              ~About(msg, r) /\ msg # OpenMsg(r) /\ msg # ClosedMsg(r)
<1>1. ASSUME NEW msg \in [tag : StopTags]
      PROVE  ~About(msg, r) /\ msg # OpenMsg(r) /\ msg # ClosedMsg(r)
  <2>1. msg.tag \notin ResponseTags
    BY DEF StopTags, ResponseTags
  <2>2. OpenMsg(r).tag \in ResponseTags /\ ClosedMsg(r).tag \in ResponseTags
    BY DEF OpenMsg, ClosedMsg, ResponseTags
  <2> QED  BY <2>1, <2>2 DEF About
<1> QED
  BY <1>1 DEF OpenMsg, ClosedMsg, ValueMsg, ItemMsg, About, ResponseTags

\* A reply is what its tag says.
LEMMA ReplyIs ==
  ASSUME NEW msg \in DownMessages
  PROVE  /\ msg.tag = "open"   => msg = OpenMsg(msg.id)
         /\ msg.tag = "closed" => msg = ClosedMsg(msg.id)
         /\ msg.tag = "value"  => msg = ValueMsg(msg.id)
         /\ msg.tag = "item"   => msg = ItemMsg(msg.id, msg.item)
BY DEF ClosedMsg, OpenMsg, ValueMsg, ItemMsg, DownMessages, ResponseTags, StopTags
=============================================================================
