--------------------------- MODULE NetworkProofs ----------------------------
(***************************************************************************)
(* Proofs about Network, for every topology.  TtlBounds alone is not       *)
(* inductive: that a copy handled next still counts right needs that only  *)
(* copies with hops left are sent (Live), which holds because a handler    *)
(* relays on ttl > 0; and a call's first ttl must not change when another  *)
(* call is made (CallsGrow).  NetInv says so with sets of messages.        *)
(* That each connection is used as a MessageChannel (UsesChannels) needs   *)
(* one fact more: only messages of callers' types and PONGs are sent       *)
(* (KindInv).                                                              *)
(***************************************************************************)
EXTENDS Network, SequenceTheorems, TLAPS

\* Counting down modulo the number of ttl values, from at most that number.
LEMMA Modulo ==
    ASSUME NEW t \in Nat, t > 1, NEW x \in 1 .. t
    PROVE  /\ (x - 1) % t = x - 1
           /\ ((x % t) + t - 1) % t = x - 1
           /\ x % t \in 0 .. t - 1
<1>1. \A a \in 0 .. t - 1 : a % t = a
  OBVIOUS
<1>2. \A a \in 0 .. t - 1 : (a + t) % t = a
  OBVIOUS
<1>3. t % t = 0
  OBVIOUS
<1>4. CASE x = t
  <2>1. x % t = 0
    BY <1>3, <1>4
  <2>2. ((x % t) + t - 1) = t - 1
    BY <2>1
  <2> QED
    BY <1>1, <1>4, <2>1, <2>2
<1>5. CASE x < t
  <2>1. x % t = x
    BY <1>1, <1>5
  <2>2. ((x % t) + t - 1) = (x - 1) + t
    BY <2>1
  <2> QED
    BY <1>1, <1>2, <1>5, <2>1, <2>2
<1> QED
  BY <1>4, <1>5

\* The calls of TypeOK.
CallRecord == [from : End, type : 0 .. 255, ttl : 0 .. TtlValues - 1]

\* A message may cross at least one connection, and at most as many as ttl_ has
\* values; its first ttl counts them.
LEMMA LifeBounds ==
    ASSUME NEW t \in 0 .. TtlValues - 1
    PROVE  Life(t) \in 1 .. TtlValues /\ Life(t) % TtlValues = t
<1>1. t % TtlValues = t /\ TtlValues % TtlValues = 0
  BY TtlAssumption, Modulo
<1> QED
  BY <1>1, TtlAssumption DEF Life

\* The first ttl of a message from a call that was made.
LEMMA FirstTtlType ==
    ASSUME TypeOK, NEW m \in Message, m.id <= Len(calls)
    PROVE  FirstTtl(m) \in 0 .. TtlValues - 1
<1>1. CASE m.id = 0
  BY <1>1, TtlAssumption DEF FirstTtl
<1>2. CASE m.id # 0
  <2>1. m.id \in 1 .. Len(calls)
    BY <1>2, BoundAssumption DEF Message, TypeOK
  <2>2. calls[m.id] \in CallRecord
    BY <2>1, ElementOfSeq DEF TypeOK, CallRecord
  <2> QED
    BY <1>2, <2>2 DEF FirstTtl, CallRecord
<1> QED
  BY <1>1, <1>2

\* A hop counts one connection; if ttl is left then so is a connection to cross.
LEMMA HopRight ==
    ASSUME TypeOK, NEW m \in Live, NEW e \in End
    PROVE  /\ hop(m, e) \in Right
           /\ hop(m, e).ttl > 0 => hop(m, e) \in Live
<1> DEFINE h == hop(m, e)
           n == Len(m.route)
           f == FirstTtl(m)
           x == Life(f) - n
<1>1. /\ m \in Message /\ m.id <= Len(calls) /\ n < Life(f)
      /\ m.ttl = x % TtlValues
  BY DEF Live, Right, Counted
<1>2. f \in 0 .. TtlValues - 1
  BY <1>1, FirstTtlType
<1>3. Life(f) \in 1 .. TtlValues
  BY <1>2, LifeBounds
<1>4. m.route \in Seq(End) /\ m.type \in 0 .. 255 /\ m.id \in 0 .. MaxEvents
  BY <1>1 DEF Message
<1>5. n \in Nat
  BY <1>4, LenProperties
<1>6. h.route = Append(m.route, e) /\ h.route \in Seq(End) /\ Len(h.route) = n + 1
  BY <1>4, AppendProperties DEF hop
<1>7. h.type = m.type /\ h.id = m.id /\ h.ttl = (m.ttl + TtlValues - 1) % TtlValues
  BY DEF hop
<1>8. FirstTtl(h) = f
  BY <1>7 DEF FirstTtl
<1> HIDE DEF n, f
<1>9. x \in 1 .. TtlValues
  BY <1>1, <1>3, <1>5, TtlAssumption
<1>10. h.ttl = x - 1 /\ (x - 1) % TtlValues = x - 1
  BY <1>1, <1>7, <1>9, TtlAssumption, Modulo
<1>11. h.ttl \in 0 .. TtlValues - 1
  BY <1>9, <1>10, TtlAssumption
<1>12. h \in Message
  BY <1>4, <1>6, <1>7, <1>11 DEF hop, Message
<1>13. Life(f) - (n + 1) = x - 1 /\ n + 1 <= Life(f)
  BY <1>1, <1>3, <1>5, TtlAssumption
<1>14. Counted(h)
  BY <1>6, <1>8, <1>10, <1>13 DEF Counted
<1>15. h \in Right
  BY <1>1, <1>7, <1>12, <1>14 DEF Right
<1>16. h.ttl > 0 => n + 1 < Life(f)
  BY <1>3, <1>5, <1>9, <1>10, TtlAssumption
<1> QED
  BY <1>6, <1>8, <1>15, <1>16 DEF Live

\* A call's record does not change when another is added, so neither does what
\* counts right.
LEMMA CallsGrow ==
    ASSUME TypeOK, NEW c \in CallRecord, calls' = Append(calls, c)
    PROVE  Right \subseteq Right' /\ Live \subseteq Live'
<1>1. Len(calls') = Len(calls) + 1 /\ Len(calls) \in Nat
      /\ \A k \in 1 .. Len(calls) : calls'[k] = calls[k]
  BY AppendProperties, LenProperties DEF TypeOK, CallRecord
<1>2. ASSUME NEW m \in Right
      PROVE  m \in Message /\ m.id <= Len(calls) /\ FirstTtl(m)' = FirstTtl(m)
  <2>1. m \in Message /\ m.id \in Nat /\ m.id <= Len(calls)
    BY BoundAssumption DEF Right, Message
  <2>2. m.id # 0 => calls'[m.id] = calls[m.id]
    BY <1>1, <2>1
  <2> QED
    BY <2>1, <2>2 DEF FirstTtl
<1>3. ASSUME NEW m \in Right
      PROVE  m \in Right'
  <2>1. m.id \in Nat /\ m.id <= Len(calls')
    BY <1>1, <1>2, <1>3, BoundAssumption DEF Message
  <2>2. Counted(m)'
    BY <1>2, <1>3 DEF Right, Counted, Life
  <2> QED
    BY <1>2, <1>3, <2>1, <2>2 DEF Right, Message
<1>4. ASSUME NEW m \in Live
      PROVE  m \in Live'
  BY <1>2, <1>3, <1>4 DEF Live, Life
<1> QED
  BY <1>3, <1>4

Inv == TypeOK /\ NetInv

\* Nothing has been sent at first.
LEMMA InvInit == Init => Inv
<1> SUFFICES ASSUME Init PROVE Inv
  OBVIOUS
<1>1. \A S : <<>> \in Seq(S)
  OBVIOUS
<1>2. TypeOK
  BY <1>1 DEF Init, TypeOK
<1>3. Len(calls) + breaks <= MaxEvents
  BY BoundAssumption DEF Init
<1> QED
  BY <1>1, <1>2, <1>3 DEF Init, Inv, NetInv

\* Only Call changes calls.
LEMMA SameCalls ==
    ASSUME UNCHANGED calls
    PROVE  Right' = Right /\ Live' = Live
  BY DEF Right, Live, Counted, FirstTtl, Life, Message

\* A caller's message may cross at least one connection.
LEMMA CallStep ==
    ASSUME Inv, NEW e \in End, NEW m \in Offers, Call(e, m)
    PROVE  Inv'
<1> DEFINE c == [from |-> e, type |-> m.type, ttl |-> m.ttl]
<1>0. PICK new : new = [type |-> m.type, ttl |-> m.ttl, id |-> Len(calls) + 1,
                        route |-> <<>>]
  OBVIOUS
<1>1. m.type \in 0 .. 255 /\ m.ttl \in 0 .. TtlValues - 1
  BY OfferAssumption
<1>2. c \in CallRecord
  BY <1>1 DEF CallRecord
<1>3. calls' = Append(calls, c) /\ Len(calls) + breaks < MaxEvents
  BY DEF Call
<1>4. /\ Len(calls) \in Nat /\ Len(calls') = Len(calls) + 1
      /\ calls'[Len(calls) + 1] = c /\ calls' \in Seq(CallRecord)
  BY <1>2, <1>3, AppendProperties, LenProperties DEF Inv, TypeOK, CallRecord
<1>5. breaks' = breaks /\ breaks \in Nat
  BY DEF Call, Inv, TypeOK
<1>6. Len(calls') + breaks' <= MaxEvents /\ Len(calls) + 1 \in 0 .. MaxEvents
  BY <1>3, <1>4, <1>5, BoundAssumption
<1>7. new \in Live'
  <2>1. new \in Message /\ Len(new.route) = 0
    BY <1>0, <1>1, <1>6 DEF Message
  <2>2. FirstTtl(new)' = m.ttl
    BY <1>0, <1>4 DEF FirstTtl
  <2>3. Life(m.ttl) \in 1 .. TtlValues /\ Life(m.ttl) % TtlValues = m.ttl
    BY <1>1, LifeBounds
  <2>4. Counted(new)' /\ Len(new.route) < Life(m.ttl)
    BY <1>0, <2>1, <2>2, <2>3, TtlAssumption DEF Counted, Life
  <2>5. new.id <= Len(calls')
    BY <1>0, <1>4
  <2> QED
    BY <2>1, <2>2, <2>4, <2>5 DEF Live, Right, Life, Message
<1>8. Right \subseteq Right' /\ Live \subseteq Live' /\ Live' \subseteq Message
  BY <1>2, <1>3, CallsGrow DEF Inv, Live, Right, Message
<1>9. sent' \in [End -> Seq(Live')]
  <2>1. ASSUME NEW d \in End PROVE sent[d] \in Seq(Live')
    BY <1>8, SeqMonotonic DEF Inv, NetInv
  <2>2. sent' = [sent EXCEPT ![e] = Append(sent[e], new)]
    BY <1>0 DEF Call
  <2>3. Append(sent[e], new) \in Seq(Live')
    BY <1>7, <2>1, AppendProperties
  <2> QED
    BY <2>1, <2>2, <2>3 DEF Inv, NetInv
<1>10. handled' \in [End -> Seq(Right')]
  <2>1. ASSUME NEW d \in End PROVE handled[d] \in Seq(Right')
    BY <1>8, SeqMonotonic DEF Inv, NetInv
  <2> QED
    BY <2>1 DEF Call, Inv, NetInv
<1>11. sent' \in [End -> Seq(Message)] /\ handled' \in [End -> Seq(Message)]
  <2>1. ASSUME NEW d \in End PROVE sent'[d] \in Seq(Message)
    BY <1>8, <1>9, SeqMonotonic
  <2> QED
    BY <1>9, <2>1 DEF Call, Inv, TypeOK
<1>12. TypeOK'
  BY <1>4, <1>5, <1>11 DEF Call, Inv, TypeOK, CallRecord, Message
<1> QED
  BY <1>6, <1>9, <1>10, <1>12 DEF Inv, NetInv

\* So may a PONG.
LEMMA PongLive ==
    ASSUME TypeOK
    PROVE  Pong \in Live
<1>1. Pong \in Message /\ Pong.id = 0 /\ Pong.ttl = 1 /\ Len(Pong.route) = 0
  BY TtlAssumption, BoundAssumption DEF Pong, Message, MSG_TYPE_PONG
<1>2. FirstTtl(Pong) = 1
  BY <1>1 DEF FirstTtl
<1>3. Life(1) = 1 /\ 1 % TtlValues = 1
  BY TtlAssumption, Modulo DEF Life
<1>4. Len(calls) \in Nat
  BY LenProperties DEF TypeOK
<1>5. Counted(Pong)
  BY <1>1, <1>2, <1>3 DEF Counted
<1> HIDE DEF Pong
<1> QED
  BY <1>1, <1>2, <1>3, <1>4, <1>5 DEF Right, Live

\* Handling keeps the counts: what is relayed has hops left.
LEMMA HandleStep ==
    ASSUME Inv, NEW e \in End, Handle(e)
    PROVE  Inv'
<1>1. Len(handled[e]) + 1 \in 1 .. Len(sent[Far(e)]) /\ Far(e) \in End
  <2>1. Far(e) \in End
    BY DEF Far, End
  <2>2. Len(handled[e]) \in Nat /\ Len(sent[Far(e)]) \in Nat
    BY <2>1, LenProperties DEF Inv, TypeOK
  <2> QED
    BY <2>1, <2>2 DEF Handle, Pending
<1>2. PICK m : m = hop(sent[Far(e)][Len(handled[e]) + 1], e)
  OBVIOUS
<1>3. sent[Far(e)][Len(handled[e]) + 1] \in Live
  BY <1>1, ElementOfSeq DEF Inv, NetInv
<1>4. m \in Right /\ (m.ttl > 0 => m \in Live)
  BY <1>2, <1>3, HopRight DEF Inv
<1>5. Right' = Right /\ Live' = Live /\ Live \subseteq Message /\ Right \subseteq Message
  BY SameCalls DEF Handle, Live, Right
<1>6. handled' = [handled EXCEPT ![e] = Append(handled[e], m)]
  BY <1>2 DEF Handle
<1>7. handled' \in [End -> Seq(Right')]
  <2>1. Append(handled[e], m) \in Seq(Right)
    BY <1>4, AppendProperties DEF Inv, NetInv
  <2> QED
    BY <1>5, <1>6, <2>1 DEF Inv, NetInv
<1>8. ASSUME NEW d \in End PROVE Out(e, m, d) \in Seq(Live)
  <2>1. m.ttl > 0 => <<m>> \in Seq(Live)
    BY <1>4
  <2>2. <<Pong>> \in Seq(Live) /\ <<>> \in Seq(Live)
    BY PongLive DEF Inv
  <2> QED
    BY <2>1, <2>2 DEF Out, Relays
<1>9. sent' \in [End -> Seq(Live')]
  <2>1. CASE sent' = [d \in End |-> sent[d] \o Out(e, m, d)]
    <3>1. ASSUME NEW d \in End PROVE sent[d] \o Out(e, m, d) \in Seq(Live)
      BY <1>8, ConcatProperties DEF Inv, NetInv
    <3> QED
      BY <1>5, <2>1, <3>1
  <2>2. CASE sent' = sent
    BY <1>5, <2>2 DEF Inv, NetInv
  <2> QED
    BY <1>2, <2>1, <2>2 DEF Handle
<1>10. sent' \in [End -> Seq(Message)] /\ handled' \in [End -> Seq(Message)]
  <2>1. ASSUME NEW d \in End
        PROVE  sent'[d] \in Seq(Message) /\ handled'[d] \in Seq(Message)
    BY <1>5, <1>7, <1>9, SeqMonotonic
  <2> QED
    BY <1>7, <1>9, <2>1
<1>11. reading' \in [End -> BOOLEAN]
  BY DEF Handle, Inv, TypeOK
<1>12. TypeOK'
  BY <1>10, <1>11 DEF Handle, Inv, TypeOK, Message
<1> QED
  BY <1>7, <1>9, <1>12 DEF Handle, Inv, NetInv

\* The steps that send and handle nothing.
LEMMA OtherStep ==
    ASSUME Inv,
           \/ \E e \in End : ReadFail(e) \/ Destroy(e)
           \/ \E l \in Link : Break(l)
           \/ UNCHANGED vars
    PROVE  Inv'
<1>1. UNCHANGED <<home, sent, handled, calls>>
  BY DEF ReadFail, Destroy, Break, vars
<1>2. /\ reading' \in [End -> BOOLEAN] /\ alive' \in [End -> BOOLEAN]
      /\ up' \in [Link -> BOOLEAN]
  BY DEF ReadFail, Destroy, Break, vars, Inv, TypeOK, End
<1>3. breaks \in Nat /\ Len(calls) \in Nat
  BY LenProperties DEF Inv, TypeOK
<1>4. breaks' \in Nat /\ Len(calls') + breaks' <= MaxEvents
  BY <1>1, <1>3, BoundAssumption DEF ReadFail, Destroy, Break, vars, Inv, NetInv
<1>5. Right' = Right /\ Live' = Live
  BY <1>1, SameCalls
<1>6. TypeOK'
  BY <1>1, <1>2, <1>4 DEF Inv, TypeOK, Message
<1> QED
  BY <1>1, <1>4, <1>5, <1>6 DEF Inv, NetInv

\* Every step keeps the invariant.
LEMMA InvStep == Inv /\ [Next]_vars => Inv'
  BY CallStep, HandleStep, OtherStep DEF Next

\* Whatever the topology, the classes of the peers, the messages and the losses,
\* the state of the processes is well typed, ttl_ in its range.
THEOREM TypeCorrect == Spec => []TypeOK
  BY InvInit, InvStep, PTL DEF Spec, Inv

\* The invariant holds of every copy.
LEMMA InvBounds == Inv => TtlBounds
<1> SUFFICES ASSUME Inv, NEW e \in End
             PROVE  /\ \A k \in 1 .. Len(sent[e]) : Counted(sent[e][k])
                    /\ \A k \in 1 .. Len(handled[e]) : Counted(handled[e][k])
  BY DEF TtlBounds
<1>1. \A k \in 1 .. Len(sent[e]) : sent[e][k] \in Live
  BY ElementOfSeq DEF Inv, NetInv
<1>2. \A k \in 1 .. Len(handled[e]) : handled[e][k] \in Right
  BY ElementOfSeq DEF Inv, NetInv
<1> QED
  BY <1>1, <1>2 DEF Live, Right

\* In every network, whatever its cycles, no copy of a message crosses more
\* connections than the ttl it was sent with, 256 for ttl 0.
THEOREM FloodsEnd == Spec => []TtlBounds
  BY InvInit, InvStep, InvBounds, PTL DEF Spec

----------------------------------------------------------------------------
(* Every connection is used as a MessageChannel.                           *)

\* The types of the messages on connections: those of callers, and PONG.
Kind == {m.type : m \in Offers} \cup {MSG_TYPE_PONG}
KindInv == sent \in [End -> Seq({m \in Message : m.type \in Kind})]

\* A message as its channel sees it.
Bare(m) == [type |-> m.type, ttl |-> m.ttl]
BareMessage == [type : Nat, ttl : Nat]

\* Its type.
LEMMA BareType ==
    ASSUME NEW m \in Message
    PROVE  Bare(m) \in BareMessage
<1>1. m.type \in 0 .. 255 /\ m.ttl \in 0 .. TtlValues - 1
  BY DEF Message
<1>2. m.type \in Nat /\ m.ttl \in Nat
  BY <1>1, TtlAssumption
<1> QED
  BY <1>2 DEF Bare, BareMessage

\* The channel's view of a sequence, message by message.
LEMMA PlainIs ==
    ASSUME NEW s \in Seq(Message)
    PROVE  /\ Plain(s) \in Seq(BareMessage) /\ Len(Plain(s)) = Len(s)
           /\ \A k \in 1 .. Len(s) : Plain(s)[k] = Bare(s[k])
<1>1. PICK n \in Nat : n = Len(s)
  BY LenProperties
<1>2. \A k \in 1 .. n : s[k] \in Message
  BY <1>1, ElementOfSeq
<1>3. \A k \in 1 .. n : Bare(s[k]) \in BareMessage
  BY <1>2, BareType
<1>4. Plain(s) = [k \in 1 .. n |-> Bare(s[k])]
  BY <1>1 DEF Plain, Bare
<1>5. Plain(s) \in [1 .. n -> BareMessage]
  BY <1>3, <1>4
<1>6. Plain(s) \in Seq(BareMessage) /\ Len(Plain(s)) = n
  BY <1>4, <1>5
<1> QED
  BY <1>1, <1>4, <1>6

\* It distributes over concatenation.
LEMMA PlainConcat ==
    ASSUME NEW s \in Seq(Message), NEW t \in Seq(Message)
    PROVE  Plain(s \o t) = Plain(s) \o Plain(t)
<1>1. PICK a \in Nat, b \in Nat : a = Len(s) /\ b = Len(t)
  BY LenProperties
<1>2. PICK st \in Seq(Message) : st = s \o t
  BY ConcatProperties
<1>3. Len(st) = a + b /\ \A k \in 1 .. a + b : st[k] = IF k <= a THEN s[k] ELSE t[k - a]
  BY <1>1, <1>2, ConcatProperties
<1>4. /\ Plain(s) \in Seq(BareMessage) /\ Len(Plain(s)) = a
      /\ \A k \in 1 .. a : Plain(s)[k] = Bare(s[k])
  BY <1>1, PlainIs
<1>5. /\ Plain(t) \in Seq(BareMessage) /\ Len(Plain(t)) = b
      /\ \A k \in 1 .. b : Plain(t)[k] = Bare(t[k])
  BY <1>1, PlainIs
<1>6. /\ Plain(st) \in Seq(BareMessage) /\ Len(Plain(st)) = a + b
      /\ \A k \in 1 .. a + b : Plain(st)[k] = Bare(st[k])
  BY <1>2, <1>3, PlainIs
<1>7. PICK u \in Seq(BareMessage) : u = Plain(s) \o Plain(t)
  BY <1>4, <1>5, ConcatProperties
<1>8. /\ Len(u) = a + b
      /\ \A k \in 1 .. a + b : u[k] = IF k <= a THEN Plain(s)[k] ELSE Plain(t)[k - a]
  BY <1>4, <1>5, <1>7, ConcatProperties, Zenon
<1>9. ASSUME NEW k \in 1 .. a + b PROVE u[k] = Plain(st)[k]
  <2>1. CASE k <= a
    BY <1>3, <1>4, <1>6, <1>8, <2>1, SMTT(30)
  <2>2. CASE ~(k <= a)
    <3>1. k - a \in 1 .. b
      BY <2>2
    <3> QED
      BY <1>3, <1>5, <1>6, <1>8, <2>2, <3>1
  <2> QED
    BY <2>1, <2>2
<1>10. u = Plain(st)
  BY <1>6, <1>8, <1>9, SeqEqual
<1> QED
  BY <1>2, <1>7, <1>10

\* One message, and none.
LEMMA PlainOne ==
    ASSUME NEW m
    PROVE  Plain(<<m>>) = <<Bare(m)>> /\ Plain(<<>>) = <<>>
<1>1. Plain(<<>>) = <<>>
  BY DEF Plain
<1>2. Plain(<<m>>) = [k \in 1 .. 1 |-> Bare(<<m>>[k])]
  BY DEF Plain, Bare
<1>3. Plain(<<m>>) = <<Bare(m)>>
  BY <1>2
<1> QED
  BY <1>1, <1>3

\* What a step may put on one end: nothing, or one message of a known type.
Parcel == {<<>>} \cup {<<m>> : m \in {x \in Message : x.type \in Kind}}

\* What is put on all ends enters the channel of each connection.
LEMMA Enters ==
    ASSUME TypeOK, NEW l \in Link, NEW out \in [End -> Parcel],
           sent' = [d \in End |-> sent[d] \o out[d]]
    PROVE  LET new == [d \in Ends(l) |-> Plain(out[d])]
           IN  new \in Channel(l)!Offer /\ Channel(l)!Enter(new)
<1> DEFINE new == [d \in Ends(l) |-> Plain(out[d])]
           M == [type : Kind, ttl : 0 .. TtlValues - 1]
<1>1. \A d \in Ends(l) : d \in End
  BY DEF Ends, End
<1>2. ASSUME NEW d \in Ends(l) PROVE Plain(out[d]) \in {<<>>} \cup {<<m>> : m \in M}
  <2>1. CASE out[d] = <<>>
    BY <2>1, PlainOne
  <2>2. CASE out[d] # <<>>
    <3>1. out[d] \in Parcel
      BY <1>1
    <3>2. PICK m \in Message : out[d] = <<m>> /\ m.type \in Kind
      BY <2>2, <3>1 DEF Parcel
    <3>3. Bare(m) \in M
      <4>1. m.ttl \in 0 .. TtlValues - 1
        BY DEF Message
      <4> QED
        BY <3>2, <4>1 DEF Bare
    <3>4. Plain(out[d]) = <<Bare(m)>>
      BY <3>2, PlainOne
    <3> QED
      BY <3>3, <3>4
  <2> QED
    BY <2>1, <2>2
<1>3. new \in [Ends(l) -> {<<>>} \cup {<<m>> : m \in M}]
  BY <1>2
<1>4. new \in Channel(l)!Offer
  BY <1>3 DEF Channel!Offer, Kind
<1>5. ASSUME NEW d \in Ends(l) PROVE Plain(sent'[d]) = Plain(sent[d]) \o new[d]
  <2>1. sent'[d] = sent[d] \o out[d] /\ sent[d] \in Seq(Message)
    BY <1>1 DEF TypeOK
  <2>2. out[d] \in Seq(Message)
    <3>1. out[d] \in Parcel
      BY <1>1
    <3>2. CASE out[d] = <<>>
      BY <3>2
    <3>3. CASE \E m \in Message : out[d] = <<m>>
      BY <3>3
    <3> QED
      BY <3>1, <3>2, <3>3 DEF Parcel
  <2>3. Plain(sent[d] \o out[d]) = Plain(sent[d]) \o Plain(out[d])
    BY <2>1, <2>2, PlainConcat
  <2> QED
    BY <2>1, <2>3
<1> HIDE DEF new
<1>6. Channel(l)!Enter(new)
  <2>1. [d \in Ends(l) |-> Plain(sent'[d])]
        = [d \in Ends(l) |-> [c \in Ends(l) |-> Plain(sent[c])][d] \o new[d]]
    BY <1>5
  <2> QED
    BY <2>1 DEF Channel!Enter, Plain, Ends
<1> QED
  BY <1>4, <1>6 DEF new

\* The other end of a connection.
LEMMA PeerIsFar ==
    ASSUME NEW l \in Link, NEW e \in Ends(l)
    PROVE  Channel(l)!Peer(e) = Far(e) /\ Far(e) \in Ends(l) /\ Far(e) # e
<1>1. /\ Channel(l)!Peer(<<l, 1>>) = <<l, 2>>
      /\ Channel(l)!Peer(<<l, 2>>) = <<l, 1>>
  BY DEF Channel!Peer, Ends
<1>2. Far(<<l, 1>>) = <<l, 2>> /\ Far(<<l, 2>>) = <<l, 1>>
  BY DEF Far
<1>3. CASE e = <<l, 1>>
  BY <1>1, <1>2, <1>3 DEF Ends
<1>4. CASE e = <<l, 2>>
  BY <1>1, <1>2, <1>4 DEF Ends
<1> QED
  BY <1>3, <1>4 DEF Ends

\* A step that handles nothing on a connection puts into its channel.
LEMMA PutStep ==
    ASSUME TypeOK, NEW l \in Link, NEW out \in [End -> Parcel],
           sent' = [d \in End |-> sent[d] \o out[d]],
           \A d \in Ends(l) : handled'[d] = handled[d]
    PROVE  Channel(l)!Next
<1>1. \E new \in Channel(l)!Offer : Channel(l)!Enter(new)
  BY Enters
<1>2. [d \in Ends(l) |-> Plain(handled'[d])] = [d \in Ends(l) |-> Plain(handled[d])]
  OBVIOUS
<1>3. Channel(l)!Put
  BY <1>1, <1>2 DEF Channel!Put, Plain, Ends
<1> QED
  BY <1>3 DEF Channel!Next

\* A step that handles a message on a connection takes it from its channel,
\* and puts the answer to a PING there.
LEMMA GetStep ==
    ASSUME TypeOK, KindInv, NEW l \in Link, NEW e \in Ends(l), Handle(e),
           NEW out \in [End -> Parcel],
           sent' = [d \in End |-> sent[d] \o out[d]],
           out[e] = IF sent[Far(e)][Len(handled[e]) + 1].type = MSG_TYPE_PING
                    THEN <<Pong>> ELSE <<>>
    PROVE  Channel(l)!Next
<1>1. Far(e) \in End /\ e \in End /\ Far(e) \in Ends(l) /\ Channel(l)!Peer(e) = Far(e)
  BY PeerIsFar DEF Ends, End
<1>2. sent[Far(e)] \in Seq(Message) /\ handled[e] \in Seq(Message)
  BY <1>1 DEF TypeOK
<1>3. PICK n \in Nat, k \in Nat : n = Len(sent[Far(e)]) /\ k = Len(handled[e]) + 1 /\ k \in 1 .. n
  BY <1>2, LenProperties DEF Handle, Pending
<1>4. PICK m \in Message : m = sent[Far(e)][k]
  BY <1>2, <1>3, ElementOfSeq
<1>5. PICK h : h = hop(m, e)
  OBVIOUS
<1>6. handled' = [handled EXCEPT ![e] = Append(handled[e], h)]
  BY <1>3, <1>4, <1>5 DEF Handle
<1> DEFINE S == [d \in Ends(l) |-> Plain(sent[d])]
           H == [d \in Ends(l) |-> Plain(handled[d])]
<1>7. /\ Len(S[Far(e)]) = n /\ S[Far(e)][k] = Bare(m)
      /\ Len(H[e]) = k - 1
  BY <1>1, <1>2, <1>3, <1>4, PlainIs
<1>8. Bare(h) = Channel(l)!Aged(Bare(m))
  BY <1>5 DEF hop, Bare, Channel!Aged
<1>9. h \in Message
  <2>1. m.route \in Seq(End) /\ m.ttl \in 0 .. TtlValues - 1
    BY DEF Message
  <2>2. Append(m.route, e) \in Seq(End)
    BY <1>1, <2>1, AppendProperties
  <2>3. (m.ttl + TtlValues - 1) % TtlValues \in 0 .. TtlValues - 1
    BY <2>1, TtlAssumption
  <2> QED
    BY <1>5, <2>2, <2>3 DEF hop, Message
<1>10. Plain(Append(handled[e], h)) = Append(H[e], Bare(h))
  <2>1. Append(handled[e], h) = handled[e] \o <<h>> /\ <<h>> \in Seq(Message)
    BY <1>2, <1>9
  <2>2. Plain(handled[e] \o <<h>>) = Plain(handled[e]) \o <<Bare(h)>>
    BY <1>2, <2>1, PlainConcat, PlainOne
  <2>3. Plain(handled[e]) \in Seq(BareMessage) /\ Bare(h) \in BareMessage
    BY <1>2, <1>9, PlainIs, BareType
  <2>4. Plain(handled[e]) \o <<Bare(h)>> = Append(Plain(handled[e]), Bare(h))
    BY <2>3
  <2> QED
    BY <2>1, <2>2, <2>4
<1>11. [d \in Ends(l) |-> Plain(handled'[d])] = [H EXCEPT ![e] = Append(H[e], Bare(h))]
  <2>1. ASSUME NEW d \in Ends(l)
        PROVE  Plain(handled'[d]) = [H EXCEPT ![e] = Append(H[e], Bare(h))][d]
    <3>1. d \in End
      BY DEF Ends, End
    <3>2. CASE d = e
      BY <1>1, <1>6, <1>10, <3>2 DEF TypeOK
    <3>3. CASE d # e
      <4>1. handled'[d] = handled[d]
        BY <1>6, <3>1, <3>3 DEF TypeOK
      <4> QED
        BY <3>3, <4>1
    <3> QED
      BY <3>2, <3>3
  <2> QED
    BY <2>1
<1>12. PICK new : new = [d \in Ends(l) |-> Plain(out[d])]
  OBVIOUS
<1>13. new \in Channel(l)!Offer /\ Channel(l)!Enter(new)
  BY <1>12, Enters
<1>14. new[e] = IF Bare(m).type = MSG_TYPE_PING
                THEN <<[type |-> MSG_TYPE_PONG, ttl |-> 1]>> ELSE <<>>
  <2>1. Bare(m).type = m.type /\ new[e] = Plain(out[e])
    BY <1>12 DEF Bare
  <2>2. out[e] = IF m.type = MSG_TYPE_PING THEN <<Pong>> ELSE <<>>
    BY <1>3, <1>4
  <2>3. Plain(<<Pong>>) = <<Bare(Pong)>> /\ Plain(<<>>) = <<>>
    BY PlainOne
  <2>4. Bare(Pong) = [type |-> MSG_TYPE_PONG, ttl |-> 1]
    BY DEF Bare, Pong
  <2> QED
    BY <2>1, <2>2, <2>3, <2>4
<1>15. new = [new EXCEPT ![e] = IF Bare(m).type = MSG_TYPE_PING
                THEN <<[type |-> MSG_TYPE_PONG, ttl |-> 1]>> ELSE <<>>]
  BY <1>12, <1>14
<1>16. Len(H[e]) < Len(S[Far(e)]) /\ S[Far(e)][Len(H[e]) + 1] = Bare(m)
  BY <1>3, <1>7
<1> HIDE DEF S, H
<1>17. Channel(l)!Get(e)
  <2>1. /\ Len(H[e]) < Len(S[Channel(l)!Peer(e)])
        /\ S[Channel(l)!Peer(e)][Len(H[e]) + 1] = Bare(m)
    BY <1>1, <1>16
  <2>2. \E nw \in Channel(l)!Offer :
           Channel(l)!Enter([nw EXCEPT ![e] = IF Bare(m).type = MSG_TYPE_PING
                THEN <<[type |-> MSG_TYPE_PONG, ttl |-> 1]>> ELSE <<>>])
    BY <1>13, <1>15
  <2>3. [d \in Ends(l) |-> Plain(handled'[d])]
         = [H EXCEPT ![e] = Append(H[e], Channel(l)!Aged(Bare(m)))]
    BY <1>8, <1>11
  <2> HIDE DEF Bare
  <2> QED
    BY <2>1, <2>2, <2>3 DEF Channel!Get, S, H
<1> QED
  BY <1>17 DEF Channel!Next

\* What a call puts on the connections.
LEMMA CallOut ==
    ASSUME TypeOK, NetInv, NEW e \in End, NEW m \in Offers, Call(e, m)
    PROVE  /\ UNCHANGED handled
           /\ \E out \in [End -> Parcel] : sent' = [d \in End |-> sent[d] \o out[d]]
<1>0. PICK new : new = [type |-> m.type, ttl |-> m.ttl, id |-> Len(calls) + 1,
                        route |-> <<>>]
  OBVIOUS
<1>1. m.type \in 0 .. 255 /\ m.ttl \in 0 .. TtlValues - 1
  BY OfferAssumption
<1>2. Len(calls) + 1 \in 0 .. MaxEvents
  <2>1. Len(calls) \in Nat /\ breaks \in Nat /\ Len(calls) + breaks < MaxEvents
    BY LenProperties DEF Call, TypeOK
  <2> QED
    BY <2>1, BoundAssumption
<1>3. new \in Message
  BY <1>0, <1>1, <1>2 DEF Message
<1>4. new.type \in Kind
  BY <1>0 DEF Kind
<1>5. PICK out : out = [d \in End |-> IF d = e THEN <<new>> ELSE <<>>]
  OBVIOUS
<1>6. out \in [End -> Parcel]
  BY <1>3, <1>4, <1>5 DEF Parcel
<1>7. ASSUME NEW d \in End PROVE sent'[d] = sent[d] \o out[d]
  <2>1. sent[d] \in Seq(Message)
    BY DEF TypeOK
  <2>2. CASE d = e
    <3>1. sent'[d] = Append(sent[d], new)
      BY <1>0, <2>2 DEF Call, TypeOK
    <3>2. Append(sent[d], new) = sent[d] \o <<new>>
      BY <1>3, <2>1
    <3> QED
      BY <1>5, <2>2, <3>1, <3>2
  <2>3. CASE d # e
    <3>1. sent'[d] = sent[d] /\ out[d] = <<>>
      BY <1>5, <2>3 DEF Call, TypeOK
    <3> QED
      BY <2>1, <3>1, ConcatEmptySeq
  <2> QED
    BY <2>2, <2>3
<1>8. sent' = [d \in End |-> sent'[d]]
  BY DEF Call, TypeOK
<1> QED
  BY <1>6, <1>7, <1>8 DEF Call

\* Nothing at all may be put on the connections.
LEMMA NoOut ==
    ASSUME TypeOK, UNCHANGED sent
    PROVE  /\ [d \in End |-> <<>>] \in [End -> Parcel]
           /\ sent' = [d \in End |-> sent[d] \o [c \in End |-> <<>>][d]]
<1>1. ASSUME NEW d \in End PROVE sent[d] \o <<>> = sent[d]
  BY ConcatEmptySeq DEF TypeOK
<1> QED
  BY <1>1 DEF TypeOK, Parcel

\* What a handler puts on the connections.
LEMMA HandleOut ==
    ASSUME TypeOK, KindInv, NEW e \in End, Handle(e)
    PROVE  /\ \A d \in End : d # e => handled'[d] = handled[d]
           /\ \E out \in [End -> Parcel] :
                /\ sent' = [d \in End |-> sent[d] \o out[d]]
                /\ out[e] = IF sent[Far(e)][Len(handled[e]) + 1].type = MSG_TYPE_PING
                            THEN <<Pong>> ELSE <<>>
<1>1. Far(e) \in End
  BY DEF Far, End
<1>2. PICK s : s = sent[Far(e)][Len(handled[e]) + 1]
  OBVIOUS
<1>3. s \in {m \in Message : m.type \in Kind}
  <2>1. Len(handled[e]) \in Nat /\ Len(sent[Far(e)]) \in Nat
    BY <1>1, LenProperties DEF TypeOK
  <2>2. Len(handled[e]) + 1 \in 1 .. Len(sent[Far(e)])
    BY <2>1 DEF Handle, Pending
  <2> QED
    BY <1>1, <1>2, <2>2, ElementOfSeq DEF KindInv
<1>4. PICK m : m = hop(s, e)
  OBVIOUS
<1>5. m \in Message /\ m.type = s.type /\ m.type \in Kind
  <2>1. s.route \in Seq(End) /\ s.ttl \in 0 .. TtlValues - 1 /\ s.type \in Kind
        /\ s.type \in 0 .. 255 /\ s.id \in 0 .. MaxEvents
    BY <1>3 DEF Message
  <2>2. Append(s.route, e) \in Seq(End)
    BY <2>1, AppendProperties
  <2>3. (s.ttl + TtlValues - 1) % TtlValues \in 0 .. TtlValues - 1
    BY <2>1, TtlAssumption
  <2> QED
    BY <1>4, <2>1, <2>2, <2>3 DEF hop, Message
<1>6. \A d \in End : d # e => handled'[d] = handled[d]
  BY DEF Handle, TypeOK
<1>7. CASE sent' = [d \in End |-> sent[d] \o Out(e, m, d)]
  <2>1. PICK out : out = [d \in End |-> Out(e, m, d)]
    OBVIOUS
  <2>2. Pong \in Message /\ Pong.type \in Kind
    BY TtlAssumption, BoundAssumption DEF Pong, Message, MSG_TYPE_PONG, Kind
  <2>3. ASSUME NEW d \in End PROVE Out(e, m, d) \in Parcel
    <3>1. <<Pong>> \in Parcel /\ <<m>> \in Parcel /\ <<>> \in Parcel
      BY <1>5, <2>2 DEF Parcel
    <3> QED
      BY <3>1 DEF Out
  <2>4. Out(e, m, e) = IF s.type = MSG_TYPE_PING THEN <<Pong>> ELSE <<>>
    BY <1>5 DEF Out, Relays
  <2>5. out \in [End -> Parcel] /\ sent' = [d \in End |-> sent[d] \o out[d]]
    BY <1>7, <2>1, <2>3
  <2> QED
    BY <1>2, <1>6, <2>1, <2>4, <2>5
<1>8. CASE sent' = sent /\ ~Accepts(home[e], m.type)
  <2>1. s.type # MSG_TYPE_PING
    BY <1>5, <1>8 DEF Accepts
  <2>2. PICK out : out = [d \in End |-> <<>>]
    OBVIOUS
  <2>3. out \in [End -> Parcel] /\ sent' = [d \in End |-> sent[d] \o out[d]]
    BY <1>8, <2>2, NoOut
  <2> QED
    BY <1>2, <1>6, <2>1, <2>2, <2>3
<1> QED
  BY <1>2, <1>4, <1>7, <1>8 DEF Handle

\* Every step is one of each connection's channel, or none.
LEMMA ChannelStep ==
    ASSUME Inv, KindInv, [Next]_vars, NEW l \in Link
    PROVE  Channel(l)!Next \/ UNCHANGED Channel(l)!vars
<1>1. \A d \in Ends(l) : d \in End
  BY DEF Ends, End
<1>2. ASSUME NEW e \in End, NEW m \in Offers, Call(e, m)
      PROVE  Channel(l)!Next
  <2>1. PICK out \in [End -> Parcel] : sent' = [d \in End |-> sent[d] \o out[d]]
    BY <1>2, CallOut DEF Inv
  <2>2. \A d \in Ends(l) : handled'[d] = handled[d]
    BY <1>2, CallOut DEF Inv
  <2> QED
    BY <2>1, <2>2, PutStep DEF Inv
<1>3. ASSUME NEW e \in End, Handle(e)
      PROVE  Channel(l)!Next
  <2>1. PICK out \in [End -> Parcel] :
           /\ sent' = [d \in End |-> sent[d] \o out[d]]
           /\ out[e] = IF sent[Far(e)][Len(handled[e]) + 1].type = MSG_TYPE_PING
                       THEN <<Pong>> ELSE <<>>
    BY <1>3, HandleOut DEF Inv
  <2>2. CASE e \in Ends(l)
    BY <1>3, <2>1, <2>2, GetStep DEF Inv
  <2>3. CASE e \notin Ends(l)
    <3>1. \A d \in Ends(l) : handled'[d] = handled[d]
      BY <1>1, <1>3, <2>3, HandleOut DEF Inv
    <3> QED
      BY <2>1, <3>1, PutStep DEF Inv
  <2> QED
    BY <2>2, <2>3
<1>4. ASSUME UNCHANGED <<sent, handled>>
      PROVE  UNCHANGED Channel(l)!vars
  BY <1>4 DEF Channel!vars, Plain
<1>5. \/ \E e \in End : Handle(e) \/ \E m \in Offers : Call(e, m)
      \/ UNCHANGED <<sent, handled>>
  BY DEF Next, ReadFail, Destroy, Break, vars
<1> QED
  BY <1>2, <1>3, <1>4, <1>5

\* Only messages of callers' types and PONGs are sent.
LEMMA KindStep ==
    ASSUME Inv, KindInv, [Next]_vars
    PROVE  KindInv'
<1> DEFINE M == {m \in Message : m.type \in Kind}
<1>1. M' = M
  BY DEF Message, Kind
<1>2. ASSUME NEW out \in [End -> Parcel], sent' = [d \in End |-> sent[d] \o out[d]]
      PROVE  sent' \in [End -> Seq(M)]
  <2>1. ASSUME NEW d \in End PROVE sent[d] \o out[d] \in Seq(M)
    <3>1. out[d] \in Parcel /\ sent[d] \in Seq(M)
      BY DEF KindInv
    <3>2. out[d] \in Seq(M)
      <4>1. CASE out[d] = <<>>
        BY <4>1
      <4>2. CASE \E m \in M : out[d] = <<m>>
        BY <4>2
      <4> QED
        BY <3>1, <4>1, <4>2 DEF Parcel
    <3> HIDE DEF M
    <3> QED
      BY <3>1, <3>2, ConcatProperties
  <2> QED
    BY <1>2, <2>1
<1>3. \/ \E out \in [End -> Parcel] : sent' = [d \in End |-> sent[d] \o out[d]]
      \/ sent' = sent
  <2>1. \/ \E e \in End : Handle(e) \/ \E m \in Offers : Call(e, m)
        \/ UNCHANGED <<sent, handled>>
    BY DEF Next, ReadFail, Destroy, Break, vars
  <2> QED
    BY <2>1, HandleOut, CallOut DEF Inv
<1> QED
  BY <1>1, <1>2, <1>3 DEF KindInv

\* Nothing has been sent, or handled, on any connection at first.
LEMMA ChannelInit ==
    ASSUME Init
    PROVE  KindInv /\ \A l \in Link : Channel(l)!Init
<1>1. KindInv
  <2>1. \A S : <<>> \in Seq(S)
    OBVIOUS
  <2> QED
    BY <2>1 DEF Init, KindInv
<1>2. ASSUME NEW l \in Link PROVE Channel(l)!Init
  <2>1. \A d \in Ends(l) : d \in End
    BY DEF Ends, End
  <2> QED
    BY <2>1 DEF Channel!Init, Init, Plain, Ends
<1> QED
  BY <1>1, <1>2

\* In every network each connection is used as the channel that PeerLink
\* implements: what the processes relay to and fro, seen from one connection, is
\* messages put into it and taken out in order, and answers to PINGs.
THEOREM ChannelsUsed == Spec => UsesChannels
<1>1. Init => Inv /\ KindInv /\ \A l \in Link : Channel(l)!Init
  BY InvInit, ChannelInit
<1>2. Inv /\ KindInv /\ [Next]_vars => Inv' /\ KindInv'
  BY InvStep, KindStep
<1>3. Inv /\ KindInv /\ [Next]_vars =>
        [\A l \in Link : Channel(l)!Next \/ UNCHANGED Channel(l)!vars]_vars
  BY ChannelStep
<1> QED
  BY <1>1, <1>2, <1>3, PTL DEF Spec, UsesChannels

=============================================================================
