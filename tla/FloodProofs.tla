---------------------------- MODULE FloodProofs -----------------------------
(***************************************************************************)
(* FloodExact of Network, for every network.                               *)
(*                                                                         *)
(* The code gives a message no identity and remembers nothing it has seen, *)
(* so that a flood takes no way twice is a fact about all connections      *)
(* together: a second copy on the same way would need a second copy where  *)
(* it came from (OriginInv, PairInv), back to the caller, who sends once   *)
(* (UniqueInv).  That no way is left out is an induction along the way:    *)
(* the caller has sent (CallInv), what is sent is handled when nothing is  *)
(* on its way (PairInv), and what is handled was relayed wherever a        *)
(* connection stands (RelayedInv, which needs UpInv), as long as its ttl   *)
(* lasts (TtlBounds of NetworkProofs).  WayInv says that no other ways     *)
(* are taken.                                                              *)
(***************************************************************************)
EXTENDS NetworkProofs, ArithmeticLemmas

\* The call that a message comes from, when it is no PONG.
Sender(m) == calls[m.id]

\* What is handled at an end is what the other end has sent, in order.
PairInv ==
    \A e \in End :
        /\ Len(handled[e]) <= Len(sent[Far(e)])
        /\ \A j \in 1 .. Len(handled[e]) : handled[e][j] = hop(sent[Far(e)][j], e)

\* No end sends two copies of a message that came the same way.
Unique(s) ==
    \A i, j \in 1 .. Len(s) :
        s[i].id # 0 /\ s[i].id = s[j].id /\ s[i].route = s[j].route => i = j
UniqueInv == \A e \in End : Unique(sent[e])

\* A copy that e sends is the caller's, or one that another end of e's process
\* has handled and accepted.
Origin(e, m) ==
    /\ m.type = Sender(m).type
    /\ \/ m.route = <<>> /\ e = Sender(m).from
       \/ \E d \in End : /\ d # e /\ home[d] = home[e] /\ Accepts(home[d], m.type)
                         /\ \E i \in 1 .. Len(handled[d]) : handled[d][i] = m
OriginInv ==
    \A e \in End : \A j \in 1 .. Len(sent[e]) :
        sent[e][j].id # 0 => Origin(e, sent[e][j])

\* A way that the message of the call c may take.
Way(w, c) ==
    /\ w \in Seq(End) /\ Len(w) > 0 /\ w[1] = Far(c.from)
    /\ \A i \in 1 .. Len(w) - 1 : Step(w[i], w[i + 1]) /\ Accepts(home[w[i]], c.type)

\* What is handled came a way that it may take.
Travelled(m) == m.type = Sender(m).type /\ Way(m.route, Sender(m))
WayInv ==
    \A e \in End : \A j \in 1 .. Len(handled[e]) :
        handled[e][j].id # 0 => Travelled(handled[e][j])

\* The peers of a connection that stands exist.
UpInv == \A e \in End : up[e[1]] => alive[e]

Contains(s, m) == \E i \in 1 .. Len(s) : s[i] = m

\* An end that still reads has accepted what it has handled, and its process has
\* relayed it on every connection that stands.
RelayedInv ==
    \A e \in End : reading[e] =>
        \A j \in 1 .. Len(handled[e]) : \A d \in End :
            Step(e, Far(d)) /\ handled[e][j].ttl > 0 /\ up[d[1]]
                => Contains(sent[d], handled[e][j])

\* A caller's message is on its connection.
First(k) == [type |-> calls[k].type, ttl |-> calls[k].ttl, id |-> k, route |-> <<>>]
CallInv == \A k \in 1 .. Len(calls) : Contains(sent[calls[k].from], First(k))

FloodInv ==
    PairInv /\ UniqueInv /\ OriginInv /\ WayInv /\ UpInv /\ RelayedInv /\ CallInv

----------------------------------------------------------------------------
(* Sequences that grow.                                                    *)

\* t is s, or s and more behind it.
Longer(s, t) ==
    Len(s) \in Nat /\ Len(t) \in Nat /\ Len(s) <= Len(t)
    /\ \A i \in 1 .. Len(s) : t[i] = s[i]

\* t is s and x.
Added(s, x, t) ==
    Longer(s, t) /\ Len(t) = Len(s) + 1 /\ t[Len(s) + 1] = x

\* Append adds.
LEMMA AppendAdds ==
    ASSUME NEW s \in Seq(Message), NEW x \in Message
    PROVE  Added(s, x, Append(s, x))
<1>1. /\ Len(s) \in Nat /\ Len(Append(s, x)) = Len(s) + 1
      /\ \A i \in 1 .. Len(s) : Append(s, x)[i] = s[i]
      /\ Append(s, x)[Len(s) + 1] = x
  BY LenProperties, AppendProperties
<1> QED
  BY <1>1 DEF Added, Longer

\* A sequence is itself and no more.
LEMMA SameLonger ==
    ASSUME NEW s \in Seq(Message)
    PROVE  Longer(s, s)
<1>1. Len(s) \in Nat
  BY LenProperties
<1> QED
  BY <1>1 DEF Longer

\* The items of a sequence that has grown by x.
LEMMA AddedItems ==
    ASSUME NEW s, NEW x, NEW t, Added(s, x, t), NEW j \in 1 .. Len(t)
    PROVE  \/ j \in 1 .. Len(s) /\ t[j] = s[j]
           \/ j = Len(s) + 1 /\ t[j] = x
<1>1. PICK n \in Nat : n = Len(s)
  BY DEF Added, Longer
<1>2. j \in 1 .. n + 1
  BY <1>1 DEF Added
<1>3. j \in 1 .. n \/ j = n + 1
  BY <1>2
<1> QED
  BY <1>1, <1>3 DEF Added, Longer

\* What is in a sequence stays in it as it grows.
LEMMA LongerContains ==
    ASSUME NEW s, NEW t, Longer(s, t), NEW m, Contains(s, m)
    PROVE  Contains(t, m)
<1>1. PICK i \in 1 .. Len(s) : s[i] = m
  BY DEF Contains
<1>2. PICK a \in Nat, b \in Nat : a = Len(s) /\ b = Len(t) /\ a <= b
  BY DEF Longer
<1>3. i \in 1 .. b
  BY <1>1, <1>2
<1> QED
  BY <1>1, <1>2, <1>3 DEF Longer, Contains

\* A copy that is new keeps the copies apart.
LEMMA AddedUnique ==
    ASSUME NEW s, NEW x, NEW t, Added(s, x, t), Unique(s),
           \A i \in 1 .. Len(s) : s[i].id # 0 => s[i].id # x.id \/ s[i].route # x.route
    PROVE  Unique(t)
<1> SUFFICES ASSUME NEW i \in 1 .. Len(t), NEW j \in 1 .. Len(t),
                    t[i].id # 0, t[i].id = t[j].id, t[i].route = t[j].route
             PROVE  i = j
  BY DEF Unique
<1>1. (i \in 1 .. Len(s) /\ t[i] = s[i]) \/ (i = Len(s) + 1 /\ t[i] = x)
  BY AddedItems
<1>2. (j \in 1 .. Len(s) /\ t[j] = s[j]) \/ (j = Len(s) + 1 /\ t[j] = x)
  BY AddedItems
<1> QED
  BY <1>1, <1>2 DEF Unique

\* The two ends of a connection.
LEMMA FarFar ==
    ASSUME NEW e \in End
    PROVE  Far(e) \in End /\ Far(Far(e)) = e /\ Far(e)[1] = e[1]
<1>1. PICK l \in Link, n \in {1, 2} : e = <<l, n>>
  BY DEF End
<1>2. 3 - n \in {1, 2} /\ 3 - (3 - n) = n
  OBVIOUS
<1> QED
  BY <1>1, <1>2 DEF Far, End

----------------------------------------------------------------------------
(* What the steps add.                                                     *)

\* The messages of a connection.
LEMMA Messages ==
    ASSUME Inv, NEW e \in End
    PROVE  /\ sent[e] \in Seq(Message) /\ Len(sent[e]) \in Nat
           /\ handled[e] \in Seq(Message) /\ Len(handled[e]) \in Nat
           /\ \A i \in 1 .. Len(sent[e]) :
                /\ sent[e][i] \in Message /\ sent[e][i].id \in Nat
                /\ sent[e][i].id <= Len(calls)
           /\ \A i \in 1 .. Len(handled[e]) :
                /\ handled[e][i] \in Message /\ handled[e][i].id \in Nat
                /\ handled[e][i].id <= Len(calls)
<1>1. sent[e] \in Seq(Message) /\ handled[e] \in Seq(Message)
  BY DEF Inv, TypeOK
<1>2. Len(sent[e]) \in Nat /\ Len(handled[e]) \in Nat
  BY <1>1, LenProperties
<1>3. ASSUME NEW i \in 1 .. Len(sent[e]) PROVE sent[e][i] \in Right
  BY ElementOfSeq DEF Inv, NetInv, Live
<1>4. ASSUME NEW i \in 1 .. Len(handled[e]) PROVE handled[e][i] \in Right
  BY ElementOfSeq DEF Inv, NetInv
<1>5. \A m \in Right : m \in Message /\ m.id \in Nat /\ m.id <= Len(calls)
  BY BoundAssumption DEF Right, Message
<1> QED
  BY <1>1, <1>2, <1>3, <1>4, <1>5

\* The message that a handler gets.
LEMMA HandleTakes ==
    ASSUME Inv, NEW e \in End, Handle(e)
    PROVE  LET n == Len(handled[e]) + 1
           IN  /\ n \in 1 .. Len(sent[Far(e)])
               /\ hop(sent[Far(e)][n], e) \in Message
               /\ Added(handled[e], hop(sent[Far(e)][n], e), handled'[e])
               /\ \A d \in End : d # e => handled'[d] = handled[d]
<1>1. Far(e) \in End
  BY FarFar
<1>2. Len(handled[e]) \in Nat /\ Len(sent[Far(e)]) \in Nat
  BY <1>1, Messages
<1>3. PICK n : n = Len(handled[e]) + 1
  OBVIOUS
<1>4. n \in 1 .. Len(sent[Far(e)])
  BY <1>2, <1>3 DEF Handle, Pending
<1>5. PICK m : m = hop(sent[Far(e)][n], e)
  OBVIOUS
<1>6. sent[Far(e)][n] \in Live
  BY <1>1, <1>4, ElementOfSeq DEF Inv, NetInv
<1>7. m \in Message
  BY <1>5, <1>6, HopRight DEF Inv, Right
<1>8. handled' = [handled EXCEPT ![e] = Append(handled[e], m)]
  BY <1>3, <1>5 DEF Handle
<1>9. handled'[e] = Append(handled[e], m) /\ \A d \in End : d # e => handled'[d] = handled[d]
  BY <1>8 DEF Inv, TypeOK
<1>10. Added(handled[e], m, handled'[e])
  BY <1>7, <1>9, Messages, AppendAdds
<1> QED
  BY <1>3, <1>4, <1>5, <1>7, <1>9, <1>10

\* What it sends on the connection of d: nothing, a PONG, or what it relays.
LEMMA HandleSends ==
    ASSUME Inv, NEW e \in End, Handle(e), NEW m \in Message,
           m = hop(sent[Far(e)][Len(handled[e]) + 1], e), NEW d \in End
    PROVE  /\ \/ sent'[d] = sent[d]
              \/ Added(sent[d], Pong, sent'[d])
              \/ /\ Added(sent[d], m, sent'[d])
                 /\ d # e /\ home[d] = home[e] /\ Accepts(home[e], m.type)
           /\ reading'[e] /\ Relays(e, m, d) => Added(sent[d], m, sent'[d])
<1>1. sent[d] \in Seq(Message)
  BY Messages
<1>2. Pong \in Message
  BY PongLive DEF Inv, Live, Right
<1>3. CASE ~Accepts(home[e], m.type)
  <2>1. sent' = sent /\ reading' = [reading EXCEPT ![e] = FALSE]
    BY <1>3 DEF Handle
  <2>2. ~reading'[e]
    BY <2>1 DEF Inv, TypeOK
  <2> QED
    BY <2>1, <2>2
<1>4. CASE Accepts(home[e], m.type)
  <2>1. sent' = [c \in End |-> sent[c] \o Out(e, m, c)]
    BY <1>4 DEF Handle
  <2>2. sent'[d] = sent[d] \o Out(e, m, d)
    BY <2>1
  <2>3. CASE d = e /\ m.type = MSG_TYPE_PING
    <3>1. sent'[d] = Append(sent[d], Pong)
      BY <1>1, <1>2, <2>2, <2>3 DEF Out
    <3> QED
      BY <1>1, <1>2, <2>3, <3>1, AppendAdds DEF Relays
  <2>4. CASE ~(d = e /\ m.type = MSG_TYPE_PING) /\ Relays(e, m, d)
    <3>1. sent'[d] = sent[d] \o <<m>>
      BY <2>2, <2>4 DEF Out
    <3>2. sent'[d] = Append(sent[d], m)
      BY <1>1, <3>1
    <3> QED
      BY <1>1, <1>4, <2>4, <3>2, AppendAdds DEF Relays
  <2>5. CASE ~(d = e /\ m.type = MSG_TYPE_PING) /\ ~Relays(e, m, d)
    <3>1. sent'[d] = sent[d] \o <<>>
      BY <2>2, <2>5 DEF Out
    <3>2. sent'[d] = sent[d]
      BY <1>1, <3>1, ConcatEmptySeq
    <3> QED
      BY <2>5, <3>2
  <2> QED
    BY <2>3, <2>4, <2>5
<1> QED
  BY <1>3, <1>4

\* What is sent and handled stays, in its place.
LEMMA HandleGrows ==
    ASSUME Inv, NEW e \in End, Handle(e), NEW d \in End
    PROVE  Longer(sent[d], sent'[d]) /\ Longer(handled[d], handled'[d])
<1>1. Longer(handled[d], handled'[d])
  BY HandleTakes, Messages, SameLonger DEF Added
<1>2. PICK m \in Message : m = hop(sent[Far(e)][Len(handled[e]) + 1], e)
  BY HandleTakes
<1>3. Longer(sent[d], sent'[d])
  BY <1>2, HandleSends, Messages, SameLonger DEF Added
<1> QED
  BY <1>1, <1>3

\* The message that a caller adds.
LEMMA CallAdds ==
    ASSUME Inv, NEW e \in End, NEW m \in Offers, Call(e, m),
           NEW n, n = Len(calls) + 1
    PROVE  /\ Len(calls) \in Nat /\ Len(calls') = n
           /\ \A k \in 1 .. Len(calls) : calls'[k] = calls[k]
           /\ calls'[n].from = e /\ calls'[n].type = m.type
           /\ First(n)'.id = n /\ First(n)'.route = <<>> /\ First(n)'.type = m.type
           /\ Added(sent[e], First(n)', sent'[e])
           /\ \A d \in End : d # e => sent'[d] = sent[d]
           /\ \A d \in End : Longer(sent[d], sent'[d])
<1>1. n = Len(calls) + 1
  OBVIOUS
<1>2. PICK x : x = [type |-> m.type, ttl |-> m.ttl, id |-> n, route |-> <<>>]
  OBVIOUS
<1>3. PICK c : c = [from |-> e, type |-> m.type, ttl |-> m.ttl]
  OBVIOUS
<1>4. m.type \in 0 .. 255 /\ m.ttl \in 0 .. TtlValues - 1
  BY OfferAssumption
<1>5. c \in CallRecord /\ calls \in Seq(CallRecord)
  BY <1>3, <1>4 DEF CallRecord, Inv, TypeOK
<1>6. calls' = Append(calls, c)
  BY <1>3 DEF Call
<1>7. /\ Len(calls) \in Nat /\ Len(calls') = n /\ calls'[n] = c
      /\ \A k \in 1 .. Len(calls) : calls'[k] = calls[k]
  BY <1>1, <1>5, <1>6, LenProperties, AppendProperties
<1>8. x \in Message
  <2>1. breaks \in Nat /\ Len(calls) + breaks < MaxEvents
    BY DEF Inv, TypeOK, Call
  <2>2. n \in 0 .. MaxEvents
    BY <1>1, <1>7, <2>1, BoundAssumption
  <2> QED
    BY <1>2, <1>4, <2>2 DEF Message
<1>9. First(n)' = x
  BY <1>2, <1>3, <1>7 DEF First
<1>10. sent'[e] = Append(sent[e], x) /\ \A d \in End : d # e => sent'[d] = sent[d]
  BY <1>1, <1>2 DEF Call, Inv, TypeOK
<1>11. Added(sent[e], x, sent'[e])
  BY <1>8, <1>10, Messages, AppendAdds
<1>12. ASSUME NEW d \in End PROVE Longer(sent[d], sent'[d])
  BY <1>10, <1>11, Messages, SameLonger DEF Added
<1>13. x.id = n /\ x.route = <<>> /\ x.type = m.type /\ c.from = e /\ c.type = m.type
  BY <1>2, <1>3
<1> QED
  BY <1>1, <1>7, <1>9, <1>10, <1>11, <1>12, <1>13

----------------------------------------------------------------------------
(* A handler keeps the invariant.                                          *)

\* What is handled is what was sent.
LEMMA HandlePair ==
    ASSUME Inv, FloodInv, NEW e \in End, Handle(e)
    PROVE  PairInv'
<1> SUFFICES ASSUME NEW d \in End
             PROVE  /\ Len(handled'[d]) <= Len(sent'[Far(d)])
                    /\ \A j \in 1 .. Len(handled'[d]) :
                         handled'[d][j] = hop(sent'[Far(d)][j], d)
  BY DEF PairInv, hop, Far
<1>1. Far(d) \in End
  BY FarFar
<1>2. PICK a \in Nat, b \in Nat : a = Len(handled[d]) /\ b = Len(sent[Far(d)])
  BY <1>1, Messages
<1>3. /\ Len(sent'[Far(d)]) \in Nat /\ b <= Len(sent'[Far(d)])
      /\ \A i \in 1 .. b : sent'[Far(d)][i] = sent[Far(d)][i]
  BY <1>1, <1>2, HandleGrows DEF Longer
<1>4. a <= b /\ \A j \in 1 .. a : handled[d][j] = hop(sent[Far(d)][j], d)
  BY <1>2 DEF FloodInv, PairInv
<1>5. \A j \in 1 .. a : handled[d][j] = hop(sent'[Far(d)][j], d)
  <2>1. \A j \in 1 .. a : j \in 1 .. b
    BY <1>4
  <2> QED
    BY <1>3, <1>4, <2>1
<1>6. CASE d # e
  <2>1. handled'[d] = handled[d]
    BY <1>6, HandleTakes
  <2> QED
    BY <1>2, <1>3, <1>4, <1>5, <2>1
<1>7. CASE d = e
  <2>1. PICK m : m = hop(sent[Far(d)][a + 1], d)
    OBVIOUS
  <2>2. a + 1 \in 1 .. b /\ Added(handled[d], m, handled'[d])
    BY <1>2, <1>7, <2>1, HandleTakes
  <2>3. Len(handled'[d]) = a + 1
    BY <1>2, <2>2 DEF Added
  <2>4. ASSUME NEW j \in 1 .. Len(handled'[d])
        PROVE  handled'[d][j] = hop(sent'[Far(d)][j], d)
    <3>1. (j \in 1 .. a /\ handled'[d][j] = handled[d][j])
          \/ (j = a + 1 /\ handled'[d][j] = m)
      BY <1>2, <2>2, AddedItems
    <3> QED
      BY <1>3, <1>5, <2>1, <2>2, <3>1
  <2> QED
    BY <1>3, <2>2, <2>3, <2>4
<1> QED
  BY <1>6, <1>7

\* The way of what is handled ends where it is handled.
LEMMA Arrives ==
    ASSUME Inv, PairInv, NEW e \in End, NEW j \in 1 .. Len(handled[e])
    PROVE  /\ j \in 1 .. Len(sent[Far(e)]) /\ sent[Far(e)][j] \in Message
           /\ handled[e][j].id = sent[Far(e)][j].id
           /\ handled[e][j].type = sent[Far(e)][j].type
           /\ handled[e][j].route = Append(sent[Far(e)][j].route, e)
<1>1. Far(e) \in End
  BY FarFar
<1>2. PICK a \in Nat, b \in Nat : a = Len(handled[e]) /\ b = Len(sent[Far(e)])
  BY <1>1, Messages
<1>3. a <= b /\ handled[e][j] = hop(sent[Far(e)][j], e)
  BY <1>2 DEF PairInv
<1>4. j \in 1 .. b
  BY <1>2, <1>3
<1> QED
  BY <1>1, <1>2, <1>3, <1>4, Messages, SMTT(30) DEF hop

\* Two ways that are the same end at the same end and were the same before.
LEMMA SameEnd ==
    ASSUME NEW r \in Seq(End), NEW s \in Seq(End), NEW d \in End, NEW e \in End,
           Append(r, d) = Append(s, e)
    PROVE  r = s /\ d = e
<1>1. PICK a \in Nat, b \in Nat : a = Len(r) /\ b = Len(s)
  BY LenProperties
<1>2. Len(Append(r, d)) = a + 1 /\ Len(Append(s, e)) = b + 1
  BY <1>1, AppendProperties
<1>3. a = b
  BY <1>2
<1>4. d = e
  BY <1>1, <1>3, AppendProperties
<1>5. \A i \in 1 .. a : r[i] = Append(r, d)[i] /\ s[i] = Append(s, e)[i]
  BY <1>1, <1>3, AppendProperties
<1>6. r = s
  BY <1>1, <1>3, <1>5, SeqEqual
<1> QED
  BY <1>4, <1>6

\* What is relayed has not been sent before: it would have come here the same
\* way, and its sender sends nothing twice.
LEMMA HandleUnique ==
    ASSUME Inv, FloodInv, NEW e \in End, Handle(e)
    PROVE  UniqueInv'
<1> SUFFICES ASSUME NEW d \in End
             PROVE  Unique(sent'[d])
  BY DEF UniqueInv, Unique
<1>1. Unique(sent[d]) /\ Far(e) \in End /\ Unique(sent[Far(e)])
  BY FarFar DEF FloodInv, UniqueInv
<1>2. PICK n : n = Len(handled[e]) + 1
  OBVIOUS
<1>3. PICK s : s = sent[Far(e)][n]
  OBVIOUS
<1>4. PICK m \in Message : m = hop(s, e)
  BY <1>2, <1>3, HandleTakes
<1>5. CASE sent'[d] = sent[d]
  BY <1>1, <1>5
<1>6. CASE Added(sent[d], Pong, sent'[d])
  BY <1>1, <1>6, AddedUnique DEF Pong
<1>7. CASE Added(sent[d], m, sent'[d])
  <2>1. ASSUME NEW i \in 1 .. Len(sent[d]), sent[d][i].id # 0,
               sent[d][i].id = m.id, sent[d][i].route = m.route
        PROVE  FALSE
    <3>1. n \in 1 .. Len(sent[Far(e)]) /\ s \in Message
      BY <1>1, <1>2, <1>3, HandleTakes, Messages
    <3>2. m.route = Append(s.route, e) /\ m.id = s.id /\ s.route \in Seq(End)
      BY <1>4, <3>1 DEF hop, Message
    <3>3. m.route # <<>>
      <4>1. Len(m.route) = Len(s.route) + 1 /\ Len(s.route) \in Nat
        BY <3>2, AppendProperties, LenProperties
      <4> QED
        BY <4>1
    <3>0. PICK c \in End : \E k \in 1 .. Len(handled[c]) : handled[c][k] = sent[d][i]
      BY <2>1, <3>3 DEF FloodInv, OriginInv, Origin
    <3>4. PICK k \in 1 .. Len(handled[c]) : handled[c][k] = sent[d][i]
      BY <3>0
    <3>5. /\ k \in 1 .. Len(sent[Far(c)]) /\ sent[Far(c)][k] \in Message
          /\ m.id = sent[Far(c)][k].id
          /\ m.route = Append(sent[Far(c)][k].route, c)
      BY <2>1, <3>4, Arrives DEF FloodInv
    <3>6. sent[Far(c)][k].route \in Seq(End)
      BY <3>5 DEF Message
    <3>7. c = e /\ sent[Far(c)][k].route = s.route
      <4>1. PICK r \in Seq(End), q \in Seq(End) : r = sent[Far(c)][k].route /\ q = s.route
        BY <3>2, <3>6
      <4>2. Append(r, c) = Append(q, e)
        BY <3>2, <3>5, <4>1
      <4>3. r = q /\ c = e
        BY ONLY r \in Seq(End), q \in Seq(End), c \in End, e \in End, <4>2, SameEnd
      <4> QED
        BY <4>1, <4>3
    <3>8. k = n
      BY <1>1, <1>3, <2>1, <3>1, <3>2, <3>5, <3>7 DEF Unique
    <3>9. Len(handled[e]) \in Nat /\ k \in 1 .. Len(handled[e])
      BY <3>4, <3>7, Messages
    <3> QED
      BY <1>2, <3>8, <3>9
  <2> QED
    BY <1>1, <1>7, <2>1, AddedUnique
<1> QED
  BY <1>2, <1>3, <1>4, <1>5, <1>6, <1>7, HandleSends

\* What was handled is handled still.
LEMMA OriginStays ==
    ASSUME Inv, UNCHANGED <<home, calls>>, NEW e \in End, NEW m, Origin(e, m),
           \A d \in End : Longer(handled[d], handled'[d])
    PROVE  Origin(e, m)'
<1>1. ASSUME NEW d \in End, NEW i \in 1 .. Len(handled[d]), handled[d][i] = m
      PROVE  i \in 1 .. Len(handled'[d]) /\ handled'[d][i] = m
  <2>1. Len(handled[d]) \in Nat /\ Len(handled'[d]) \in Nat
        /\ Len(handled[d]) <= Len(handled'[d])
    BY DEF Longer
  <2> QED
    BY <1>1, <2>1 DEF Longer
<1>2. \A n, t : Accepts(n, t)' <=> Accepts(n, t)
  BY DEF Accepts, process_msg, handle_message
<1>3. CASE m.route = <<>> /\ e = Sender(m).from
  BY <1>3 DEF Origin, Sender
<1>4. CASE \E d \in End : /\ d # e /\ home[d] = home[e] /\ Accepts(home[d], m.type)
                          /\ \E i \in 1 .. Len(handled[d]) : handled[d][i] = m
  <2>1. PICK d \in End : /\ d # e /\ home[d] = home[e] /\ Accepts(home[d], m.type)
                         /\ \E i \in 1 .. Len(handled[d]) : handled[d][i] = m
    BY <1>4
  <2>2. Accepts(home'[d], m.type) /\ home'[d] = home'[e] /\ m.type = calls'[m.id].type
    BY <2>1 DEF Origin, Sender
  <2>3. \E i \in 1 .. Len(handled'[d]) : handled'[d][i] = m
    BY <1>1, <2>1
  <2> QED
    BY <2>1, <2>2, <2>3 DEF Origin, Sender, Accepts, process_msg, handle_message
<1> QED
  BY <1>3, <1>4 DEF Origin

\* What is relayed was handled.
LEMMA HandleOrigin ==
    ASSUME Inv, FloodInv, NEW e \in End, Handle(e)
    PROVE  OriginInv'
<1> SUFFICES ASSUME NEW d \in End, NEW j \in 1 .. Len(sent'[d]),
                    NEW x, x = sent'[d][j], x.id # 0
             PROVE  Origin(d, x)'
  BY DEF OriginInv, Origin, Sender, Accepts, process_msg, handle_message
<1>0. UNCHANGED <<home, calls>> /\ \A c \in End : Longer(handled[c], handled'[c])
  BY HandleGrows DEF Handle
<1>1. Far(e) \in End
  BY FarFar
<1>2. PICK n : n = Len(handled[e]) + 1
  OBVIOUS
<1>3. PICK s : s = sent[Far(e)][n]
  OBVIOUS
<1>4. PICK m \in Message : m = hop(s, e)
  BY <1>2, <1>3, HandleTakes
<1>6. CASE j \in 1 .. Len(sent[d]) /\ sent'[d][j] = sent[d][j]
  <2>1. Origin(d, x)
    BY <1>6 DEF FloodInv, OriginInv
  <2> QED
    BY <1>0, <2>1, OriginStays
<1>7. CASE /\ sent'[d][j] = m
           /\ d # e /\ home[d] = home[e] /\ Accepts(home[e], m.type)
  <2>1. n \in 1 .. Len(sent[Far(e)]) /\ Added(handled[e], m, handled'[e])
    BY <1>2, <1>3, <1>4, HandleTakes
  <2>2. m.id = s.id /\ m.type = s.type
    BY <1>4 DEF hop
  <2>3. m.type = Sender(m).type
    BY <1>1, <1>3, <1>7, <2>1, <2>2 DEF FloodInv, OriginInv, Origin, Sender
  <2>4. n \in 1 .. Len(handled'[e]) /\ handled'[e][n] = m
    BY <1>2, <2>1, Messages DEF Added
  <2>5. m.type = calls'[m.id].type /\ home'[e] = home'[d] /\ Accepts(home'[e], m.type)
    BY <1>0, <1>7, <2>3 DEF Sender
  <2>6. x = m /\ d # e
    BY <1>7
  <2> QED
    BY <2>4, <2>5, <2>6 DEF Origin, Sender, Accepts, process_msg, handle_message
<1>8. CASE sent'[d][j] = Pong
  BY <1>8 DEF Pong
<1> QED
  BY <1>2, <1>3, <1>4, <1>6, <1>7, <1>8, HandleSends, AddedItems

\* What is handled came a way that it may take: its sender's way, and one more
\* connection.
LEMMA HandleWay ==
    ASSUME Inv, FloodInv, NEW e \in End, Handle(e), NEW s, NEW m,
           s = sent[Far(e)][Len(handled[e]) + 1], m = hop(s, e), m.id # 0
    PROVE  Travelled(m)
<1>1. Far(e) \in End /\ Far(Far(e)) = e
  BY FarFar
<1>2. PICK n : n = Len(handled[e]) + 1 /\ n \in 1 .. Len(sent[Far(e)])
  BY HandleTakes
<1>3. s \in Message /\ s.route \in Seq(End) /\ m.route = Append(s.route, e)
      /\ m.id = s.id /\ m.type = s.type
  <2>1. s \in Message
    BY <1>1, <1>2, Messages
  <2> QED
    BY <2>1 DEF hop, Message
<1>4. PICK a \in Nat : a = Len(s.route)
  BY <1>3, LenProperties
<1>5. PICK w : w = m.route
  OBVIOUS
<1>6. /\ w \in Seq(End) /\ Len(w) = a + 1 /\ w[a + 1] = e
      /\ \A i \in 1 .. a : w[i] = s.route[i]
  <2>1. PICK r \in Seq(End) : r = s.route
    BY <1>3
  <2>2. w = Append(r, e) /\ a = Len(r)
    BY <1>3, <1>4, <1>5, <2>1
  <2>3. /\ w \in Seq(End) /\ Len(w) = a + 1 /\ w[a + 1] = e
        /\ \A i \in 1 .. a : w[i] = r[i]
    BY <2>2, AppendProperties
  <2> QED
    BY <2>1, <2>3
<1>7. PICK c : c = Sender(m)
  OBVIOUS
<1>8. Origin(Far(e), s) /\ c = Sender(s)
  BY <1>1, <1>2, <1>3, <1>7 DEF FloodInv, OriginInv, Sender
<1>9. m.type = c.type
  BY <1>3, <1>8 DEF Origin
<1>10. CASE s.route = <<>> /\ Far(e) = Sender(s).from
  <2>0. a = 0 /\ c.from = Far(e)
    BY <1>4, <1>8, <1>10
  <2>1. a = 0 /\ w[1] = Far(c.from)
    BY <1>1, <1>6, <2>0
  <2>2. Way(w, c)
    BY <1>6, <2>1 DEF Way
  <2> QED
    BY <1>5, <1>7, <1>9, <2>2 DEF Travelled
<1>11. CASE \E d \in End : /\ d # Far(e) /\ home[d] = home[Far(e)]
                           /\ Accepts(home[d], s.type)
                           /\ \E i \in 1 .. Len(handled[d]) : handled[d][i] = s
  <2>1. PICK d \in End : /\ d # Far(e) /\ home[d] = home[Far(e)]
                         /\ Accepts(home[d], s.type)
                         /\ \E i \in 1 .. Len(handled[d]) : handled[d][i] = s
    BY <1>11
  <2>2. PICK i \in 1 .. Len(handled[d]) : handled[d][i] = s
    BY <2>1
  <2>3. Way(s.route, c)
    BY <1>3, <1>8, <2>2 DEF FloodInv, WayInv, Travelled
  <2>4. a > 0 /\ s.route[a] = d
    <3>1. PICK r \in Seq(End) : s.route = Append(r, d)
      BY <2>2, Arrives DEF FloodInv, Message
    <3>2. Len(s.route) = Len(r) + 1 /\ s.route[Len(r) + 1] = d /\ Len(r) \in Nat
      BY <3>1, AppendProperties, LenProperties
    <3> QED
      BY <1>4, <3>2
  <2>5. w[1] = Far(c.from)
    BY <1>4, <1>6, <2>3, <2>4 DEF Way
  <2>6. ASSUME NEW j \in 1 .. Len(w) - 1
        PROVE  Step(w[j], w[j + 1]) /\ Accepts(home[w[j]], c.type)
    <3>1. j \in 1 .. a
      BY <1>6
    <3>2. CASE j = a
      <4>1. w[j] = d /\ w[j + 1] = e
        BY <1>6, <2>4, <3>1, <3>2
      <4>2. Step(d, e)
        BY <2>1 DEF Step
      <4> QED
        BY <1>3, <1>9, <2>1, <4>1, <4>2
    <3>3. CASE j # a
      <4>1. j \in 1 .. a - 1 /\ j + 1 \in 1 .. a
        BY <3>1, <3>3
      <4>2. w[j] = s.route[j] /\ w[j + 1] = s.route[j + 1]
        BY <1>6, <3>1, <4>1
      <4>3. Step(s.route[j], s.route[j + 1]) /\ Accepts(home[s.route[j]], c.type)
        BY <1>4, <2>3, <4>1 DEF Way
      <4> QED
        BY <4>2, <4>3
    <3> QED
      BY <3>2, <3>3
  <2>7. Way(w, c)
    BY <1>6, <2>5, <2>6 DEF Way
  <2> QED
    BY <1>5, <1>7, <1>9, <2>7 DEF Travelled
<1> QED
  BY <1>8, <1>10, <1>11 DEF Origin

\* A way stays one.
LEMMA WayStays ==
    ASSUME UNCHANGED home, NEW m, Sender(m)' = Sender(m), Travelled(m)
    PROVE  Travelled(m)'
<1>1. PICK c : c = Sender(m) /\ c = Sender(m)'
  OBVIOUS
<1>2. m.type = c.type /\ Way(m.route, c)
  BY <1>1 DEF Travelled
<1>3. Way(m.route, c)'
  BY <1>2 DEF Way, Step, Far, Accepts, process_msg, handle_message, End
<1> QED
  BY <1>1, <1>2, <1>3 DEF Travelled

\* Every way that was taken may be taken.
LEMMA HandleWays ==
    ASSUME Inv, FloodInv, NEW e \in End, Handle(e)
    PROVE  WayInv'
<1> SUFFICES ASSUME NEW d \in End, NEW j \in 1 .. Len(handled'[d]),
                    handled'[d][j].id # 0
             PROVE  Travelled(handled[d][j])'
  BY DEF WayInv
<1>0. PICK x : x = handled'[d][j] /\ x.id # 0
  OBVIOUS
<1> SUFFICES Travelled(x)'
  BY <1>0 DEF Travelled, Sender, Way
<1>1. UNCHANGED home /\ Sender(x)' = Sender(x)
  BY DEF Handle, Sender
<1>2. PICK s, m : s = sent[Far(e)][Len(handled[e]) + 1] /\ m = hop(s, e)
  OBVIOUS
<1>3. CASE j \in 1 .. Len(handled[d]) /\ x = handled[d][j]
  <2>1. Travelled(x)
    BY <1>0, <1>3 DEF FloodInv, WayInv
  <2> QED
    BY <1>1, <2>1, WayStays
<1>4. CASE x = m
  <2>1. Travelled(x)
    BY <1>0, <1>2, <1>4, HandleWay
  <2> QED
    BY <1>1, <2>1, WayStays
<1>5. CASE d = e
  <2>1. Added(handled[d], m, handled'[d])
    BY <1>2, <1>5, HandleTakes
  <2> QED
    BY <1>0, <1>3, <1>4, <2>1, AddedItems
<1>6. CASE d # e
  <2>1. handled'[d] = handled[d]
    BY <1>6, HandleTakes
  <2> QED
    BY <1>0, <1>3, <2>1
<1> QED
  BY <1>5, <1>6

\* What is handled is relayed wherever it has to go.
LEMMA HandleRelayed ==
    ASSUME Inv, FloodInv, NEW e \in End, Handle(e)
    PROVE  RelayedInv'
<1>0. UNCHANGED <<home, up, alive>>
  BY DEF Handle
<1> SUFFICES ASSUME NEW c \in End, reading'[c], NEW j \in 1 .. Len(handled'[c]),
                    NEW x, x = handled'[c][j], NEW d \in End, Step(c, Far(d)),
                    x.ttl > 0, up[d[1]]
             PROVE  Contains(sent'[d], x)
  BY <1>0 DEF RelayedInv, Contains, Step, Far
<1>1. PICK s, m : s = sent[Far(e)][Len(handled[e]) + 1] /\ m = hop(s, e)
  OBVIOUS
<1>2. m \in Message
  BY <1>1, HandleTakes
<1>3. CASE j \in 1 .. Len(handled[c]) /\ x = handled[c][j]
  <2>1. reading[c]
    BY DEF Handle, Inv, TypeOK
  <2>2. Contains(sent[d], x)
    BY <1>3, <2>1 DEF FloodInv, RelayedInv
  <2>3. Longer(sent[d], sent'[d])
    BY HandleGrows
  <2> QED
    BY <2>2, <2>3, LongerContains
<1>4. CASE x = m /\ c = e
  <2>1. d # e /\ home[d] = home[e]
    BY <1>4, FarFar DEF Step
  <2>2. alive[d]
    BY DEF FloodInv, UpInv
  <2>3. Relays(e, m, d)
    BY <1>4, <2>1, <2>2 DEF Relays
  <2>4. Added(sent[d], m, sent'[d])
    BY <1>1, <1>2, <1>4, <2>3, HandleSends
  <2>5. PICK n \in Nat : n = Len(sent[d])
    BY Messages
  <2>6. n + 1 \in 1 .. Len(sent'[d]) /\ sent'[d][n + 1] = m
    BY <2>4, <2>5 DEF Added
  <2> QED
    BY <1>4, <2>6 DEF Contains
<1>5. CASE c = e
  <2>1. Added(handled[c], m, handled'[c])
    BY <1>1, <1>5, HandleTakes
  <2> QED
    BY <1>3, <1>4, <1>5, <2>1, AddedItems
<1>6. CASE c # e
  <2>1. handled'[c] = handled[c]
    BY <1>6, HandleTakes
  <2> QED
    BY <1>3, <2>1
<1> QED
  BY <1>5, <1>6

\* Every conjunct.
LEMMA HandleFlood ==
    ASSUME Inv, FloodInv, NEW e \in End, Handle(e)
    PROVE  FloodInv'
<1>1. UpInv'
  BY DEF FloodInv, UpInv, Handle
<1>2. CallInv'
  <2> SUFFICES ASSUME NEW k \in 1 .. Len(calls), NEW x, x = First(k)
               PROVE  Contains(sent'[calls[k].from], x)
    BY DEF CallInv, Contains, Handle, First
  <2>0. calls[k] \in CallRecord
    BY ElementOfSeq DEF Inv, TypeOK, CallRecord
  <2>1. PICK d \in End : d = calls[k].from
    BY <2>0 DEF CallRecord
  <2>2. Contains(sent[d], x) /\ Longer(sent[d], sent'[d])
    BY <2>1, HandleGrows DEF FloodInv, CallInv
  <2> QED
    BY <2>1, <2>2, LongerContains
<1> QED
  BY <1>1, <1>2, HandlePair, HandleUnique, HandleOrigin, HandleWays, HandleRelayed
     DEF FloodInv

----------------------------------------------------------------------------
(* So do the other steps, and so does Init.                                *)

\* A call's own message is no copy of another's.
LEMMA CallFlood ==
    ASSUME Inv, FloodInv, NEW e \in End, NEW m \in Offers, Call(e, m)
    PROVE  FloodInv'
<1>0. UNCHANGED <<home, reading, alive, up, handled>>
  BY DEF Call
<1>1. PICK n : n = Len(calls) + 1
  OBVIOUS
<1>2. PICK x : x = First(n)'
  OBVIOUS
<1>3. /\ Len(calls) \in Nat /\ Len(calls') = n
      /\ \A k \in 1 .. Len(calls) : calls'[k] = calls[k]
      /\ calls'[n].from = e /\ calls'[n].type = m.type
      /\ x.id = n /\ x.route = <<>> /\ x.type = m.type
      /\ Added(sent[e], x, sent'[e])
      /\ \A d \in End : d # e => sent'[d] = sent[d]
      /\ \A d \in End : Longer(sent[d], sent'[d])
  BY <1>1, <1>2, CallAdds
<1>4. ASSUME NEW y, y.id \in Nat, y.id # 0, y.id <= Len(calls)
      PROVE  Sender(y)' = Sender(y)
  BY <1>3, <1>4 DEF Sender
<1>5. PairInv'
  <2> SUFFICES ASSUME NEW d \in End
               PROVE  /\ Len(handled[d]) <= Len(sent'[Far(d)])
                      /\ \A j \in 1 .. Len(handled[d]) :
                           handled[d][j] = hop(sent'[Far(d)][j], d)
    BY <1>0 DEF PairInv, hop, Far
  <2>1. Far(d) \in End
    BY FarFar
  <2>2. PICK a \in Nat, b \in Nat : a = Len(handled[d]) /\ b = Len(sent[Far(d)])
    BY <2>1, Messages
  <2>3. /\ Len(sent'[Far(d)]) \in Nat /\ b <= Len(sent'[Far(d)])
        /\ \A i \in 1 .. b : sent'[Far(d)][i] = sent[Far(d)][i]
    BY <1>3, <2>1, <2>2 DEF Longer
  <2>4. a <= b /\ \A j \in 1 .. a : handled[d][j] = hop(sent[Far(d)][j], d)
    BY <2>2 DEF FloodInv, PairInv
  <2>5. \A j \in 1 .. a : j \in 1 .. b
    BY <2>4
  <2> QED
    BY <2>2, <2>3, <2>4, <2>5
<1>6. UniqueInv'
  <2> SUFFICES ASSUME NEW d \in End
               PROVE  Unique(sent'[d])
    BY DEF UniqueInv, Unique
  <2>1. Unique(sent[d])
    BY DEF FloodInv, UniqueInv
  <2>2. \A i \in 1 .. Len(sent[d]) : sent[d][i].id # x.id
    <3>1. \A i \in 1 .. Len(sent[d]) : sent[d][i].id \in Nat /\ sent[d][i].id <= Len(calls)
      BY Messages
    <3> QED
      BY <1>1, <1>3, <3>1
  <2>3. CASE d = e
    BY <1>3, <2>1, <2>2, <2>3, AddedUnique
  <2>4. CASE d # e
    BY <1>3, <2>1, <2>4
  <2> QED
    BY <2>3, <2>4
<1>7. OriginInv'
  <2> SUFFICES ASSUME NEW d \in End, NEW j \in 1 .. Len(sent'[d]),
                      NEW y, y = sent'[d][j], y.id # 0
               PROVE  Origin(d, y)'
    BY DEF OriginInv, Origin, Sender, Accepts, process_msg, handle_message
  <2>1. CASE j \in 1 .. Len(sent[d]) /\ y = sent[d][j]
    <3>1. y.id \in Nat /\ y.id <= Len(calls) /\ Origin(d, y)
      BY <2>1, Messages DEF FloodInv, OriginInv
    <3>2. Sender(y)' = Sender(y)
      BY <1>4, <3>1
    <3> QED
      BY <1>0, <3>1, <3>2 DEF Origin, Accepts, process_msg, handle_message
  <2>2. CASE d = e /\ y = x
    BY <1>3, <2>2 DEF Origin, Sender
  <2>3. CASE d = e
    BY <1>3, <2>1, <2>2, <2>3, AddedItems
  <2>4. CASE d # e
    BY <1>3, <2>1, <2>4
  <2> QED
    BY <2>3, <2>4
<1>8. WayInv'
  <2> SUFFICES ASSUME NEW d \in End, NEW j \in 1 .. Len(handled'[d]),
                      handled'[d][j].id # 0
               PROVE  Travelled(handled[d][j])'
    BY DEF WayInv
  <2>1. PICK y : y = handled'[d][j] /\ y.id # 0 /\ y = handled[d][j]
    BY <1>0
  <2> SUFFICES Travelled(y)'
    BY <2>1 DEF Travelled, Sender, Way
  <2>2. y.id \in Nat /\ y.id <= Len(calls) /\ Travelled(y)
    BY <1>0, <2>1, Messages DEF FloodInv, WayInv
  <2>3. Sender(y)' = Sender(y)
    BY <1>4, <2>1, <2>2
  <2> QED
    BY <1>0, <2>2, <2>3, WayStays
<1>9. UpInv'
  BY <1>0 DEF FloodInv, UpInv
<1>10. RelayedInv'
  <2> SUFFICES ASSUME NEW c \in End, reading[c], NEW j \in 1 .. Len(handled[c]),
                      NEW y, y = handled[c][j], NEW d \in End, Step(c, Far(d)),
                      y.ttl > 0, up[d[1]]
               PROVE  Contains(sent'[d], y)
    BY <1>0 DEF RelayedInv, Contains, Step, Far
  <2>1. Contains(sent[d], y)
    BY DEF FloodInv, RelayedInv
  <2> QED
    BY <1>3, <2>1, LongerContains
<1>11. CallInv'
  <2> SUFFICES ASSUME NEW k \in 1 .. Len(calls')
               PROVE  Contains(sent'[calls'[k].from], First(k)')
    BY DEF CallInv, Contains, First
  <2>1. CASE k = n
    <3>2. PICK a \in Nat : a = Len(sent[e])
      BY Messages
    <3>3. a + 1 \in 1 .. Len(sent'[e]) /\ sent'[e][a + 1] = x
      BY <1>3, <3>2 DEF Added
    <3>4. Contains(sent'[e], x)
      BY <3>3 DEF Contains
    <3> QED
      BY <1>2, <1>3, <2>1, <3>4
  <2>2. CASE k # n
    <3>1. k \in 1 .. Len(calls)
      BY <1>1, <1>3, <2>2
    <3>2. calls[k] \in CallRecord
      BY <3>1, ElementOfSeq DEF Inv, TypeOK, CallRecord
    <3>3. PICK d \in End : d = calls[k].from
      BY <3>2 DEF CallRecord
    <3>4. PICK y : y = First(k)
      OBVIOUS
    <3>5. Contains(sent'[d], y)
      BY <1>3, <3>1, <3>3, <3>4, LongerContains DEF FloodInv, CallInv
    <3>6. First(k)' = y /\ calls'[k].from = d
      BY <1>3, <3>1, <3>3, <3>4 DEF First
    <3> QED
      BY <3>5, <3>6
  <2> QED
    BY <2>1, <2>2
<1> QED
  BY <1>5, <1>6, <1>7, <1>8, <1>9, <1>10, <1>11 DEF FloodInv

\* A connection that is lost, and a peer that stops reading or goes, are no longer
\* ones that a message has to be relayed on.
LEMMA OtherFlood ==
    ASSUME Inv, FloodInv,
           \/ \E e \in End : ReadFail(e) \/ Destroy(e)
           \/ \E l \in Link : Break(l)
           \/ UNCHANGED vars
    PROVE  FloodInv'
<1>1. UNCHANGED <<home, sent, handled, calls>>
  BY DEF ReadFail, Destroy, Break, vars
<1>2. \A e \in End : reading'[e] => reading[e]
  BY DEF ReadFail, Destroy, Break, vars, Inv, TypeOK
<1>3. ASSUME NEW e \in End
      PROVE  (up'[e[1]] => up[e[1]]) /\ (up'[e[1]] => alive'[e])
  <2>1. e[1] \in Link /\ (up[e[1]] => alive[e])
    BY DEF End, FloodInv, UpInv
  <2>2. ASSUME NEW d \in End, ReadFail(d) PROVE UNCHANGED <<up, alive>>
    BY <2>2 DEF ReadFail
  <2>3. ASSUME NEW d \in End, Destroy(d)
        PROVE  (up'[e[1]] => up[e[1]]) /\ (up'[e[1]] => alive'[e])
    <3>1. d[1] \in Link
      BY DEF End
    <3>2. /\ up' = [up EXCEPT ![d[1]] = FALSE] /\ up \in [Link -> BOOLEAN]
          /\ alive' = [alive EXCEPT ![d] = FALSE] /\ alive \in [End -> BOOLEAN]
      BY <2>3 DEF Destroy, Inv, TypeOK
    <3>3. CASE e[1] = d[1]
      BY <2>1, <3>2, <3>3
    <3>4. CASE e[1] # d[1]
      <4>1. e # d
        BY <3>4
      <4> QED
        BY <2>1, <3>2, <3>4, <4>1
    <3> QED
      BY <3>3, <3>4
  <2>4. ASSUME NEW l \in Link, Break(l)
        PROVE  (up'[e[1]] => up[e[1]]) /\ (up'[e[1]] => alive'[e])
    BY <2>1, <2>4 DEF Break, Inv, TypeOK
  <2>5. CASE UNCHANGED vars
    BY <2>1, <2>5 DEF vars
  <2> QED
    BY <2>1, <2>2, <2>3, <2>4, <2>5
<1>4. PairInv' /\ UniqueInv' /\ CallInv'
  <2>1. PairInv'
    BY <1>1 DEF FloodInv, PairInv, hop, Far
  <2>2. UniqueInv'
    BY <1>1 DEF FloodInv, UniqueInv, Unique
  <2>3. CallInv'
    BY <1>1 DEF FloodInv, CallInv, Contains, First
  <2> QED
    BY <2>1, <2>2, <2>3
<1>5. OriginInv' /\ WayInv'
  <2>1. OriginInv'
    BY <1>1 DEF FloodInv, OriginInv, Origin, Sender, Accepts, process_msg, handle_message
  <2>2. WayInv'
    <3> SUFFICES ASSUME NEW d \in End, NEW j \in 1 .. Len(handled'[d]),
                        handled'[d][j].id # 0
                 PROVE  Travelled(handled[d][j])'
      BY DEF WayInv
    <3>1. PICK y : y = handled'[d][j] /\ y.id # 0 /\ y = handled[d][j]
      BY <1>1
    <3> SUFFICES Travelled(y)'
      BY <3>1 DEF Travelled, Sender, Way
    <3>2. Travelled(y) /\ Sender(y)' = Sender(y)
      BY <1>1, <3>1 DEF FloodInv, WayInv, Sender
    <3> QED
      BY <1>1, <3>2, WayStays
  <2> QED
    BY <2>1, <2>2
<1>6. UpInv'
  BY <1>3 DEF UpInv
<1>7. RelayedInv'
  <2> SUFFICES ASSUME NEW c \in End, reading'[c], NEW j \in 1 .. Len(handled[c]),
                      NEW d \in End, Step(c, Far(d)), handled[c][j].ttl > 0, up'[d[1]]
               PROVE  Contains(sent[d], handled[c][j])
    BY <1>1 DEF RelayedInv, Contains, Step, Far
  <2> QED
    BY <1>2, <1>3 DEF FloodInv, RelayedInv
<1> QED
  BY <1>4, <1>5, <1>6, <1>7 DEF FloodInv

\* Nothing has been sent or handled at first, and every connection stands.
LEMMA FloodInit == Init => FloodInv
<1> SUFFICES ASSUME Init PROVE FloodInv
  OBVIOUS
<1>1. Len(calls) = 0 /\ \A e \in End : /\ sent[e] = <<>> /\ handled[e] = <<>>
                                       /\ alive[e] /\ Far(e) \in End
  BY FarFar DEF Init
<1>2. \A e \in End : Len(sent[e]) = 0 /\ Len(handled[e]) = 0
  BY <1>1
<1>3. 1 .. 0 = {}
  OBVIOUS
<1> HIDE DEF Init
<1>4. PairInv /\ UniqueInv
  BY <1>1, <1>2, <1>3 DEF PairInv, UniqueInv, Unique
<1>5. OriginInv /\ WayInv /\ UpInv /\ RelayedInv /\ CallInv
  BY <1>1, <1>2, <1>3 DEF OriginInv, WayInv, UpInv, RelayedInv, CallInv
<1> QED
  BY <1>4, <1>5 DEF FloodInv

\* Every step keeps the invariant.
LEMMA FloodStep == Inv /\ FloodInv /\ [Next]_vars => Inv' /\ FloodInv'
  BY InvStep, CallFlood, HandleFlood, OtherFlood DEF Next

----------------------------------------------------------------------------
(* What the invariant says of floods.                                      *)

\* A copy is an end and a position there.
LEMMA CopyIs ==
    ASSUME NEW k, NEW x
    PROVE  x \in Copies(k) <=>
             \E e \in End : \E i \in 1 .. Len(handled[e]) :
                 x = <<e, i>> /\ handled[e][i].id = k
<1>1. ASSUME x \in Copies(k)
      PROVE  \E e \in End : \E i \in 1 .. Len(handled[e]) :
                 x = <<e, i>> /\ handled[e][i].id = k
  <2>1. PICK e \in End : x \in {e} \X (1 .. Len(handled[e]))
    BY <1>1 DEF Copies
  <2>2. x = <<e, x[2]>> /\ x[2] \in 1 .. Len(handled[e]) /\ x[1] = e
    BY <2>1
  <2>3. handled[e][x[2]].id = k
    BY <1>1, <2>2 DEF Copies
  <2> QED
    BY <2>2, <2>3
<1>2. ASSUME NEW e \in End, NEW i \in 1 .. Len(handled[e]), x = <<e, i>>,
             handled[e][i].id = k
      PROVE  x \in Copies(k)
  <2>1. x \in {e} \X (1 .. Len(handled[e])) /\ x[1] = e /\ x[2] = i
    BY <1>2
  <2>2. x \in UNION {{d} \X (1 .. Len(handled[d])) : d \in End}
    BY <2>1
  <2> QED
    BY <1>2, <2>1, <2>2 DEF Copies
<1> QED
  BY <1>1, <1>2

\* Each way is taken at most once.
LEMMA OnceEach ==
    ASSUME Inv, FloodInv, NEW k \in 1 .. Len(calls), NEW x \in Copies(k),
           NEW y \in Copies(k), Route(x) = Route(y)
    PROVE  x = y
<1>0. k # 0
  <2>1. Len(calls) \in Nat
    BY LenProperties DEF Inv, TypeOK
  <2> QED
    BY <2>1
<1>1. PICK e \in End : \E i \in 1 .. Len(handled[e]) :
                          x = <<e, i>> /\ handled[e][i].id = k
  BY CopyIs
<1>2. PICK i \in 1 .. Len(handled[e]) : x = <<e, i>> /\ handled[e][i].id = k
  BY <1>1
<1>3. PICK d \in End : \E j \in 1 .. Len(handled[d]) :
                          y = <<d, j>> /\ handled[d][j].id = k
  BY CopyIs
<1>4. PICK j \in 1 .. Len(handled[d]) : y = <<d, j>> /\ handled[d][j].id = k
  BY <1>3
<1>5. PICK a, b : a = sent[Far(e)][i] /\ b = sent[Far(d)][j]
  OBVIOUS
<1>6. /\ i \in 1 .. Len(sent[Far(e)]) /\ a \in Message /\ a.id = k
      /\ handled[e][i].route = Append(a.route, e)
  BY <1>2, <1>5, Arrives DEF FloodInv
<1>7. /\ j \in 1 .. Len(sent[Far(d)]) /\ b \in Message /\ b.id = k
      /\ handled[d][j].route = Append(b.route, d)
  BY <1>4, <1>5, Arrives DEF FloodInv
<1>8. PICK r \in Seq(End), q \in Seq(End) : r = a.route /\ q = b.route
  BY <1>6, <1>7 DEF Message
<1>9. Append(r, e) = Append(q, d)
  BY <1>2, <1>4, <1>6, <1>7, <1>8 DEF Route
<1>10. r = q /\ e = d
  BY ONLY r \in Seq(End), q \in Seq(End), d \in End, e \in End, <1>9, SameEnd
<1>11. Far(e) \in End
  BY FarFar
<1>12. i = j
  BY <1>0, <1>5, <1>6, <1>7, <1>8, <1>10, <1>11 DEF FloodInv, UniqueInv, Unique
<1> QED
  BY <1>2, <1>4, <1>10, <1>12

\* No copy takes another way than a call's message may.
LEMMA OnlyWalks ==
    ASSUME Inv, FloodInv, NEW k \in 1 .. Len(calls), NEW x \in Copies(k)
    PROVE  Route(x) \in Walks(calls[k])
<1>0. k # 0
  <2>1. Len(calls) \in Nat
    BY LenProperties DEF Inv, TypeOK
  <2> QED
    BY <2>1
<1>1. PICK e \in End : \E i \in 1 .. Len(handled[e]) :
                          x = <<e, i>> /\ handled[e][i].id = k
  BY CopyIs
<1>2. PICK i \in 1 .. Len(handled[e]) : x = <<e, i>> /\ handled[e][i].id = k
  BY <1>1
<1>3. PICK m : m = handled[e][i]
  OBVIOUS
<1>4. Travelled(m) /\ m.id = k
  BY <1>0, <1>2, <1>3 DEF FloodInv, WayInv
<1>5. PICK c : c = calls[k]
  OBVIOUS
<1>6. PICK w : w = m.route
  OBVIOUS
<1>7. /\ w \in Seq(End) /\ Len(w) > 0 /\ w[1] = Far(c.from)
      /\ \A j \in 1 .. Len(w) - 1 : Step(w[j], w[j + 1]) /\ Accepts(home[w[j]], c.type)
  BY <1>4, <1>5, <1>6 DEF Travelled, Sender, Way
<1>8. Len(w) <= Life(c.ttl)
  <2>1. Counted(m)
    BY <1>3, InvBounds DEF TtlBounds
  <2> QED
    BY <1>0, <1>4, <1>5, <1>6, <2>1 DEF Counted, FirstTtl
<1>9. PICK n \in Nat : n = Len(w)
  BY <1>7, LenProperties
<1>10. Life(c.ttl) \in Nat
  <2>1. c \in CallRecord
    BY <1>5, ElementOfSeq DEF Inv, TypeOK, CallRecord
  <2>2. c.ttl \in 0 .. TtlValues - 1
    BY <2>1 DEF CallRecord
  <2> QED
    BY <2>2, LifeBounds, TtlAssumption
<1>11. n \in 1 .. Life(c.ttl) /\ w \in [1 .. n -> End]
  BY <1>7, <1>8, <1>9, <1>10
<1>12. w \in UNION {[1 .. a -> End] : a \in 1 .. Life(c.ttl)}
  BY <1>11
<1>13. w \in Walks(c)
  BY <1>7, <1>12 DEF Walks
<1> QED
  BY <1>2, <1>3, <1>5, <1>6, <1>13 DEF Route

\* What was sent has been handled once nothing is on its way.
LEMMA Handled ==
    ASSUME Inv, FloodInv, NEW e \in End, ~Pending(e), NEW m, Contains(sent[Far(e)], m)
    PROVE  Contains(handled[e], hop(m, e))
<1>1. Far(e) \in End
  BY FarFar
<1>2. PICK a \in Nat, b \in Nat : a = Len(handled[e]) /\ b = Len(sent[Far(e)])
  BY <1>1, Messages
<1>3. a = b
  BY <1>2 DEF FloodInv, PairInv, Pending
<1>4. PICK i \in 1 .. b : sent[Far(e)][i] = m
  BY <1>2 DEF Contains
<1>5. i \in 1 .. Len(handled[e]) /\ handled[e][i] = hop(m, e)
  BY <1>2, <1>3, <1>4 DEF FloodInv, PairInv
<1> QED
  BY <1>5 DEF Contains

\* A copy with connections left to cross has ttl left.
LEMMA TtlLeft ==
    ASSUME NEW f \in 1 .. TtlValues, NEW i \in Nat, 0 < i, i < f
    PROVE  (f - i) % TtlValues > 0
<1>1. f - i \in 0 .. TtlValues - 1 /\ f - i > 0
  BY TtlAssumption
<1>2. (f - i) % TtlValues = f - i
  BY <1>1, TtlAssumption, ModSmall
<1> QED
  BY <1>1, <1>2

\* The message of the k-th call has gone the first i connections of the way w.
Gone(k, w, i) ==
    \E m : /\ Contains(handled[w[i]], m) /\ m.id = k /\ Len(m.route) = i
           /\ \A j \in 1 .. i : m.route[j] = w[j]

\* What a walk is.
LEMMA WalkIs ==
    ASSUME Inv, NEW k \in 1 .. Len(calls), NEW w \in Walks(calls[k])
    PROVE  /\ calls[k] \in CallRecord /\ k \in Nat /\ k # 0
           /\ w \in Seq(End) /\ Len(w) \in 1 .. Life(calls[k].ttl)
           /\ Life(calls[k].ttl) \in 1 .. TtlValues
           /\ w[1] = Far(calls[k].from)
           /\ \A i \in 1 .. Len(w) - 1 :
                Step(w[i], w[i + 1]) /\ Accepts(home[w[i]], calls[k].type)
<1>1. calls[k] \in CallRecord
  BY ElementOfSeq DEF Inv, TypeOK, CallRecord
<1>2. Len(calls) \in Nat
  BY LenProperties DEF Inv, TypeOK
<1>3. calls[k].ttl \in 0 .. TtlValues - 1
  BY <1>1 DEF CallRecord
<1>4. PICK f : f = Life(calls[k].ttl) /\ f \in 1 .. TtlValues
  BY <1>3, LifeBounds
<1>5. PICK n \in 1 .. f : w \in [1 .. n -> End]
  BY <1>4 DEF Walks
<1>6. n \in Nat
  BY <1>4, <1>5, TtlAssumption
<1>7. w \in Seq(End) /\ Len(w) = n
  BY <1>5, <1>6
<1> QED
  BY <1>1, <1>2, <1>4, <1>5, <1>7 DEF Walks

\* A hop lengthens the way by the end where it arrives.
LEMMA Further ==
    ASSUME Inv, NEW e \in End, NEW m \in Message
    PROVE  /\ hop(m, e).id = m.id /\ Len(m.route) \in Nat
           /\ Len(hop(m, e).route) = Len(m.route) + 1
           /\ hop(m, e).route[Len(m.route) + 1] = e
           /\ \A j \in 1 .. Len(m.route) : hop(m, e).route[j] = m.route[j]
<1>1. PICK r \in Seq(End) : r = m.route
  BY DEF Message
<1>2. hop(m, e).id = m.id /\ hop(m, e).route = Append(r, e)
  BY <1>1 DEF hop
<1>3. /\ Len(r) \in Nat /\ Len(Append(r, e)) = Len(r) + 1
      /\ Append(r, e)[Len(r) + 1] = e
      /\ \A j \in 1 .. Len(r) : Append(r, e)[j] = r[j]
  BY LenProperties, AppendProperties
<1> QED
  BY <1>1, <1>2, <1>3

\* Once all is quiet a call's message has crossed its caller's connection.
LEMMA WalkStarts ==
    ASSUME Inv, FloodInv, Quiet, NEW k \in 1 .. Len(calls), NEW w \in Walks(calls[k])
    PROVE  Gone(k, w, 1)
<1>1. PICK c \in CallRecord : c = calls[k] /\ w[1] = Far(c.from)
  BY WalkIs
<1>2. PICK d \in End : d = c.from
  BY DEF CallRecord
<1>3. PICK e \in End : e = w[1] /\ Far(e) = d
  BY <1>1, <1>2, FarFar
<1>4. PICK x : x = First(k)
  OBVIOUS
<1>5. Contains(sent[Far(e)], x)
  BY <1>1, <1>2, <1>3, <1>4 DEF FloodInv, CallInv
<1>6. ~Pending(e)
  BY DEF Quiet
<1>7. Contains(handled[e], hop(x, e))
  BY <1>5, <1>6, Handled
<1>8. PICK h : h = hop(x, e)
  OBVIOUS
<1>9. h.id = k /\ h.route = <<e>>
  BY <1>4, <1>8 DEF hop, First
<1>10. Len(h.route) = 1 /\ h.route[1] = w[1]
  BY <1>3, <1>9
<1>11. \A j \in 1 .. 1 : h.route[j] = w[j]
  BY <1>10
<1> QED
  BY <1>3, <1>7, <1>8, <1>9, <1>10, <1>11 DEF Gone

\* ... and when it has gone some way, the next connection too: it was relayed.
LEMMA WalkGoesOn ==
    ASSUME Inv, FloodInv, Quiet, NEW k \in 1 .. Len(calls), NEW w \in Walks(calls[k]),
           NEW i \in 1 .. Len(w) - 1, Gone(k, w, i)
    PROVE  Gone(k, w, i + 1)
<1>0. PICK f : f = Life(calls[k].ttl)
  OBVIOUS
<1>1. /\ k # 0 /\ w \in Seq(End) /\ Len(w) \in 1 .. f /\ f \in 1 .. TtlValues
      /\ Step(w[i], w[i + 1])
  BY <1>0, WalkIs
<1>2. PICK n \in Nat : n = Len(w)
  BY <1>1, LenProperties
<1>3. i \in 1 .. n /\ i + 1 \in 1 .. n /\ i \in Nat /\ 0 < i /\ i < f
  BY <1>1, <1>2, TtlAssumption
<1>4. PICK d \in End, e \in End : d = w[i] /\ e = w[i + 1]
  BY <1>1, <1>2, <1>3, ElementOfSeq
<1>5. PICK m : /\ Contains(handled[d], m) /\ m.id = k /\ Len(m.route) = i
               /\ \A j \in 1 .. i : m.route[j] = w[j]
  BY <1>4 DEF Gone
<1>6. PICK p \in 1 .. Len(handled[d]) : handled[d][p] = m
  BY <1>5 DEF Contains
<1>7. m \in Message
  BY <1>6, Messages
<1>8. m.ttl > 0
  <2>1. Counted(m)
    BY <1>6, InvBounds DEF TtlBounds
  <2>2. m.ttl = (f - i) % TtlValues
    BY <1>0, <1>1, <1>5, <2>1 DEF Counted, FirstTtl
  <2> QED
    BY <1>1, <1>3, <2>2, TtlLeft
<1>9. Far(e) \in End /\ Far(Far(e)) = e /\ Step(d, Far(Far(e))) /\ Far(e)[1] \in Link
  BY <1>1, <1>4, FarFar DEF End
<1>10. reading[d] /\ up[Far(e)[1]] /\ ~Pending(e)
  BY <1>9 DEF Quiet
<1>11. Contains(sent[Far(e)], m)
  BY <1>6, <1>8, <1>9, <1>10 DEF FloodInv, RelayedInv
<1>12. PICK h : h = hop(m, e)
  OBVIOUS
<1>13. Contains(handled[e], h)
  BY <1>10, <1>11, <1>12, Handled
<1>14. /\ h.id = k /\ Len(h.route) = i + 1 /\ h.route[i + 1] = e
       /\ \A j \in 1 .. i : h.route[j] = m.route[j]
  BY <1>5, <1>7, <1>12, Further
<1>15. ASSUME NEW j \in 1 .. i + 1 PROVE h.route[j] = w[j]
  <2>1. j \in 1 .. i \/ j = i + 1
    BY <1>3
  <2> QED
    BY <1>4, <1>5, <1>14, <2>1
<1> QED
  BY <1>4, <1>13, <1>14, <1>15 DEF Gone

\* So it has gone every way it has to go.
LEMMA AllWalks ==
    ASSUME Inv, FloodInv, Quiet, NEW k \in 1 .. Len(calls), NEW w \in Walks(calls[k])
    PROVE  \E x \in Copies(k) : Route(x) = w
<1>1. PICK n \in Nat : n = Len(w) /\ n > 0 /\ w \in Seq(End)
  <2>1. PICK f : f = Life(calls[k].ttl) /\ f \in 1 .. TtlValues
    BY WalkIs
  <2>2. w \in Seq(End) /\ Len(w) \in 1 .. f
    BY <2>1, WalkIs
  <2> QED
    BY <2>1, <2>2, LenProperties
<1> DEFINE S == {i \in Nat : i < n => Gone(k, w, i + 1)}
<1>2. 0 \in S
  BY WalkStarts
<1>3. ASSUME NEW i \in Nat, i \in S PROVE i + 1 \in S
  <2> SUFFICES ASSUME i + 1 < n PROVE Gone(k, w, (i + 1) + 1)
    OBVIOUS
  <2>1. PICK a : a = i + 1
    OBVIOUS
  <2>2. a \in 1 .. Len(w) - 1 /\ Gone(k, w, a)
    BY <1>1, <1>3, <2>1
  <2> QED
    BY <2>1, <2>2, WalkGoesOn
<1> HIDE DEF S
<1>4. Nat \subseteq S
  BY <1>2, <1>3, Induct
<1>5. Gone(k, w, n)
  <2>1. n - 1 \in S /\ n - 1 < n /\ (n - 1) + 1 = n
    BY <1>1, <1>4
  <2> QED
    BY <2>1 DEF S
<1>6. PICK m : /\ Contains(handled[w[n]], m) /\ m.id = k /\ Len(m.route) = n
               /\ \A j \in 1 .. n : m.route[j] = w[j]
  BY <1>5 DEF Gone
<1>7. PICK e \in End : e = w[n]
  BY <1>1, ElementOfSeq
<1>8. PICK p \in 1 .. Len(handled[e]) : handled[e][p] = m
  BY <1>6, <1>7 DEF Contains
<1>9. m.route \in Seq(End)
  BY <1>8, Messages DEF Message
<1>10. m.route = w
  BY <1>1, <1>6, <1>9, SeqEqual
<1>11. <<e, p>> \in Copies(k)
  BY <1>6, <1>8, CopyIs
<1>12. Route(<<e, p>>) = w
  BY <1>8, <1>10 DEF Route
<1> QED
  BY <1>11, <1>12

\* The invariant implies what is promised of floods.
LEMMA InvExact == Inv /\ FloodInv => FloodExact
<1> SUFFICES ASSUME Inv, FloodInv, NEW k \in 1 .. Len(calls)
             PROVE  /\ \A x, y \in Copies(k) : Route(x) = Route(y) => x = y
                    /\ Quiet => {Route(x) : x \in Copies(k)} = Walks(calls[k])
  BY DEF FloodExact
<1>1. \A x, y \in Copies(k) : Route(x) = Route(y) => x = y
  BY OnceEach
<1>2. ASSUME Quiet PROVE {Route(x) : x \in Copies(k)} = Walks(calls[k])
  <2>1. \A x \in Copies(k) : Route(x) \in Walks(calls[k])
    BY OnlyWalks
  <2>2. \A w \in Walks(calls[k]) : \E x \in Copies(k) : Route(x) = w
    BY <1>2, AllWalks
  <2> QED
    BY <2>1, <2>2
<1> QED
  BY <1>1, <1>2

\* In every network, with whatever cycles, double connections and connections of
\* a process to itself, a message takes each way at most once; and when all is
\* quiet and no connection was lost it has taken every way that its ttl allows
\* and that no process which rejects it lies on.
THEOREM FloodsExact == Spec => []FloodExact
<1>1. Init => Inv /\ FloodInv
  BY InvInit, FloodInit
<1>2. Inv /\ FloodInv /\ [Next]_vars => (Inv /\ FloodInv)'
  BY FloodStep
<1> QED
  BY <1>1, <1>2, InvExact, PTL DEF Spec

=============================================================================
