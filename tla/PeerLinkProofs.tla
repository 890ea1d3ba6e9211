--------------------------- MODULE PeerLinkProofs ---------------------------
(***************************************************************************)
(* Theorems about PeerLink, for every pair of ends, every set of messages, *)
(* every way the kernel cuts the stream and every bound.                   *)
(***************************************************************************)
EXTENDS PeerLink, SequenceTheorems, TLAPS

\* Facts about sequences, in the form the proofs below use them.
LEMMA Concat ==
    ASSUME NEW b \in Seq(Byte), NEW c \in Seq(Byte)
    PROVE  /\ b \o c \in Seq(Byte)
           /\ Len(b \o c) = Len(b) + Len(c)
           /\ \A j \in 1 .. Len(b) : (b \o c)[j] = b[j]
           /\ \A j \in 1 .. Len(c) : (b \o c)[Len(b) + j] = c[j]
  OBVIOUS

\* A part of a sequence of bytes.
LEMMA Window ==
    ASSUME NEW s \in Seq(Byte), NEW p \in Nat, NEW n \in Nat,
           p + n <= Len(s)
    PROVE  /\ SubSeq(s, p + 1, p + n) \in Seq(Byte)
           /\ Len(SubSeq(s, p + 1, p + n)) = n
           /\ \A j \in 1 .. n : SubSeq(s, p + 1, p + n)[j] = s[p + j]
  OBVIOUS

\* One element more.
LEMMA Appended ==
    ASSUME NEW S, NEW s \in Seq(S), NEW x \in S
    PROVE  /\ Append(s, x) \in Seq(S)
           /\ Len(Append(s, x)) = Len(s) + 1
           /\ \A j \in 1 .. Len(s) : Append(s, x)[j] = s[j]
           /\ Append(s, x)[Len(s) + 1] = x
  OBVIOUS

\* The first element and the rest.
LEMMA HeadTail ==
    ASSUME NEW S, NEW s \in Seq(S), s # <<>>
    PROVE  /\ Head(s) \in S /\ Head(s) = s[1]
           /\ Tail(s) \in Seq(S)
           /\ Len(s) \in Nat \ {0} /\ Len(Tail(s)) = Len(s) - 1
           /\ \A j \in 1 .. Len(s) - 1 : Tail(s)[j] = s[j + 1]
  OBVIOUS

\* The other end is the one end that is not e.
LEMMA OtherEnd ==
    ASSUME NEW e \in End
    PROVE  /\ Other(e) \in End /\ Other(e) # e /\ Other(Other(e)) = e
           /\ \A d \in End : d = e \/ d = Other(e)
<1>1. PICK a \in End, b \in End : a # b /\ End = {a, b}
  BY EndAssumption
<1>2. \E d \in End : d # e
  BY <1>1
<1>3. Other(e) \in End /\ Other(e) # e
  BY <1>2 DEF Other
<1>4. \E d \in End : d # Other(e)
  BY <1>1
<1>5. Other(Other(e)) \in End /\ Other(Other(e)) # Other(e)
  BY <1>4 DEF Other
<1> QED
  BY <1>1, <1>3, <1>5

\* The header is six bytes.
LEMMA HeaderType ==
    ASSUME NEW n \in Nat, NEW t \in Byte, NEW l \in Byte
    PROVE  Header(n, t, l) \in Seq(Byte) /\ Len(Header(n, t, l)) = HeaderSize
<1>1. \A i \in Nat : i % 256 \in Byte
  BY DEF Byte
<1>2. n \div 256 \in Nat /\ n \div 65536 \in Nat /\ n \div 16777216 \in Nat
  OBVIOUS
<1>3. n % 256 \in Byte
  BY <1>1
<1>4. (n \div 256) % 256 \in Byte
  BY <1>1, <1>2
<1>5. (n \div 65536) % 256 \in Byte
  BY <1>1, <1>2
<1>6. (n \div 16777216) % 256 \in Byte
  BY <1>1, <1>2
<1> QED
  BY <1>3, <1>4, <1>5, <1>6 DEF Header, HeaderSize

\* A packet is the 6 bytes of the header followed by the body.
LEMMA PacketType ==
    ASSUME NEW m \in Message
    PROVE  Packet(m) \in Seq(Byte) /\ Len(Packet(m)) = HeaderSize + Len(m.body)
<1>1. m.type \in Byte /\ m.ttl \in Byte /\ m.body \in Seq(Byte)
  BY DEF Message
<1> DEFINE h == Header(Len(m.body), m.type, m.ttl)
<1>2. h \in Seq(Byte)
  BY <1>1, HeaderType
<1>3. Len(h) = HeaderSize
  BY <1>1, HeaderType
<1>4. Packet(m) = h \o m.body
  BY DEF Packet
<1> HIDE DEF h
<1>5. h \o m.body \in Seq(Byte) /\ Len(h \o m.body) = Len(h) + Len(m.body)
  BY <1>1, <1>2, Concat
<1> QED
  BY <1>3, <1>4, <1>5

\* do_write keeps the write side's type; with nothing in flight it leaves no
\* message waiting.
LEMMA DoWriteType ==
    ASSUME NEW w \in WriteSide
    PROVE  do_write(w) \in WriteSide
<1>1. CASE w.sending \/ w.queue = <<>>
  BY <1>1 DEF do_write
<1>2. CASE ~(w.sending \/ w.queue = <<>>)
  <2>1. w.queue \in Seq(Message) /\ w.queue # <<>>
    BY <1>2 DEF WriteSide
  <2>2. Head(w.queue) \in Message /\ Tail(w.queue) \in Seq(Message)
    BY <2>1
  <2>3. Packet(Head(w.queue)) \in Seq(Byte)
    BY <2>2, PacketType
  <2> QED
    BY <1>2, <2>2, <2>3 DEF do_write, WriteSide
<1> QED
  BY <1>1, <1>2


\* The pieces of a well-typed state.
LEMMA Typed ==
    ASSUME TypeOK, NEW e \in End
    PROVE  /\ strand[e] \in Seq(Message)
           /\ wr[e] \in WriteSide
           /\ wr[e].queue \in Seq(Message) /\ wr[e].buffer \in Seq(Byte)
           /\ wr[e].flushed \in Nat
           /\ wr[e].sending \in BOOLEAN /\ wr[e].writing \in BOOLEAN
           /\ stream[e] \in Seq(Byte) /\ stream[Other(e)] \in Seq(Byte)
           /\ rd[e] \in ReadSide
           /\ rd[e].buffer \in Seq(Byte) /\ rd[e].ptr \in Nat
           /\ rd[e].end \in Nat /\ rd[e].total \in Nat
           /\ sent[e] \in Seq(Message) /\ starts[e] \in Seq(Nat)
           /\ handled[e] \in Seq(Delivered)
  BY OtherEnd DEF TypeOK, WriteSide, ReadSide

\* The clamp keeps an iteration within the bytes that were read.
LEMMA RemainingBounds ==
    ASSUME NEW r, r.buffer \in Seq(Byte), r.ptr \in Nat, r.end \in Nat,
           r.total \in Nat, r.ptr <= r.end
    PROVE  Remaining(r) \in Nat /\ r.ptr + Remaining(r) <= r.end
  BY DEF Remaining

\* An iteration of receive moves the next bytes of the other end's stream to
\* the end of receive_buffer_.
LEMMA FilledWindow ==
    ASSUME TypeOK, ReadInv, NEW e \in End
    PROVE  LET r == rd[e]  n == Remaining(rd[e])
           IN  /\ n \in Nat /\ r.ptr + n <= r.end
               /\ Filled(e) \in Seq(Byte)
               /\ Len(Filled(e)) = Len(r.buffer) + n
               /\ \A j \in 1 .. Len(r.buffer) : Filled(e)[j] = r.buffer[j]
               /\ \A j \in 1 .. n :
                    Filled(e)[Len(r.buffer) + j] = stream[Other(e)][r.ptr + j]
<1> DEFINE r == rd[e]
           n == Remaining(rd[e])
           s == stream[Other(e)]
           c == SubSeq(s, r.ptr + 1, r.ptr + n)
<1>1. /\ r.buffer \in Seq(Byte) /\ r.ptr \in Nat /\ r.end \in Nat
      /\ r.total \in Nat /\ s \in Seq(Byte)
  BY Typed
<1>2. r.ptr <= r.end /\ r.end <= Len(s)
  BY DEF ReadInv
<1>3. n \in Nat /\ r.ptr + n <= r.end
  BY <1>1, <1>2, RemainingBounds
<1>4. Filled(e) = r.buffer \o c
  BY DEF Filled
<1> HIDE DEF n, s
<1>5. c \in Seq(Byte) /\ Len(c) = n /\ \A j \in 1 .. n : c[j] = s[r.ptr + j]
  <2>1. r.ptr + n <= Len(s)
    BY <1>1, <1>2, <1>3
  <2> QED
    BY <1>1, <1>3, <2>1, Window
<1> HIDE DEF c
<1>6. /\ r.buffer \o c \in Seq(Byte)
      /\ Len(r.buffer \o c) = Len(r.buffer) + Len(c)
      /\ \A j \in 1 .. Len(r.buffer) : (r.buffer \o c)[j] = r.buffer[j]
      /\ \A j \in 1 .. Len(c) : (r.buffer \o c)[Len(r.buffer) + j] = c[j]
  BY <1>1, <1>5, Concat
<1> QED
  <2>1. /\ n \in Nat /\ r.ptr + n <= r.end
        /\ Filled(e) \in Seq(Byte)
        /\ Len(Filled(e)) = Len(r.buffer) + n
    BY <1>3, <1>4, <1>5, <1>6
  <2>2. \A j \in 1 .. Len(r.buffer) : Filled(e)[j] = r.buffer[j]
    BY <1>4, <1>6
  <2>3. \A j \in 1 .. n : Filled(e)[Len(r.buffer) + j] = s[r.ptr + j]
    BY <1>4, <1>5, <1>6
  <2> QED
    BY <2>1, <2>2, <2>3 DEF n, s


\* The read side after an iteration.
LEMMA AdvanceType ==
    ASSUME TypeOK, ReadInv, NEW e \in End, NEW b \in Seq(Byte), NEW t \in Nat,
           NEW s \in {"parsing", "stopped"}
    PROVE  /\ Advance(e, b, t, s) \in ReadSide
           /\ Advance(e, b, t, s).buffer = b
           /\ Advance(e, b, t, s).total = t
           /\ Advance(e, b, t, s).state = s
           /\ Advance(e, b, t, s).ptr = rd[e].ptr + Remaining(rd[e])
           /\ Advance(e, b, t, s).end = rd[e].end
<1> DEFINE r == rd[e]
           n == Remaining(rd[e])
<1>1. r \in ReadSide /\ r.ptr \in Nat
  BY Typed
<1>2. n \in Nat
  BY FilledWindow
<1>3. r.ptr + n \in Nat /\ r.end \in Nat
  BY <1>1, <1>2 DEF ReadSide
<1> QED
  BY <1>3 DEF Advance, ReadSide

\* Queueing a message in the strand keeps the types of the write side.
LEMMA WriteFromType ==
    ASSUME TypeOK, NEW e \in End, NEW w \in WriteSide, WriteFrom(e, w)
    PROVE  wr' \in [End -> WriteSide] /\ starts' \in [End -> Seq(Nat)]
<1>1. do_write(w) \in WriteSide
  BY DoWriteType
<1>2. wr' \in [End -> WriteSide]
  BY <1>1 DEF WriteFrom, TypeOK
<1>3. Len(stream[e]) \in Nat /\ starts[e] \in Seq(Nat)
  BY Typed
<1>4. Append(starts[e], Len(stream[e])) \in Seq(Nat)
  BY <1>3
<1>5. starts' \in [End -> Seq(Nat)]
  BY <1>4 DEF WriteFrom, TypeOK
<1> QED
  BY <1>2, <1>5

\* So does sending one.
LEMMA SendInStrandType ==
    ASSUME TypeOK, NEW e \in End, NEW m \in Message, SendInStrand(e, m)
    PROVE  /\ wr' \in [End -> WriteSide] /\ starts' \in [End -> Seq(Nat)]
           /\ sent' \in [End -> Seq(Message)]
<1>1. Append(sent[e], m) \in Seq(Message) /\ Append(wr[e].queue, m) \in Seq(Message)
  BY Typed
<1>2. sent' \in [End -> Seq(Message)]
  BY <1>1 DEF SendInStrand, TypeOK
<1>3. [wr[e] EXCEPT !.queue = Append(@, m)] \in WriteSide
  BY <1>1, Typed DEF WriteSide
<1> QED
  BY <1>2, <1>3, WriteFromType DEF SendInStrand

\* Replacing the read side of one end.
LEMMA ReadSideStep ==
    ASSUME TypeOK, ReadInv, NEW e \in End, NEW a \in ReadSide,
           rd' = [rd EXCEPT ![e] = a], UNCHANGED stream,
           a.ptr <= a.end, a.end <= Len(stream[Other(e)]),
           a.total # HeaderSize => Len(a.buffer) >= HeaderSize
    PROVE  rd' \in [End -> ReadSide] /\ ReadInv'
<1>1. rd' \in [End -> ReadSide]
  BY DEF TypeOK
<1>2. rd'[e] = a /\ \A d \in End \ {e} : rd'[d] = rd[d]
  BY DEF TypeOK
<1>3. ReadInv'
  BY <1>2 DEF ReadInv
<1> QED
  BY <1>1, <1>3

\* The message handler and the end of the iteration.
LEMMA HandleType ==
    ASSUME TypeOK, ReadInv, NEW e \in End, NEW m \in Delivered, Handle(e, m)
    PROVE  TypeOK' /\ ReadInv'
<1> DEFINE r == rd[e]
           n == Remaining(r)
<1>1. /\ n \in Nat /\ r.ptr + n <= r.end /\ Filled(e) \in Seq(Byte)
      /\ Len(Filled(e)) = Len(r.buffer) + n
  BY FilledWindow
<1>2. r.ptr \in Nat /\ r.end \in Nat /\ r.total \in Nat /\ Len(r.buffer) \in Nat
  BY Typed
<1>3. r.end <= Len(stream[Other(e)])
      /\ (r.total # HeaderSize => Len(r.buffer) >= HeaderSize)
  BY DEF ReadInv
<1>4. UNCHANGED <<strand, stream, conn, alive>>
  BY DEF Handle
<1>5. handled' \in [End -> Seq(Delivered)]
  <2>1. Append(handled[e], m) \in Seq(Delivered)
    BY Typed
  <2> QED
    BY <2>1 DEF Handle, TypeOK
<1>6. /\ wr' \in [End -> WriteSide] /\ starts' \in [End -> Seq(Nat)]
      /\ sent' \in [End -> Seq(Message)]
  <2>1. Pong \in Message
    BY DEF Pong, Message, MSG_TYPE_PONG, Byte
  <2>2. CASE SendInStrand(e, Pong)
    BY <2>1, <2>2, SendInStrandType
  <2>3. CASE UNCHANGED <<wr, sent, starts>>
    BY <2>3 DEF TypeOK
  <2> QED
    BY <2>2, <2>3 DEF Handle
<1>7. rd' \in [End -> ReadSide] /\ ReadInv'
  <2>1. ASSUME NEW s \in {"parsing", "stopped"},
               rd' = [rd EXCEPT ![e] = Advance(e, <<>>, HeaderSize, s)]
        PROVE  rd' \in [End -> ReadSide] /\ ReadInv'
    <3> DEFINE a == Advance(e, <<>>, HeaderSize, s)
    <3>1. <<>> \in Seq(Byte) /\ HeaderSize \in Nat /\ r.ptr + n \in Nat
      BY <1>1, <1>2 DEF HeaderSize
    <3>2. a \in ReadSide /\ a.total = HeaderSize /\ a.ptr = r.ptr + n
          /\ a.end = r.end
      BY <3>1, <1>2 DEF Advance, ReadSide
    <3> HIDE DEF a
    <3>3. a.ptr <= a.end /\ a.end <= Len(stream[Other(e)])
      BY <3>2, <1>1, <1>3
    <3> QED
      BY <2>1, <3>2, <3>3, <1>4, ReadSideStep DEF a
  <2>2. ASSUME rd' = [rd EXCEPT ![e] = Advance(e, Filled(e), rd[e].total, "stopped")]
        PROVE  rd' \in [End -> ReadSide] /\ ReadInv'
    <3> DEFINE a == Advance(e, Filled(e), rd[e].total, "stopped")
    <3>2. a \in ReadSide /\ a.total = r.total /\ a.ptr = r.ptr + n
          /\ a.end = r.end /\ a.buffer = Filled(e)
      BY <1>1, <1>2, AdvanceType
    <3> HIDE DEF a
    <3>3. a.ptr <= a.end /\ a.end <= Len(stream[Other(e)])
      BY <3>2, <1>1, <1>3
    <3>4. a.total # HeaderSize => Len(a.buffer) >= HeaderSize
      BY <3>2, <1>1, <1>2, <1>3 DEF HeaderSize
    <3> QED
      BY <2>2, <3>2, <3>3, <3>4, <1>4, ReadSideStep DEF a
  <2> QED
    BY <2>1, <2>2 DEF Handle
<1> QED
  BY <1>4, <1>5, <1>6, <1>7 DEF TypeOK


\* The messages that receive builds from its buffer.
LEMMA ParsedType ==
    ASSUME NEW b \in Seq(Byte), Len(b) >= HeaderSize
    PROVE  hop(EmptyMsg(b)) \in Delivered /\ hop(BodyMsg(b)) \in Delivered
<1>1. b[5] \in Byte /\ b[6] \in Byte
  BY DEF HeaderSize
<1>2. (b[6] + 255) % 256 \in Byte
  <2>1. \A t \in Byte : (t + 255) % 256 \in Byte
    BY DEF Byte
  <2> QED
    BY <1>1, <2>1
<1> DEFINE c == SubSeq(b, HeaderSize + 1, Len(b))
           z == [j \in 1 .. HeaderSize |-> Junk]
           S == Byte \cup {Junk}
<1>3. c \in Seq(S)
  BY DEF HeaderSize
<1>4. z \in Seq(S)
  BY DEF HeaderSize
<1> HIDE DEF c, z
<1>5. c \o z \in Seq(S)
  BY <1>3, <1>4
<1>6. <<>> \in Seq(S)
  OBVIOUS
<1>7. hop(EmptyMsg(b)) = [type |-> b[5], ttl |-> (b[6] + 255) % 256, body |-> <<>>]
  BY DEF hop, EmptyMsg
<1>8. hop(BodyMsg(b)) = [type |-> b[5], ttl |-> (b[6] + 255) % 256, body |-> c \o z]
  BY DEF hop, BodyMsg, c, z
<1> HIDE DEF S
<1> QED
  BY <1>1, <1>2, <1>5, <1>6, <1>7, <1>8 DEF Delivered, S

\* The size field is a natural number.
LEMMA SizeOfBytes ==
    ASSUME NEW b, b[1] \in Nat, b[2] \in Nat, b[3] \in Nat, b[4] \in Nat
    PROVE  SizeOf(b) \in Nat
  BY DEF SizeOf

\* So it is for a buffer that holds a header.
LEMMA SizeOfType ==
    ASSUME NEW b \in Seq(Byte), Len(b) >= HeaderSize
    PROVE  SizeOf(b) \in Nat
<1>1. b[1] \in Byte /\ b[2] \in Byte /\ b[3] \in Byte /\ b[4] \in Byte
  BY DEF HeaderSize
<1>2. \A x \in Byte : x \in Nat
  BY DEF Byte
<1>3. b[1] \in Nat /\ b[2] \in Nat /\ b[3] \in Nat /\ b[4] \in Nat
  BY <1>1, <1>2
<1> QED
  BY <1>3, SizeOfBytes


\* A transfer moves at least one byte and no more than there are.
LEMMA TransferBound ==
    ASSUME NEW n \in Int, NEW k \in Transfer(n)
    PROVE  k \in Nat /\ k > 0 /\ k <= n
  BY CutsAssumption DEF Transfer

TypeInv == TypeOK /\ ReadInv

\* Type correctness is inductive together with the bounds of the read side.
LEMMA TypeStep ==
    ASSUME TypeInv, [Next]_vars
    PROVE  TypeInv'
<1> USE DEF TypeInv
<1>1. ASSUME NEW e \in End, NEW m \in AppMsgs, Send(e, m)
      PROVE  TypeInv'
  <2>1. Append(strand[e], m) \in Seq(Message)
    BY Typed, MsgAssumption
  <2> QED
    BY <1>1, <2>1 DEF Send, TypeOK, ReadInv
<1>2. ASSUME NEW e \in End, RunSend(e)
      PROVE  TypeInv'
  <2>1. Head(strand[e]) \in Message /\ Tail(strand[e]) \in Seq(Message)
    BY <1>2, Typed DEF RunSend
  <2>2. /\ wr' \in [End -> WriteSide] /\ starts' \in [End -> Seq(Nat)]
        /\ sent' \in [End -> Seq(Message)]
    BY <1>2, <2>1, SendInStrandType DEF RunSend
  <2> QED
    BY <1>2, <2>1, <2>2 DEF RunSend, TypeOK, ReadInv
<1>3. ASSUME NEW e \in End, SendTooBig(e)
      PROVE  TypeInv'
  <2>1. wr' \in [End -> WriteSide]
    BY <1>3 DEF SendTooBig, TypeOK, WriteSide
  <2>2. rd' \in [End -> ReadSide]
    BY <1>3 DEF SendTooBig, TypeOK, ReadSide
  <2>3. ReadInv'
    BY <1>3 DEF SendTooBig, TypeOK, ReadInv, ReadSide
  <2> QED
    BY <1>3, <2>1, <2>2, <2>3 DEF SendTooBig, TypeOK
<1>4. ASSUME NEW e \in End, Transmit(e)
      PROVE  TypeInv'
  <2> DEFINE w == wr[e]
  <2>1. PICK k \in Transfer(Len(w.buffer) - w.flushed) :
          /\ stream' = [stream EXCEPT ![e] = @ \o
                SubSeq(w.buffer, w.flushed + 1, w.flushed + k)]
          /\ wr' = [wr EXCEPT ![e].flushed = w.flushed + k]
    BY <1>4 DEF Transmit
  <2>2. w.buffer \in Seq(Byte) /\ w.flushed \in Nat /\ stream[e] \in Seq(Byte)
    BY Typed
  <2>3. k \in Nat /\ w.flushed + k <= Len(w.buffer)
    <3>1. Len(w.buffer) \in Nat /\ Len(w.buffer) - w.flushed \in Int
      BY <2>2
    <3>2. k \in Nat /\ k <= Len(w.buffer) - w.flushed
      BY <3>1, TransferBound
    <3> QED
      BY <2>2, <3>1, <3>2
  <2> DEFINE c == SubSeq(w.buffer, w.flushed + 1, w.flushed + k)
  <2>4. c \in Seq(Byte)
    BY <2>2, <2>3, Window
  <2> HIDE DEF c
  <2>5. stream[e] \o c \in Seq(Byte) /\ Len(stream[e] \o c) >= Len(stream[e])
    BY <2>2, <2>4, Concat
  <2>6. stream' \in [End -> Seq(Byte)]
    BY <2>1, <2>5 DEF TypeOK, c
  <2>7. wr' \in [End -> WriteSide]
    <3> DEFINE p == w.flushed + k
    <3>1. p \in Nat
      BY <2>2, <2>3
    <3>2. wr' = [wr EXCEPT ![e].flushed = p]
      BY <2>1
    <3> HIDE DEF p
    <3> QED
      BY <3>1, <3>2 DEF TypeOK, WriteSide
  <2>8. ReadInv'
    <3>1. \A d \in End : Len(stream'[d]) >= Len(stream[d])
      BY <2>1, <2>5, Typed DEF TypeOK, c
    <3>2. rd' = rd
      BY <1>4 DEF Transmit
    <3>3. SUFFICES ASSUME NEW d \in End
                   PROVE  rd[d].end <= Len(stream'[Other(d)])
      BY <3>2 DEF ReadInv
    <3>4. rd[d].end <= Len(stream[Other(d)])
      BY DEF ReadInv
    <3>5. Len(stream[Other(d)]) \in Nat /\ rd[d].end \in Nat
      BY Typed, OtherEnd
    <3>6. Len(stream'[Other(d)]) \in Nat
      BY <2>6, OtherEnd
    <3> QED
      BY <3>1, <3>4, <3>5, <3>6, OtherEnd
  <2> QED
    BY <1>4, <2>6, <2>7, <2>8 DEF Transmit, TypeOK
<1>5. ASSUME NEW e \in End, WriteDone(e)
      PROVE  TypeInv'
  <2>1. [wr[e] EXCEPT !.sending = FALSE, !.writing = FALSE] \in WriteSide
    BY Typed DEF WriteSide
  <2>2. wr' \in [End -> WriteSide] /\ starts' \in [End -> Seq(Nat)]
    BY <1>5, <2>1, WriteFromType DEF WriteDone
  <2> QED
    BY <1>5, <2>2 DEF WriteDone, TypeOK, ReadInv
<1>6. ASSUME NEW e \in End, WriteFail(e)
      PROVE  TypeInv'
  <2>1. wr' \in [End -> WriteSide]
    BY <1>6 DEF WriteFail, TypeOK, WriteSide
  <2> QED
    BY <1>6, <2>1 DEF WriteFail, TypeOK, ReadInv
<1>7. ASSUME NEW e \in End, ReadSome(e)
      PROVE  TypeInv'
  <2> DEFINE r == rd[e]
  <2>1. PICK k \in Transfer(IF Unread(e) > ReadMax THEN ReadMax ELSE Unread(e)) :
          rd' = [rd EXCEPT ![e] = [rd[e] EXCEPT !.state = "parsing",
                                                !.end = rd[e].end + k]]
    BY <1>7 DEF ReadSome
  <2>2. r.end \in Nat /\ r.ptr \in Nat /\ Len(stream[Other(e)]) \in Nat
    BY Typed
  <2>3. k \in Nat /\ k <= Unread(e)
    <3>1. Unread(e) \in Int
      BY <2>2 DEF Unread
    <3>2. CASE Unread(e) > ReadMax
      BY <3>1, <3>2, SizeAssumption, TransferBound
    <3>3. CASE ~(Unread(e) > ReadMax)
      BY <3>1, <3>3, SizeAssumption, TransferBound
    <3> QED
      BY <3>2, <3>3
  <2>4. r.end + k <= Len(stream[Other(e)])
    BY <2>2, <2>3 DEF Unread
  <2> DEFINE p == r.end + k
  <2>5. rd' \in [End -> ReadSide]
    <3>1. p \in Nat
      BY <2>2, <2>3
    <3>2. rd' = [rd EXCEPT ![e] = [rd[e] EXCEPT !.state = "parsing", !.end = p]]
      BY <2>1
    <3> HIDE DEF p
    <3>3. [rd[e] EXCEPT !.state = "parsing", !.end = p] \in ReadSide
      BY <3>1, Typed DEF ReadSide
    <3> QED
      BY <3>2, <3>3 DEF TypeOK
  <2>6. /\ rd'[e].ptr = r.ptr /\ rd'[e].end = r.end + k
        /\ rd'[e].buffer = r.buffer /\ rd'[e].total = r.total
        /\ \A d \in End \ {e} : rd'[d] = rd[d]
    BY <2>1, Typed DEF TypeOK, ReadSide
  <2>7. UNCHANGED <<strand, wr, stream, conn, alive, sent, starts, handled>>
    BY <1>7 DEF ReadSome
  <2>8. ReadInv'
    BY <2>2, <2>3, <2>4, <2>6, <2>7 DEF ReadInv
  <2> QED
    BY <2>5, <2>7, <2>8 DEF TypeOK
<1>8. ASSUME NEW e \in End, ReadFail(e) \/ ReceiveReturns(e)
      PROVE  TypeInv'
  <2>1. PICK s \in {"armed", "stopped"} : rd' = [rd EXCEPT ![e].state = s]
    BY <1>8 DEF ReadFail, ReceiveReturns
  <2>2. rd' \in [End -> ReadSide]
    BY <2>1 DEF TypeOK, ReadSide
  <2>3. UNCHANGED <<strand, wr, stream, conn, alive, sent, starts, handled>>
    BY <1>8 DEF ReadFail, ReceiveReturns
  <2>4. ReadInv'
    BY <2>1, <2>3 DEF TypeOK, ReadInv, ReadSide
  <2> QED
    BY <2>2, <2>3, <2>4 DEF TypeOK
<1>9. ASSUME NEW e \in End, Accumulate(e) \/ TakeSize(e) \/ TooBig(e)
      PROVE  TypeInv'
  <2> DEFINE r == rd[e]
             n == Remaining(r)
  <2>1. PICK t \in Nat, s \in {"parsing", "stopped"} :
          /\ rd' = [rd EXCEPT ![e] = Advance(e, Filled(e), t, s)]
          /\ t = r.total \/ Len(Filled(e)) = HeaderSize
    <3>1. r.total \in Nat
      BY Typed
    <3>2. CASE Accumulate(e)
      BY <3>1, <3>2 DEF Accumulate
    <3>3. CASE TakeSize(e)
      <4>1. Len(Filled(e)) = HeaderSize /\ SizeOf(Filled(e)) \in Nat
        BY <3>3, SizeAssumption DEF TakeSize
      <4> QED
        BY <3>3, <4>1 DEF TakeSize
    <3>4. CASE TooBig(e)
      BY <3>1, <3>4 DEF TooBig
    <3> QED
      BY <1>9, <3>2, <3>3, <3>4
  <2>2. /\ n \in Nat /\ r.ptr + n <= r.end /\ Filled(e) \in Seq(Byte)
        /\ Len(Filled(e)) = Len(r.buffer) + n
    BY FilledWindow
  <2>3. Len(r.buffer) \in Nat
    BY Typed
  <2>4. r.end <= Len(stream[Other(e)])
        /\ (r.total # HeaderSize => Len(r.buffer) >= HeaderSize)
    BY DEF ReadInv
  <2> DEFINE a == Advance(e, Filled(e), t, s)
  <2>5. /\ a \in ReadSide /\ a.buffer = Filled(e) /\ a.total = t
        /\ a.ptr = r.ptr + n /\ a.end = r.end
    BY <2>2, AdvanceType
  <2>6. UNCHANGED <<strand, wr, stream, conn, alive, sent, starts, handled>>
    BY <1>9 DEF Accumulate, TakeSize, TooBig
  <2> HIDE DEF a
  <2>7. a.ptr <= a.end /\ a.end <= Len(stream[Other(e)])
    BY <2>2, <2>4, <2>5
  <2>8. a.total # HeaderSize => Len(a.buffer) >= HeaderSize
    BY <2>1, <2>2, <2>3, <2>4, <2>5 DEF HeaderSize
  <2>9. rd' \in [End -> ReadSide] /\ ReadInv'
    BY <2>1, <2>5, <2>6, <2>7, <2>8, ReadSideStep DEF a
  <2> QED
    BY <2>6, <2>9 DEF TypeOK
<1>10. ASSUME NEW e \in End, HandleEmpty(e)
       PROVE  TypeInv'
  <2>1. Filled(e) \in Seq(Byte) /\ Len(Filled(e)) >= HeaderSize
    BY <1>10, FilledWindow DEF HandleEmpty, HeaderSize
  <2>2. hop(EmptyMsg(Filled(e))) \in Delivered
    BY <2>1, ParsedType
  <2> QED
    BY <1>10, <2>2, HandleType DEF HandleEmpty
<1>11. ASSUME NEW e \in End, HandleBody(e)
       PROVE  TypeInv'
  <2>1. Filled(e) \in Seq(Byte) /\ Len(Filled(e)) >= HeaderSize
    <3>1. rd[e].total # HeaderSize
      BY <1>11 DEF HandleBody
    <3>2. Len(rd[e].buffer) >= HeaderSize /\ Len(rd[e].buffer) \in Nat
      BY <3>1, Typed DEF ReadInv
    <3>3. /\ Filled(e) \in Seq(Byte) /\ Remaining(rd[e]) \in Nat
          /\ Len(Filled(e)) = Len(rd[e].buffer) + Remaining(rd[e])
      BY FilledWindow
    <3> QED
      BY <3>2, <3>3 DEF HeaderSize
  <2>2. hop(BodyMsg(Filled(e))) \in Delivered
    BY <2>1, ParsedType
  <2> QED
    BY <1>11, <2>2, HandleType DEF HandleBody
<1>12. ASSUME NEW e \in End, Destroy(e)
       PROVE  TypeInv'
  BY <1>12 DEF Destroy, TypeOK, ReadInv
<1>13. CASE Break
  BY <1>13 DEF Break, TypeOK, ReadInv
<1>14. CASE UNCHANGED vars
  BY <1>14 DEF vars, TypeOK, ReadInv
<1> QED
  BY <1>1, <1>2, <1>3, <1>4, <1>5, <1>6, <1>7, <1>8, <1>9, <1>10, <1>11, <1>12,
     <1>13, <1>14 DEF Next, Step, Receive

\* A new connection is well typed.
LEMMA TypeInit == Init => TypeInv
<1> SUFFICES ASSUME Init PROVE TypeInv
  OBVIOUS
<1>1. TypeOK
  BY DEF Init, TypeOK, WriteSide, ReadSide, HeaderSize
<1>2. ReadInv
  <2>1. \A e \in End : Len(stream[Other(e)]) = 0
    BY OtherEnd DEF Init
  <2>2. \A e \in End : rd[e].ptr = 0 /\ rd[e].end = 0 /\ rd[e].total = HeaderSize
    BY DEF Init
  <2>3. \A e \in End : rd[e].ptr <= rd[e].end
                         /\ rd[e].end <= Len(stream[Other(e)])
    <3>1. \A i, j, k : i = 0 /\ j = 0 /\ k = 0 => i <= j /\ j <= k
      OBVIOUS
    <3> QED
      BY <2>1, <2>2, <3>1, Zenon
  <2> QED
    BY <2>2, <2>3, Zenon DEF ReadInv
<1> QED
  BY <1>1, <1>2 DEF TypeInv

\* Type correctness of the peers' state, whatever is sent, however the kernel
\* cuts the stream and whatever process_msg does.
THEOREM TypeCorrect == Spec => []TypeOK
<1>1. Spec => []TypeInv
  BY TypeInit, TypeStep, PTL DEF Spec
<1> QED
  BY <1>1, PTL DEF TypeInv


-----------------------------------------------------------------------------
(* The write side: nothing waits without an async_write in flight.          *)

\* What WriteInv says of one write side; up: the connection still works.
WriteOK(w, up) ==
    /\ w.flushed <= Len(w.buffer)
    /\ ~w.sending => w.flushed = Len(w.buffer) /\ w.queue = <<>>
    /\ w.writing => w.sending
    /\ up /\ w.sending => w.writing

Up(e) == conn = "up" /\ alive[e]

\* WriteInv, end by end.
LEMMA WriteInvIsWriteOK ==
    WriteInv <=> \A e \in End : WriteOK(wr[e], Up(e))
  BY DEF WriteInv, WriteOK, Up

\* do_write restores it from a write side to which a message was added or
\* whose write has completed.
LEMMA DoWriteOK ==
    ASSUME NEW w \in WriteSide, NEW up \in BOOLEAN,
           w.flushed <= Len(w.buffer),
           ~w.sending => w.flushed = Len(w.buffer),
           w.writing => w.sending,
           up /\ w.sending => w.writing
    PROVE  WriteOK(do_write(w), up)
<1>1. CASE w.sending \/ w.queue = <<>>
  BY <1>1 DEF do_write, WriteOK
<1>2. CASE ~(w.sending \/ w.queue = <<>>)
  <2>1. Head(w.queue) \in Message
    BY <1>2 DEF WriteSide
  <2>2. Len(Packet(Head(w.queue))) >= 0
    BY <2>1, PacketType
  <2> QED
    BY <1>2, <2>2 DEF do_write, WriteOK
<1> QED
  BY <1>1, <1>2

\* Every step keeps the write sides right.
LEMMA WriteStep ==
    ASSUME TypeInv, WriteInv, [Next]_vars
    PROVE  WriteInv'
<1> USE DEF TypeInv
<1>0. WriteInv' <=> \A e \in End : WriteOK(wr'[e], Up(e)')
  BY DEF WriteInv, WriteOK, Up
<1>1. \A e \in End : WriteOK(wr[e], Up(e))
  BY WriteInvIsWriteOK
\* A connection that is gone stays gone.
<1>2. \A e \in End : Up(e)' => Up(e)
  BY DEF Next, Step, Receive, Send, RunSend, SendTooBig, Transmit, WriteDone,
     WriteFail, ReadSome, ReadFail, Accumulate, TakeSize, TooBig, HandleEmpty,
     HandleBody, Handle, ReceiveReturns, Destroy, Break, Up, vars, TypeOK
\* Steps that leave the write side alone.
<1>3. ASSUME wr' = wr PROVE WriteInv'
  BY <1>0, <1>1, <1>2, <1>3 DEF WriteOK
\* Steps that install do_write(w) at e.
<1>4. ASSUME NEW e \in End, NEW w \in WriteSide, WriteFrom(e, w),
             UNCHANGED <<conn, alive>>,
             w.flushed <= Len(w.buffer),
             ~w.sending => w.flushed = Len(w.buffer),
             w.writing => w.sending,
             Up(e) /\ w.sending => w.writing
      PROVE  WriteInv'
  <2>1. wr'[e] = do_write(w) /\ \A d \in End \ {e} : wr'[d] = wr[d]
    BY <1>4 DEF WriteFrom, TypeOK
  <2>2. Up(e) \in BOOLEAN
    BY DEF Up, TypeOK
  <2>3. WriteOK(wr'[e], Up(e))
    BY <1>4, <2>1, <2>2, DoWriteOK
  <2>4. \A d \in End : Up(d)' = Up(d)
    BY <1>4 DEF Up
  <2> QED
    BY <1>0, <1>1, <2>1, <2>3, <2>4
<1>5. ASSUME NEW e \in End, NEW m \in Message, SendInStrand(e, m),
             UNCHANGED <<conn, alive>>
      PROVE  WriteInv'
  <2> DEFINE w == [wr[e] EXCEPT !.queue = Append(@, m)]
  <2>1. Append(wr[e].queue, m) \in Seq(Message)
    BY Typed
  <2>2. w \in WriteSide
    BY <2>1, Typed DEF WriteSide
  <2>3. /\ w.flushed = wr[e].flushed /\ w.buffer = wr[e].buffer
        /\ w.sending = wr[e].sending /\ w.writing = wr[e].writing
    BY Typed DEF WriteSide
  <2>4. WriteFrom(e, w)
    BY <1>5 DEF SendInStrand
  <2>5. WriteOK(wr[e], Up(e))
    BY <1>1
  <2> HIDE DEF w
  <2> QED
    BY <1>4, <1>5, <2>2, <2>3, <2>4, <2>5 DEF WriteOK
<1>6. ASSUME NEW e \in End, WriteDone(e) PROVE WriteInv'
  <2> DEFINE w == [wr[e] EXCEPT !.sending = FALSE, !.writing = FALSE]
  <2>1. w \in WriteSide
    BY Typed DEF WriteSide
  <2>2. /\ w.flushed = wr[e].flushed /\ w.buffer = wr[e].buffer
        /\ w.sending = FALSE /\ w.writing = FALSE
    BY Typed DEF WriteSide
  <2>3. WriteFrom(e, w) /\ wr[e].flushed = Len(wr[e].buffer)
    BY <1>6 DEF WriteDone
  <2>4. wr[e].flushed <= Len(wr[e].buffer)
    BY <1>1 DEF WriteOK
  <2>5. UNCHANGED <<conn, alive>>
    BY <1>6 DEF WriteDone
  <2> HIDE DEF w
  <2> QED
    BY <1>4, <2>1, <2>2, <2>3, <2>4, <2>5
<1>7. ASSUME NEW e \in End, Transmit(e) PROVE WriteInv'
  <2> DEFINE b == wr[e]
  <2>1. PICK k \in Transfer(Len(b.buffer) - b.flushed) :
          wr' = [wr EXCEPT ![e].flushed = b.flushed + k]
    BY <1>7 DEF Transmit
  <2>2. Len(b.buffer) \in Nat /\ b.flushed \in Nat
    BY Typed
  <2>3. k \in Nat /\ k <= Len(b.buffer) - b.flushed /\ k > 0
    BY <2>2, TransferBound
  <2>4. b.writing /\ b.sending
    BY <1>1, <1>7 DEF Transmit, WriteOK
  <2>5. /\ wr'[e].flushed = b.flushed + k /\ wr'[e].buffer = b.buffer
        /\ wr'[e].sending = b.sending /\ wr'[e].writing = b.writing
        /\ \A d \in End \ {e} : wr'[d] = wr[d]
    BY <2>1, Typed DEF TypeOK, WriteSide
  <2>6. WriteOK(wr'[e], Up(e)')
    BY <2>2, <2>3, <2>4, <2>5 DEF WriteOK
  <2> QED
    BY <1>0, <1>1, <1>2, <2>5, <2>6 DEF WriteOK
<1>8. ASSUME NEW e \in End, WriteFail(e) \/ SendTooBig(e) PROVE WriteInv'
  <2>1. /\ wr'[e].flushed = wr[e].flushed /\ wr'[e].buffer = wr[e].buffer
        /\ wr'[e].sending = wr[e].sending /\ wr'[e].writing = FALSE
        /\ wr'[e].queue = wr[e].queue
        /\ \A d \in End \ {e} : wr'[d] = wr[d]
    <3>1. wr' = [wr EXCEPT ![e].writing = FALSE]
      BY <1>8 DEF WriteFail, SendTooBig
    <3> QED
      BY <3>1, Typed DEF TypeOK, WriteSide
  <2>2. conn' = "reset"
    BY <1>8 DEF WriteFail, SendTooBig
  <2>3. \A d \in End : ~Up(d)'
    BY <2>2 DEF Up
  <2> QED
    BY <1>0, <1>1, <2>1, <2>3 DEF WriteOK
<1>9. ASSUME NEW e \in End, RunSend(e) PROVE WriteInv'
  <2>1. Head(strand[e]) \in Message
    BY <1>9, Typed DEF RunSend
  <2> QED
    BY <1>5, <1>9, <2>1 DEF RunSend
<1>10. ASSUME NEW e \in End, HandleEmpty(e) \/ HandleBody(e) PROVE WriteInv'
  <2>1. Pong \in Message
    BY DEF Pong, Message, MSG_TYPE_PONG, Byte
  <2>2. UNCHANGED <<conn, alive>> /\ (SendInStrand(e, Pong) \/ wr' = wr)
    BY <1>10 DEF HandleEmpty, HandleBody, Handle
  <2> QED
    BY <1>3, <1>5, <2>1, <2>2
<1> QED
  BY <1>3, <1>6, <1>7, <1>8, <1>9, <1>10
     DEF Next, Step, Receive, Send, ReadSome, ReadFail, Accumulate, TakeSize,
         TooBig, ReceiveReturns, Destroy, Break, vars

\* Nothing is in flight at first.
LEMMA WriteInit == Init => WriteInv
<1> SUFFICES ASSUME Init, NEW e \in End PROVE WriteOK(wr[e], Up(e))
  BY WriteInvIsWriteOK
<1>1. /\ wr[e].queue = <<>> /\ wr[e].sending = FALSE
      /\ wr[e].writing = FALSE /\ wr[e].flushed = Len(wr[e].buffer)
      /\ wr[e].flushed <= Len(wr[e].buffer)
  BY DEF Init
<1> QED
  BY <1>1 DEF WriteOK

\* A queued message of a connected peer always has an async_write ahead of it.
THEOREM WriterNeverForgets == Spec => []NoLostWakeup
<1>2. TypeInv /\ WriteInv /\ [Next]_vars => TypeInv' /\ WriteInv'
  BY TypeStep, WriteStep
<1>3. WriteInv => NoLostWakeup
  BY DEF WriteInv, NoLostWakeup
<1> QED
  BY <1>2, <1>3, TypeInit, WriteInit, PTL DEF Spec


-----------------------------------------------------------------------------
(* The read side: receive_buffer_ is a window of the other end's stream.    *)

\* What BufferIsWindow says of one read side and the stream it reads.
WindowOK(r, s) ==
    /\ r.ptr <= r.end /\ r.end <= Len(s)
    /\ Len(r.buffer) <= r.ptr
    /\ \A j \in 1 .. Len(r.buffer) : r.buffer[j] = s[r.ptr - Len(r.buffer) + j]

\* The stream grows by Transmit only, at its end.
LEMMA StreamGrows ==
    ASSUME TypeInv, NEW e \in End, Transmit(e)
    PROVE  /\ stream' \in [End -> Seq(Byte)]
           /\ \A d \in End : Len(stream'[d]) >= Len(stream[d])
           /\ \A d \in End : \A j \in 1 .. Len(stream[d]) :
                stream'[d][j] = stream[d][j]
<1> USE DEF TypeInv
<1> DEFINE w == wr[e]
<1>1. PICK k \in Transfer(Len(w.buffer) - w.flushed) :
        stream' = [stream EXCEPT ![e] = @ \o
                     SubSeq(w.buffer, w.flushed + 1, w.flushed + k)]
  BY DEF Transmit
<1>2. w.buffer \in Seq(Byte) /\ w.flushed \in Nat /\ stream[e] \in Seq(Byte)
  BY Typed
<1>3. k \in Nat /\ w.flushed + k <= Len(w.buffer)
  <2>1. Len(w.buffer) \in Nat /\ Len(w.buffer) - w.flushed \in Int
    BY <1>2
  <2>2. k \in Nat /\ k <= Len(w.buffer) - w.flushed
    BY <2>1, TransferBound
  <2> QED
    BY <1>2, <2>1, <2>2
<1> DEFINE c == SubSeq(w.buffer, w.flushed + 1, w.flushed + k)
<1>4. c \in Seq(Byte)
  BY <1>2, <1>3, Window
<1>5. stream' = [stream EXCEPT ![e] = stream[e] \o c]
  BY <1>1
<1> HIDE DEF c
<1>6. /\ stream[e] \o c \in Seq(Byte)
      /\ Len(stream[e] \o c) >= Len(stream[e])
      /\ \A j \in 1 .. Len(stream[e]) : (stream[e] \o c)[j] = stream[e][j]
  BY <1>2, <1>4, Concat
<1>7. stream'[e] = stream[e] \o c /\ \A d \in End \ {e} : stream'[d] = stream[d]
  BY <1>5 DEF TypeOK
<1>8. stream' \in [End -> Seq(Byte)]
  BY <1>5, <1>6 DEF TypeOK
<1>9. \A d \in End : Len(stream[d]) \in Nat
  BY Typed
<1>10. ASSUME NEW d \in End
       PROVE  /\ Len(stream'[d]) >= Len(stream[d])
              /\ \A j \in 1 .. Len(stream[d]) : stream'[d][j] = stream[d][j]
  <2>1. CASE d = e
    BY <1>6, <1>7, <2>1
  <2>2. CASE d # e
    BY <1>7, <1>9, <2>2
  <2> QED
    BY <2>1, <2>2
<1> QED
  BY <1>8, <1>10

\* A longer stream keeps a window in place.
LEMMA WindowKept ==
    ASSUME NEW r \in ReadSide, NEW s \in Seq(Byte), NEW t \in Seq(Byte),
           WindowOK(r, s), Len(t) >= Len(s),
           \A j \in 1 .. Len(s) : t[j] = s[j]
    PROVE  WindowOK(r, t)
<1>1. /\ r.ptr \in Nat /\ r.end \in Nat /\ Len(r.buffer) \in Nat
      /\ Len(s) \in Nat /\ Len(t) \in Nat
  BY DEF ReadSide
<1>2. \A j \in 1 .. Len(r.buffer) : r.ptr - Len(r.buffer) + j \in 1 .. Len(s)
  BY <1>1 DEF WindowOK
<1>3. ASSUME NEW j \in 1 .. Len(r.buffer)
      PROVE  r.buffer[j] = t[r.ptr - Len(r.buffer) + j]
  <2>1. r.buffer[j] = s[r.ptr - Len(r.buffer) + j]
    BY DEF WindowOK
  <2> QED
    BY <1>2, <2>1
<1>4. r.ptr <= r.end /\ r.end <= Len(t) /\ Len(r.buffer) <= r.ptr
  BY <1>1 DEF WindowOK
<1> QED
  BY <1>3, <1>4 DEF WindowOK

\* After the insert the window ends where the iteration stops reading.
LEMMA FilledIsWindow ==
    ASSUME TypeInv, NEW e \in End, WindowOK(rd[e], stream[Other(e)]),
           NEW t \in Nat, NEW s \in {"parsing", "stopped"}
    PROVE  WindowOK(Advance(e, Filled(e), t, s), stream[Other(e)])
<1> USE DEF TypeInv
<1> DEFINE r == rd[e]
           n == Remaining(rd[e])
           f == Filled(e)
           z == stream[Other(e)]
           a == Advance(e, Filled(e), t, s)
           l == Len(r.buffer)
<1>1. /\ n \in Nat /\ r.ptr + n <= r.end /\ f \in Seq(Byte) /\ Len(f) = l + n
      /\ \A j \in 1 .. l : f[j] = r.buffer[j]
      /\ \A j \in 1 .. n : f[l + j] = z[r.ptr + j]
  BY FilledWindow
<1>2. r.ptr \in Nat /\ r.end \in Nat /\ l \in Nat /\ Len(z) \in Nat
  BY Typed
<1>3. a.buffer = f /\ a.ptr = r.ptr + n /\ a.end = r.end
  BY <1>1, AdvanceType
<1>4. /\ r.end <= Len(z) /\ l <= r.ptr
      /\ \A j \in 1 .. l : r.buffer[j] = z[r.ptr - l + j]
  BY DEF WindowOK
<1> HIDE DEF n, f, z, a, l
<1>5. ASSUME NEW j \in 1 .. l + n
      PROVE  f[j] = z[(r.ptr + n) - (l + n) + j]
  <2>1. (r.ptr + n) - (l + n) + j = r.ptr - l + j
    BY <1>1, <1>2
  <2>2. CASE j <= l
    <3>1. f[j] = r.buffer[j] /\ r.buffer[j] = z[r.ptr - l + j]
      BY <1>1, <1>2, <1>4, <2>2
    <3> QED
      BY <2>1, <3>1
  <2>3. CASE j > l
    <3>1. j - l \in 1 .. n /\ l + (j - l) = j /\ r.ptr + (j - l) = r.ptr - l + j
      BY <1>1, <1>2, <2>3
    <3>2. f[l + (j - l)] = z[r.ptr + (j - l)]
      BY <1>1, <3>1
    <3> QED
      BY <2>1, <3>1, <3>2
  <2> QED
    BY <1>1, <1>2, <2>2, <2>3
<1>6. a.ptr <= a.end /\ a.end <= Len(z) /\ Len(a.buffer) <= a.ptr
  BY <1>1, <1>2, <1>3, <1>4
<1>7. \A j \in 1 .. Len(a.buffer) : a.buffer[j] = z[a.ptr - Len(a.buffer) + j]
  BY <1>1, <1>3, <1>5
<1> QED
  BY <1>6, <1>7 DEF WindowOK, a, z

\* Every step keeps receive_buffer_ a window of the stream.
LEMMA WindowStep ==
    ASSUME TypeInv, BufferIsWindow, [Next]_vars
    PROVE  BufferIsWindow'
<1> USE DEF TypeInv
<1>1. \A e \in End : WindowOK(rd[e], stream[Other(e)])
  BY DEF BufferIsWindow, WindowOK
<1>2. SUFFICES \A e \in End : WindowOK(rd'[e], stream'[Other(e)])
  BY DEF BufferIsWindow, WindowOK
<1>3. CASE UNCHANGED <<rd, stream>>
  BY <1>1, <1>3
<1>4. ASSUME NEW e \in End, Transmit(e)
      PROVE  \A d \in End : WindowOK(rd'[d], stream'[Other(d)])
  <2>1. rd' = rd
    BY <1>4 DEF Transmit
  <2>2. SUFFICES ASSUME NEW d \in End PROVE WindowOK(rd[d], stream'[Other(d)])
    BY <2>1
  <2>3. rd[d] \in ReadSide /\ stream[Other(d)] \in Seq(Byte) /\ Other(d) \in End
    BY Typed, OtherEnd
  <2>4. /\ stream'[Other(d)] \in Seq(Byte)
        /\ Len(stream'[Other(d)]) >= Len(stream[Other(d)])
        /\ \A j \in 1 .. Len(stream[Other(d)]) :
             stream'[Other(d)][j] = stream[Other(d)][j]
    BY <1>4, <2>3, StreamGrows
  <2> QED
    BY <1>1, <2>3, <2>4, WindowKept
\* Steps that replace the read side of one end.
<1>5. ASSUME NEW e \in End, NEW a, rd' = [rd EXCEPT ![e] = a],
             UNCHANGED stream, WindowOK(a, stream[Other(e)])
      PROVE  \A d \in End : WindowOK(rd'[d], stream'[Other(d)])
  BY <1>1, <1>5 DEF TypeOK
<1>6. ASSUME NEW e \in End, ReadSome(e)
      PROVE  \A d \in End : WindowOK(rd'[d], stream'[Other(d)])
  <2>1. PICK k \in Transfer(IF Unread(e) > ReadMax THEN ReadMax ELSE Unread(e)) :
          rd' = [rd EXCEPT ![e] = [rd[e] EXCEPT !.state = "parsing",
                                                !.end = rd[e].end + k]]
    BY <1>6 DEF ReadSome
  <2>2. rd[e].end \in Nat /\ rd[e].ptr \in Nat /\ Len(stream[Other(e)]) \in Nat
        /\ rd[e] \in ReadSide
    BY Typed
  <2>3. k \in Nat /\ k <= Unread(e)
    <3>1. Unread(e) \in Int
      BY <2>2 DEF Unread
    <3>2. CASE Unread(e) > ReadMax
      BY <3>1, <3>2, SizeAssumption, TransferBound
    <3>3. CASE ~(Unread(e) > ReadMax)
      BY <3>1, <3>3, SizeAssumption, TransferBound
    <3> QED
      BY <3>2, <3>3
  <2> DEFINE p == rd[e].end + k
             a == [rd[e] EXCEPT !.state = "parsing", !.end = p]
  <2>4. a.ptr = rd[e].ptr /\ a.buffer = rd[e].buffer /\ a.end = p
    BY <2>2 DEF ReadSide
  <2>5. rd[e].ptr <= p /\ p <= Len(stream[Other(e)])
    BY <1>1, <2>2, <2>3 DEF WindowOK, Unread
  <2>6. rd' = [rd EXCEPT ![e] = a]
    BY <2>1
  <2>7. UNCHANGED stream
    BY <1>6 DEF ReadSome
  <2> HIDE DEF a, p
  <2>8. WindowOK(a, stream[Other(e)])
    BY <1>1, <2>4, <2>5 DEF WindowOK
  <2> QED
    BY <1>5, <2>6, <2>7, <2>8
<1>7. ASSUME NEW e \in End, NEW s, rd' = [rd EXCEPT ![e].state = s],
             UNCHANGED stream
      PROVE  \A d \in End : WindowOK(rd'[d], stream'[Other(d)])
  <2> DEFINE a == [rd[e] EXCEPT !.state = s]
  <2>1. a.ptr = rd[e].ptr /\ a.buffer = rd[e].buffer /\ a.end = rd[e].end
    BY Typed DEF ReadSide
  <2>2. rd' = [rd EXCEPT ![e] = a]
    BY <1>7
  <2> HIDE DEF a
  <2>3. WindowOK(a, stream[Other(e)])
    BY <1>1, <2>1 DEF WindowOK
  <2> QED
    BY <1>5, <1>7, <2>2, <2>3
\* Iterations of receive that keep the filled buffer.
<1>8. ASSUME NEW e \in End, NEW t \in Nat, NEW s \in {"parsing", "stopped"},
             rd' = [rd EXCEPT ![e] = Advance(e, Filled(e), t, s)],
             UNCHANGED stream
      PROVE  \A d \in End : WindowOK(rd'[d], stream'[Other(d)])
  BY <1>1, <1>5, <1>8, FilledIsWindow
\* Iterations that clear it.
<1>9. ASSUME NEW e \in End, NEW s \in {"parsing", "stopped"},
             rd' = [rd EXCEPT ![e] = Advance(e, <<>>, HeaderSize, s)],
             UNCHANGED stream
      PROVE  \A d \in End : WindowOK(rd'[d], stream'[Other(d)])
  <2> DEFINE a == Advance(e, <<>>, HeaderSize, s)
  <2>1. /\ a.ptr = rd[e].ptr + Remaining(rd[e]) /\ a.end = rd[e].end
        /\ Len(a.buffer) = 0
    BY DEF Advance
  <2>2. /\ Remaining(rd[e]) \in Nat /\ rd[e].ptr \in Nat
        /\ rd[e].ptr + Remaining(rd[e]) <= rd[e].end
        /\ rd[e].end <= Len(stream[Other(e)])
    BY Typed, FilledWindow DEF ReadInv
  <2> HIDE DEF a
  <2>3. a.ptr <= a.end /\ a.end <= Len(stream[Other(e)]) /\ Len(a.buffer) <= a.ptr
    BY <2>1, <2>2
  <2>4. \A j \in 1 .. Len(a.buffer) : FALSE
    BY <2>1
  <2>5. WindowOK(a, stream[Other(e)])
    BY <2>3, <2>4 DEF WindowOK
  <2> QED
    BY <1>5, <1>9, <2>5 DEF a
<1>10. ASSUME NEW e \in End, Receive(e)
       PROVE  \A d \in End : WindowOK(rd'[d], stream'[Other(d)])
  <2>1. rd[e].total \in Nat
    BY Typed
  <2>2. CASE Accumulate(e)
    BY <1>8, <2>1, <2>2 DEF Accumulate
  <2>3. CASE TakeSize(e)
    <3>1. SizeOf(Filled(e)) \in Nat
      BY <2>3, SizeAssumption DEF TakeSize
    <3> QED
      BY <1>8, <2>3, <3>1 DEF TakeSize
  <2>4. CASE TooBig(e)
    BY <1>8, <2>1, <2>4 DEF TooBig
  <2>5. ASSUME NEW m, Handle(e, m)
        PROVE  \A d \in End : WindowOK(rd'[d], stream'[Other(d)])
    BY <1>8, <1>9, <2>1, <2>5 DEF Handle
  <2>6. CASE ReceiveReturns(e)
    BY <1>7, <2>6 DEF ReceiveReturns
  <2> QED
    BY <1>10, <2>2, <2>3, <2>4, <2>5, <2>6 DEF Receive, HandleEmpty, HandleBody
<1>11. ASSUME NEW e \in End, ReadFail(e) \/ SendTooBig(e)
       PROVE  \A d \in End : WindowOK(rd'[d], stream'[Other(d)])
  BY <1>7, <1>11 DEF ReadFail, SendTooBig
<1> QED
  BY <1>3, <1>4, <1>6, <1>10, <1>11
     DEF Next, Step, Send, RunSend, WriteDone, WriteFail, Destroy, Break, vars

\* Nothing has been read at first.
LEMMA WindowInit == Init => BufferIsWindow
<1> SUFFICES ASSUME Init, NEW e \in End
             PROVE  WindowOK(rd[e], stream[Other(e)])
  BY DEF BufferIsWindow, WindowOK
<1>1. ReadInv
  BY TypeInit DEF TypeInv
<1>2. rd[e].ptr <= rd[e].end /\ rd[e].end <= Len(stream[Other(e)])
  BY <1>1 DEF ReadInv
<1>3. Len(rd[e].buffer) <= rd[e].ptr /\ \A j \in 1 .. Len(rd[e].buffer) : FALSE
  BY DEF Init
<1> QED
  BY <1>2, <1>3 DEF WindowOK

\* However the kernel cuts the stream and whatever the bodies are, receive
\* neither skips nor repeats a byte.
THEOREM ReaderKeepsPlace == Spec => []BufferIsWindow
<1>2. TypeInv /\ BufferIsWindow /\ [Next]_vars => TypeInv' /\ BufferIsWindow'
  BY TypeStep, WindowStep
<1> QED
  BY <1>2, TypeInit, WindowInit, PTL DEF Spec


-----------------------------------------------------------------------------
(* The stream is the sent packets, back to back.                            *)

\* What StreamIsPackets says of one end whose sent messages are s, whose
\* packets begin at st, whose wire is w and whose queue is q; and that the
\* queue is the rest of s and every packet lies within the wire.
WireOK(s, st, w, q) ==
    /\ Len(st) + Len(q) = Len(s)
    /\ \A i \in 1 .. Len(q) : q[i] = s[Len(st) + i]
    /\ \A k \in 1 .. Len(st) :
         /\ st[k] + Len(Packet(s[k])) <= Len(w)
         /\ \A j \in 1 .. Len(Packet(s[k])) : w[st[k] + j] = Packet(s[k])[j]
    /\ \A k \in 1 .. Len(st) - 1 : st[k + 1] = st[k] + Len(Packet(s[k]))
    /\ Len(st) = 0 => Len(w) = 0
    /\ Len(st) > 0 => /\ st[1] = 0
                      /\ Len(w) = st[Len(st)] + Len(Packet(s[Len(st)]))

WireInv == \A e \in End : WireOK(sent[e], starts[e], Wire(e), wr[e].queue)

\* protocol::send: one more message is sent and queued.
LEMMA PushOK ==
    ASSUME NEW s \in Seq(Message), NEW st \in Seq(Nat), NEW w \in Seq(Byte),
           NEW q \in Seq(Message), NEW m \in Message, WireOK(s, st, w, q)
    PROVE  WireOK(Append(s, m), st, w, Append(q, m))
<1> DEFINE S == Append(s, m)
           Q == Append(q, m)
<1>1. /\ Len(s) \in Nat /\ Len(st) \in Nat /\ Len(q) \in Nat
      /\ Len(st) + Len(q) = Len(s)
  BY DEF WireOK
<1>2. /\ Len(S) = Len(s) + 1 /\ S[Len(s) + 1] = m
      /\ \A i \in 1 .. Len(s) : S[i] = s[i]
  OBVIOUS
<1>3. /\ Len(Q) = Len(q) + 1 /\ Q[Len(q) + 1] = m
      /\ \A i \in 1 .. Len(q) : Q[i] = q[i]
  OBVIOUS
<1> HIDE DEF S, Q
<1>4. \A k \in 1 .. Len(st) : S[k] = s[k]
  BY <1>1, <1>2
<1>5. Len(st) + Len(Q) = Len(S)
  BY <1>1, <1>2, <1>3
<1>6. ASSUME NEW i \in 1 .. Len(Q) PROVE Q[i] = S[Len(st) + i]
  <2>1. CASE i = Len(q) + 1
    BY <1>1, <1>2, <1>3, <2>1
  <2>2. CASE i # Len(q) + 1
    <3>1. i \in 1 .. Len(q) /\ Len(st) + i \in 1 .. Len(s)
      BY <1>1, <1>3, <2>2
    <3>2. q[i] = s[Len(st) + i]
      BY <3>1 DEF WireOK
    <3> QED
      BY <1>2, <1>3, <3>1, <3>2
  <2> QED
    BY <2>1, <2>2
<1>7. \A k \in 1 .. Len(st) :
        /\ st[k] + Len(Packet(S[k])) <= Len(w)
        /\ \A j \in 1 .. Len(Packet(S[k])) : w[st[k] + j] = Packet(S[k])[j]
  <2> SUFFICES ASSUME NEW k \in 1 .. Len(st)
               PROVE  /\ st[k] + Len(Packet(S[k])) <= Len(w)
                      /\ \A j \in 1 .. Len(Packet(S[k])) :
                           w[st[k] + j] = Packet(S[k])[j]
    OBVIOUS
  <2>1. S[k] = s[k]
    BY <1>4
  <2>2. /\ st[k] + Len(Packet(s[k])) <= Len(w)
        /\ \A j \in 1 .. Len(Packet(s[k])) : w[st[k] + j] = Packet(s[k])[j]
    BY Zenon DEF WireOK
  <2> QED
    BY ONLY <2>1, <2>2, Zenon
<1>8. \A k \in 1 .. Len(st) - 1 : st[k + 1] = st[k] + Len(Packet(S[k]))
  <2>1. \A k \in 1 .. Len(st) - 1 : S[k] = s[k]
    BY <1>1, <1>4
  <2> QED
    BY <2>1 DEF WireOK
<1>9. /\ Len(st) = 0 => Len(w) = 0
      /\ Len(st) > 0 => /\ st[1] = 0
                        /\ Len(w) = st[Len(st)] + Len(Packet(S[Len(st)]))
  <2>1. Len(st) > 0 => S[Len(st)] = s[Len(st)]
    BY <1>1, <1>4, SMTT(30)
  <2> QED
    BY <2>1 DEF WireOK
<1> QED
  BY <1>5, <1>6, <1>7, <1>8, <1>9 DEF WireOK, S, Q

\* do_write: the first queued packet goes to the end of the wire.
LEMMA TakeOK ==
    ASSUME NEW s \in Seq(Message), NEW st \in Seq(Nat), NEW w \in Seq(Byte),
           NEW q \in Seq(Message), q # <<>>, WireOK(s, st, w, q)
    PROVE  WireOK(s, Append(st, Len(w)), w \o Packet(Head(q)), Tail(q))
<1> DEFINE T == Append(st, Len(w))
           Q == Tail(q)
           p == Packet(Head(q))
           W == w \o p
           ls == Len(s)
           lt == Len(st)
           lq == Len(q)
           lw == Len(w)
           lp == Len(p)
           P(k) == Packet(s[k])
           lP(k) == Len(P(k))
<1>1. ls \in Nat /\ lt \in Nat /\ lq \in Nat \ {0} /\ lw \in Nat
  OBVIOUS
<1>2. lt + lq = ls /\ \A i \in 1 .. lq : q[i] = s[lt + i]
  BY DEF WireOK
<1>3. Len(T) = lt + 1 /\ T[lt + 1] = lw /\ \A i \in 1 .. lt : T[i] = st[i]
  BY <1>1
<1>4. /\ Len(Q) = lq - 1 /\ Head(q) = q[1] /\ Head(q) \in Message
      /\ \A i \in 1 .. lq - 1 : Q[i] = q[i + 1]
  BY HeadTail
<1>5. p \in Seq(Byte) /\ lp \in Nat
  BY <1>4, PacketType
<1>6. /\ Len(W) = lw + lp
      /\ \A j \in 1 .. lw : W[j] = w[j]
      /\ \A j \in 1 .. lp : W[lw + j] = p[j]
  <2> HIDE DEF p
  <2> QED
    BY <1>5, Concat
<1>7. \A k \in 1 .. ls : lP(k) \in Nat
  <2>1. \A k \in 1 .. ls : s[k] \in Message
    OBVIOUS
  <2> QED
    BY <2>1, PacketType
<1>8. \A k \in 1 .. lt :
        /\ st[k] \in Nat /\ st[k] + lP(k) <= lw
        /\ \A j \in 1 .. lP(k) : w[st[k] + j] = P(k)[j]
  BY SMTT(30) DEF WireOK
<1>9. /\ \A k \in 1 .. lt - 1 : st[k + 1] = st[k] + lP(k)
      /\ lt = 0 => lw = 0
      /\ lt > 0 => st[1] = 0 /\ lw = st[lt] + lP(lt)
  BY DEF WireOK
<1>10. p = P(lt + 1) /\ lp = lP(lt + 1)
  <2>1. q[1] = s[lt + 1]
    BY <1>1, <1>2
  <2> QED
    BY <1>4, <2>1
<1> HIDE DEF T, Q, p, W, ls, lt, lq, lw, lp, P, lP
<1>11. (lt + 1) + (lq - 1) = ls
  BY <1>1, <1>2
<1>12. ASSUME NEW i \in 1 .. lq - 1 PROVE Q[i] = s[(lt + 1) + i]
  <2>1. i + 1 \in 1 .. lq /\ lt + (i + 1) = (lt + 1) + i
    BY <1>1
  <2> QED
    BY <1>2, <1>4, <2>1
<1>13. ASSUME NEW k \in 1 .. lt + 1
       PROVE  /\ T[k] + lP(k) <= lw + lp
              /\ \A j \in 1 .. lP(k) : W[T[k] + j] = P(k)[j]
  <2>1. CASE k = lt + 1
    BY <1>1, <1>3, <1>5, <1>6, <1>10, <2>1
  <2>2. CASE k # lt + 1
    <3>1. k \in 1 .. lt /\ k \in 1 .. ls
      BY <1>1, <1>2, <2>2
    <3>2. T[k] = st[k] /\ lP(k) \in Nat
      BY <1>3, <1>7, <3>1
    <3>3. /\ st[k] \in Nat /\ st[k] + lP(k) <= lw
          /\ \A j \in 1 .. lP(k) : w[st[k] + j] = P(k)[j]
      BY <1>8, <3>1
    <3>4. \A j \in 1 .. lP(k) : st[k] + j \in 1 .. lw
      BY <1>1, <3>2, <3>3
    <3>5. st[k] + lP(k) <= lw + lp
      BY <1>1, <1>5, <3>2, <3>3
    <3>6. \A j \in 1 .. lP(k) : W[st[k] + j] = P(k)[j]
      BY <1>6, <3>3, <3>4
    <3> QED
      BY <3>2, <3>5, <3>6
  <2> QED
    BY <2>1, <2>2
<1>14. ASSUME NEW k \in 1 .. lt PROVE T[k + 1] = T[k] + lP(k)
  <2>1. CASE k = lt
    <3>1. lt > 0 /\ lt \in 1 .. lt
      BY <1>1, <2>1
    <3> QED
      BY <1>3, <1>9, <2>1, <3>1
  <2>2. CASE k # lt
    <3>1. k \in 1 .. lt - 1 /\ k + 1 \in 1 .. lt
      BY <1>1, <2>2
    <3> QED
      BY <1>3, <1>9, <3>1
  <2> QED
    BY <2>1, <2>2
<1>15. T[1] = 0
  <2>1. CASE lt = 0
    <3>1. lt + 1 = 1
      BY <2>1
    <3> QED
      BY <1>3, <1>9, <2>1, <3>1
  <2>2. CASE lt # 0
    <3>1. lt > 0 /\ 1 \in 1 .. lt
      BY <1>1, <2>2
    <3> QED
      BY <1>3, <1>9, <3>1
  <2> QED
    BY <2>1, <2>2
<1>16. lw + lp = T[lt + 1] + lP(lt + 1)
  BY <1>3, <1>10
<1>17. lt + 1 # 0 /\ (lt + 1) - 1 = lt
  BY <1>1
<1>18. /\ Len(T) + Len(Q) = ls
       /\ \A i \in 1 .. Len(Q) : Q[i] = s[Len(T) + i]
  BY <1>3, <1>4, <1>11, <1>12
<1>19. \A k \in 1 .. Len(T) :
         /\ T[k] + lP(k) <= Len(W)
         /\ \A j \in 1 .. lP(k) : W[T[k] + j] = P(k)[j]
  BY <1>3, <1>6, <1>13
<1>20. /\ \A k \in 1 .. Len(T) - 1 : T[k + 1] = T[k] + lP(k)
       /\ Len(T) # 0 /\ T[1] = 0 /\ Len(W) = T[Len(T)] + lP(Len(T))
  BY <1>3, <1>6, <1>14, <1>15, <1>16, <1>17
<1>21. WireOK(s, T, W, Q)
  BY <1>18, <1>19, <1>20 DEF WireOK, ls, lP, P
<1> QED
  BY <1>21 DEF T, W, Q, p

\* Bytes that move from send_buffer_ to the stream leave the wire as it is.
LEMMA WireMoves ==
    ASSUME NEW s \in Seq(Byte), NEW b \in Seq(Byte), NEW f \in Nat, NEW k \in Nat,
           f + k <= Len(b)
    PROVE  (s \o SubSeq(b, f + 1, f + k)) \o SubSeq(b, f + k + 1, Len(b))
             = s \o SubSeq(b, f + 1, Len(b))
<1> DEFINE c == SubSeq(b, f + 1, f + k)
           d == SubSeq(b, f + k + 1, Len(b))
           g == SubSeq(b, f + 1, Len(b))
<1>1. c \in Seq(Byte) /\ d \in Seq(Byte) /\ g \in Seq(Byte)
  OBVIOUS
<1>2. (s \o c) \o d = s \o (c \o d)
  <2> HIDE DEF c, d
  <2> QED
    BY <1>1
<1>3. c \o d = g
  <2>1. /\ f + 1 \in 1 .. Len(b) + 1 /\ f + k \in (f + 1) - 1 .. Len(b)
        /\ Len(b) \in (f + k) .. Len(b)
    OBVIOUS
  <2> QED
    BY <2>1, ConcatAdjacentSubSeq
<1> QED
  BY <1>2, <1>3


\* The wire is a sequence of bytes; with nothing left to flush it is the
\* stream.
LEMMA WireType ==
    ASSUME TypeInv, WriteInv, NEW e \in End
    PROVE  /\ Wire(e) \in Seq(Byte)
           /\ wr[e].flushed = Len(wr[e].buffer) => Wire(e) = stream[e]
<1> DEFINE b == wr[e].buffer
           f == wr[e].flushed
           c == SubSeq(b, f + 1, Len(b))
<1>1. b \in Seq(Byte) /\ f \in Nat /\ stream[e] \in Seq(Byte)
  BY Typed DEF TypeInv
<1>2. f <= Len(b)
  BY DEF WriteInv
<1>3. c \in Seq(Byte) /\ (f = Len(b) => c = <<>>)
  BY <1>1, <1>2
<1>4. Wire(e) = stream[e] \o c
  BY DEF Wire
<1> HIDE DEF c
<1> QED
  BY <1>1, <1>3, <1>4

\* Installing do_write(w) keeps the wire right for the sent messages s.
LEMMA WriteFromWire ==
    ASSUME TypeInv, WriteInv, NEW e \in End, NEW s \in Seq(Message),
           NEW w \in WriteSide, WriteFrom(e, w), UNCHANGED stream,
           w.buffer = wr[e].buffer, w.flushed = wr[e].flushed,
           ~w.sending => w.flushed = Len(w.buffer),
           WireOK(s, starts[e], Wire(e), w.queue)
    PROVE  WireOK(s, starts'[e], Wire(e)', wr'[e].queue)
<1> USE DEF TypeInv
<1>1. wr'[e] = do_write(w)
  BY DEF WriteFrom, TypeOK
<1>2. stream[e] \in Seq(Byte) /\ starts[e] \in Seq(Nat) /\ w.queue \in Seq(Message)
  BY Typed DEF WriteSide
<1>3. CASE ~Takes(w)
  <2>1. do_write(w) = w
    BY <1>3 DEF do_write, Takes
  <2>2. starts' = starts
    BY <1>3 DEF WriteFrom
  <2>3. Wire(e)' = Wire(e)
    BY <1>1, <2>1 DEF Wire
  <2> QED
    BY <1>1, <2>1, <2>2, <2>3
<1>4. CASE Takes(w)
  <2> DEFINE p == Packet(Head(w.queue))
  <2>1. w.queue # <<>> /\ ~w.sending
    BY <1>4 DEF Takes
  <2>2. /\ do_write(w).queue = Tail(w.queue) /\ do_write(w).buffer = p
        /\ do_write(w).flushed = 0
    BY <2>1 DEF do_write
  <2>3. Head(w.queue) \in Message
    BY <1>2, <2>1
  <2>4. p \in Seq(Byte)
    BY <2>3, PacketType
  <2>5. Wire(e) = stream[e]
    BY <2>1, WireType
  <2>6. starts'[e] = Append(starts[e], Len(Wire(e)))
    BY <1>4, <2>5 DEF WriteFrom, TypeOK
  <2>7. Wire(e)' = Wire(e) \o p
    <3> HIDE DEF p
    <3>1. SubSeq(p, 0 + 1, Len(p)) = p
      BY <2>4
    <3>2. Wire(e)' = stream[e] \o SubSeq(p, 0 + 1, Len(p))
      BY <1>1, <2>2 DEF Wire
    <3> QED
      BY <2>5, <3>1, <3>2
  <2>8. Wire(e) \in Seq(Byte)
    BY WireType
  <2>9. WireOK(s, Append(starts[e], Len(Wire(e))), Wire(e) \o p, Tail(w.queue))
    BY <1>2, <2>1, <2>8, TakeOK
  <2> QED
    BY <1>1, <2>2, <2>6, <2>7, <2>9
<1> QED
  BY <1>3, <1>4

\* Every step keeps the packets on the wire.
LEMMA WireStep ==
    ASSUME TypeInv, WriteInv, WireInv, [Next]_vars
    PROVE  WireInv'
<1> USE DEF TypeInv
<1>1. \A e \in End : WireOK(sent[e], starts[e], Wire(e), wr[e].queue)
  BY DEF WireInv
<1>2. SUFFICES \A e \in End : WireOK(sent'[e], starts'[e], Wire(e)', wr'[e].queue)
  BY DEF WireInv
<1> DEFINE Goal == \A e \in End :
             WireOK(sent'[e], starts'[e], Wire(e)', wr'[e].queue)
\* Steps that change the write side of e at most.
<1>3. ASSUME NEW e \in End, \A d \in End \ {e} :
               /\ sent'[d] = sent[d] /\ starts'[d] = starts[d]
               /\ stream'[d] = stream[d] /\ wr'[d] = wr[d],
             WireOK(sent'[e], starts'[e], Wire(e)', wr'[e].queue)
      PROVE  Goal
  <2>1. \A d \in End \ {e} : Wire(d)' = Wire(d)
    BY <1>3 DEF Wire
  <2> QED
    BY <1>1, <1>3, <2>1
<1>4. CASE UNCHANGED <<sent, starts, stream, wr>>
  BY <1>1, <1>4 DEF Wire
<1>5. ASSUME NEW e \in End, NEW m \in Message, SendInStrand(e, m),
             UNCHANGED stream
      PROVE  Goal
  <2> DEFINE w == [wr[e] EXCEPT !.queue = Append(@, m)]
             s == Append(sent[e], m)
  <2>1. Append(wr[e].queue, m) \in Seq(Message) /\ s \in Seq(Message)
    BY Typed
  <2>2. w \in WriteSide
    BY <2>1, Typed DEF WriteSide
  <2>3. /\ w.flushed = wr[e].flushed /\ w.buffer = wr[e].buffer
        /\ w.sending = wr[e].sending /\ w.queue = Append(wr[e].queue, m)
    BY Typed DEF WriteSide
  <2>4. WriteFrom(e, w) /\ sent'[e] = s
    BY <1>5 DEF SendInStrand, TypeOK
  <2>5. ~w.sending => w.flushed = Len(w.buffer)
    BY <2>3 DEF WriteInv
  <2>6. WireOK(s, starts[e], Wire(e), Append(wr[e].queue, m))
    BY <1>1, Typed, WireType, PushOK
  <2> HIDE DEF w, s
  <2>7. WireOK(s, starts'[e], Wire(e)', wr'[e].queue)
    BY <1>5, <2>1, <2>2, <2>3, <2>4, <2>5, <2>6, WriteFromWire
  <2>8. \A d \in End \ {e} : /\ sent'[d] = sent[d] /\ starts'[d] = starts[d]
                             /\ stream'[d] = stream[d] /\ wr'[d] = wr[d]
    BY <1>5 DEF SendInStrand, WriteFrom, TypeOK
  <2> QED
    BY <1>3, <2>4, <2>7, <2>8
<1>6. ASSUME NEW e \in End, WriteDone(e) PROVE Goal
  <2> DEFINE w == [wr[e] EXCEPT !.sending = FALSE, !.writing = FALSE]
  <2>1. w \in WriteSide
    BY Typed DEF WriteSide
  <2>2. /\ w.flushed = wr[e].flushed /\ w.buffer = wr[e].buffer
        /\ w.queue = wr[e].queue
    BY Typed DEF WriteSide
  <2>3. /\ WriteFrom(e, w) /\ wr[e].flushed = Len(wr[e].buffer)
        /\ UNCHANGED <<sent, stream>>
    BY <1>6 DEF WriteDone
  <2>4. sent[e] \in Seq(Message)
    BY Typed
  <2> HIDE DEF w
  <2>5. WireOK(sent[e], starts'[e], Wire(e)', wr'[e].queue)
    BY <1>1, <2>1, <2>2, <2>3, <2>4, WriteFromWire
  <2>6. \A d \in End \ {e} : starts'[d] = starts[d] /\ wr'[d] = wr[d]
    BY <2>3 DEF WriteFrom, TypeOK
  <2> QED
    BY <1>3, <2>3, <2>5, <2>6
<1>7. ASSUME NEW e \in End, Transmit(e) PROVE Goal
  <2> DEFINE b == wr[e].buffer
             f == wr[e].flushed
  <2>1. PICK k \in Transfer(Len(b) - f) :
          /\ stream' = [stream EXCEPT ![e] = @ \o SubSeq(b, f + 1, f + k)]
          /\ wr' = [wr EXCEPT ![e].flushed = f + k]
    BY <1>7 DEF Transmit
  <2>2. b \in Seq(Byte) /\ f \in Nat /\ stream[e] \in Seq(Byte) /\ Len(b) \in Nat
    BY Typed
  <2>3. k \in Nat /\ f + k <= Len(b)
    <3>1. k \in Nat /\ k <= Len(b) - f
      BY <2>2, TransferBound
    <3> QED
      BY <2>2, <3>1
  <2>4. UNCHANGED <<sent, starts>>
    BY <1>7 DEF Transmit
  <2>5. /\ wr'[e].flushed = f + k /\ wr'[e].buffer = b
        /\ wr'[e].queue = wr[e].queue
        /\ stream'[e] = stream[e] \o SubSeq(b, f + 1, f + k)
        /\ \A d \in End \ {e} : wr'[d] = wr[d] /\ stream'[d] = stream[d]
    BY <2>1, Typed DEF TypeOK, WriteSide
  <2>6. Wire(e)' = (stream[e] \o SubSeq(b, f + 1, f + k))
                     \o SubSeq(b, f + k + 1, Len(b))
    BY <2>5 DEF Wire
  <2>7. Wire(e) = stream[e] \o SubSeq(b, f + 1, Len(b))
    BY DEF Wire
  <2>8. Wire(e)' = Wire(e)
    BY <2>2, <2>3, <2>6, <2>7, WireMoves
  <2> QED
    BY <1>1, <1>3, <2>4, <2>5, <2>8
<1>8. ASSUME NEW e \in End, wr' = [wr EXCEPT ![e].writing = FALSE],
             UNCHANGED <<sent, starts, stream>>
      PROVE  Goal
  <2>1. \A d \in End : /\ wr'[d].buffer = wr[d].buffer /\ wr'[d].queue = wr[d].queue
                       /\ wr'[d].flushed = wr[d].flushed
    BY <1>8, Typed DEF TypeOK, WriteSide
  <2>2. \A d \in End : Wire(d)' = Wire(d)
    BY <1>8, <2>1 DEF Wire
  <2> QED
    BY <1>1, <1>8, <2>1, <2>2
<1>9. ASSUME NEW e \in End, RunSend(e) PROVE Goal
  <2>1. Head(strand[e]) \in Message
    BY <1>9, Typed DEF RunSend
  <2> QED
    BY <1>5, <1>9, <2>1 DEF RunSend
<1>10. ASSUME NEW e \in End, HandleEmpty(e) \/ HandleBody(e) PROVE Goal
  <2>1. Pong \in Message
    BY DEF Pong, Message, MSG_TYPE_PONG, Byte
  <2>2. /\ UNCHANGED stream
        /\ SendInStrand(e, Pong) \/ UNCHANGED <<wr, sent, starts>>
    BY <1>10 DEF HandleEmpty, HandleBody, Handle
  <2> QED
    BY <1>4, <1>5, <2>1, <2>2
<1>11. ASSUME NEW e \in End, WriteFail(e) \/ SendTooBig(e) PROVE Goal
  BY <1>8, <1>11 DEF WriteFail, SendTooBig
<1> QED
  BY <1>4, <1>6, <1>7, <1>9, <1>10, <1>11
     DEF Next, Step, Receive, Send, ReadSome, ReadFail, Accumulate, TakeSize,
         TooBig, ReceiveReturns, Destroy, Break, vars

\* The wire is empty at first.
LEMMA WireInit == Init => WireInv
<1> SUFFICES ASSUME Init, NEW e \in End
             PROVE  WireOK(sent[e], starts[e], Wire(e), wr[e].queue)
  BY DEF WireInv
<1>1. /\ sent[e] = <<>> /\ starts[e] = <<>> /\ wr[e].queue = <<>>
      /\ Wire(e) = <<>>
  BY DEF Init, Wire
<1> QED
  BY <1>1 DEF WireOK

\* Whatever is sent, by whom and when, the connection carries the packets of
\* the sent messages in order, whole and back to back.
THEOREM WriterKeepsPackets == Spec => []StreamIsPackets
<1>3. TypeInv /\ WriteInv /\ WireInv /\ [Next]_vars
        => TypeInv' /\ WriteInv' /\ WireInv'
  BY TypeStep, WriteStep, WireStep
<1>4. TypeInv /\ WriteInv /\ WireInv => StreamIsPackets
  <2> SUFFICES ASSUME TypeInv, WriteInv, WireInv, NEW e \in End
               PROVE  /\ Taken(e) + Len(wr[e].queue) = Len(sent[e])
                      /\ \A k \in 1 .. Taken(e) : PacketInPlace(e, k)
                      /\ \A k \in 1 .. Taken(e) - 1 :
                           starts[e][k + 1] = NextStart(e, k)
                      /\ IF Taken(e) = 0 THEN Wire(e) = <<>>
                         ELSE starts[e][1] = 0 /\ Len(Wire(e)) = NextStart(e, Taken(e))
    BY DEF StreamIsPackets
  <2>1. WireOK(sent[e], starts[e], Wire(e), wr[e].queue)
    BY DEF WireInv
  <2>2. Wire(e) \in Seq(Byte) /\ Len(starts[e]) \in Nat
    BY WireType, Typed DEF TypeInv
  <2>3. Len(Wire(e)) = 0 => Wire(e) = <<>>
    BY <2>2
  <2>4. Taken(e) + Len(wr[e].queue) = Len(sent[e])
    BY <2>1 DEF WireOK, Taken
  <2>5. \A k \in 1 .. Taken(e) : PacketInPlace(e, k)
    BY <2>1 DEF WireOK, Taken, PacketInPlace
  <2>6. \A k \in 1 .. Taken(e) - 1 : starts[e][k + 1] = NextStart(e, k)
    BY <2>1 DEF WireOK, Taken, NextStart
  <2>7. CASE Taken(e) = 0
    BY <2>1, <2>3, <2>4, <2>5, <2>6, <2>7 DEF WireOK, Taken
  <2>8. CASE Taken(e) # 0
    <3>1. Len(starts[e]) > 0
      BY <2>2, <2>8 DEF Taken
    <3>2. starts[e][1] = 0 /\ Len(Wire(e)) = NextStart(e, Taken(e))
      BY <2>1, <3>1 DEF WireOK, Taken, NextStart
    <3> QED
      BY <2>4, <2>5, <2>6, <2>8, <3>2
  <2> QED
    BY <2>7, <2>8
<1> QED
  BY <1>3, <1>4, TypeInit, WriteInit, WireInit, PTL DEF Spec


-----------------------------------------------------------------------------
(* Header-only traffic is delivered in order.                               *)

\* The packet of a message without a body.
LEMMA HeaderPacket ==
    ASSUME NEW m \in Message, m.body = <<>>
    PROVE  /\ Len(Packet(m)) = HeaderSize
           /\ Packet(m)[1] = 0 /\ Packet(m)[2] = 0
           /\ Packet(m)[3] = 0 /\ Packet(m)[4] = 0
           /\ Packet(m)[5] = m.type /\ Packet(m)[6] = m.ttl
<1>1. Len(m.body) = 0
  OBVIOUS
<1>2. Header(0, m.type, m.ttl) = <<0, 0, 0, 0, m.type, m.ttl>>
  BY DEF Header
<1>3. <<0, 0, 0, 0, m.type, m.ttl>> \o <<>> = <<0, 0, 0, 0, m.type, m.ttl>>
  OBVIOUS
<1>4. Packet(m) = <<0, 0, 0, 0, m.type, m.ttl>>
  BY <1>1, <1>2, <1>3 DEF Packet
<1> QED
  BY <1>4 DEF HeaderSize

\* All that is known of a reachable state when traffic is header-only.
LinkInv == /\ TypeInv /\ WriteInv /\ BufferIsWindow /\ WireInv
           /\ DeliveryInv /\ InOrderDelivery

\* The wire of an end is six bytes per packet taken.
LEMMA WireLength ==
    ASSUME LinkInv, NEW o \in End
    PROVE  Len(Wire(o)) = HeaderSize * Len(starts[o])
<1> USE DEF LinkInv
<1> DEFINE T == Len(starts[o])
<1>1. WireOK(sent[o], starts[o], Wire(o), wr[o].queue)
  BY DEF WireInv
<1>2. /\ T \in Nat /\ sent[o] \in Seq(Message) /\ Len(sent[o]) \in Nat
      /\ Len(wr[o].queue) \in Nat
  BY Typed DEF TypeInv
<1>3. CASE T = 0
  BY <1>1, <1>3 DEF WireOK, HeaderSize
<1>4. CASE T # 0
  <2>1. T \in 1 .. T /\ T > 0
    BY <1>2, <1>4
  <2>2. Len(Wire(o)) = starts[o][T] + Len(Packet(sent[o][T]))
    BY <1>1, <2>1 DEF WireOK
  <2>3. T + Len(wr[o].queue) = Len(sent[o])
    BY <1>1 DEF WireOK
  <2>4. starts[o][T] = HeaderSize * (T - 1)
    BY <2>1 DEF DeliveryInv
  <2>5. sent[o][T] \in Message /\ sent[o][T].body = <<>>
    <3> HIDE DEF T
    <3>1. T \in 1 .. Len(sent[o])
      BY <1>2, <2>1, <2>3
    <3> QED
      BY <1>2, <3>1 DEF DeliveryInv
  <2>6. Len(Packet(sent[o][T])) = HeaderSize
    BY <2>5, HeaderPacket
  <2> HIDE DEF T
  <2>7. Len(Wire(o)) = HeaderSize * T
    BY <1>2, <2>2, <2>4, <2>6 DEF HeaderSize
  <2> QED
    BY <2>7 DEF T
<1> QED
  BY <1>3, <1>4

\* A full header in the buffer of e is the next packet of the other end.
LEMMA NextPacket ==
    ASSUME LinkInv, NEW e \in End, Iterating(e), Len(Filled(e)) = HeaderSize
    PROVE  LET h == Len(handled[e]) + 1  o == Other(e)
           IN  /\ h \in 1 .. Len(sent[o])
               /\ SizeOf(Filled(e)) = 0
               /\ EmptyMsg(Filled(e)) = sent[o][h]
<1> USE DEF LinkInv
<1> DEFINE r == rd[e]
           n == Remaining(rd[e])
           f == Filled(e)
           o == Other(e)
           g == Len(handled[e])
           z == stream[o]
           l == Len(r.buffer)
           T == Len(starts[o])
<1>1. o \in End
  BY OtherEnd
<1>2. /\ n \in Nat /\ r.ptr + n <= r.end /\ f \in Seq(Byte)
      /\ l + n = HeaderSize
  BY FilledWindow DEF TypeInv
<1>3. /\ r.ptr \in Nat /\ r.end \in Nat /\ l \in Nat /\ g \in Nat
      /\ z \in Seq(Byte) /\ Len(z) \in Nat /\ T \in Nat
  BY <1>1, Typed DEF TypeInv
<1>4. r.ptr = HeaderSize * g + l
  BY DEF Iterating, DeliveryInv
<1>5. r.end <= Len(z)
  BY DEF BufferIsWindow
<1>6. \A j \in 1 .. HeaderSize : f[j] = z[HeaderSize * g + j]
  <2> DEFINE a == Advance(e, f, 0, "parsing")
  <2>1. WindowOK(r, z)
    BY DEF BufferIsWindow, WindowOK
  <2>2. WindowOK(a, z)
    BY <2>1, FilledIsWindow
  <2>3. a.buffer = f /\ a.ptr = r.ptr + n
    BY DEF Advance
  <2> HIDE DEF a
  <2>4. \A j \in 1 .. HeaderSize : f[j] = z[(r.ptr + n) - HeaderSize + j]
    BY <2>2, <2>3 DEF WindowOK
  <2> HIDE DEF n, g, z, f, l
  <2>5. (r.ptr + n) - HeaderSize = HeaderSize * g
    BY <1>2, <1>3, <1>4 DEF HeaderSize
  <2> QED
    BY <2>4, <2>5
<1>7. WireOK(sent[o], starts[o], Wire(o), wr[o].queue)
  BY <1>1 DEF WireInv
<1>8. \A k \in 1 .. T : /\ starts[o][k] = HeaderSize * (k - 1)
                        /\ k \in 1 .. Len(sent[o])
                        /\ sent[o][k] \in Message /\ sent[o][k].body = <<>>
  <2>1. sent[o] \in Seq(Message) /\ Len(sent[o]) \in Nat /\ Len(wr[o].queue) \in Nat
    BY <1>1, Typed DEF TypeInv
  <2>2. T + Len(wr[o].queue) = Len(sent[o])
    BY <1>7 DEF WireOK
  <2>3. \A k \in 1 .. T : k \in 1 .. Len(sent[o])
    <3> HIDE DEF T
    <3> QED
      BY <1>3, <2>1, <2>2
  <2>4. \A k \in 1 .. Len(sent[o]) : sent[o][k] \in Message /\ sent[o][k].body = <<>>
    BY <1>1, <2>1 DEF DeliveryInv
  <2>5. \A k \in 1 .. T : starts[o][k] = HeaderSize * (k - 1)
    BY <1>1 DEF DeliveryInv
  <2> QED
    BY <2>3, <2>4, <2>5
<1>9. Len(Wire(o)) >= Len(z) /\ \A j \in 1 .. Len(z) : Wire(o)[j] = z[j]
  <2> DEFINE b == wr[o].buffer
             c == SubSeq(b, wr[o].flushed + 1, Len(b))
  <2>1. b \in Seq(Byte) /\ wr[o].flushed \in Nat
    BY <1>1, Typed DEF TypeInv
  <2>2. c \in Seq(Byte)
    BY <2>1
  <2>3. Wire(o) = z \o c
    BY DEF Wire
  <2> HIDE DEF c, z
  <2> QED
    BY <1>3, <2>2, <2>3, Concat
<1>10. Len(Wire(o)) = HeaderSize * T
  BY <1>1, WireLength
<1>11. g + 1 \in 1 .. T
  <2>1. Len(Wire(o)) \in Nat
    BY <1>1, WireType
  <2> HIDE DEF T, g, z, l, n
  <2>2. HeaderSize * g + HeaderSize <= Len(z)
    BY <1>2, <1>3, <1>4, <1>5 DEF HeaderSize
  <2>3. HeaderSize * g + HeaderSize <= HeaderSize * T
    BY <1>3, <1>9, <1>10, <2>1, <2>2 DEF HeaderSize
  <2> QED
    BY <1>3, <2>3 DEF HeaderSize
<1> DEFINE m == sent[o][g + 1]
<1>12. m \in Message /\ m.body = <<>> /\ starts[o][g + 1] = HeaderSize * g
  <2>1. (g + 1) - 1 = g
    BY <1>3
  <2> QED
    BY <1>8, <1>11, <2>1
<1>13. \A j \in 1 .. HeaderSize : Wire(o)[HeaderSize * g + j] = Packet(m)[j]
  <2>1. Len(Packet(m)) = HeaderSize
    BY <1>12, HeaderPacket
  <2>2. \A j \in 1 .. Len(Packet(m)) : Wire(o)[starts[o][g + 1] + j] = Packet(m)[j]
    BY <1>7, <1>11 DEF WireOK
  <2> QED
    BY <1>12, <2>1, <2>2
<1>14. \A j \in 1 .. HeaderSize : f[j] = Packet(m)[j]
  <2> HIDE DEF g, z, l, n, f, m
  <2>1. \A j \in 1 .. HeaderSize : HeaderSize * g + j \in 1 .. Len(z)
    BY <1>2, <1>3, <1>4, <1>5 DEF HeaderSize
  <2> QED
    BY <1>6, <1>9, <1>13, <2>1
<1>15. /\ f[1] = 0 /\ f[2] = 0 /\ f[3] = 0 /\ f[4] = 0
       /\ f[5] = m.type /\ f[6] = m.ttl
  <2> HIDE DEF m, f
  <2>1. \A j \in {1, 2, 3, 4, 5, 6} : f[j] = Packet(m)[j]
    BY <1>14 DEF HeaderSize
  <2> QED
    BY <1>12, <2>1, HeaderPacket
<1>16. SizeOf(f) = 0
  <2> HIDE DEF f
  <2> QED
    BY <1>15 DEF SizeOf
<1>17. EmptyMsg(f) = m
  <2> HIDE DEF f, m
  <2>1. EmptyMsg(f) = [type |-> m.type, ttl |-> m.ttl, body |-> m.body]
    BY <1>12, <1>15 DEF EmptyMsg
  <2>2. m = [type |-> m.type, ttl |-> m.ttl, body |-> m.body]
    BY <1>12 DEF Message
  <2> QED
    BY <2>1, <2>2
<1> QED
  BY <1>8, <1>11, <1>16, <1>17


\* The parts of DeliveryInv.
BodyLess(q) == \A k \in 1 .. Len(q) : q[k].body = <<>>
Spaced(st) == \A k \in 1 .. Len(st) : st[k] = HeaderSize * (k - 1)
InPlace(r, h) ==
    /\ r.total = HeaderSize
    /\ r.state # "stopped" => /\ Len(r.buffer) < HeaderSize
                              /\ r.ptr = HeaderSize * Len(h) + Len(r.buffer)
Agree(h, s) == /\ Len(h) <= Len(s)
               /\ \A k \in 1 .. Len(h) : h[k] = hop(s[k])

\* One more message without a body.
LEMMA BodyLessAppend ==
    ASSUME NEW q \in Seq(Message), NEW m \in Message, m.body = <<>>, BodyLess(q)
    PROVE  BodyLess(Append(q, m))
<1> DEFINE Q == Append(q, m)
<1>1. /\ Len(Q) = Len(q) + 1 /\ Q[Len(q) + 1] = m /\ Len(q) \in Nat
      /\ \A k \in 1 .. Len(q) : Q[k] = q[k]
  OBVIOUS
<1> HIDE DEF Q
<1>2. \A k \in 1 .. Len(Q) : k = Len(q) + 1 \/ k \in 1 .. Len(q)
  BY <1>1
<1>3. \A k \in 1 .. Len(Q) : Q[k].body = <<>>
  BY <1>1, <1>2 DEF BodyLess
<1> QED
  BY <1>3 DEF BodyLess, Q

\* One more packet of a header's size.
LEMMA SpacedAppend ==
    ASSUME NEW st \in Seq(Nat), NEW n \in Nat, n = HeaderSize * Len(st), Spaced(st)
    PROVE  Spaced(Append(st, n))
<1> DEFINE T == Append(st, n)
           l == Len(st)
<1>1. /\ Len(T) = l + 1 /\ T[l + 1] = n /\ l \in Nat
      /\ \A k \in 1 .. l : T[k] = st[k]
  OBVIOUS
<1>2. n = HeaderSize * l /\ \A k \in 1 .. l : st[k] = HeaderSize * (k - 1)
  BY DEF Spaced
<1> HIDE DEF T, l
<1>3. ASSUME NEW k \in 1 .. l + 1 PROVE T[k] = HeaderSize * (k - 1)
  <2>1. CASE k = l + 1
    <3>1. k - 1 = l
      BY <1>1, <2>1
    <3> QED
      BY <1>1, <1>2, <2>1, <3>1
  <2>2. CASE k # l + 1
    <3>1. k \in 1 .. l
      BY <1>1, <2>2
    <3> QED
      BY <1>1, <1>2, <3>1
  <2> QED
    BY <2>1, <2>2
<1>4. \A k \in 1 .. Len(T) : T[k] = HeaderSize * (k - 1)
  BY <1>1, <1>3
<1> QED
  BY <1>4 DEF Spaced, T

\* More sent messages leave the delivered ones in agreement.
LEMMA AgreeSent ==
    ASSUME NEW h \in Seq(Delivered), NEW s \in Seq(Message), NEW m \in Message,
           Agree(h, s)
    PROVE  Agree(h, Append(s, m))
<1> DEFINE S == Append(s, m)
           lh == Len(h)
           ls == Len(s)
<1>1. /\ Len(S) = ls + 1 /\ ls \in Nat /\ lh \in Nat
      /\ \A k \in 1 .. ls : S[k] = s[k]
  OBVIOUS
<1>2. lh <= ls /\ \A k \in 1 .. lh : h[k] = hop(s[k])
  BY DEF Agree
<1> HIDE DEF S, lh, ls
<1>3. lh <= ls + 1 /\ \A k \in 1 .. lh : k \in 1 .. ls
  BY <1>1, <1>2
<1>4. lh <= Len(S) /\ \A k \in 1 .. lh : h[k] = hop(S[k])
  BY <1>1, <1>2, <1>3
<1> QED
  BY <1>4 DEF Agree, S, lh

\* Handling the next message keeps the agreement.
LEMMA AgreeHandled ==
    ASSUME NEW h \in Seq(Delivered), NEW s \in Seq(Message), Agree(h, s),
           Len(h) + 1 \in 1 .. Len(s), NEW d \in Delivered,
           d = hop(s[Len(h) + 1])
    PROVE  Agree(Append(h, d), s)
<1> DEFINE H == Append(h, d)
           lh == Len(h)
           ls == Len(s)
<1>1. /\ Len(H) = lh + 1 /\ ls \in Nat /\ lh \in Nat /\ H[lh + 1] = d
      /\ \A k \in 1 .. lh : H[k] = h[k]
  OBVIOUS
<1>2. /\ \A k \in 1 .. lh : h[k] = hop(s[k])
      /\ lh + 1 \in 1 .. ls /\ d = hop(s[lh + 1])
  BY DEF Agree
<1> HIDE DEF H, lh, ls
<1>3. ASSUME NEW k \in 1 .. lh + 1 PROVE H[k] = hop(s[k])
  <2>1. CASE k = lh + 1
    BY <1>1, <1>2, <2>1
  <2>2. CASE k # lh + 1
    <3>1. k \in 1 .. lh
      BY <1>1, <2>2
    <3> QED
      BY <1>1, <1>2, <3>1
  <2> QED
    BY <2>1, <2>2
<1>4. lh + 1 <= ls
  BY <1>1, <1>2
<1>5. Len(H) <= ls /\ \A k \in 1 .. Len(H) : H[k] = hop(s[k])
  BY <1>1, <1>3, <1>4
<1> QED
  BY <1>5 DEF Agree, H, ls

\* A packet taken off the queue begins where the packets before it end.
LEMMA WriteFromSpaced ==
    ASSUME LinkInv, NEW e \in End, NEW w, WriteFrom(e, w),
           ~w.sending => wr[e].flushed = Len(wr[e].buffer)
    PROVE  Spaced(starts'[e]) /\ \A d \in End \ {e} : starts'[d] = starts[d]
<1> USE DEF LinkInv
<1>1. starts[e] \in Seq(Nat) /\ Len(stream[e]) \in Nat
  BY Typed DEF TypeInv
<1>2. Spaced(starts[e])
  BY DEF DeliveryInv, Spaced
<1>3. CASE Takes(w)
  <2>1. wr[e].flushed = Len(wr[e].buffer)
    BY <1>3 DEF Takes
  <2>2. Wire(e) = stream[e]
    BY <2>1, WireType
  <2>3. Len(stream[e]) = HeaderSize * Len(starts[e])
    BY <2>2, WireLength
  <2>4. starts' = [starts EXCEPT ![e] = Append(@, Len(stream[e]))]
    BY <1>3 DEF WriteFrom
  <2> QED
    BY <1>1, <1>2, <2>3, <2>4, SpacedAppend DEF TypeInv, TypeOK
<1>4. CASE ~Takes(w)
  BY <1>2, <1>4 DEF WriteFrom
<1> QED
  BY <1>3, <1>4

\* A send in the strand, by a caller or as the answer to a PING.
LEMMA SendDelivery ==
    ASSUME LinkInv, NEW e \in End, NEW m \in Message, m.body = <<>>,
           SendInStrand(e, m), UNCHANGED stream
    PROVE  /\ \A d \in End : BodyLess(sent'[d]) /\ Spaced(starts'[d])
           /\ \A h \in Seq(Delivered) : \A d \in End :
                Agree(h, sent[d]) => Agree(h, sent'[d])
<1> USE DEF LinkInv
<1>1. /\ sent[e] \in Seq(Message) /\ starts[e] \in Seq(Nat)
      /\ stream[e] \in Seq(Byte) /\ Len(stream[e]) \in Nat
  BY Typed DEF TypeInv
<1>2. \A d \in End : BodyLess(sent[d]) /\ Spaced(starts[d])
  BY DEF DeliveryInv, BodyLess, Spaced
<1>3. sent'[e] = Append(sent[e], m) /\ \A d \in End \ {e} : sent'[d] = sent[d]
  BY DEF SendInStrand, TypeInv, TypeOK
<1>4. BodyLess(sent'[e])
  BY <1>1, <1>2, <1>3, BodyLessAppend
<1>5. Spaced(starts'[e]) /\ \A d \in End \ {e} : starts'[d] = starts[d]
  <2> DEFINE w == [wr[e] EXCEPT !.queue = Append(@, m)]
  <2>1. WriteFrom(e, w)
    BY DEF SendInStrand
  <2>2. w.sending = wr[e].sending
    BY Typed DEF TypeInv, WriteSide
  <2>3. ~w.sending => wr[e].flushed = Len(wr[e].buffer)
    BY <2>2 DEF WriteInv
  <2> HIDE DEF w
  <2> QED
    BY <2>1, <2>3, WriteFromSpaced
<1>6. \A h \in Seq(Delivered) : Agree(h, sent[e]) => Agree(h, sent'[e])
  BY <1>1, <1>3, AgreeSent
<1> QED
  BY <1>2, <1>3, <1>4, <1>5, <1>6


\* While a header is awaited, no iteration takes more than what it lacks.
LEMMA HeaderRemaining ==
    ASSUME NEW r, r.ptr \in Nat, r.end \in Nat, Len(r.buffer) \in Nat,
           r.total = HeaderSize, Len(r.buffer) < HeaderSize
    PROVE  Remaining(r) <= HeaderSize - Len(r.buffer)
<1> DEFINE l == Len(r.buffer)
           p == r.ptr
           q == r.end
<1>1. Remaining(r) = IF l <= 6 /\ 6 - l <= q - p THEN 6 - l ELSE q - p
  BY DEF Remaining, HeaderSize
<1>2. l \in Nat /\ p \in Nat /\ q \in Nat /\ l < 6
  BY DEF HeaderSize
<1> HIDE DEF l, p, q
<1>3. (IF l <= 6 /\ 6 - l <= q - p THEN 6 - l ELSE q - p) <= 6 - l
  BY <1>2
<1> QED
  BY <1>1, <1>3 DEF HeaderSize, l

\* Every step of header-only traffic keeps the reader at its place, and what it
\* has handled in order.
LEMMA DeliveryStep ==
    ASSUME HeaderOnly, LinkInv, [Next]_vars
    PROVE  DeliveryInv' /\ InOrderDelivery'
<1> USE DEF LinkInv
<1>1. \A e \in End : /\ BodyLess(strand[e]) /\ BodyLess(sent[e])
                     /\ Spaced(starts[e]) /\ InPlace(rd[e], handled[e])
                     /\ Agree(handled[e], sent[Other(e)])
  BY DEF DeliveryInv, InOrderDelivery, BodyLess, Spaced, InPlace, Agree
<1> DEFINE Strand == \A e \in End : BodyLess(strand'[e])
           Sent == \A e \in End : BodyLess(sent'[e]) /\ Spaced(starts'[e])
           Read == \A e \in End : InPlace(rd'[e], handled'[e])
           Order == \A e \in End : Agree(handled'[e], sent'[Other(e)])
<1>2. SUFFICES Strand /\ Sent /\ Read /\ Order
  BY DEF DeliveryInv, InOrderDelivery, BodyLess, Spaced, InPlace, Agree
<1>3. /\ strand' = strand => Strand
      /\ sent' = sent /\ starts' = starts => Sent
      /\ rd' = rd /\ handled' = handled => Read
      /\ handled' = handled /\ sent' = sent => Order
  BY <1>1
<1> HIDE DEF Strand, Sent, Read, Order
<1> DEFINE Goal == Strand /\ Sent /\ Read /\ Order
\* The read loop changes state without touching its buffer.
<1>4. ASSUME NEW e \in End, NEW t, rd'[e].ptr = rd[e].ptr,
             rd'[e].buffer = rd[e].buffer, rd'[e].total = rd[e].total,
             rd'[e].state = t, t # "stopped" => rd[e].state # "stopped",
             \A d \in End \ {e} : rd'[d] = rd[d], handled' = handled
      PROVE  Read
  BY <1>1, <1>4 DEF Read, InPlace
<1>5. ASSUME NEW e \in End, NEW m \in AppMsgs, Send(e, m) PROVE Goal
  <2>1. m \in Message /\ m.body = <<>> /\ strand[e] \in Seq(Message)
    BY Typed, MsgAssumption DEF HeaderOnly, TypeInv
  <2>2. BodyLess(Append(strand[e], m))
    BY <1>1, <2>1, BodyLessAppend
  <2>3. Strand
    BY <1>1, <1>5, <2>2 DEF Send, Strand, TypeInv, TypeOK
  <2> QED
    BY <1>3, <1>5, <2>3 DEF Send
<1>6. ASSUME NEW e \in End, RunSend(e) PROVE Goal
  <2> DEFINE q == strand[e]
  <2>1. q \in Seq(Message) /\ q # <<>>
    BY <1>6, Typed DEF RunSend, TypeInv
  <2>2. /\ Head(q) = q[1] /\ Head(q) \in Message /\ Len(q) \in Nat \ {0}
        /\ Len(Tail(q)) = Len(q) - 1
        /\ \A j \in 1 .. Len(q) - 1 : Tail(q)[j] = q[j + 1]
    BY <2>1, HeadTail
  <2>3. \A j \in 1 .. Len(q) : q[j].body = <<>>
    BY <1>1 DEF BodyLess
  <2>4. Head(q).body = <<>>
    BY <2>2, <2>3
  <2>5. BodyLess(Tail(q))
    <3> DEFINE l == Len(q)
               t == Tail(q)
    <3>1. l \in Nat /\ Len(t) = l - 1 /\ \A j \in 1 .. l - 1 : t[j] = q[j + 1]
      BY <2>2
    <3>2. \A j \in 1 .. l : q[j].body = <<>>
      BY <2>3
    <3> HIDE DEF l, t
    <3>3. \A j \in 1 .. l - 1 : j + 1 \in 1 .. l
      BY <3>1
    <3>4. \A j \in 1 .. Len(t) : t[j].body = <<>>
      BY <3>1, <3>2, <3>3
    <3> QED
      BY <3>4 DEF BodyLess, t
  <2>6. Strand
    BY <1>1, <1>6, <2>5 DEF RunSend, Strand, TypeInv, TypeOK
  <2>7. SendInStrand(e, Head(q)) /\ UNCHANGED <<stream, rd, handled>>
    BY <1>6 DEF RunSend
  <2>8. Sent
    BY <2>2, <2>4, <2>7, SendDelivery DEF Sent
  <2>9. Order
    <3>1. \A d \in End : handled[d] \in Seq(Delivered) /\ Other(d) \in End
      BY Typed, OtherEnd DEF TypeInv
    <3> QED
      BY <1>1, <2>2, <2>4, <2>7, <3>1, SendDelivery DEF Order
  <2> QED
    BY <1>3, <2>6, <2>7, <2>8, <2>9
<1>7. ASSUME NEW e \in End, WriteDone(e) PROVE Goal
  <2> DEFINE w == [wr[e] EXCEPT !.sending = FALSE, !.writing = FALSE]
  <2>1. WriteFrom(e, w) /\ wr[e].flushed = Len(wr[e].buffer)
        /\ UNCHANGED <<strand, rd, sent, handled>>
    BY <1>7 DEF WriteDone
  <2> HIDE DEF w
  <2>2. Sent
    BY <1>1, <2>1, WriteFromSpaced DEF Sent
  <2> QED
    BY <1>3, <2>1, <2>2
<1>8. ASSUME NEW e \in End, ReadSome(e) PROVE Goal
  <2>1. PICK k : rd' = [rd EXCEPT ![e] = [rd[e] EXCEPT !.state = "parsing",
                                                     !.end = rd[e].end + k]]
    BY <1>8 DEF ReadSome
  <2>2. /\ rd'[e].ptr = rd[e].ptr /\ rd'[e].buffer = rd[e].buffer
        /\ rd'[e].total = rd[e].total /\ rd'[e].state = "parsing"
        /\ \A d \in End \ {e} : rd'[d] = rd[d]
    BY <2>1, Typed DEF TypeInv, TypeOK, ReadSide
  <2>3. /\ rd[e].state # "stopped"
        /\ UNCHANGED <<strand, sent, starts, handled>>
    BY <1>8 DEF ReadSome
  <2> QED
    BY <1>3, <1>4, <2>2, <2>3
<1>9. ASSUME NEW e \in End, ReadFail(e) \/ ReceiveReturns(e) PROVE Goal
  <2>1. PICK t \in {"armed", "stopped"} : rd' = [rd EXCEPT ![e].state = t]
    BY <1>9 DEF ReadFail, ReceiveReturns
  <2>2. /\ rd'[e].ptr = rd[e].ptr /\ rd'[e].buffer = rd[e].buffer
        /\ rd'[e].total = rd[e].total /\ rd'[e].state = t
        /\ \A d \in End \ {e} : rd'[d] = rd[d]
    BY <2>1, Typed DEF TypeInv, TypeOK, ReadSide
  <2>3. /\ rd[e].state # "stopped"
        /\ UNCHANGED <<strand, sent, starts, handled>>
    BY <1>9 DEF ReadFail, ReceiveReturns
  <2> QED
    BY <1>3, <1>4, <2>2, <2>3
<1>10. ASSUME NEW e \in End, SendTooBig(e) PROVE Goal
  <2>1. /\ rd'[e].ptr = rd[e].ptr /\ rd'[e].buffer = rd[e].buffer
        /\ rd'[e].total = rd[e].total /\ rd'[e].state = "stopped"
        /\ \A d \in End \ {e} : rd'[d] = rd[d]
    BY <1>10, Typed DEF SendTooBig, TypeInv, TypeOK, ReadSide
  <2>2. UNCHANGED <<sent, starts, handled>>
    BY <1>10 DEF SendTooBig
  <2>3. BodyLess(<<>>)
    BY DEF BodyLess
  <2>4. Strand
    BY <1>1, <1>10, <2>3 DEF SendTooBig, Strand, TypeInv, TypeOK
  <2> QED
    BY <1>3, <1>4, <2>1, <2>2, <2>4
<1>11. ASSUME NEW e \in End, Accumulate(e) PROVE Goal
  <2> DEFINE r == rd[e]
             n == Remaining(rd[e])
             a == Advance(e, Filled(e), rd[e].total, "parsing")
             l == Len(r.buffer)
             g == Len(handled[e])
             f == Len(Filled(e))
  <2>1. /\ n \in Nat /\ f = l + n
    BY FilledWindow DEF TypeInv
  <2>2. r.ptr \in Nat /\ r.end \in Nat /\ l \in Nat /\ g \in Nat
    BY Typed DEF TypeInv
  <2>3. r.total = HeaderSize /\ l < HeaderSize /\ r.ptr = HeaderSize * g + l
    BY <1>1, <1>11 DEF InPlace, Accumulate, Iterating
  <2>4. f # HeaderSize
    BY <1>11 DEF Accumulate
  <2>5. /\ rd' = [rd EXCEPT ![e] = a]
        /\ UNCHANGED <<strand, sent, starts, handled>>
    BY <1>11 DEF Accumulate
  <2>6. a.total = r.total /\ a.ptr = r.ptr + n /\ Len(a.buffer) = f
    BY DEF Advance
  <2>7. n <= HeaderSize - l
    BY <2>2, <2>3, HeaderRemaining
  <2> HIDE DEF a, n, l, g, f
  <2>8. f < HeaderSize /\ r.ptr + n = HeaderSize * g + f
    BY <2>1, <2>2, <2>3, <2>4, <2>7 DEF HeaderSize
  <2>9. InPlace(a, handled[e])
    BY <2>3, <2>6, <2>8 DEF InPlace, g
  <2>10. Read
    BY <1>1, <2>5, <2>9 DEF Read, TypeInv, TypeOK
  <2> QED
    BY <1>3, <2>5, <2>10
\* A header that is complete announces no body.
<1>12. ASSUME NEW e \in End, TakeSize(e) \/ TooBig(e) PROVE Goal
  <2>1. Iterating(e) /\ Len(Filled(e)) = HeaderSize
    BY <1>12 DEF TakeSize, TooBig
  <2>2. SizeOf(Filled(e)) = 0
    BY <2>1, NextPacket
  <2>3. SizeOf(Filled(e)) \in 1 .. MaxPkt \/ SizeOf(Filled(e)) > MaxPkt
    BY <1>12 DEF TakeSize, TooBig
  <2> QED
    BY <2>2, <2>3, SizeAssumption
<1>13. ASSUME NEW e \in End, HandleBody(e) PROVE Goal
  BY <1>1, <1>13 DEF HandleBody, InPlace
<1>14. ASSUME NEW e \in End, HandleEmpty(e) PROVE Goal
  <2> DEFINE o == Other(e)
             h == handled[e]
             m == hop(EmptyMsg(Filled(e)))
             g == Len(h)
             n == Remaining(rd[e])
             l == Len(rd[e].buffer)
  <2>1. Iterating(e) /\ Len(Filled(e)) = HeaderSize /\ Handle(e, m)
    BY <1>14 DEF HandleEmpty
  <2>2. g + 1 \in 1 .. Len(sent[o]) /\ m = hop(sent[o][g + 1])
    BY <2>1, NextPacket
  <2>3. Filled(e) \in Seq(Byte) /\ n \in Nat /\ l + n = HeaderSize
    BY <2>1, FilledWindow DEF TypeInv
  <2>4. m \in Delivered
    <3>1. Len(Filled(e)) >= HeaderSize
      BY <2>1 DEF HeaderSize
    <3> QED
      BY <2>3, <3>1, ParsedType
  <2>5. /\ o \in End /\ h \in Seq(Delivered) /\ sent[o] \in Seq(Message)
        /\ g \in Nat /\ rd[e].ptr \in Nat /\ l \in Nat
        /\ \A d \in End : handled[d] \in Seq(Delivered) /\ Other(d) \in End
    BY OtherEnd, Typed DEF TypeInv
  <2>6. /\ handled'[e] = Append(h, m)
        /\ \A d \in End \ {e} : handled'[d] = handled[d]
        /\ UNCHANGED <<strand, stream>>
    BY <2>1 DEF Handle, TypeInv, TypeOK
  <2>7. Agree(Append(h, m), sent[o])
    BY <1>1, <2>2, <2>4, <2>5, AgreeHandled
  <2>8. \A d \in End : handled'[d] \in Seq(Delivered) /\ Agree(handled'[d], sent[Other(d)])
    <3>1. Append(h, m) \in Seq(Delivered)
      BY <2>4, <2>5
    <3> HIDE DEF m, h
    <3> QED
      BY <1>1, <2>5, <2>6, <2>7, <3>1
  <2>9. Sent /\ Order
    <3>1. Pong \in Message /\ Pong.body = <<>>
      BY DEF Pong, Message, MSG_TYPE_PONG, Byte
    <3>2. CASE SendInStrand(e, Pong)
      <4>1. /\ \A d \in End : BodyLess(sent'[d]) /\ Spaced(starts'[d])
            /\ \A x \in Seq(Delivered) : \A d \in End :
                 Agree(x, sent[d]) => Agree(x, sent'[d])
        BY <2>6, <3>1, <3>2, SendDelivery
      <4> QED
        BY <2>5, <2>8, <4>1 DEF Sent, Order
    <3>3. CASE UNCHANGED <<wr, sent, starts>>
      BY <1>3, <2>8, <3>3 DEF Order
    <3> QED
      BY <2>1, <3>2, <3>3 DEF Handle
  <2>10. InPlace(rd'[e], handled'[e]) /\ \A d \in End \ {e} : rd'[d] = rd[d]
    <3>1. rd[e].ptr = HeaderSize * g + l
      BY <1>1, <2>1 DEF InPlace, Iterating
    <3>2. Len(handled'[e]) = g + 1
      BY <2>4, <2>5, <2>6
    <3>3. ASSUME NEW t, rd' = [rd EXCEPT ![e] = Advance(e, <<>>, HeaderSize, t)]
          PROVE  InPlace(rd'[e], handled'[e])
                 /\ \A d \in End \ {e} : rd'[d] = rd[d]
      <4> DEFINE a == Advance(e, <<>>, HeaderSize, t)
      <4>1. a.total = HeaderSize /\ a.ptr = rd[e].ptr + n /\ Len(a.buffer) = 0
        BY DEF Advance
      <4>2. rd'[e] = a /\ \A d \in End \ {e} : rd'[d] = rd[d]
        BY <3>3 DEF TypeInv, TypeOK
      <4> HIDE DEF a, n, l, g
      <4>3. rd[e].ptr + n = HeaderSize * (g + 1) + 0 /\ 0 < HeaderSize
        BY <2>3, <2>5, <3>1 DEF HeaderSize
      <4> QED
        BY <3>2, <4>1, <4>2, <4>3 DEF InPlace
    <3>4. ASSUME rd' = [rd EXCEPT ![e] =
                          Advance(e, Filled(e), rd[e].total, "stopped")]
          PROVE  InPlace(rd'[e], handled'[e])
                 /\ \A d \in End \ {e} : rd'[d] = rd[d]
      <4> DEFINE a == Advance(e, Filled(e), rd[e].total, "stopped")
      <4>1. a.total = HeaderSize /\ a.state = "stopped"
        BY <1>1 DEF Advance, InPlace
      <4>2. rd'[e] = a /\ \A d \in End \ {e} : rd'[d] = rd[d]
        BY <3>4 DEF TypeInv, TypeOK
      <4> HIDE DEF a
      <4> QED
        BY <4>1, <4>2 DEF InPlace
    <3> QED
      BY <2>1, <3>3, <3>4 DEF Handle
  <2>11. Read
    BY <1>1, <2>6, <2>10 DEF Read
  <2> QED
    BY <1>3, <2>6, <2>9, <2>11
<1>15. CASE UNCHANGED <<strand, rd, sent, starts, handled>>
  BY <1>3, <1>15
<1> QED
  BY <1>5, <1>6, <1>7, <1>8, <1>9, <1>10, <1>11, <1>12, <1>13, <1>14, <1>15
     DEF Next, Step, Receive, Transmit, WriteFail, Destroy, Break, vars

\* A connection without traffic is in order.
LEMMA LinkInit == Init => LinkInv
<1> SUFFICES ASSUME Init PROVE LinkInv
  OBVIOUS
<1>1. TypeInv /\ WriteInv /\ BufferIsWindow /\ WireInv
  BY TypeInit, WriteInit, WindowInit, WireInit
<1>2. \A e \in End :
        /\ strand[e] = <<>> /\ sent[e] = <<>> /\ starts[e] = <<>>
        /\ handled[e] = <<>> /\ Other(e) \in End
        /\ rd[e].total = HeaderSize /\ rd[e].ptr = 0 /\ rd[e].buffer = <<>>
  BY OtherEnd DEF Init
<1>3. Len(<<>>) = 0 /\ HeaderSize * 0 + 0 = 0 /\ 0 < HeaderSize /\ 1 .. 0 = {}
  BY DEF HeaderSize
<1>4. DeliveryInv
  BY <1>2, <1>3, Zenon DEF DeliveryInv
<1>5. InOrderDelivery
  <2>1. 0 <= 0
    OBVIOUS
  <2> QED
    BY <1>2, <1>3, <2>1, Zenon DEF InOrderDelivery
<1> QED
  BY <1>1, <1>4, <1>5 DEF LinkInv

\* Every step of header-only traffic keeps all that is known.
LEMMA LinkStep == ASSUME HeaderOnly PROVE LinkInv /\ [Next]_vars => LinkInv'
<1> SUFFICES ASSUME LinkInv, [Next]_vars PROVE LinkInv'
  OBVIOUS
<1>1. DeliveryInv' /\ InOrderDelivery'
  BY DeliveryStep
<1> QED
  BY <1>1, TypeStep, WriteStep, WindowStep, WireStep DEF LinkInv

\* Without bodies, the messages handled at one end are the first ones sent by
\* the other, in order, whole and each once.
THEOREM HeaderTrafficInOrder == ASSUME HeaderOnly PROVE Spec => []InOrderDelivery
  BY LinkInit, LinkStep, PTL DEF Spec, LinkInv

----------------------------------------------------------------------------
(* The connection implements MessageChannel.                               *)

\* Only callers queue messages in the strand.
StrandInv == strand \in [End -> Seq(AppMsgs)]

\* Nothing is queued at first, and only callers' messages later.
LEMMA StrandInit == Init => StrandInv
<1>1. <<>> \in Seq(AppMsgs)
  OBVIOUS
<1> QED
  BY <1>1 DEF Init, StrandInv

\* Steps keep it so.
LEMMA StrandStep ==
    ASSUME StrandInv, [Next]_vars
    PROVE  StrandInv'
<1>1. ASSUME NEW e \in End, NEW m \in AppMsgs, Send(e, m) PROVE StrandInv'
  <2>1. Append(strand[e], m) \in Seq(AppMsgs)
    BY DEF StrandInv
  <2> QED
    BY <1>1, <2>1 DEF Send, StrandInv
<1>2. ASSUME NEW e \in End, RunSend(e) PROVE StrandInv'
  <2>1. strand[e] \in Seq(AppMsgs) /\ strand[e] # <<>>
    BY <1>2 DEF RunSend, StrandInv
  <2>2. Tail(strand[e]) \in Seq(AppMsgs)
    BY <2>1, HeadTail
  <2> QED
    BY <1>2, <2>2 DEF RunSend, StrandInv
<1>3. ASSUME NEW e \in End, SendTooBig(e) PROVE StrandInv'
  <2>1. <<>> \in Seq(AppMsgs)
    OBVIOUS
  <2> QED
    BY <1>3, <2>1 DEF SendTooBig, StrandInv
<1>4. CASE UNCHANGED strand
  BY <1>4 DEF StrandInv
<1> QED
  BY <1>1, <1>2, <1>3, <1>4
     DEF Next, Step, Receive, Transmit, WriteDone, WriteFail, ReadSome, ReadFail,
         Accumulate, TakeSize, TooBig, HandleEmpty, HandleBody, Handle,
         ReceiveReturns, Destroy, Break, vars

\* A message that enters at e, and nothing at the other end.
LEMMA EnterOne ==
    ASSUME TypeOK, NEW e \in End, NEW x, x = <<>> \/ \E m \in Message : x = <<m>>,
           sent' = [sent EXCEPT ![e] = @ \o x]
    PROVE  sent' = [d \in End |-> sent[d] \o [c \in End |-> IF c = e THEN x ELSE <<>>][d]]
<1>1. ASSUME NEW d \in End PROVE sent[d] \o <<>> = sent[d]
  BY ConcatEmptySeq DEF TypeOK
<1> QED
  BY <1>1 DEF TypeOK

\* A queued message that reaches the strand enters the channel.
LEMMA SendPuts ==
    ASSUME LinkInv, StrandInv, NEW e \in End, RunSend(e)
    PROVE  Channel!Next
<1>1. strand[e] \in Seq(AppMsgs) /\ strand[e] # <<>>
  BY DEF RunSend, StrandInv
<1>2. PICK m \in AppMsgs : m = Head(strand[e])
  BY <1>1, HeadTail
<1>3. m \in Message /\ sent[e] \in Seq(Message)
  BY MsgAssumption DEF LinkInv, TypeInv, TypeOK
<1>4. sent' = [sent EXCEPT ![e] = Append(sent[e], m)] /\ UNCHANGED handled
  BY <1>2 DEF RunSend, SendInStrand
<1>5. Append(sent[e], m) = sent[e] \o <<m>>
  BY <1>3
<1>6. PICK new : new = [c \in End |-> IF c = e THEN <<m>> ELSE <<>>]
  OBVIOUS
<1>7. sent' = [d \in End |-> sent[d] \o new[d]]
  BY <1>3, <1>4, <1>5, <1>6, EnterOne DEF LinkInv, TypeInv
<1>8. new \in Channel!Offer
  BY <1>6 DEF Channel!Offer
<1> QED
  BY <1>4, <1>7, <1>8 DEF Channel!Next, Channel!Put, Channel!Enter

\* A header that is complete is the channel's next message.
LEMMA HandleGets ==
    ASSUME LinkInv, NEW e \in End, HandleEmpty(e)
    PROVE  Channel!Next
<1>1. Iterating(e) /\ Len(Filled(e)) = HeaderSize /\ Handle(e, hop(EmptyMsg(Filled(e))))
  BY DEF HandleEmpty
<1>2. PICK k \in Nat : k = Len(handled[e]) + 1
  BY LenProperties DEF LinkInv, TypeInv, TypeOK
<1>3. PICK m : m = sent[Other(e)][k]
  OBVIOUS
<1>4. k \in 1 .. Len(sent[Other(e)]) /\ Handle(e, hop(m))
  BY <1>1, <1>2, <1>3, NextPacket
<1>5. m \in Message
  BY <1>3, <1>4, OtherEnd, ElementOfSeq DEF LinkInv, TypeInv, TypeOK
<1>6. handled' = [handled EXCEPT ![e] = Append(handled[e], hop(m))]
  BY <1>4 DEF Handle
<1>7. hop(m) = Channel!Aged(m) /\ hop(m).type = m.type
  <2>1. (m.ttl + 256) - 1 = m.ttl + 255
    <3>1. m.ttl \in 0 .. 255
      BY <1>5 DEF Message, Byte
    <3> QED
      BY <3>1
  <2>2. m = [type |-> m.type, ttl |-> m.ttl, body |-> m.body]
    BY <1>5 DEF Message
  <2> QED
    BY <2>1, <2>2 DEF hop, Channel!Aged
<1>8. PICK x : x = IF m.type = MSG_TYPE_PING THEN <<Pong>> ELSE <<>>
  OBVIOUS
<1>9. Pong \in Message
  BY DEF Pong, Message, MSG_TYPE_PONG, Byte
<1>10. sent' = [sent EXCEPT ![e] = @ \o x]
  <2>1. sent[e] \in Seq(Message)
    BY DEF LinkInv, TypeInv, TypeOK
  <2>2. CASE m.type = MSG_TYPE_PING
    <3>1. SendInStrand(e, Pong)
      BY <1>4, <1>7, <2>2 DEF Handle, MSG_TYPE_PING, MSG_TYPE_PONG
    <3>2. Append(sent[e], Pong) = sent[e] \o <<Pong>>
      BY <1>9, <2>1
    <3> QED
      BY <1>8, <2>2, <3>1, <3>2 DEF SendInStrand
  <2>3. CASE m.type # MSG_TYPE_PING
    <3>1. sent' = sent
      BY <1>4, <1>7, <2>3 DEF Handle
    <3>2. sent[e] \o <<>> = sent[e]
      BY <2>1, ConcatEmptySeq
    <3> QED
      BY <1>8, <2>3, <3>1, <3>2 DEF LinkInv, TypeInv, TypeOK
  <2> QED
    BY <2>2, <2>3
<1>11. PICK new : new = [c \in End |-> <<>>]
  OBVIOUS
<1>12. new \in Channel!Offer
  BY <1>11 DEF Channel!Offer
<1>13. sent' = [d \in End |-> sent[d] \o [c \in End |-> IF c = e THEN x ELSE <<>>][d]]
  <2>1. x = <<>> \/ \E a \in Message : x = <<a>>
    BY <1>8, <1>9
  <2>2. TypeOK /\ e \in End
    BY DEF LinkInv, TypeInv
  <2> QED
    BY ONLY <1>10, <2>1, <2>2, EnterOne
<1>14. [new EXCEPT ![e] = x] = [c \in End |-> IF c = e THEN x ELSE <<>>]
  BY <1>11
<1>15. Channel!Enter([new EXCEPT ![e] = x])
  BY <1>13, <1>14 DEF Channel!Enter
<1>16. Len(handled[e]) < Len(sent[Other(e)])
  <2>1. Len(handled[e]) \in Nat /\ Len(sent[Other(e)]) \in Nat
    BY OtherEnd, LenProperties DEF LinkInv, TypeInv, TypeOK
  <2> QED
    BY <1>2, <1>4, <2>1
<1>17. Channel!Peer(e) = Other(e)
  BY DEF Channel!Peer, Other
<1>18. Channel!Get(e)
  <2>1. sent[Channel!Peer(e)][Len(handled[e]) + 1] = m
    BY <1>2, <1>3, <1>17
  <2>2. \E nw \in Channel!Offer :
          Channel!Enter([nw EXCEPT ![e] = IF m.type = MSG_TYPE_PING THEN <<Pong>> ELSE <<>>])
    BY <1>8, <1>12, <1>15
  <2>3. handled' = [handled EXCEPT ![e] = Append(@, Channel!Aged(m))]
    BY <1>6, <1>7
  <2> HIDE DEF Pong
  <2> QED
    BY <1>16, <1>17, <2>1, <2>2, <2>3 DEF Channel!Get
<1> QED
  BY <1>18 DEF Channel!Next

\* Every step of header-only traffic is one of the channel, or none: neither
\* writes nor reads nor what is queued in strands shows.
LEMMA ChannelStep ==
    ASSUME HeaderOnly, LinkInv, StrandInv, [Next]_vars
    PROVE  [Channel!Next]_(Channel!vars)
<1>1. ASSUME NEW e \in End, HandleBody(e) PROVE FALSE
  BY <1>1 DEF HandleBody, LinkInv, DeliveryInv
<1>2. \/ \E e \in End : RunSend(e) \/ HandleEmpty(e) \/ HandleBody(e)
      \/ UNCHANGED <<sent, handled>>
  BY DEF Next, Step, Receive, Send, SendTooBig, Transmit, WriteDone, WriteFail,
         ReadSome, ReadFail, Accumulate, TakeSize, TooBig, ReceiveReturns, Destroy,
         Break, vars
<1>3. CASE UNCHANGED <<sent, handled>>
  BY <1>3 DEF Channel!vars
<1> QED
  BY <1>1, <1>2, <1>3, SendPuts, HandleGets

\* For messages without a body, whatever the kernel cuts and callers interleave,
\* the two peers implement the FIFO channel that answers PINGs.
THEOREM LinkIsChannel == ASSUME HeaderOnly PROVE Spec => ImplementsChannel
<1>1. Init => LinkInv /\ StrandInv /\ Channel!Init
  BY LinkInit, StrandInit DEF Init, Channel!Init
<1>2. LinkInv /\ StrandInv /\ [Next]_vars => LinkInv' /\ StrandInv'
  BY LinkStep, StrandStep
<1>3. LinkInv /\ StrandInv /\ [Next]_vars => [Channel!Next]_(Channel!vars)
  BY ChannelStep
<1> QED
  BY <1>1, <1>2, <1>3, PTL DEF Spec, ImplementsChannel, Channel!Spec

=============================================================================
