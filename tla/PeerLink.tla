------------------------------ MODULE PeerLink ------------------------------
(***************************************************************************)
(* One TCP connection between two peer objects (p2p-network/src/peer.cpp)  *)
(* and the framing that protocol.cpp puts on its byte stream.              *)
(*                                                                         *)
(* Every end runs its handlers in a strand, so the handlers of one end     *)
(* never overlap; the two ends, the kernel and the threads that call       *)
(* peer::send interleave freely.  protocol::receive is split at every      *)
(* iteration of its loop: the loop's end is a property, not an assumption. *)
(***************************************************************************)
EXTENDS Integers, Sequences

CONSTANTS
    End,            \* the two ends of the connection
    AppMsgs,        \* messages that callers pass to peer::send
    ProcessResults, \* what process_msg of the peer's class may do
    MaxPkt,         \* protocol::max_pkt_size_ (10240 in the code)
    ReadMax,        \* sizeof(recv_buffer_) (4096 in the code)
    Cuts,           \* sizes at which the kernel may cut a transfer short
    MaxMsgs,        \* bound: callers stop sending at end e after MaxMsgs[e] messages
    Junk            \* a byte read past the end of receive_buffer_

Byte == 0 .. 255
Message == [type : Byte, ttl : Byte, body : Seq(Byte)]

ASSUME EndAssumption == \E a, b \in End : a # b /\ End = {a, b}
ASSUME MsgAssumption == AppMsgs \subseteq Message
ASSUME ResultAssumption == ProcessResults \subseteq {"continue", "stop", "throw"}
ASSUME SizeAssumption == MaxPkt \in Nat /\ ReadMax \in Nat \ {0}
ASSUME BoundAssumption == MaxMsgs \in [End -> Nat]
ASSUME CutsAssumption == Cuts \subseteq Nat \ {0}
ASSUME JunkAssumption == Junk \notin Byte

VARIABLES
    strand,  \* peer::send closures waiting for the strand, oldest first
    wr,      \* write side: send_queue_, sending_, the async_write in flight,
             \* send_buffer_ and how much of it the kernel has taken
    stream,  \* every byte an end has put on the connection
    rd,      \* read side: the read loop's state, the part of the other end's
             \* stream in recv_buffer_ still to parse (ptr .. end),
             \* receive_buffer_ and recv_total_size_
    conn,    \* "up", or "reset" once the connection is gone
    alive,   \* the peer object of this end exists
    sent,    \* history: messages pushed on send_queue_
    starts,  \* history: where in the stream each packet begins
    handled  \* history: messages passed to the peer's message handler

vars == <<strand, wr, stream, rd, conn, alive, sent, starts, handled>>

Other(e) == CHOOSE d \in End : d # e

\* How many of n bytes one transfer may move: all of them or a shorter cut.
Transfer(n) == {k \in Cuts \cup {n} : 0 < k /\ k <= n}

----------------------------------------------------------------------------
(* Messages and packets.                                                   *)

MSG_TYPE_PING == 1
MSG_TYPE_PONG == 2
HeaderSize == 6     \* sizeof(message_header), packed

Pong == [type |-> MSG_TYPE_PONG, ttl |-> 1, body |-> <<>>]

\* Mutant of hop: the ttl is decremented in a wider type.
hop_Wide(m) == [type |-> m.type, ttl |-> m.ttl - 1, body |-> m.body]

\* ttl_-- on a uint8_t
hop(m) == [type |-> m.type, ttl |-> (m.ttl + 255) % 256, body |-> m.body]

\* The packed header: size_ as a little-endian uint32_t, type_ and ttl_.
Header(n, type, ttl) ==
    <<n % 256, (n \div 256) % 256, (n \div 65536) % 256,
      (n \div 16777216) % 256, type, ttl>>

\* size_ of a header in receive_buffer_.
SizeOf(b) == b[1] + 256 * b[2] + 65536 * b[3] + 16777216 * b[4]

\* protocol::get_packet: size_ counts the body, the header precedes it.
Packet(m) == Header(Len(m.body), m.type, m.ttl) \o m.body

\* Mutant of EmptyMsg: the header's last two fields are taken in the wrong order.
EmptyMsg_Swapped(buf) == [type |-> buf[6], ttl |-> buf[5], body |-> <<>>]

\* message(*header, nullptr)
EmptyMsg(buf) == [type |-> buf[5], ttl |-> buf[6], body |-> <<>>]

\* message(*header, buf + 6): size_ bytes are copied from offset 6, and
\* receive_buffer_ holds size_ bytes in all, so the copy ends 6 bytes past it.
BodyMsg(buf) == [type |-> buf[5], ttl |-> buf[6],
                 body |-> SubSeq(buf, HeaderSize + 1, Len(buf))
                            \o [j \in 1 .. HeaderSize |-> Junk]]

----------------------------------------------------------------------------
(* The write side.                                                         *)

\* Mutant of do_write: sending_ is not tested.
do_write_NoGuard(w) ==
    IF w.queue = <<>> THEN w
    ELSE [queue   |-> Tail(w.queue), sending |-> TRUE, writing |-> TRUE,
          buffer  |-> Packet(Head(w.queue)), flushed |-> 0]

\* Mutant of do_write: get_packet leaves the message on send_queue_.
do_write_NoPop(w) ==
    IF w.sending \/ w.queue = <<>> THEN w
    ELSE [queue   |-> w.queue, sending |-> TRUE, writing |-> TRUE,
          buffer  |-> Packet(Head(w.queue)), flushed |-> 0]

\* do_write for a write side w.  At most one async_write is in flight.
do_write(w) ==
    IF w.sending \/ w.queue = <<>> THEN w
    ELSE [queue   |-> Tail(w.queue), sending |-> TRUE, writing |-> TRUE,
          buffer  |-> Packet(Head(w.queue)), flushed |-> 0]

\* Whether do_write(w) takes a packet: used by the history variable only.
Takes(w) == ~w.sending /\ w.queue # <<>>

\* Install do_write(w) at e.
WriteFrom(e, w) ==
    /\ wr' = [wr EXCEPT ![e] = do_write(w)]
    /\ starts' = IF Takes(w)
                 THEN [starts EXCEPT ![e] = Append(@, Len(stream[e]))]
                 ELSE starts

\* protocol::send followed by do_write, in the strand.
SendInStrand(e, m) ==
    /\ sent' = [sent EXCEPT ![e] = Append(@, m)]
    /\ WriteFrom(e, [wr[e] EXCEPT !.queue = Append(@, m)])

\* Something still holds a shared_ptr to the peer: a pending completion
\* handler or a posted closure.  weak_ptr::lock fails otherwise.
Referenced(e) ==
    rd[e].state # "stopped" \/ wr[e].writing \/ strand[e] # <<>>

\* The strand of e runs no handler now.
StrandFree(e) == alive[e] /\ rd[e].state # "parsing"

\* peer::send from any thread: the message is copied into a closure that
\* strand_.dispatch queues (running it at once is the step RunSend next).
Send(e, m) ==
    /\ alive[e] /\ Referenced(e)
    /\ Len(sent[e]) + Len(strand[e]) < MaxMsgs[e]
    /\ strand' = [strand EXCEPT ![e] = Append(@, m)]
    /\ UNCHANGED <<wr, stream, rd, conn, alive, sent, starts, handled>>

\* The closure of peer::send.
RunSend(e) ==
    /\ StrandFree(e) /\ strand[e] # <<>>
    /\ Len(Head(strand[e]).body) <= MaxPkt
    /\ strand' = [strand EXCEPT ![e] = Tail(@)]
    /\ SendInStrand(e, Head(strand[e]))
    /\ UNCHANGED <<stream, rd, conn, alive, handled>>

\* protocol::send throws in the closure; nothing between the strand and
\* io_service::run catches it, so the process of e ends.
SendTooBig(e) ==
    /\ StrandFree(e) /\ strand[e] # <<>>
    /\ Len(Head(strand[e]).body) > MaxPkt
    /\ strand' = [strand EXCEPT ![e] = <<>>]
    /\ wr' = [wr EXCEPT ![e].writing = FALSE]
    /\ rd' = [rd EXCEPT ![e].state = "stopped"]
    /\ alive' = [alive EXCEPT ![e] = FALSE]
    /\ conn' = "reset"
    /\ UNCHANGED <<stream, sent, starts, handled>>

\* The kernel takes the next bytes of the async_write in flight.
Transmit(e) ==
    /\ alive[e] /\ wr[e].writing
    /\ \E k \in Transfer(Len(wr[e].buffer) - wr[e].flushed) :
        /\ stream' = [stream EXCEPT ![e] = @ \o
              SubSeq(wr[e].buffer, wr[e].flushed + 1, wr[e].flushed + k)]
        /\ wr' = [wr EXCEPT ![e].flushed = wr[e].flushed + k]
    /\ UNCHANGED <<strand, rd, conn, alive, sent, starts, handled>>

\* Mutant of WriteDone: the completion handler does not call do_write.
WriteDone_NoNext(e) ==
    /\ StrandFree(e) /\ wr[e].writing
    /\ wr[e].flushed = Len(wr[e].buffer)
    /\ wr' = [wr EXCEPT ![e].sending = FALSE, ![e].writing = FALSE]
    /\ UNCHANGED <<strand, stream, rd, conn, alive, sent, starts, handled>>

\* The completion handler of async_write without an error.
WriteDone(e) ==
    /\ StrandFree(e) /\ wr[e].writing
    /\ wr[e].flushed = Len(wr[e].buffer)
    /\ WriteFrom(e, [wr[e] EXCEPT !.sending = FALSE, !.writing = FALSE])
    /\ UNCHANGED <<strand, stream, rd, conn, alive, sent, handled>>

\* ... and with one: it is logged, and sending_ stays TRUE for good.
WriteFail(e) ==
    /\ StrandFree(e) /\ wr[e].writing /\ conn = "reset"
    /\ wr' = [wr EXCEPT ![e].writing = FALSE]
    /\ UNCHANGED <<strand, stream, rd, conn, alive, sent, starts, handled>>

----------------------------------------------------------------------------
(* The read side.                                                          *)

\* Bytes of the other end's stream that have not been read.
Unread(e) == Len(stream[Other(e)]) - rd[e].end

\* async_read_some completes with some bytes; the handler calls receive.
ReadSome(e) ==
    /\ alive[e] /\ rd[e].state = "armed"
    /\ \E k \in Transfer(IF Unread(e) > ReadMax THEN ReadMax ELSE Unread(e)) :
        rd' = [rd EXCEPT ![e] = [@ EXCEPT !.state = "parsing",
                                          !.end = rd[e].end + k]]
    /\ UNCHANGED <<strand, wr, stream, conn, alive, sent, starts, handled>>

\* ... or with an error: do_read is not called again.
ReadFail(e) ==
    /\ alive[e] /\ rd[e].state = "armed" /\ conn = "reset"
    /\ rd' = [rd EXCEPT ![e].state = "stopped"]
    /\ UNCHANGED <<strand, wr, stream, conn, alive, sent, starts, handled>>

\* Mutant of Remaining: the difference is signed.
Remaining_Signed(r) ==
    IF r.total - Len(r.buffer) <= r.end - r.ptr
    THEN r.total - Len(r.buffer)
    ELSE r.end - r.ptr

\* Mutant of Remaining: one byte short.
Remaining_OffByOne(r) ==
    IF /\ Len(r.buffer) < r.total
       /\ r.total - Len(r.buffer) - 1 <= r.end - r.ptr
    THEN r.total - Len(r.buffer) - 1
    ELSE r.end - r.ptr

\* remaining_bytes after the clamp.  The size_t difference wraps when the
\* buffer is longer than the total, and then exceeds any available_bytes.
Remaining(r) ==
    IF /\ Len(r.buffer) <= r.total
       /\ r.total - Len(r.buffer) <= r.end - r.ptr
    THEN r.total - Len(r.buffer)
    ELSE r.end - r.ptr

\* Mutant of Filled: all available bytes are inserted.
Filled_All(e) ==
    rd[e].buffer \o SubSeq(stream[Other(e)], rd[e].ptr + 1, rd[e].end)

\* receive_buffer_ after the insert.
Filled(e) ==
    LET r == rd[e]
    IN  r.buffer \o SubSeq(stream[Other(e)], r.ptr + 1, r.ptr + Remaining(r))

\* The read side after an iteration that leaves buffer b, total t, state s.
Advance(e, b, t, s) ==
    [state |-> s, ptr |-> rd[e].ptr + Remaining(rd[e]), end |-> rd[e].end,
     buffer |-> b, total |-> t]

Iterating(e) == alive[e] /\ rd[e].state = "parsing" /\ rd[e].ptr # rd[e].end

\* Neither a header nor a message is complete yet.
Accumulate(e) ==
    /\ Iterating(e)
    /\ Len(Filled(e)) \notin {HeaderSize, rd[e].total}
    /\ rd' = [rd EXCEPT ![e] = Advance(e, Filled(e), rd[e].total, "parsing")]
    /\ UNCHANGED <<strand, wr, stream, conn, alive, sent, starts, handled>>

\* A header announcing a body: recv_total_size_ becomes the body's size.
TakeSize(e) ==
    /\ Iterating(e)
    /\ Len(Filled(e)) = HeaderSize
    /\ SizeOf(Filled(e)) \in 1 .. MaxPkt
    /\ rd' = [rd EXCEPT ![e] =
                Advance(e, Filled(e), SizeOf(Filled(e)), "parsing")]
    /\ UNCHANGED <<strand, wr, stream, conn, alive, sent, starts, handled>>

\* A header announcing too much: message_too_big, receive returns false.
TooBig(e) ==
    /\ Iterating(e)
    /\ Len(Filled(e)) = HeaderSize
    /\ SizeOf(Filled(e)) > MaxPkt
    /\ rd' = [rd EXCEPT ![e] = Advance(e, Filled(e), rd[e].total, "stopped")]
    /\ UNCHANGED <<strand, wr, stream, conn, alive, sent, starts, handled>>

\* The message handler of do_read and what receive does with its result.  A
\* PING is answered in the strand; relaying to other peers is their Send.
\* After a body recv_total_size_ is set back to the header's size; after an
\* empty message it is left alone, and is that already (see ReadInv).
Handle(e, m) ==
    LET Cleared(s) == Advance(e, <<>>, HeaderSize, s)
        Quiet == UNCHANGED <<wr, sent, starts>>
    IN  /\ handled' = [handled EXCEPT ![e] = Append(@, m)]
        /\ \/ /\ m.type = MSG_TYPE_PING
              /\ SendInStrand(e, Pong)
              /\ rd' = [rd EXCEPT ![e] = Cleared("parsing")]
           \/ /\ m.type = MSG_TYPE_PONG
              /\ rd' = [rd EXCEPT ![e] = Cleared("parsing")]
              /\ Quiet
           \/ /\ m.type \notin {MSG_TYPE_PING, MSG_TYPE_PONG}
              /\ Quiet
              /\ \/ /\ "continue" \in ProcessResults
                    /\ rd' = [rd EXCEPT ![e] = Cleared("parsing")]
                 \/ /\ "stop" \in ProcessResults
                    /\ rd' = [rd EXCEPT ![e] = Cleared("stopped")]
                 \/ /\ "throw" \in ProcessResults
                    /\ rd' = [rd EXCEPT ![e] =
                         Advance(e, Filled(e), rd[e].total, "stopped")]
        /\ UNCHANGED <<strand, stream, conn, alive>>

\* A header without a body is a whole message.
HandleEmpty(e) ==
    /\ Iterating(e)
    /\ Len(Filled(e)) = HeaderSize
    /\ SizeOf(Filled(e)) = 0
    /\ Handle(e, hop(EmptyMsg(Filled(e))))

\* receive_buffer_ has reached recv_total_size_.
HandleBody(e) ==
    /\ Iterating(e)
    /\ Len(Filled(e)) # HeaderSize
    /\ Len(Filled(e)) = rd[e].total
    /\ Handle(e, hop(BodyMsg(Filled(e))))

\* receive returns true and the handler calls do_read.
ReceiveReturns(e) ==
    /\ alive[e] /\ rd[e].state = "parsing" /\ rd[e].ptr = rd[e].end
    /\ rd' = [rd EXCEPT ![e].state = "armed"]
    /\ UNCHANGED <<strand, wr, stream, conn, alive, sent, starts, handled>>

Receive(e) ==
    \/ Accumulate(e) \/ TakeSize(e) \/ TooBig(e)
    \/ HandleEmpty(e) \/ HandleBody(e) \/ ReceiveReturns(e)

----------------------------------------------------------------------------
(* The connection.                                                         *)

\* The network or the operating system drops the connection.
Break ==
    /\ conn = "up"
    /\ conn' = "reset"
    /\ UNCHANGED <<strand, wr, stream, rd, alive, sent, starts, handled>>

\* The last shared_ptr goes away: ~peer closes the socket.
Destroy(e) ==
    /\ alive[e] /\ ~Referenced(e)
    /\ alive' = [alive EXCEPT ![e] = FALSE]
    /\ conn' = "reset"
    /\ UNCHANGED <<strand, wr, stream, rd, sent, starts, handled>>

Init ==
    /\ strand = [e \in End |-> <<>>]
    /\ wr = [e \in End |-> [queue |-> <<>>, sending |-> FALSE,
                            writing |-> FALSE, buffer |-> <<>>, flushed |-> 0]]
    /\ stream = [e \in End |-> <<>>]
    /\ rd = [e \in End |-> [state |-> "armed", ptr |-> 0, end |-> 0,
                            buffer |-> <<>>, total |-> HeaderSize]]
    /\ conn = "up"
    /\ alive = [e \in End |-> TRUE]
    /\ sent = [e \in End |-> <<>>]
    /\ starts = [e \in End |-> <<>>]
    /\ handled = [e \in End |-> <<>>]

Step(e) ==
    \/ \E m \in AppMsgs : Send(e, m)
    \/ RunSend(e) \/ SendTooBig(e)
    \/ Transmit(e) \/ WriteDone(e) \/ WriteFail(e)
    \/ ReadSome(e) \/ ReadFail(e) \/ Receive(e)
    \/ Destroy(e)

Next == Break \/ \E e \in End : Step(e)

Spec == Init /\ [][Next]_vars

\* io_service::run keeps running the handlers that are ready, and the kernel
\* moves bytes while it can: nothing is assumed of Send, Break or the size of
\* a read or a write.
Fairness ==
    \A e \in End :
        /\ WF_vars(RunSend(e)) /\ WF_vars(Transmit(e))
        /\ WF_vars(WriteDone(e)) /\ WF_vars(WriteFail(e))
        /\ WF_vars(ReadSome(e)) /\ WF_vars(ReadFail(e)) /\ WF_vars(Receive(e))
        /\ WF_vars(Destroy(e))

FairSpec == Spec /\ Fairness

----------------------------------------------------------------------------
(* Properties.                                                             *)

WriteSide == [queue : Seq(Message), sending : BOOLEAN, writing : BOOLEAN,
              buffer : Seq(Byte), flushed : Nat]
ReadSide == [state : {"armed", "parsing", "stopped"}, ptr : Nat, end : Nat,
             buffer : Seq(Byte), total : Nat]
Delivered == [type : Byte, ttl : Byte, body : Seq(Byte \cup {Junk})]

\* Type correctness of the two peers' state.
TypeOK ==
    /\ strand \in [End -> Seq(Message)]
    /\ wr \in [End -> WriteSide]
    /\ stream \in [End -> Seq(Byte)]
    /\ rd \in [End -> ReadSide]
    /\ conn \in {"up", "reset"}
    /\ alive \in [End -> BOOLEAN]
    /\ sent \in [End -> Seq(Message)]
    /\ starts \in [End -> Seq(Nat)]
    /\ handled \in [End -> Seq(Delivered)]

\* Packets of e that do_write has taken off send_queue_.
Taken(e) == Len(starts[e])

\* What the stream of e is once the write in flight is complete.
Wire(e) == stream[e] \o SubSeq(wr[e].buffer, wr[e].flushed + 1,
                               Len(wr[e].buffer))

\* The k-th packet occupies its place in the wire, byte for byte.
PacketInPlace(e, k) ==
    \A j \in 1 .. Len(Packet(sent[e][k])) :
        Wire(e)[starts[e][k] + j] = Packet(sent[e][k])[j]

\* Where the packet after the k-th begins.
NextStart(e, k) == starts[e][k] + Len(Packet(sent[e][k]))

\* Whatever the bodies and whoever calls peer::send meanwhile, the connection
\* carries exactly the packets of the sent messages in the order of
\* protocol::send, back to back: no packet is torn, overwritten by the next
\* do_write while its async_write runs, dropped or repeated.
StreamIsPackets ==
    \A e \in End :
        /\ Taken(e) + Len(wr[e].queue) = Len(sent[e])
        /\ \A k \in 1 .. Taken(e) : PacketInPlace(e, k)
        /\ \A k \in 1 .. Taken(e) - 1 : starts[e][k + 1] = NextStart(e, k)
        /\ IF Taken(e) = 0 THEN Wire(e) = <<>>
           ELSE starts[e][1] = 0 /\ Len(Wire(e)) = NextStart(e, Taken(e))

\* A message on send_queue_ of a connected peer is never forgotten: an
\* async_write is in flight whose completion will take it.
NoLostWakeup ==
    \A e \in End :
        conn = "up" /\ alive[e] /\ wr[e].queue # <<>> => wr[e].writing

\* However TCP cuts the stream into reads, receive_buffer_ is the unbroken
\* run of stream bytes that ends where parsing stands: receive neither skips
\* nor repeats a byte between two messages or two reads.
BufferIsWindow ==
    \A e \in End :
        LET r == rd[e]
        IN  /\ r.ptr <= r.end /\ r.end <= Len(stream[Other(e)])
            /\ Len(r.buffer) <= r.ptr
            /\ \A j \in 1 .. Len(r.buffer) :
                 r.buffer[j] = stream[Other(e)][r.ptr - Len(r.buffer) + j]

\* What the proofs add to the properties above.  Write side: an async_write
\* in flight has sending_ set; a packet not yet taken waits behind one.
WriteInv ==
    \A e \in End :
        LET w == wr[e]
        IN  /\ w.flushed <= Len(w.buffer)
            /\ ~w.sending => w.flushed = Len(w.buffer) /\ w.queue = <<>>
            /\ w.writing => w.sending
            /\ conn = "up" /\ alive[e] /\ w.sending => w.writing

\* Read side: parsing stays within what was read, which stays within what
\* was written; a body's size is only awaited once its header is there.
ReadInv ==
    \A e \in End :
        LET r == rd[e]
        IN  /\ r.ptr <= r.end /\ r.end <= Len(stream[Other(e)])
            /\ r.total # HeaderSize => Len(r.buffer) >= HeaderSize

\* Callers send messages without a body only: PING, PONG and the like.
HeaderOnly == \A m \in AppMsgs : m.body = <<>>

\* For header-only traffic: packets are 6 bytes, and parsing stands 6 bytes
\* past the start for every message handled plus what the buffer holds.
DeliveryInv ==
    \A e \in End :
        /\ \A k \in 1 .. Len(strand[e]) : strand[e][k].body = <<>>
        /\ \A k \in 1 .. Len(sent[e]) : sent[e][k].body = <<>>
        /\ \A k \in 1 .. Len(starts[e]) : starts[e][k] = HeaderSize * (k - 1)
        /\ rd[e].total = HeaderSize
        /\ rd[e].state # "stopped" =>
             /\ Len(rd[e].buffer) < HeaderSize
             /\ rd[e].ptr = HeaderSize * Len(handled[e]) + Len(rd[e].buffer)

\* The messages handled at e are the first ones sent by the other end, in
\* order, whole, none twice, each one hop older.
InOrderDelivery ==
    \A e \in End :
        /\ Len(handled[e]) <= Len(sent[Other(e)])
        /\ \A k \in 1 .. Len(handled[e]) :
             handled[e][k] = hop(sent[Other(e)][k])

\* The promise of the connection to the code above it.
Channel == INSTANCE MessageChannel WITH Message <- AppMsgs,
                                       Ping <- MSG_TYPE_PING,
                                       TtlValues <- 256

\* The two peers, their strands, partial writes and reads together behave as
\* the FIFO channel that answers pings.
ImplementsChannel == Channel!Spec

\* receive always finishes the bytes it was given: the strand is released.
ReceiveTerminates ==
    \A e \in End : rd[e].state = "parsing" ~> rd[e].state # "parsing"

\* Every message given to peer::send is handled at the other end, or the
\* connection is lost.
EventuallyHandled ==
    \A e \in End : \A k \in 1 .. MaxMsgs[e] + MaxMsgs[Other(e)] :
        Len(sent[e]) + Len(strand[e]) >= k
            ~> Len(handled[Other(e)]) >= k \/ conn = "reset"

=============================================================================
