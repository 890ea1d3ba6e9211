--------------------------- MODULE MessageChannel ---------------------------
(***************************************************************************)
(* What a connection between two peers promises to the code above it: a    *)
(* FIFO channel in each direction that loses nothing but a suffix, repeats *)
(* nothing, ages every message by one hop, and answers each PING with one  *)
(* PONG.  PeerLink implements it for messages without a body; Network is   *)
(* built on it.                                                            *)
(***************************************************************************)
EXTENDS Integers, Sequences

CONSTANTS End, Message, Ping, Pong, TtlValues

VARIABLES sent, handled

vars == <<sent, handled>>

Peer(e) == CHOOSE d \in End : d # e

Aged(m) == [m EXCEPT !.ttl = (m.ttl + TtlValues - 1) % TtlValues]

Init ==
    /\ sent = [e \in End |-> <<>>]
    /\ handled = [e \in End |-> <<>>]

\* What callers may put into an end in one step.  Both ends of a connection
\* may belong to one process, which then relays a message to both at once.
Offer == [End -> {<<>>} \cup {<<m>> : m \in Message}]

Enter(new) == sent' = [e \in End |-> sent[e] \o new[e]]

\* Messages of callers enter the channel.
Put == (\E new \in Offer : Enter(new)) /\ UNCHANGED handled

\* The next message in order reaches e; a PING is answered at once.
Get(e) ==
    /\ Len(handled[e]) < Len(sent[Peer(e)])
    /\ LET m == sent[Peer(e)][Len(handled[e]) + 1]
       IN  /\ handled' = [handled EXCEPT ![e] = Append(@, Aged(m))]
           /\ \E new \in Offer :
                Enter([new EXCEPT ![e] = IF m.type = Ping THEN <<Pong>> ELSE <<>>])

Next == Put \/ \E e \in End : Get(e)

Spec == Init /\ [][Next]_vars
=============================================================================
