------------------------------ MODULE Network -------------------------------
(***************************************************************************)
(* Processes connected by peers that relay what they receive: the message  *)
(* handler of peer::do_read, process_msg of the two peer classes of the    *)
(* libraries, and peer_list::broadcast (p2p-network/src/peer.cpp,          *)
(* peer_list.cpp, iotchain/src/P2P).                                       *)
(*                                                                         *)
(* A connection is a MessageChannel, which PeerLink implements for         *)
(* messages without a body; broadcast is one step, which RelayReaches of   *)
(* PeerRegistry justifies.  A message has no identity in the code: id and  *)
(* route are history.                                                      *)
(***************************************************************************)
EXTENDS Integers, Sequences

CONSTANTS
    Link,       \* the connections
    Node,       \* the processes
    Topologies, \* which process each end of each connection may be in
    Class,      \* the class of the peers of a process
    Offers,     \* type_ and ttl_ of the messages that callers send
    TtlValues,  \* number of values of ttl_ (256 in the code)
    MaxEvents   \* bound: callers' sends and connections that the network drops

End == Link \X {1, 2}

\* The other end of the connection of e.
Far(e) == <<e[1], 3 - e[2]>>

ASSUME TopologyAssumption == Topologies \subseteq [End -> Node]
ASSUME ClassAssumption == Class \in [Node -> {"peer", "p2p_node"}]
ASSUME TtlAssumption == /\ TtlValues \in Nat /\ TtlValues > 1
ASSUME OfferAssumption == Offers \subseteq [type : 0 .. 255, ttl : 0 .. TtlValues - 1]
ASSUME BoundAssumption == MaxEvents \in Nat

VARIABLES
    home,     \* the process of each end; it never changes
    reading,  \* an async_read_some of the peer is pending
    alive,    \* the peer object exists and is listed in its process
    up,       \* the connection stands
    sent,     \* messages the peer has put on the connection
    handled,  \* messages passed to the peer's message handler
    calls,    \* history: the calls of peer::send by callers
    breaks    \* connections that the network has dropped

vars == <<home, reading, alive, up, sent, handled, calls, breaks>>

MSG_TYPE_PING == 1
MSG_TYPE_PONG == 2
MSG_TYPE_NEW_TX == 3
MSG_TYPE_NEW_BLOCK == 4

\* The answer to a PING belongs to no caller.
Pong == [type |-> MSG_TYPE_PONG, ttl |-> 1, id |-> 0, route |-> <<>>]

\* Mutant of hop: the ttl is decremented in a wider type.
hop_Wide(m, e) ==
    [type |-> m.type, ttl |-> m.ttl - 1, id |-> m.id, route |-> Append(m.route, e)]

\* Mutant of hop: ttl_ saturates instead of wrapping.
hop_Saturate(m, e) ==
    [type |-> m.type, ttl |-> IF m.ttl = 0 THEN 0 ELSE m.ttl - 1,
     id |-> m.id, route |-> Append(m.route, e)]

\* message::hop, when m arrives at e.
hop(m, e) ==
    [type |-> m.type, ttl |-> (m.ttl + TtlValues - 1) % TtlValues,
     id |-> m.id, route |-> Append(m.route, e)]

\* Messages on their way to e.
Pending(e) == Len(handled[e]) < Len(sent[Far(e)])

----------------------------------------------------------------------------
(* The message handler.                                                    *)

\* msg_handler knows two types; both handlers first read a field from the
\* message, which has no body here (and whose one position, after the copy of
\* a body into it, would stand at its end): they throw.
handle_message(type) ==
    IF type \in {MSG_TYPE_NEW_TX, MSG_TYPE_NEW_BLOCK} THEN "throws" ELSE "false"

\* peer::process_msg accepts everything, p2p_node has its handlers.
process_msg(n, type) == IF Class[n] = "peer" THEN "true" ELSE handle_message(type)

\* Whether the handler in process n goes on to the relay and returns true.
Accepts(n, type) ==
    type \in {MSG_TYPE_PING, MSG_TYPE_PONG} \/ process_msg(n, type) = "true"

\* Mutant of Relays: the message is also sent back on its own connection.
Relays_Echo(e, m, d) == home[d] = home[e] /\ alive[d] /\ m.ttl > 0

\* Mutant of Relays: hops are not counted.
Relays_Unlimited(e, m, d) == d # e /\ home[d] = home[e] /\ alive[d]

\* broadcast(msg, this): every other peer of the process, if hops are left.
Relays(e, m, d) == d # e /\ home[d] = home[e] /\ alive[d] /\ m.ttl > 0

\* What the handler of m at e sends on d.
Out(e, m, d) ==
    IF d = e /\ m.type = MSG_TYPE_PING THEN <<Pong>>
    ELSE IF Relays(e, m, d) THEN <<m>>
    ELSE <<>>

\* The next message on the connection of e is handled there.  A message that
\* is not accepted is not relayed, and ends the reading of the connection.
Handle(e) ==
    /\ alive[e] /\ reading[e] /\ Pending(e)
    /\ LET m == hop(sent[Far(e)][Len(handled[e]) + 1], e)
       IN  /\ handled' = [handled EXCEPT ![e] = Append(@, m)]
           /\ \/ /\ Accepts(home[e], m.type)
                 /\ sent' = [d \in End |-> sent[d] \o Out(e, m, d)]
                 /\ UNCHANGED reading
              \/ /\ ~Accepts(home[e], m.type)
                 /\ reading' = [reading EXCEPT ![e] = FALSE]
                 /\ UNCHANGED sent
    /\ UNCHANGED <<home, alive, up, calls, breaks>>

----------------------------------------------------------------------------
(* Callers and connections.                                                *)

\* A caller's peer::send on e.
Call(e, m) ==
    /\ alive[e] /\ Len(calls) + breaks < MaxEvents
    /\ calls' = Append(calls, [from |-> e, type |-> m.type, ttl |-> m.ttl])
    /\ sent' = [sent EXCEPT ![e] = Append(@,
                  [type |-> m.type, ttl |-> m.ttl, id |-> Len(calls) + 1, route |-> <<>>])]
    /\ UNCHANGED <<home, reading, alive, up, handled, breaks>>

\* The network drops a connection.
Break(l) ==
    /\ up[l] /\ Len(calls) + breaks < MaxEvents
    /\ up' = [up EXCEPT ![l] = FALSE]
    /\ breaks' = breaks + 1
    /\ UNCHANGED <<home, reading, alive, sent, handled, calls>>

\* async_read_some ends with an error; what was still to come is lost.
ReadFail(e) ==
    /\ alive[e] /\ reading[e] /\ ~up[e[1]]
    /\ reading' = [reading EXCEPT ![e] = FALSE]
    /\ UNCHANGED <<home, alive, up, sent, handled, calls, breaks>>

\* Mutant of Destroy: the peer of a connection that stands is kept.
Destroy_Kept(e) ==
    /\ alive[e] /\ ~reading[e] /\ ~up[e[1]]
    /\ alive' = [alive EXCEPT ![e] = FALSE]
    /\ UNCHANGED <<home, reading, up, sent, handled, calls, breaks>>

\* The last reference to a peer that does not read any more goes: its socket
\* is closed, and it is unregistered.
Destroy(e) ==
    /\ alive[e] /\ ~reading[e]
    /\ alive' = [alive EXCEPT ![e] = FALSE]
    /\ up' = [up EXCEPT ![e[1]] = FALSE]
    /\ UNCHANGED <<home, reading, sent, handled, calls, breaks>>

Init ==
    /\ home \in Topologies
    /\ reading = [e \in End |-> TRUE]
    /\ alive = [e \in End |-> TRUE]
    /\ up = [l \in Link |-> TRUE]
    /\ sent = [e \in End |-> <<>>]
    /\ handled = [e \in End |-> <<>>]
    /\ calls = <<>> /\ breaks = 0

Next ==
    \/ \E e \in End :
         \/ \E m \in Offers : Call(e, m)
         \/ Handle(e) \/ ReadFail(e) \/ Destroy(e)
    \/ \E l \in Link : Break(l)

Spec == Init /\ [][Next]_vars

\* The io thread of a process runs the handlers that are ready.
Fairness ==
    \A e \in End : WF_vars(Handle(e)) /\ WF_vars(ReadFail(e)) /\ WF_vars(Destroy(e))

FairSpec == Spec /\ Fairness

----------------------------------------------------------------------------
(* Properties.                                                             *)

Message == [type : 0 .. 255, ttl : 0 .. TtlValues - 1, id : 0 .. MaxEvents,
            route : Seq(End)]

\* Type correctness of the processes and their connections.
TypeOK ==
    /\ home \in Topologies
    /\ reading \in [End -> BOOLEAN]
    /\ alive \in [End -> BOOLEAN]
    /\ up \in [Link -> BOOLEAN]
    /\ sent \in [End -> Seq(Message)]
    /\ handled \in [End -> Seq(Message)]
    /\ calls \in Seq([from : End, type : 0 .. 255, ttl : 0 .. TtlValues - 1])
    /\ breaks \in Nat

\* The ttl a message started with.
FirstTtl(m) == IF m.id = 0 THEN 1 ELSE calls[m.id].ttl

\* How many connections a message may cross: ttl 0 wraps once.
Life(ttl) == IF ttl = 0 THEN TtlValues ELSE ttl

\* ttl_ counts the connections still to cross, wrapped, however a message is
\* copied on its way.
Counted(m) ==
    /\ Len(m.route) <= Life(FirstTtl(m))
    /\ m.ttl = (Life(FirstTtl(m)) - Len(m.route)) % TtlValues

\* No copy of a message crosses more connections than its ttl allows: with
\* cycles, double connections and connections of a process to itself, and
\* without any memory of what was seen, every flood ends.
TtlBounds ==
    \A e \in End :
        /\ \A k \in 1 .. Len(sent[e]) : Counted(sent[e][k])
        /\ \A k \in 1 .. Len(handled[e]) : Counted(handled[e][k])

\* What the proofs add: the messages that count right and come from a call
\* that was made, those of them that may cross another connection, and that
\* only these are sent.
Right == {m \in Message : m.id <= Len(calls) /\ Counted(m)}
Live == {m \in Right : Len(m.route) < Life(FirstTtl(m))}
NetInv ==
    /\ Len(calls) + breaks <= MaxEvents
    /\ sent \in [End -> Seq(Live)]
    /\ handled \in [End -> Seq(Right)]

\* A copy handled at d may be handled next at e.
Step(d, e) == Far(e) # d /\ home[Far(e)] = home[d]

\* The ways a call's message has to take: along connections, never straight
\* back, no further than its ttl, not beyond a process that rejects it.
Walks(c) ==
    {w \in UNION {[1 .. n -> End] : n \in 1 .. Life(c.ttl)} :
        /\ w[1] = Far(c.from)
        /\ \A i \in 1 .. Len(w) - 1 :
             Step(w[i], w[i + 1]) /\ Accepts(home[w[i]], c.type)}

\* The copies of the k-th call handled so far: where, and which of them.
Copies(k) == {x \in UNION {{e} \X (1 .. Len(handled[e])) : e \in End} :
                 handled[x[1]][x[2]].id = k}
Route(x) == handled[x[1]][x[2]].route

\* Nothing is lost and nothing is on its way.
Quiet == (\A e \in End : ~Pending(e) /\ reading[e]) /\ \A l \in Link : up[l]

\* Each way is taken at most once; and once all is quiet, with no connection
\* lost, every way has been taken: every process within the message's ttl has
\* got it, on a tree of connections exactly once.
FloodExact ==
    \A k \in 1 .. Len(calls) :
        /\ \A x, y \in Copies(k) : Route(x) = Route(y) => x = y
        /\ Quiet => {Route(x) : x \in Copies(k)} = Walks(calls[k])

\* The messages of a connection as MessageChannel sees them.
Plain(s) == [k \in 1 .. Len(s) |-> [type |-> s[k].type, ttl |-> s[k].ttl]]
Ends(l) == {<<l, 1>>, <<l, 2>>}

Channel(l) == INSTANCE MessageChannel WITH
    End <- Ends(l),
    Message <- [type : {m.type : m \in Offers} \cup {MSG_TYPE_PONG}, ttl : 0 .. TtlValues - 1],
    Ping <- MSG_TYPE_PING, Pong <- [type |-> MSG_TYPE_PONG, ttl |-> 1],
    sent <- [e \in Ends(l) |-> Plain(sent[e])],
    handled <- [e \in Ends(l) |-> Plain(handled[e])]

\* Seen from one connection, the processes use it as the channel that
\* PeerLink implements, whatever else they relay: its specification holds of
\* every connection.
UsesChannels ==
    /\ \A l \in Link : Channel(l)!Init
    /\ [][\A l \in Link : Channel(l)!Next \/ UNCHANGED Channel(l)!vars]_vars

\* What is on its way arrives, or the connection is lost: a process that
\* stops reading a connection, as after a message it rejects, closes it.
Drains == \A e \in End : Pending(e) ~> ~Pending(e) \/ ~up[e[1]]

=============================================================================
