----------------------------- MODULE MCNetwork ------------------------------
(* Constants of the TLC runs of Network. *)
EXTENDS Network

CONSTANTS n1, n2, n3, n4

\* The topology whose i-th connection joins the i-th pair.
Joined(pairs) == [e \in End |-> pairs[e[1]][e[2]]]

MCTopologies ==
    { Joined(<< <<n1, n2>>, <<n2, n3>>, <<n3, n1>> >>),   \* a cycle
      Joined(<< <<n1, n2>>, <<n2, n3>>, <<n3, n4>> >>),   \* a line
      Joined(<< <<n1, n4>>, <<n4, n2>>, <<n2, n3>> >>),   \* ... n4 in it
      Joined(<< <<n1, n2>>, <<n1, n3>>, <<n1, n4>> >>),   \* a star
      Joined(<< <<n1, n2>>, <<n1, n2>>, <<n2, n3>> >>),   \* connected twice
      Joined(<< <<n1, n1>>, <<n1, n2>>, <<n2, n3>> >>) }  \* and to itself

\* n4 runs the peer class of the chain, the others that of the network.
MCClass == [n \in Node |-> IF n = n4 THEN "p2p_node" ELSE "peer"]

\* A PING that is relayed, and a transaction whose ttl wraps.
MCOffers == {[type |-> 1, ttl |-> 2], [type |-> 3, ttl |-> 0]}
=============================================================================
