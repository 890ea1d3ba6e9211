----------------------------- MODULE MCPeerLink -----------------------------
(* Constants of the TLC runs of PeerLink. *)
EXTENDS PeerLink

CONSTANTS a, b

Ping == [type |-> MSG_TYPE_PING, ttl |-> 1, body |-> <<>>]
\* A header-only message for process_msg whose ttl wraps on the hop.
Note0 == [type |-> 5, ttl |-> 0, body |-> <<>>]
Body(n) == [type |-> 5, ttl |-> 1, body |-> [j \in 1 .. n |-> j % 2]]

OneOne == [e \in End |-> 1]
TwoNone == [e \in End |-> IF e = a THEN 2 ELSE 0]
OneNone == [e \in End |-> IF e = a THEN 1 ELSE 0]

HeaderMsgs == {Ping, Note0}
OneBody == {Body(9)}
BodyMsgs == {Body(n) : n \in {1, 6, 8, 9}} \cup {Body(13), Ping}
=============================================================================
