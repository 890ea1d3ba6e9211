--------------------------- MODULE MCPeerRegistry ---------------------------
(* Constants of the TLC runs of PeerRegistry. *)
EXTENDS PeerRegistry, TLC

\* Connections of one kind are interchangeable.
Symmetry == Permutations(Inbound) \cup Permutations(Outbound)
=============================================================================
