-------------------------- MODULE MCPeerDiscovery ---------------------------
(***************************************************************************)
(* Two peers and two connections at a time.                                *)
(***************************************************************************)
EXTENDS PeerDiscovery, TLC

CONSTANTS p1, p2, s1, s2

MCPeer == {p1, p2}
MCSlot == {s1, s2}

\* Sound where no liveness is checked.
Symmetry == Permutations(MCPeer) \cup Permutations(MCSlot)
=============================================================================
