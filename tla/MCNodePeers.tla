---------------------------- MODULE MCNodePeers ----------------------------
(* Instance of NodePeers: a TCP and a BLE connect loop for one peer.       *)
EXTENDS NodePeers, TLC

CONSTANTS tcp, ble

MCKinds == {tcp, ble}

\* Nothing in the module tells one transport from the other.
KindSymmetry == Permutations(MCKinds)

\* A manual operation or a timeout meets two connections, three connections
\* meet each other.
Budget == opened + ops + timeouts <= 3
=============================================================================
