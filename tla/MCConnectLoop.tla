--------------------------- MODULE MCConnectLoop ---------------------------
(* Instance of ConnectLoop: two wire ids of one peer.                      *)
EXTENDS ConnectLoop

CONSTANTS wire1, wire2, peer1

MCWires == {wire1, wire2}
MCApps  == {peer1}
MCAppOf == [u \in MCWires |-> peer1]
=============================================================================
