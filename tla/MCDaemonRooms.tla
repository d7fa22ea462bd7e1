---------------------------- MODULE MCDaemonRooms ----------------------------
(* Instances of DaemonRooms: two clients competing for one room.           *)
EXTENDS DaemonRooms, TLC

CONSTANTS c1, c2, r1

MCClients == {c1, c2}
MCRooms   == {r1}

ClientSymmetry == Permutations(MCClients)
=============================================================================
