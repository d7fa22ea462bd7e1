--------------------------- MODULE MCClientSession ---------------------------
(* One room, two connect() calls, one broken connection.                   *)
EXTENDS ClientSession

CONSTANTS r1

MCRooms == {r1}
=============================================================================
