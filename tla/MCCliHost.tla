----------------------------- MODULE MCCliHost ------------------------------
(* Every command over every transport, and two peers, each of which may    *)
(* also dial in.  serve, which does less than chat, has one peer to dial.  *)
EXTENDS CliHost, TLC

CONSTANTS p1, p2

MCPeers == {p1, p2}

Ad(r, i, l) == [room |-> r, identity |-> i, loopback |-> l]

\* Two peers of the room; or one that only one of the transports surfaces and
\* one that neither does.
MCAdverts ==
    { (p1 :> Ad("ours", FALSE, FALSE)) @@ (p2 :> Ad("none", FALSE, FALSE)),
      (p1 :> Ad("ours", TRUE, FALSE))  @@ (p2 :> Ad("other", FALSE, TRUE)) }

MCInit == Init /\ (command = "serve" => advert[p2].loopback)
MCSpec == MCInit /\ [][Next]_vars /\ Fairness
=============================================================================
