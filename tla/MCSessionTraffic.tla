-------------------------- MODULE MCSessionTraffic --------------------------
(* Small instances of SessionTraffic: two links, as between two nodes with *)
(* BLE and TCP.                                                            *)
EXTENDS SessionTraffic

CONSTANTS x, y, s1, ra, rb

MCLinks   == {x, y}
OneSender == {s1}
MCReaders == {ra, rb}

\* What payloads begin with: numbers so far apart that three of them go round
\* the space, or too few bytes.
MCBeginnings == {Short, 0, 3, 6}

\* Three payloads that go round the space, and three of which one is short and
\* two begin alike.
MCContents == {<<0, 3, 6>>, <<3, Short, 3>>}

\* The links are interchangeable: of two initial states that differ by
\* exchanging x and y, one.
Chosen == /\ activeA # y /\ (activeA = None => activeB # y)
          /\ content \in MCContents

MCInit == Init /\ Chosen
MCSpec == MCInit /\ [][Next]_vars /\ Fairness
=============================================================================
