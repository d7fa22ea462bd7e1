----------------------------- MODULE MCApiCalls -----------------------------
(* ApiCalls for TLC: the ids wrap after two calls.                         *)
EXTENDS ApiCalls
CONSTANTS peer1, peer2
MCSubscribers == {peer1, peer2}

\* The second stream is finished before all its chunks are written.
MCWritten == [s \in 1..MaxStreams |-> IF s = 1 THEN Chunks ELSE Chunks - 1]
=============================================================================
