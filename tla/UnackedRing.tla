----------------------------- MODULE UnackedRing -----------------------------
(***************************************************************************)
(* The sender's record of frames without an acknowledgement:               *)
(* crates/mlink-core/src/protocol/ack.rs.  A ring is a sequence of         *)
(* sequence numbers, oldest first; the frame bytes kept with each number   *)
(* are left out.  SACK_WINDOW and the width of the bitmap are both W.      *)
(***************************************************************************)
EXTENDS DedupWindow, Sequences

CONSTANT RingCap    \* UNACKED_RING_CAP (256)

ASSUME RingCapAssumption == RingCap \in Nat \ {0}

\* seq_geq: a is b or after it in wrap order.
SeqGeq(a, b) == IsForward(WrapSub(a, b))

\* push: a full ring loses its oldest entry.
RingPush(ring, s) == Append(IF Len(ring) >= RingCap THEN Tail(ring) ELSE ring, s)

\* ack_cum: everything up to and including ack is acknowledged.
AckCum(ring, ack) == SelectSeq(ring, LAMBDA s : ~SeqGeq(ack, s))

\* sack: bit i of the bitmap stands for base + 1 + i.
Sack(ring, base, bitmap) ==
    SelectSeq(ring, LAMBDA s : LET d == WrapSub(s, base)
                               IN  d = 0 \/ d > W \/ d - 1 \notin bitmap)
=============================================================================
