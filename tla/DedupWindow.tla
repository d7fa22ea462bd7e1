----------------------------- MODULE DedupWindow -----------------------------
(***************************************************************************)
(* The sequence-number arithmetic of the session layer and the receiver's  *)
(* duplicate filter: crates/mlink-core/src/protocol/seq.rs.                *)
(*                                                                         *)
(* The 32-bit sequence space is the ring 0 .. M-1 and the 128-bit bitmap   *)
(* is the set of its one bits, a subset of 0 .. W-1.  The source has       *)
(* M = 2^32 and W = 128; every operator keeps M and W as parameters so     *)
(* that wrap-around and the window's edge are reached on small instances.  *)
(***************************************************************************)
EXTENDS Integers

CONSTANTS M,    \* size of the sequence space (2^32 for the source's u32)
          W     \* width of the window in bits (128 for the source's u128)

(***************************************************************************)
(* The space is split in two equal halves, "ahead" and "behind", and the   *)
(* window fits in the half that lies behind: 128 <= 2^31 in the source.    *)
(***************************************************************************)
ASSUME SpaceAssumption == /\ M \in Nat /\ W \in Nat
                          /\ W >= 1 /\ 2 * W <= M

SeqNos == 0 .. (M - 1)
Bits   == 0 .. (W - 1)

\* u32::wrapping_sub and u32::wrapping_add(1).
WrapSub(a, b) == (a - b) % M
WrapInc(a)    == (a + 1) % M

\* A distance d counts as forward when it is below 2^31 (half the space).
IsForward(d) == 2 * d < M

-----------------------------------------------------------------------------

Windows == [last : SeqNos, bits : SUBSET Bits, seen : BOOLEAN]

NewWindow == [last |-> 0, bits |-> {}, seen |-> FALSE]

\* Mutant: the new number is not marked.
ShiftIn_Unmarked(bits, forward) == {b \in Bits : b - forward \in bits}

\* `(bits << forward) | 1`; a shift of W or more leaves only bit 0.
ShiftIn(bits, forward) == {b \in Bits : b - forward \in bits} \union {0}

\* Mutant: the edge of the window is one too far in.
Verdict_Narrow(w, s) ==
    LET forward == WrapSub(s, w.last)
        back    == WrapSub(w.last, s)
    IN  IF ~w.seen THEN "Accept"
        ELSE IF forward = 0 THEN "Duplicate"
        ELSE IF IsForward(forward) THEN "Accept"
        ELSE IF back >= W - 1 THEN "Stale"
        ELSE IF back \in w.bits THEN "Duplicate" ELSE "Accept"

(***************************************************************************)
(* What observe answers for sequence number s in window w, and the window  *)
(* it leaves behind.                                                       *)
(***************************************************************************)
Verdict(w, s) ==
    LET forward == WrapSub(s, w.last)
        back    == WrapSub(w.last, s)
    IN  IF ~w.seen THEN "Accept"
        ELSE IF forward = 0 THEN "Duplicate"
        ELSE IF IsForward(forward) THEN "Accept"
        ELSE IF back >= W THEN "Stale"
        ELSE IF back \in w.bits THEN "Duplicate" ELSE "Accept"

\* Mutant: a late number is accepted without being recorded.
Observe_Unrecorded(w, s) ==
    LET forward == WrapSub(s, w.last)
    IN  IF Verdict(w, s) # "Accept" THEN w
        ELSE IF ~w.seen THEN [last |-> s, bits |-> {0}, seen |-> TRUE]
        ELSE IF IsForward(forward)
             THEN [w EXCEPT !.last = s, !.bits = ShiftIn(w.bits, forward)]
        ELSE w

Observe(w, s) ==
    LET forward == WrapSub(s, w.last)
        back    == WrapSub(w.last, s)
    IN  IF Verdict(w, s) # "Accept" THEN w
        ELSE IF ~w.seen THEN [last |-> s, bits |-> {0}, seen |-> TRUE]
        ELSE IF IsForward(forward)
             THEN [w EXCEPT !.last = s, !.bits = ShiftIn(w.bits, forward)]
        ELSE [w EXCEPT !.bits = w.bits \union {back}]

\* snapshot: (0, 0) on an empty window, (last, bits) otherwise.
Snapshot(w) == IF w.seen THEN [ack |-> w.last, bitmap |-> w.bits]
                         ELSE [ack |-> 0, bitmap |-> {}]
=============================================================================
