---------------------------- MODULE DedupDelivery ----------------------------
(***************************************************************************)
(* One receiver behind a DedupWindow, fed by a network that duplicates,    *)
(* reorders and delays frames: the same frame may arrive over several      *)
(* links (a failed write that was carried out, repeated on another link).  *)
(* The frames are numbered as the wire convention of session/reader.rs     *)
(* has it; what happens without that number is shown in SessionTraffic.    *)
(*                                                                         *)
(* Frames are numbered 0, 1, 2, ... without wrap-around; the wire carries  *)
(* the number modulo M, and the receiver sees only that.  The module says  *)
(* what the filter promises in terms of the unwrapped numbers.             *)
(***************************************************************************)
EXTENDS DedupWindow

CONSTANT MaxSent    \* bound on the frames sent; larger than M to wrap around

ASSUME MaxSentAssumption == MaxSent \in Nat

Frames == 0 .. (MaxSent - 1)

VARIABLES
    sent,       \* frames numbered so far by SeqGen; the next one is sent % M
    win,        \* the receiver's DedupWindow
    high,       \* newest frame observed (history; meaningful once win.seen)
    delivered   \* how often each frame was handed to the application (history)

vars == <<sent, win, high, delivered>>

TypeOK ==
    /\ sent \in 0 .. MaxSent
    /\ win \in Windows
    /\ high \in 0 .. MaxSent
    /\ delivered \in [Frames -> Nat]

Init ==
    /\ sent = 0
    /\ win = NewWindow
    /\ high = 0
    /\ delivered = [n \in Frames |-> 0]

\* SeqGen::next: hand out the current number and step, wrapping.
SeqGenNext ==
    /\ sent < MaxSent
    /\ sent' = sent + 1
    /\ UNCHANGED <<win, high, delivered>>

\* The newest frame is at most half the space away from any frame that is
\* still under way: the source's "4e9 frames are beyond any real scenario".
LagBounded(n) == win.seen => /\ IsForward(high - n)
                             /\ IsForward(n - high)

(***************************************************************************)
(* consume_message on a copy of frame n: observe its wire number, and hand *)
(* the body to the caller on Accept only.  The copy may arrive again.      *)
(***************************************************************************)
Deliver(n) ==
    /\ n < sent
    /\ LagBounded(n)
    /\ win' = Observe(win, n % M)
    /\ high' = IF ~win.seen \/ n > high THEN n ELSE high
    /\ delivered' = IF Verdict(win, n % M) = "Accept"
                    THEN [delivered EXCEPT ![n] = @ + 1] ELSE delivered
    /\ UNCHANGED sent

Next == SeqGenNext \/ \E n \in Frames : Deliver(n)

Spec == Init /\ [][Next]_vars

-----------------------------------------------------------------------------
(* Properties.                                                             *)

(***************************************************************************)
(* No frame reaches the application twice, whatever the network repeats    *)
(* and although wire numbers are reused after M frames (DedupWindow::      *)
(* observe, the reason the session layer may resend after a failover).     *)
(***************************************************************************)
AtMostOnce == \A n \in Frames : delivered[n] <= 1

Channel == INSTANCE AtMostOnceChannel
           WITH Messages <- Frames, offered <- 0 .. (sent - 1), returned <- delivered

(***************************************************************************)
(* The filter implements the channel: only frames that were numbered reach *)
(* the application, each at most once, step by step.                       *)
(***************************************************************************)
ImplementsChannel == Channel!Spec

(***************************************************************************)
(* The bitmap arithmetic is the reference definition: a frame is accepted  *)
(* exactly when it is new and not W or more behind the newest one, and     *)
(* dropped otherwise (contract: everything outside the window is dropped,  *)
(* nothing inside it is lost).                                             *)
(***************************************************************************)
AcceptsExactlyTheFresh ==
    \A n \in Frames :
        n < sent /\ LagBounded(n) =>
            (Verdict(win, n % M) = "Accept"
                <=> delivered[n] = 0 /\ (win.seen => high - n < W))

(***************************************************************************)
(* The window is the true picture of the recent past: it has the newest    *)
(* frame as `last` and bit i set exactly when frame newest-i was delivered.*)
(* This is the inductive strengthening of AtMostOnce.                      *)
(***************************************************************************)
WindowExact ==
    /\ win.seen =>
         /\ high < sent
         /\ win.last = high % M
         /\ 0 \in win.bits
         /\ \A i \in Bits : i \in win.bits
                               <=> i <= high /\ delivered[high - i] > 0
    /\ \A n \in Frames : delivered[n] > 0 => win.seen /\ n <= high

=============================================================================
