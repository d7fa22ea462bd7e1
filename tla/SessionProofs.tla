---------------------------- MODULE SessionProofs ---------------------------
(***************************************************************************)
(* A session: the duplicate filter is exact and never delivers a frame     *)
(* twice, for every size of the sequence space, every window and every     *)
(* number of frames; the delayed acknowledgement forgets no message, and   *)
(* sending with failover delivers none twice, for any number of senders,   *)
(* readers, links and messages.                                            *)
(***************************************************************************)
EXTENDS DedupDelivery, TrafficState, TLAPS

-----------------------------------------------------------------------------
(* Arithmetic modulo M.                                                    *)

\* Euclidean division by M.
LEMMA ModDef ==
    ASSUME NEW a \in Int
    PROVE  /\ a % M \in SeqNos
           /\ a \div M \in Int
           /\ a = M * (a \div M) + (a % M)
  BY SpaceAssumption DEF SeqNos

\* The remainder is unique.
LEMMA ModUnique ==
    ASSUME NEW q \in Int, NEW r \in SeqNos
    PROVE  (M * q + r) % M = r
  BY SpaceAssumption DEF SeqNos

\* Remainders of the numbers less than M away from 0.
LEMMA ModSmall ==
    ASSUME NEW d \in Int
    PROVE  /\ 0 <= d /\ d < M => d % M = d
           /\ -M < d /\ d < 0 => d % M = d + M
  <1>0. M \in Int
    BY SpaceAssumption
  <1>1. ASSUME 0 <= d, d < M PROVE d % M = d
    <2>1. d = M * 0 + d
      BY <1>0
    <2>2. QED
      BY <1>0, <1>1, <2>1, ModUnique DEF SeqNos
  <1>2. ASSUME -M < d, d < 0 PROVE d % M = d + M
    <2>1. d = M * (-1) + (d + M)
      BY <1>0
    <2>2. d + M \in SeqNos
      BY <1>0, <1>2 DEF SeqNos
    <2>3. (M * (-1) + (d + M)) % M = d + M
      BY <2>2, ModUnique
    <2>4. QED
      BY <2>1, <2>3
  <1>3. QED
    BY <1>1, <1>2

\* The distance of two wire numbers is the distance of the frames, modulo M.
LEMMA WrapSubMod ==
    ASSUME NEW a \in Int, NEW b \in Int
    PROVE  WrapSub(a % M, b % M) = (a - b) % M
  <1> DEFINE qa == a \div M          ra == a % M
             qb == b \div M          rb == b % M
             q  == (ra - rb) \div M  r  == (ra - rb) % M
  <1>0. M \in Int
    BY SpaceAssumption
  <1>1. /\ qa \in Int /\ ra \in Int /\ a = M * qa + ra
        /\ qb \in Int /\ rb \in Int /\ b = M * qb + rb
    BY <1>0, ModDef DEF SeqNos
  <1>2. q \in Int /\ r \in SeqNos /\ ra - rb = M * q + r
    <2>1. ra - rb \in Int
      BY <1>1
    <2> HIDE DEF ra, rb
    <2>2. QED
      BY <2>1, ModDef
  <1> HIDE DEF qa, ra, qb, rb, q, r
  <1>3. a - b = M * (qa - qb + q) + r
    BY <1>0, <1>1, <1>2 DEF SeqNos
  <1>4. (M * (qa - qb + q) + r) % M = r
    BY <1>1, <1>2, ModUnique
  <1>5. QED
    BY <1>3, <1>4 DEF WrapSub, r, ra, rb

-----------------------------------------------------------------------------
(* What the filter answers, in terms of unwrapped frame numbers.           *)

\* Within the lag bound the wrapped distances are the true ones.
LEMMA Distances ==
    ASSUME TypeOK, WindowExact, win.seen, NEW n \in Frames, LagBounded(n)
    PROVE  /\ n >= high => WrapSub(n % M, win.last) = n - high
           /\ n < high  => /\ WrapSub(n % M, win.last) = n - high + M
                           /\ WrapSub(win.last, n % M) = high - n
           /\ n > high => IsForward(n - high)
           /\ n < high => ~IsForward(n - high + M)
  <1>1. /\ n \in Int /\ high \in Int /\ M \in Int /\ W \in Int
        /\ 2 * (high - n) < M /\ 2 * (n - high) < M
    BY SpaceAssumption, MaxSentAssumption
       DEF TypeOK, Frames, LagBounded, IsForward
  <1>2. /\ WrapSub(n % M, win.last) = (n - high) % M
        /\ WrapSub(win.last, n % M) = (high - n) % M
    BY <1>1, WrapSubMod DEF WindowExact
  <1>3. n - high \in Int /\ high - n \in Int
    BY <1>1
  <1>4. n >= high => (n - high) % M = n - high
    BY <1>1, <1>3, ModSmall
  <1>5. n < high => (n - high) % M = n - high + M /\ (high - n) % M = high - n
    BY <1>1, <1>3, ModSmall
  <1>6. QED
    BY <1>1, <1>2, <1>4, <1>5 DEF IsForward

\* The verdict: accept exactly the frames that are new and inside the window.
LEMMA VerdictExact ==
    ASSUME TypeOK, WindowExact, NEW n \in Frames, LagBounded(n)
    PROVE  Verdict(win, n % M) = "Accept"
              <=> delivered[n] = 0 /\ (win.seen => high - n < W)
  <1>0. /\ n \in Int /\ high \in Int /\ M \in Int /\ W \in Int /\ W >= 1
        /\ delivered[n] \in Nat
    BY SpaceAssumption, MaxSentAssumption DEF TypeOK, Frames
  <1>1. CASE ~win.seen
    BY <1>0, <1>1 DEF Verdict, WindowExact
  <1>2. CASE win.seen /\ n = high
    <2>1. delivered[n] > 0
      BY <1>0, <1>2 DEF WindowExact, Bits
    <2>2. Verdict(win, n % M) = "Duplicate"
      BY <1>0, <1>2, Distances DEF Verdict
    <2>3. QED
      BY <1>0, <2>1, <2>2
  <1>3. CASE win.seen /\ n > high
    <2>1. ~ (delivered[n] > 0) /\ high - n < W
      BY <1>0, <1>3 DEF WindowExact
    <2>2. Verdict(win, n % M) = "Accept"
      BY <1>0, <1>3, Distances DEF Verdict
    <2>3. QED
      BY <1>0, <2>1, <2>2
  <1>4. CASE win.seen /\ n < high
    <2> DEFINE back == high - n
    <2>1. /\ WrapSub(win.last, n % M) = back
          /\ WrapSub(n % M, win.last) # 0
          /\ ~IsForward(WrapSub(n % M, win.last))
      BY <1>0, <1>4, Distances, SpaceAssumption DEF LagBounded, IsForward
    <2>2. Verdict(win, n % M) = "Accept" <=> back < W /\ back \notin win.bits
      BY <1>0, <1>4, <2>1 DEF Verdict
    <2>3. back < W => (back \in win.bits <=> delivered[n] > 0)
      <3>1. back \in Nat /\ high - back = n /\ back <= high
        BY <1>0, <1>4 DEF Frames
      <3>2. QED
        BY <1>0, <1>4, <3>1 DEF WindowExact, Bits
    <2>4. QED
      BY <1>0, <1>4, <2>2, <2>3
  <1>5. QED
    BY <1>0, <1>1, <1>2, <1>3, <1>4

-----------------------------------------------------------------------------
(* The inductive invariant.                                                *)

IInv == TypeOK /\ WindowExact /\ AtMostOnce

\* Nothing was observed yet.
LEMMA InitIInv == Init => IInv
  BY SpaceAssumption, MaxSentAssumption
     DEF Init, IInv, TypeOK, WindowExact, AtMostOnce, NewWindow, Windows,
         SeqNos, Bits, Frames

\* Numbering a frame does not touch the receiver.
LEMMA SeqGenNextIInv == IInv /\ SeqGenNext => IInv'
  BY MaxSentAssumption
     DEF IInv, SeqGenNext, TypeOK, WindowExact, AtMostOnce, Frames

\* A delivery keeps the window exact.
LEMMA DeliverIInv ==
    ASSUME IInv, NEW n \in Frames, Deliver(n)
    PROVE  IInv'
  <1> USE DEF IInv
  <1>0. /\ n \in Int /\ high \in Int /\ M \in Int /\ W \in Int /\ W >= 1
        /\ n >= 0 /\ high >= 0 /\ n < sent /\ sent \in Int
        /\ delivered[n] \in Nat /\ LagBounded(n) /\ sent' = sent
        /\ n % M \in SeqNos /\ M >= 1
    BY SpaceAssumption, MaxSentAssumption, ModDef DEF TypeOK, Frames, Deliver
  <1> DEFINE accept == Verdict(win, n % M) = "Accept"
  <1>1. accept <=> delivered[n] = 0 /\ (win.seen => high - n < W)
    BY VerdictExact, <1>0
  <1>2. ASSUME ~accept PROVE IInv'
    <2>1. win' = win /\ delivered' = delivered /\ win.seen
      BY <1>2 DEF Deliver, Observe, Verdict
    <2>2. n <= high
      BY <1>0, <1>1, <1>2, <2>1 DEF WindowExact
    <2>3. high' = high
      BY <1>0, <2>1, <2>2 DEF Deliver
    <2>4. QED
      BY <1>0, <2>1, <2>3 DEF TypeOK, WindowExact, AtMostOnce
  <1>3. ASSUME accept PROVE IInv'
    <2>1. /\ delivered[n] = 0
          /\ delivered' = [delivered EXCEPT ![n] = 1]
      <3>1. delivered' = [delivered EXCEPT ![n] = delivered[n] + 1]
        BY <1>3 DEF Deliver
      <3>2. delivered[n] = 0 /\ delivered[n] + 1 = 1
        BY <1>1, <1>3
      <3>3. QED
        BY <3>1, <3>2
    <2>2. AtMostOnce'
      BY <2>1 DEF AtMostOnce, TypeOK
    <2>3. delivered' \in [Frames -> Nat]
      BY <2>1 DEF TypeOK
    <2>4. CASE ~win.seen
      <3>1. win' = [last |-> n % M, bits |-> {0}, seen |-> TRUE] /\ high' = n
        BY <1>3, <2>4 DEF Deliver, Observe
      <3>2. \A m \in Frames : delivered'[m] > 0 <=> m = n
        BY <2>1, <2>4 DEF WindowExact, TypeOK
      <3>3. TypeOK'
        BY <1>0, <2>3, <3>1, MaxSentAssumption
           DEF TypeOK, Windows, Bits, Frames
      <3>4. WindowExact'
        <4>1. \A i \in Bits : i \in {0} <=> i <= n /\ delivered'[n - i] > 0
          <5>1. ASSUME NEW i \in Bits, i <= n
                PROVE  n - i \in Frames /\ (n - i = n <=> i = 0)
            BY <1>0, <5>1, MaxSentAssumption DEF Bits, Frames
          <5>2. QED
            BY <3>2, <5>1, <1>0 DEF Bits
        <4>2. QED
          BY <1>0, <3>1, <3>2, <4>1 DEF WindowExact
      <3>5. QED
        BY <2>2, <3>3, <3>4
    <2>5. CASE win.seen /\ n > high
      <3> DEFINE f == n - high
      <3>1. /\ WrapSub(n % M, win.last) = f /\ IsForward(f)
            /\ win' = [win EXCEPT !.last = n % M, !.bits = ShiftIn(win.bits, f)]
            /\ high' = n
        <4>1. WrapSub(n % M, win.last) = f /\ IsForward(f)
          BY <1>0, <2>5, Distances
        <4>2. win' = Observe(win, n % M) /\ high' = n
          BY <2>5 DEF Deliver
        <4>3. QED
          BY <1>3, <2>5, <4>1, <4>2 DEF Observe
      <3>2. TypeOK'
        <4>1. ShiftIn(win.bits, f) \in SUBSET Bits
          BY <1>0 DEF ShiftIn, Bits
        <4>2. win' \in Windows
          BY <1>0, <3>1, <4>1 DEF TypeOK, Windows
        <4>3. high' \in 0 .. MaxSent
          BY <1>0, <3>1, MaxSentAssumption DEF Frames
        <4>4. QED
          BY <1>0, <2>3, <4>2, <4>3 DEF TypeOK
      <3>3. \A m \in Frames : delivered'[m] > 0 => m <= n
        BY <1>0, <2>1, <2>5, MaxSentAssumption DEF WindowExact, TypeOK, Frames
      <3>4. \A i \in Bits : i \in ShiftIn(win.bits, f)
                               <=> i <= n /\ delivered'[n - i] > 0
        <4> SUFFICES ASSUME NEW i \in Bits
                     PROVE  i \in ShiftIn(win.bits, f)
                               <=> i <= n /\ delivered'[n - i] > 0
          OBVIOUS
        <4>1. i \in Int /\ i >= 0 /\ i < W /\ f \in Int /\ f > 0
          BY <1>0, <2>5 DEF Bits
        <4>2. CASE i = 0
          BY <1>0, <2>1, <4>2 DEF ShiftIn, TypeOK
        <4>3. CASE i > 0 /\ i < f
          <5>1. i - f \notin win.bits
            BY <4>1, <4>3 DEF TypeOK, Windows, Bits
          <5>2. ASSUME i <= n PROVE ~ (delivered'[n - i] > 0)
            <6>1. n - i \in Frames /\ n - i # n /\ n - i > high
              BY <1>0, <4>1, <4>3, <5>2, MaxSentAssumption DEF Frames
            <6>2. ~ (delivered[n - i] > 0)
              BY <1>0, <6>1, MaxSentAssumption DEF WindowExact, Frames
            <6>3. QED
              BY <2>1, <6>1, <6>2 DEF TypeOK
          <5>3. QED
            BY <4>1, <4>3, <5>1, <5>2 DEF ShiftIn
        <4>4. CASE i >= f
          <5> DEFINE j == i - f
          <5>1. j \in Bits /\ high - j = n - i
            BY <1>0, <4>1, <4>4 DEF Bits
          <5>2. j \in win.bits <=> j <= high /\ delivered[high - j] > 0
            BY <2>5, <5>1 DEF WindowExact
          <5>3. j <= high <=> i <= n
            BY <1>0, <4>1
          <5>4. ASSUME i <= n PROVE delivered'[n - i] = delivered[n - i]
            <6>1. n - i \in Frames /\ n - i # n
              BY <1>0, <4>1, <4>4, <5>4, MaxSentAssumption DEF Frames
            <6>2. QED
              BY <2>1, <6>1 DEF TypeOK
          <5>5. i # 0
            BY <4>1, <4>4
          <5>6. i \in ShiftIn(win.bits, f) <=> j \in win.bits
            BY <5>5 DEF ShiftIn
          <5>7. QED
            BY <5>1, <5>2, <5>3, <5>4, <5>6
        <4>5. QED
          BY <4>1, <4>2, <4>3, <4>4
      <3>5. 0 \in ShiftIn(win.bits, f)
        BY DEF ShiftIn
      <3>6. win'.bits = ShiftIn(win.bits, f) /\ win'.last = n % M /\ win'.seen
        BY <2>5, <3>1 DEF TypeOK, Windows
      <3>7. WindowExact'
        BY <1>0, <3>1, <3>3, <3>4, <3>5, <3>6 DEF WindowExact
      <3>8. QED
        BY <2>2, <3>2, <3>7
    <2>6. CASE win.seen /\ n <= high
      <3> DEFINE back == high - n
      <3>0. n < high /\ back < W
        <4>1. back < W
          BY <1>1, <1>3, <2>6
        <4>2. delivered[high - 0] > 0
          BY <1>0, <2>6 DEF WindowExact, Bits
        <4>3. n # high
          BY <1>0, <2>1, <4>2
        <4>4. QED
          BY <1>0, <2>6, <4>1, <4>3
      <3>1. /\ WrapSub(win.last, n % M) = back
            /\ ~IsForward(WrapSub(n % M, win.last))
        BY <1>0, <2>6, <3>0, Distances
      <3>2. /\ win' = [win EXCEPT !.bits = win.bits \union {back}]
            /\ high' = high
        <4>1. win' = Observe(win, n % M) /\ high' = high
          BY <1>0, <2>6 DEF Deliver
        <4>2. QED
          BY <1>3, <2>6, <3>1, <4>1 DEF Observe
      <3>3. back \in Bits
        BY <1>0, <3>0 DEF Bits
      <3>4. TypeOK'
        BY <1>0, <2>3, <3>2, <3>3 DEF TypeOK, Windows
      <3>5. win'.bits = win.bits \union {back} /\ win'.last = win.last /\ win'.seen
        BY <2>6, <3>2 DEF TypeOK, Windows
      <3>6. \A i \in Bits : i \in win'.bits
                               <=> i <= high /\ delivered'[high - i] > 0
        <4> SUFFICES ASSUME NEW i \in Bits
                     PROVE  i \in win'.bits
                               <=> i <= high /\ delivered'[high - i] > 0
          OBVIOUS
        <4>1. i \in Int
          BY DEF Bits
        <4>2. CASE i = back
          <5>1. high - i = n /\ i <= high
            BY <1>0, <3>0, <4>2
          <5>2. QED
            BY <2>1, <3>5, <4>2, <5>1 DEF TypeOK
        <4>3. CASE i # back
          <5>1. i \in win'.bits <=> i \in win.bits
            BY <3>5, <4>3
          <5>2. i \in win.bits <=> i <= high /\ delivered[high - i] > 0
            BY <2>6 DEF WindowExact
          <5>3. ASSUME i <= high PROVE delivered'[high - i] = delivered[high - i]
            <6>1. high - i # n
              BY <1>0, <4>1, <4>3
            <6>2. QED
              BY <2>1, <6>1 DEF TypeOK
          <5>4. QED
            BY <5>1, <5>2, <5>3
        <4>4. QED
          BY <4>2, <4>3
      <3>7. \A m \in Frames : delivered'[m] > 0 => m <= high
        <4>1. \A m \in Frames : m # n => delivered'[m] = delivered[m]
          BY <2>1 DEF TypeOK
        <4>2. QED
          BY <2>6, <4>1 DEF WindowExact
      <3>8. WindowExact'
        BY <1>0, <2>6, <3>2, <3>5, <3>6, <3>7 DEF WindowExact
      <3>9. QED
        BY <2>2, <3>4, <3>8
    <2>7. QED
      BY <1>0, <2>4, <2>5, <2>6
  <1>4. QED
    BY <1>2, <1>3

\* The invariant holds throughout.
LEMMA IInvHolds == Spec => []IInv
  <1>1. IInv /\ UNCHANGED vars => IInv'
    BY DEF IInv, TypeOK, WindowExact, AtMostOnce, vars
  <1>2. IInv /\ [Next]_vars => IInv'
    BY <1>1, SeqGenNextIInv, DeliverIInv DEF Next
  <1>3. QED
    BY <1>2, InitIInv, PTL DEF Spec

(***************************************************************************)
(* No frame is handed to the application twice, however the network        *)
(* repeats and reorders frames and however often the sequence space wraps. *)
(***************************************************************************)
THEOREM NeverTwice == Spec => []AtMostOnce
  BY IInvHolds, PTL DEF IInv

(***************************************************************************)
(* The bitmap of DedupWindow is the true record of the last W frames.      *)
(***************************************************************************)
THEOREM WindowIsExact == Spec => []WindowExact
  BY IInvHolds, PTL DEF IInv

(***************************************************************************)
(* observe accepts exactly the new frames inside the window: it loses none *)
(* of them and lets nothing else through.                                  *)
(***************************************************************************)
THEOREM FilterIsExact == Spec => []AcceptsExactlyTheFresh
  <1>1. IInv => AcceptsExactlyTheFresh
    BY VerdictExact DEF IInv, AcceptsExactlyTheFresh
  <1>2. QED
    BY <1>1, IInvHolds, PTL

(***************************************************************************)
(* Every step of the numbered frames and the window is a step of the       *)
(* at-most-once channel, or leaves it alone.                               *)
(***************************************************************************)
THEOREM FilterImplementsChannel == Spec => ImplementsChannel
  <1>1. Init => Channel!Init
    BY DEF Init, Channel!Init
  <1>2. IInv /\ [Next]_vars => [Channel!Next]_<<0 .. (sent - 1), delivered>>
    <2> SUFFICES ASSUME IInv, [Next]_vars
                 PROVE  [Channel!Next]_<<0 .. (sent - 1), delivered>>
      OBVIOUS
    <2>1. CASE SeqGenNext
      <3>1. /\ sent \in Nat /\ sent \in Frames \ (0 .. (sent - 1))
            /\ sent' = sent + 1 /\ delivered' = delivered
        BY <2>1, MaxSentAssumption DEF IInv, TypeOK, SeqGenNext, Frames
      <3>2. 0 .. (sent' - 1) = (0 .. (sent - 1)) \union {sent}
        BY <3>1
      <3>3. Channel!Offer(sent)
        BY <3>1, <3>2 DEF Channel!Offer
      <3>4. QED
        BY <3>1, <3>3 DEF Channel!Next
    <2>2. ASSUME NEW n \in Frames, Deliver(n)
          PROVE  [Channel!Next]_<<0 .. (sent - 1), delivered>>
      <3>1. /\ n \in 0 .. (sent - 1) /\ sent' = sent
            /\ delivered \in [Frames -> Nat]
        BY <2>2, MaxSentAssumption DEF IInv, TypeOK, Deliver, Frames
      <3>2. CASE Verdict(win, n % M) = "Accept"
        <4>1. delivered[n] = 0
          BY <2>2, <3>2, VerdictExact DEF IInv, Deliver
        <4>2. delivered' = [delivered EXCEPT ![n] = 1]
          BY <2>2, <3>1, <3>2, <4>1 DEF Deliver
        <4>3. Channel!Return(n)
          BY <3>1, <4>1, <4>2 DEF Channel!Return
        <4>4. QED
          BY <4>3 DEF Channel!Next
      <3>3. CASE Verdict(win, n % M) # "Accept"
        BY <2>2, <3>1, <3>3 DEF Deliver
      <3>4. QED
        BY <3>2, <3>3
    <2>3. CASE UNCHANGED vars
      BY <2>3 DEF vars
    <2>4. QED
      BY <2>1, <2>2, <2>3 DEF Next
  <1>3. QED
    BY <1>1, <1>2, IInvHolds, PTL DEF Spec, ImplementsChannel, Channel!Spec

-----------------------------------------------------------------------------
(***************************************************************************)
(* The delayed acknowledgement of Session::recv forgets no message, for    *)
(* any number of readers, links and messages, any thresholds and any       *)
(* content of the messages.  Nothing is assumed of the constants.          *)
(***************************************************************************)

Traffic == INSTANCE SessionTraffic

-----------------------------------------------------------------------------
(* The inductive invariant.  NoAckForgotten needs little besides itself:   *)
(* the count is a number and each reader has a place of its own.           *)

ReadersShape ==
    /\ pending \in Nat
    /\ rat \in [Readers -> Traffic!RecvPlaces]
    /\ rmsg = [r \in Readers |-> rmsg[r]]
    /\ rcov = [r \in Readers |-> rcov[r]]

TrafficInv == ReadersShape /\ NoAckForgotten

\* The state of the readers that IInv speaks of.
readerVars == <<pending, rat, rmsg, rcov, owed, ackDropped>>

\* IInv holds initially: nothing is owed.
LEMMA TrafficInit == Traffic!Init => TrafficInv
  BY DEF Traffic!Init, TrafficInv, ReadersShape, NoAckForgotten, Traffic!RecvPlaces

\* Steps that leave the readers alone keep IInv.
LEMMA TrafficFrame == TrafficInv /\ UNCHANGED readerVars => TrafficInv'
  BY DEF TrafficInv, ReadersShape, NoAckForgotten, readerVars

\* Every step of A, of the links and of a reader keeps IInv.
LEMMA TrafficStep == TrafficInv /\ [Traffic!Next]_(Traffic!vars) => TrafficInv'
  <1> SUFFICES ASSUME TrafficInv, [Traffic!Next]_(Traffic!vars) PROVE TrafficInv'
    OBVIOUS
  <1> USE DEF Traffic!RecvPlaces
  <1>1. ASSUME NEW s \in Senders, Traffic!SendBegin(s) \/ Traffic!SendStep(s) PROVE TrafficInv'
    <2>1. UNCHANGED readerVars
      BY <1>1
         DEF Traffic!SendBegin, Traffic!SendStep, Traffic!CurrentOrPick, Traffic!Adopt,
             Traffic!Write, Traffic!PromoteOnFailure,
                  Traffic!Retry, Traffic!RecordUnacked, Traffic!recvVars, readerVars
    <2>2. QED
      BY <2>1, TrafficFrame
  <1>2. ASSUME NEW l \in Links, Traffic!OnAck(l) \/ Traffic!ReadError(l) \/ Traffic!LoseLink(l) PROVE TrafficInv'
    <2>1. UNCHANGED readerVars
      BY <1>2
         DEF Traffic!OnAck, Traffic!ReadError, Traffic!LoseLink, Traffic!recvVars, readerVars
    <2>2. QED
      BY <2>1, TrafficFrame
  <1>3. ASSUME NEW r \in Readers, NEW l \in Links, Traffic!RecvMessage(r, l) PROVE TrafficInv'
    <2> DEFINE m  == Head(toB[l])
               ok == content[m] # Short /\ Traffic!Verdict(window, content[m]) = "Accept"
    <2>1. /\ rat[r] = "loop"
          /\ rat' = [rat EXCEPT ![r] = IF ok THEN "count" ELSE "loop"]
          /\ rmsg' = [rmsg EXCEPT ![r] = IF ok THEN m ELSE Traffic!NoMsg]
          /\ owed' = IF ok THEN owed \union {m} ELSE owed
          /\ UNCHANGED <<pending, rcov, ackDropped>>
      BY <1>3 DEF Traffic!RecvMessage
    <2> HIDE DEF m, ok
    <2>2. ReadersShape'
      BY <2>1 DEF TrafficInv, ReadersShape
    <2>3. NoAckForgotten'
      BY <2>1 DEF TrafficInv, ReadersShape, NoAckForgotten
    <2>4. QED
      BY <2>2, <2>3 DEF TrafficInv
  <1>4. ASSUME NEW r \in Readers, Traffic!CountAccept(r) PROVE TrafficInv'
    <2>1. ReadersShape' /\ pending' > 0
      BY <1>4 DEF Traffic!CountAccept, Traffic!RecvReturn, TrafficInv, ReadersShape
    <2>2. QED
      BY <2>1 DEF TrafficInv, NoAckForgotten
  <1>5. ASSUME NEW r \in Readers, Traffic!MaybeFlush(r) PROVE TrafficInv'
    BY <1>5 DEF Traffic!MaybeFlush, TrafficInv, ReadersShape, NoAckForgotten
  <1>6. ASSUME NEW r \in Readers, Traffic!TakePending(r) PROVE TrafficInv'
    <2>1. CASE pending = 0
      BY <1>6, <2>1
         DEF Traffic!TakePending, Traffic!RecvReturn, TrafficInv, ReadersShape,
             NoAckForgotten
    <2>2. CASE pending # 0
      <3>1. /\ pending' = 0
            /\ rat' = [rat EXCEPT ![r] = "snapshot"]
            /\ UNCHANGED <<rmsg, rcov>>
        BY <1>6, <2>2 DEF Traffic!TakePending
      <3>2. ReadersShape' /\ rat'[r] = "snapshot"
        BY <3>1 DEF TrafficInv, ReadersShape
      <3>3. QED
        BY <3>2 DEF TrafficInv, NoAckForgotten
    <2>3. QED
      BY <2>1, <2>2
  <1>7. ASSUME NEW r \in Readers, Traffic!TakeSnapshot(r) PROVE TrafficInv'
    <2>1. ReadersShape' /\ rat'[r] = "send" /\ rcov'[r] = owed'
      BY <1>7 DEF Traffic!TakeSnapshot, TrafficInv, ReadersShape
    <2>2. QED
      BY <2>1 DEF TrafficInv, NoAckForgotten
  <1>8. ASSUME NEW r \in Readers, Traffic!SendAck(r) PROVE TrafficInv'
    <2>1. /\ rat' = [rat EXCEPT ![r] = "loop"]
          /\ rmsg' = [rmsg EXCEPT ![r] = Traffic!NoMsg]
          /\ rcov' = [rcov EXCEPT ![r] = {}]
      BY <1>8 DEF Traffic!SendAck, Traffic!RecvReturn
    <2>2. pending' = pending \/ pending' = pending + 1
      BY <1>8 DEF Traffic!SendAck, Traffic!Recount
    <2>3. ReadersShape'
      <3>1. pending' \in Nat
        BY <2>2 DEF TrafficInv, ReadersShape
      <3>2. rat' \in [Readers -> Traffic!RecvPlaces]
        BY <2>1 DEF TrafficInv, ReadersShape
      <3>3. /\ rmsg' = [q \in Readers |-> rmsg'[q]]
            /\ rcov' = [q \in Readers |-> rcov'[q]]
        BY <2>1 DEF TrafficInv, ReadersShape
      <3>4. QED
        BY <3>1, <3>2, <3>3 DEF ReadersShape
    <2>4. CASE owed' = owed \ rcov[r] /\ UNCHANGED <<pending, ackDropped>>
      BY <1>8, <2>3, <2>4
         DEF Traffic!SendAck, Traffic!RecvReturn, TrafficInv, ReadersShape,
             NoAckForgotten
    <2>5. CASE pending' = Traffic!Recount
      BY <2>3, <2>5 DEF Traffic!Recount, TrafficInv, ReadersShape, NoAckForgotten
    <2>6. CASE ackDropped' = TRUE
      BY <2>3, <2>6 DEF TrafficInv, NoAckForgotten
    <2>7. QED
      BY <1>8, <2>4, <2>5, <2>6 DEF Traffic!SendAck
  <1>9. CASE UNCHANGED Traffic!vars
    BY <1>9, TrafficFrame DEF Traffic!vars, Traffic!recvVars, readerVars
  <1>10. QED
    BY <1>1, <1>2, <1>3, <1>4, <1>5, <1>6, <1>7, <1>8, <1>9 DEF Traffic!Next, Traffic!FlushStep

-----------------------------------------------------------------------------
(* The theorem.                                                            *)

\* Whatever the interleaving of the readers in flush_ack_now, an accepted
\* message that was not reported keeps an acknowledgement due: nobody resets
\* the count for a message that is in nobody's snapshot.
THEOREM AcksAreNeverForgotten == Traffic!Spec => []NoAckForgotten
  <1>1. TrafficInv => NoAckForgotten
    BY DEF TrafficInv
  <1>2. QED
    BY <1>1, TrafficInit, TrafficStep, PTL DEF Traffic!Spec

-----------------------------------------------------------------------------
(***************************************************************************)
(* Session::send and Session::recv deliver a message once, whatever the    *)
(* payloads begin with, as long as the newest number has not moved on from *)
(* it by more than half the space.                                         *)
(***************************************************************************)

\* A sequence number or no number at all.
LEMMA ContentSpace == MaxMsgs \in Nat /\ Beginnings \subseteq SeqNos \union {Short}
  BY TrafficAssumption

\* Wrapped distances are the true ones, or M more.
LEMMA WrapSubCases ==
    ASSUME NEW a \in SeqNos, NEW b \in SeqNos
    PROVE  /\ a >= b => WrapSub(a, b) = a - b
           /\ a < b => WrapSub(a, b) = a - b + M
           /\ M \in Nat /\ a \in Nat /\ b \in Nat /\ a < M /\ b < M
  <1>1. M \in Nat /\ a \in Nat /\ b \in Nat /\ a < M /\ b < M
    BY SpaceAssumption DEF SeqNos
  <1>2. a - b \in Int
    BY <1>1
  <1>3. QED
    BY <1>1, <1>2, ModSmall DEF WrapSub

\* The two distances between two numbers make the whole space.
LEMMA WrapSubAround ==
    ASSUME NEW a \in SeqNos, NEW b \in SeqNos
    PROVE  /\ WrapSub(a, b) \in Nat /\ WrapSub(a, b) < M
           /\ a = b => WrapSub(a, b) = 0
           /\ a # b => WrapSub(a, b) > 0 /\ WrapSub(b, a) = M - WrapSub(a, b)
  BY WrapSubCases

\* Distances add up as long as they stay inside the space.
LEMMA WrapSubAdds ==
    ASSUME NEW a \in SeqNos, NEW b \in SeqNos, NEW c \in SeqNos,
           WrapSub(a, b) + WrapSub(b, c) < M
    PROVE  WrapSub(a, c) = WrapSub(a, b) + WrapSub(b, c)
  <1>1. /\ a >= b => WrapSub(a, b) = a - b
        /\ a < b => WrapSub(a, b) = a - b + M
        /\ b >= c => WrapSub(b, c) = b - c
        /\ b < c => WrapSub(b, c) = b - c + M
        /\ a >= c => WrapSub(a, c) = a - c
        /\ a < c => WrapSub(a, c) = a - c + M
        /\ M \in Nat /\ a \in Nat /\ b \in Nat /\ c \in Nat /\ a < M /\ b < M /\ c < M
    BY WrapSubCases
  <1>2. QED
    BY <1>1

\* k is at most half the space behind the newest number, and marked if the
\* window reaches that far.
Near(w, k) ==
    /\ w.seen /\ k \in SeqNos
    /\ 2 * WrapSub(w.last, k) <= M
    /\ WrapSub(w.last, k) < W => WrapSub(w.last, k) \in w.bits

\* The filter turns such a number down.
LEMMA NearIsOld ==
    ASSUME NEW w \in Windows, NEW k, Near(w, k)
    PROVE  Verdict(w, k) # "Accept"
  <1>1. w.seen /\ k \in SeqNos /\ w.last \in SeqNos /\ M \in Nat /\ W \in Nat
    BY SpaceAssumption DEF Near, Windows
  <1> DEFINE back == WrapSub(w.last, k)
             forward == WrapSub(k, w.last)
  <1>2. CASE k = w.last
    BY <1>1, <1>2, WrapSubAround DEF Verdict
  <1>3. CASE k # w.last
    <2>1. back \in Nat /\ back < M /\ forward = M - back /\ forward # 0
      BY <1>1, <1>3, WrapSubAround
    <2>2. 2 * back <= M /\ (back < W => back \in w.bits)
      BY DEF Near
    <2>3. ~IsForward(forward)
      BY <1>1, <2>1, <2>2 DEF IsForward
    <2>4. back >= W \/ back \in w.bits
      BY <1>1, <2>1, <2>2
    <2>5. QED
      BY <1>1, <2>1, <2>3, <2>4 DEF Verdict
  <1>4. QED
    BY <1>2, <1>3

\* A number that was accepted is near, and every near number stays so unless
\* the newest one moves more than half the space away from it.
LEMMA NearStaysNear ==
    ASSUME NEW w \in Windows, NEW t \in SeqNos, Verdict(w, t) = "Accept"
    PROVE  /\ Observe(w, t) \in Windows /\ Near(Observe(w, t), t)
           /\ \A k : /\ Near(w, k)
                     /\ ~(IsForward(WrapSub(t, w.last))
                            /\ 2 * (WrapSub(w.last, k) + WrapSub(t, w.last)) > M)
                     => Near(Observe(w, t), k)
  <1> DEFINE v == Observe(w, t)
             f == WrapSub(t, w.last)
             back == WrapSub(w.last, t)
  <1>0. /\ M \in Nat /\ W \in Nat /\ W >= 1 /\ 2 * W <= M
        /\ w.last \in SeqNos /\ w.bits \subseteq Bits /\ w.seen \in BOOLEAN
        /\ w = [last |-> w.last, bits |-> w.bits, seen |-> w.seen]
    BY SpaceAssumption DEF Windows
  <1>z. WrapSub(t, t) = 0
    BY WrapSubAround
  <1>1. CASE ~w.seen
    <2>1. v = [last |-> t, bits |-> {0}, seen |-> TRUE]
      BY <1>1 DEF Observe
    <2>2. v \in Windows
      BY <1>0, <2>1 DEF Windows, Bits
    <2> HIDE DEF v
    <2>3. Near(v, t)
      BY <1>0, <1>z, <2>1 DEF Near
    <2>4. QED
      BY <1>1, <2>2, <2>3 DEF Near, v
  <1>2. CASE w.seen /\ IsForward(f)
    <2>1. f \in Nat /\ f < M /\ 2 * f < M
      BY <1>0, <1>2, WrapSubAround DEF IsForward
    <2>2. v = [w EXCEPT !.last = t, !.bits = ShiftIn(w.bits, f)]
      BY <1>2 DEF Observe
    <2>3. ShiftIn(w.bits, f) \in SUBSET Bits /\ 0 \in ShiftIn(w.bits, f)
      BY <1>0 DEF ShiftIn, Bits
    <2>4. v.last = t /\ v.bits = ShiftIn(w.bits, f) /\ v.seen /\ v \in Windows
      BY <1>0, <1>2, <2>2, <2>3 DEF Windows
    <2> HIDE DEF v, f
    <2>5. Near(v, t)
      BY <1>0, <1>z, <2>3, <2>4 DEF Near
    <2>6. ASSUME NEW k, Near(w, k), ~(2 * (WrapSub(w.last, k) + f) > M) PROVE Near(v, k)
      <3> DEFINE d == WrapSub(w.last, k)
      <3>1. k \in SeqNos /\ d \in Nat /\ 2 * d <= M /\ (d < W => d \in w.bits)
        BY <1>0, <2>6, WrapSubAround DEF Near
      <3>2. f + d < M /\ 2 * (f + d) <= M
        BY <1>0, <2>1, <2>6, <3>1
      <3>3. WrapSub(t, k) = f + d
        BY <1>0, <3>1, <3>2, WrapSubAdds DEF f
      <3>4. ASSUME f + d < W PROVE f + d \in ShiftIn(w.bits, f)
        <4>1. d \in w.bits /\ f + d \in Bits /\ (f + d) - f = d
          BY <1>0, <2>1, <3>1, <3>4 DEF Bits
        <4>2. QED
          BY <4>1 DEF ShiftIn
      <3>5. QED
        BY <2>4, <3>1, <3>2, <3>3, <3>4 DEF Near
    <2>7. QED
      BY <1>2, <2>4, <2>5, <2>6 DEF v, f
  <1>3. CASE w.seen /\ ~IsForward(f)
    <2>1. t # w.last
      BY <1>0, <1>3, WrapSubAround DEF Verdict
    <2>2. f \in Nat /\ back \in Nat /\ f = M - back /\ back < M
      BY <1>0, <2>1, WrapSubAround
    <2>3. 2 * back <= M
      BY <1>0, <1>3, <2>2 DEF IsForward
    <2>4. back < W
      BY <1>0, <1>3, <2>1, <2>2 DEF Verdict
    <2>5. v = [w EXCEPT !.bits = w.bits \union {back}]
      BY <1>3 DEF Observe
    <2>6. back \in Bits
      BY <1>0, <2>2, <2>4 DEF Bits
    <2> HIDE DEF back
    <2>7. v \in Windows /\ v.last = w.last /\ v.bits = w.bits \union {back} /\ v.seen
      BY <1>0, <1>3, <2>5, <2>6 DEF Windows
    <2> HIDE DEF v
    <2>8. Near(v, t)
      BY <1>3, <2>3, <2>7 DEF Near, back
    <2>9. \A k : Near(w, k) => Near(v, k)
      BY <2>7 DEF Near
    <2>10. QED
      BY <2>7, <2>8, <2>9 DEF v
  <1>4. QED
    BY <1>0, <1>1, <1>2, <1>3

\* What is on the links and in the senders' hands was handed to send.
SendShape ==
    /\ issued \in 0..MaxMsgs
    /\ toB \in [Links -> Seq(1..issued)]
    /\ sat \in [Senders -> Traffic!SendPlaces] /\ smsg \in [Senders -> 0..issued]
    /\ \A s \in Senders : sat[s] # "idle" => smsg[s] # 0

\* A message is in the hands of one reader, unless it has lapsed.
InHand ==
    /\ rat \in [Readers -> Traffic!RecvPlaces] /\ rmsg \in [Readers -> 0..issued]
    /\ \A r \in Readers : rat[r] = "loop" => rmsg[r] = 0
    /\ \A r, q \in Readers :
          rmsg[r] = rmsg[q] /\ rmsg[r] # 0 /\ rmsg[r] \notin lapsed => r = q

\* The caller gets no message twice, nor one that it has from a reader's hand,
\* unless it has lapsed.
ReturnedOnce ==
    /\ got \in [1..MaxMsgs -> Nat]
    /\ \A m \in (1..MaxMsgs) \ lapsed : got[m] \in 0..1
    /\ \A r \in Readers : rmsg[r] # 0 /\ rmsg[r] \notin lapsed => got[rmsg[r]] = 0

\* The filter turns down the messages that were accepted and have not lapsed.
AcceptedIsNear ==
    /\ content \in [1..MaxMsgs -> SeqNos \union {Short}]
    /\ \A m \in (1..MaxMsgs) \ lapsed :
          got[m] > 0 \/ (\E r \in Readers : rmsg[r] = m)
              => content[m] # Short /\ Near(window, content[m])

ChannelInv ==
    SendShape /\ window \in Windows /\ InHand /\ ReturnedOnce /\ AcceptedIsNear

\* What the two parts of ChannelInv depend on.
sendSide == <<issued, toB, sat, smsg>>
recvSide == <<window, rat, rmsg, got, lapsed, content>>

\* The channel as the traffic maps to it, and its steps.
chan == <<issued, got>>

ChannelMove == Failover!Next \/ \E m \in Msgs : Again(m)

\* Nothing was sent.
LEMMA ChannelInvInit == Traffic!Init => ChannelInv
  <1> SUFFICES ASSUME Traffic!Init PROVE ChannelInv
    OBVIOUS
  <1> USE ContentSpace DEF Traffic!Init
  <1>1. SendShape
    BY DEF SendShape, Traffic!SendPlaces, Traffic!NoMsg
  <1>2. window \in Windows
    BY SpaceAssumption DEF Traffic!NewWindow, Windows, SeqNos
  <1>3. InHand /\ ReturnedOnce
    BY DEF InHand, ReturnedOnce, Traffic!RecvPlaces, Traffic!NoMsg, Msgs, Traffic!Msgs
  <1>3a. AcceptedIsNear
    BY DEF AcceptedIsNear, Traffic!NoMsg, Msgs, Traffic!Msgs
  <1>4. QED
    BY <1>1, <1>2, <1>3, <1>3a DEF ChannelInv

\* A reader at the head of its loop, or one that goes on with what it has in
\* hand, changes nothing for the channel.
LEMMA ReaderGoesOn ==
    ASSUME ChannelInv, NEW r \in Readers, NEW p \in Traffic!RecvPlaces,
           rat' = [rat EXCEPT ![r] = p], p = "loop" => rmsg[r] = 0,
           UNCHANGED <<sendSide, window, rmsg, got, lapsed, content>>
    PROVE  ChannelInv' /\ UNCHANGED chan
  <1> USE DEF ChannelInv, sendSide
  <1>1. SendShape' /\ (window \in Windows)' /\ ReturnedOnce' /\ AcceptedIsNear'
    BY DEF SendShape, ReturnedOnce, AcceptedIsNear, Near
  <1>2. InHand'
    BY DEF InHand
  <1>3. QED
    BY <1>1, <1>2 DEF chan

\* A reader returns: what it has in hand goes to the caller, as a step of the
\* channel or of a message that has lapsed.
LEMMA ReaderReturns ==
    ASSUME ChannelInv, NEW r \in Readers, Traffic!RecvReturn(r),
           UNCHANGED <<sendSide, window, lapsed, content>>
    PROVE  ChannelInv' /\ [ChannelMove]_chan
  <1> DEFINE m == rmsg[r]
  <1>1. /\ rat' = [rat EXCEPT ![r] = "loop"] /\ rmsg' = [rmsg EXCEPT ![r] = 0]
        /\ got' = IF m = 0 THEN got ELSE [got EXCEPT ![m] = got[m] + 1]
        /\ UNCHANGED <<issued, window, lapsed, content>>
    BY DEF Traffic!RecvReturn, Traffic!NoMsg, sendSide
  <1>2. SendShape' /\ (window \in Windows)'
    BY DEF ChannelInv, SendShape, sendSide
  <1>a. m \in 0..issued /\ issued \in 0..MaxMsgs /\ MaxMsgs \in Nat
    BY ContentSpace DEF ChannelInv, InHand, SendShape
  <1>3. InHand'
    <2>1. /\ rat' \in [Readers -> Traffic!RecvPlaces] /\ rmsg' \in [Readers -> 0..issued']
          /\ \A q \in Readers : rat'[q] = "loop" => rmsg'[q] = 0
      BY <1>1, <1>a DEF ChannelInv, InHand, Traffic!RecvPlaces
    <2>2. \A p, q \in Readers :
             rmsg'[p] = rmsg'[q] /\ rmsg'[p] # 0 /\ rmsg'[p] \notin lapsed' => p = q
      BY <1>1 DEF ChannelInv, InHand
    <2>3. QED
      BY <2>1, <2>2 DEF InHand
  <1>4. \A q \in Readers : rmsg'[q] # 0 => q # r /\ rmsg'[q] = rmsg[q]
                                           /\ (rmsg[q] \notin lapsed => rmsg[q] # m)
    BY <1>1 DEF ChannelInv, InHand
  <1>5. ASSUME NEW k \in 1..MaxMsgs, \E q \in Readers : rmsg'[q] = k
        PROVE  \E q \in Readers : rmsg[q] = k
    BY <1>4, <1>5, <1>a
  <1>6. CASE m = 0
    <2>1. got' = got
      BY <1>1, <1>6
    <2>2. ReturnedOnce'
      BY <1>1, <1>4, <2>1 DEF ChannelInv, ReturnedOnce
    <2>3. AcceptedIsNear'
      BY <1>1, <1>5, <2>1 DEF ChannelInv, AcceptedIsNear, Near
    <2>4. QED
      BY <1>1, <1>2, <1>3, <2>1, <2>2, <2>3 DEF ChannelInv, chan
  <1>7. CASE m # 0
    <2>0. m \in 1..issued /\ m \in 1..MaxMsgs
      BY <1>a, <1>7
    <2>1. /\ got' = [got EXCEPT ![m] = got[m] + 1] /\ got[m] \in Nat
          /\ got \in [1..MaxMsgs -> Nat]
          /\ m \notin lapsed => got[m] = 0
      BY <1>1, <1>7, <2>0 DEF ChannelInv, ReturnedOnce
    <2>2. got' \in [1..MaxMsgs -> Nat] /\ got'[m] = got[m] + 1
          /\ \A k \in 1..MaxMsgs : k # m => got'[k] = got[k]
      BY <2>0, <2>1
    <2>3. ReturnedOnce'
      <3>1. ASSUME NEW q \in Readers, rmsg'[q] # 0, rmsg'[q] \notin lapsed PROVE got'[rmsg'[q]] = 0
        <4>1. rmsg'[q] = rmsg[q] /\ rmsg[q] # m /\ rmsg[q] # 0 /\ rmsg[q] \notin lapsed
          BY <1>4, <3>1
        <4>2. got[rmsg[q]] = 0
          BY <4>1 DEF ChannelInv, ReturnedOnce
        <4>3. rmsg[q] \in 1..MaxMsgs
          BY <1>a, <4>1 DEF ChannelInv, InHand
        <4>4. QED
          BY <2>2, <4>1, <4>2, <4>3
      <3>2. ASSUME NEW k \in (1..MaxMsgs) \ lapsed PROVE got'[k] \in 0..1
        <4>1. CASE k = m
          BY <2>1, <2>2, <3>2, <4>1
        <4>2. CASE k # m
          BY <2>2, <3>2, <4>2 DEF ChannelInv, ReturnedOnce
        <4>3. QED
          BY <4>1, <4>2
      <3>3. QED
        BY <1>1, <2>2, <3>1, <3>2 DEF ReturnedOnce
    <2>4. AcceptedIsNear'
      <3>1. ASSUME NEW k \in 1..MaxMsgs, got'[k] > 0 \/ \E q \in Readers : rmsg'[q] = k
            PROVE  got[k] > 0 \/ \E q \in Readers : rmsg[q] = k
        <4>1. CASE \E q \in Readers : rmsg'[q] = k
          BY <1>5, <4>1
        <4>2. CASE got'[k] > 0
          BY <2>2, <4>2
        <4>3. QED
          BY <3>1, <4>1, <4>2
      <3>2. QED
        BY <1>1, <3>1 DEF ChannelInv, AcceptedIsNear, Near
    <2>5. CASE m \notin lapsed
      <3>1. got[m] = 0 /\ got' = [got EXCEPT ![m] = 1]
        <4>1. got[m] + 1 = 1
          BY <2>1, <2>5
        <4>2. QED
          BY <2>1, <2>5, <4>1
      <3>2. Failover!Return(m)
        BY <1>1, <2>0, <3>1 DEF Failover!Return
      <3>3. Failover!Next
        BY <2>0, <3>2 DEF Failover!Next, Msgs
      <3>4. QED
        BY <1>2, <1>3, <2>3, <2>4, <3>3 DEF ChannelInv, ChannelMove
    <2>6. CASE m \in lapsed
      <3>1. Again(m)
        BY <1>1, <2>1, <2>6 DEF Again
      <3>2. ChannelMove
        BY <2>0, <3>1 DEF ChannelMove, Msgs
      <3>3. QED
        BY <1>2, <1>3, <2>3, <2>4, <3>2 DEF ChannelInv
    <2>7. QED
      BY <2>5, <2>6
  <1>8. QED
    BY <1>6, <1>7

\* The head and the rest of a queue.
LEMMA QueueTaken ==
    ASSUME NEW S, NEW q \in Seq(S), q # <<>>
    PROVE  Head(q) \in S /\ Tail(q) \in Seq(S)
  OBVIOUS

\* A queue of a set is one of a larger set.
LEMMA QueueWidened ==
    ASSUME NEW S, NEW T, S \subseteq T, NEW q \in Seq(S)
    PROVE  q \in Seq(T)
  OBVIOUS

\* A queue that is cut.
LEMMA QueueCut ==
    ASSUME NEW S, NEW q \in Seq(S), NEW i \in 0..Len(q)
    PROVE  SubSeq(q, 1, i) \in Seq(S)
  OBVIOUS

\* A reader takes a message off a link: an accepted one is near from now on
\* and was in nobody's hand, unless it has lapsed.
LEMMA ReaderTakes ==
    ASSUME ChannelInv, NEW r \in Readers, NEW l \in Links, Traffic!RecvMessage(r, l)
    PROVE  ChannelInv' /\ UNCHANGED chan
  <1> DEFINE m  == Head(toB[l])
             k  == content[m]
             ok == k # Short /\ Verdict(window, k) = "Accept"
             fw == WrapSub(k, window.last)
             Held(n) == got[n] > 0 \/ \E q \in Readers : rmsg[q] = n
  <1>0. \A w, n : Traffic!Verdict(w, n) = Verdict(w, n) /\ Traffic!Observe(w, n) = Observe(w, n)
    BY DEF Traffic!Verdict, Verdict, Traffic!Observe, Observe, Traffic!WrapSub, WrapSub,
           Traffic!IsForward, IsForward, Traffic!ShiftIn, ShiftIn, Traffic!Bits, Bits
  <1>p. Traffic!PassedBy(k) =
            {n \in 1..MaxMsgs : Held(n) /\ IsForward(fw)
                                  /\ 2 * (WrapSub(window.last, content[n]) + fw) > M}
    BY DEF Traffic!PassedBy, Traffic!Accepted, Traffic!WrapSub, WrapSub, Traffic!IsForward,
           IsForward, Msgs, Traffic!Msgs
  <1>1. /\ rat[r] = "loop" /\ toB[l] # <<>>
        /\ toB' = [toB EXCEPT ![l] = Tail(toB[l])]
        /\ window' = IF ok THEN Observe(window, k) ELSE window
        /\ lapsed' = IF ok THEN lapsed \union Traffic!PassedBy(k) ELSE lapsed
        /\ rat' = [rat EXCEPT ![r] = IF ok THEN "count" ELSE "loop"]
        /\ rmsg' = [rmsg EXCEPT ![r] = IF ok THEN m ELSE 0]
        /\ UNCHANGED <<issued, sat, smsg, got, content>>
    BY <1>0 DEF Traffic!RecvMessage, Traffic!NoMsg, Traffic!sendVars
  <1>2. toB[l] \in Seq(1..issued)
    BY DEF ChannelInv, SendShape
  <1>3. m \in 1..issued /\ Tail(toB[l]) \in Seq(1..issued)
    BY <1>1, <1>2, QueueTaken
  <1>4. issued \in 0..MaxMsgs /\ MaxMsgs \in Nat /\ m \in 1..MaxMsgs
    BY <1>3, ContentSpace DEF ChannelInv, SendShape
  <1>5. SendShape'
    BY <1>1, <1>3 DEF ChannelInv, SendShape
  <1>6. k # Short => k \in SeqNos
    BY <1>4 DEF ChannelInv, AcceptedIsNear
  <1>7. rmsg[r] = 0 /\ window \in Windows
    BY <1>1 DEF ChannelInv, InHand
  <1> HIDE DEF m, k, fw
  <1>8. CASE ~ok
    <2>1. rat' = rat /\ rmsg' = rmsg /\ window' = window /\ lapsed' = lapsed
      BY <1>1, <1>7, <1>8 DEF ChannelInv, InHand
    <2>2. QED
      BY <1>1, <1>5, <2>1 DEF ChannelInv, InHand, ReturnedOnce, AcceptedIsNear, Near, chan
  <1>9. CASE ok
    <2>0. k \in SeqNos /\ Verdict(window, k) = "Accept" /\ k # Short
      BY <1>6, <1>9
    <2>1. /\ rat' = [rat EXCEPT ![r] = "count"] /\ rmsg' = [rmsg EXCEPT ![r] = m]
          /\ window' = Observe(window, k) /\ lapsed' = lapsed \union Traffic!PassedBy(k)
      BY <1>1, <1>9
    <2>2. /\ window' \in Windows /\ Near(window', k)
          /\ \A n : /\ Near(window, n)
                    /\ ~(IsForward(fw) /\ 2 * (WrapSub(window.last, n) + fw) > M)
                    => Near(window', n)
      BY <1>7, <2>0, <2>1, NearStaysNear DEF fw
    \* It was not accepted before, or has lapsed: it would be turned down.
    <2>3. m \notin lapsed => got[m] = 0 /\ \A q \in Readers : rmsg[q] # m
      <3>1. ~Near(window, k)
        BY <1>7, <2>0, NearIsOld
      <3>2. m \notin lapsed => ~(got[m] > 0) /\ ~ \E q \in Readers : rmsg[q] = m
        BY <1>4, <3>1 DEF ChannelInv, AcceptedIsNear, k
      <3>3. got[m] \in Nat
        BY <1>4 DEF ChannelInv, ReturnedOnce
      <3>4. QED
        BY <3>2, <3>3
    <2>4. InHand'
      <3>1. /\ rat' \in [Readers -> Traffic!RecvPlaces] /\ rmsg' \in [Readers -> 0..issued']
            /\ \A q \in Readers : rat'[q] = "loop" => rmsg'[q] = 0
        BY <1>1, <1>3, <1>4, <2>1 DEF ChannelInv, InHand, Traffic!RecvPlaces
      <3>2. \A p, q \in Readers :
               rmsg'[p] = rmsg'[q] /\ rmsg'[p] # 0 /\ rmsg'[p] \notin lapsed' => p = q
        BY <2>1, <2>3 DEF ChannelInv, InHand
      <3>3. QED
        BY <3>1, <3>2 DEF InHand
    <2>5. ReturnedOnce'
      BY <1>1, <2>1, <2>3 DEF ChannelInv, ReturnedOnce, InHand
    <2>6. AcceptedIsNear'
      <3>1. ASSUME NEW n \in (1..MaxMsgs) \ lapsed', got'[n] > 0 \/ \E q \in Readers : rmsg'[q] = n
            PROVE  content[n] # Short /\ Near(window', content[n])
        <4>1. CASE n = m
          BY <2>0, <2>2, <4>1 DEF k
        <4>2. CASE n # m
          <5>1. Held(n) /\ n \notin lapsed /\ n \notin Traffic!PassedBy(k)
            BY <1>1, <2>1, <3>1, <4>2 DEF ChannelInv, InHand
          <5>2. content[n] # Short /\ Near(window, content[n])
            BY <5>1 DEF ChannelInv, AcceptedIsNear
          <5>3. ~(IsForward(fw) /\ 2 * (WrapSub(window.last, content[n]) + fw) > M)
            BY <1>p, <5>1
          <5>4. QED
            BY <2>2, <5>2, <5>3
        <4>3. QED
          BY <4>1, <4>2
      <3>2. QED
        BY <1>1, <3>1 DEF ChannelInv, AcceptedIsNear
    <2>7. QED
      BY <1>1, <1>5, <2>2, <2>4, <2>5, <2>6 DEF ChannelInv, chan
  <1>10. QED
    BY <1>8, <1>9

\* The readers have nothing to do with what is sent.
LEMMA ReadersKept ==
    ASSUME ChannelInv, SendShape', UNCHANGED recvSide, issued' >= issued
    PROVE  ChannelInv'
  <1>1. window' = window /\ rat' = rat /\ rmsg' = rmsg /\ got' = got /\ lapsed' = lapsed
        /\ content' = content
    BY DEF recvSide
  <1>2. (window \in Windows)' /\ ReturnedOnce' /\ AcceptedIsNear'
    BY <1>1 DEF ChannelInv, ReturnedOnce, AcceptedIsNear, Near
  <1>3. rmsg' \in [Readers -> 0..issued']
    <2>1. \A r \in Readers : rmsg[r] \in 0..issued'
      BY DEF ChannelInv, InHand, SendShape
    <2>2. QED
      BY <1>1, <2>1 DEF ChannelInv, InHand
  <1>4. InHand'
    BY <1>1, <1>3 DEF ChannelInv, InHand
  <1>5. QED
    BY <1>2, <1>4 DEF ChannelInv

\* Taking a number offers the message to the channel.
LEMMA SenderBegins ==
    ASSUME ChannelInv, NEW s \in Senders, Traffic!SendBegin(s)
    PROVE  ChannelInv' /\ [ChannelMove]_chan
  <1>1. /\ issued < MaxMsgs /\ issued' = issued + 1
        /\ \/ smsg' = [smsg EXCEPT ![s] = issued + 1] /\ sat' = [sat EXCEPT ![s] = "pick"]
           \/ smsg' = smsg /\ sat' = sat
        /\ UNCHANGED <<toB, window, rat, rmsg, got, lapsed, content>>
    BY DEF Traffic!SendBegin, Traffic!netVars, Traffic!recvVars
  <1>2. MaxMsgs \in Nat /\ issued \in 0..MaxMsgs /\ issued + 1 \in 1..MaxMsgs
    BY <1>1, ContentSpace DEF ChannelInv, SendShape
  <1>3. SendShape'
    <2>1. \A l \in Links : toB[l] \in Seq(1..(issued + 1))
      <3>1. ASSUME NEW l \in Links PROVE toB[l] \in Seq(1..(issued + 1))
        <4>1. toB[l] \in Seq(1..issued)
          BY DEF ChannelInv, SendShape
        <4>2. 1..issued \subseteq 1..(issued + 1)
          BY <1>2
        <4>3. QED
          BY <4>1, <4>2, QueueWidened
      <3>2. QED
        BY <3>1
    <2>2. toB' \in [Links -> Seq(1..issued')]
      BY <1>1, <2>1 DEF ChannelInv, SendShape
    <2>0. smsg \in [Senders -> 0..(issued + 1)]
      <3>1. \A q \in Senders : smsg[q] \in 0..(issued + 1)
        BY <1>2 DEF ChannelInv, SendShape
      <3>2. QED
        BY <3>1 DEF ChannelInv, SendShape
    <2>3. sat' \in [Senders -> Traffic!SendPlaces]
      BY <1>1 DEF ChannelInv, SendShape, Traffic!SendPlaces
    <2>4. smsg' \in [Senders -> 0..(issued + 1)] /\ issued' = issued + 1
      <3>1. CASE smsg' = smsg
        BY <1>1, <2>0, <3>1
      <3>2. CASE smsg' = [smsg EXCEPT ![s] = issued + 1]
        <4>1. issued + 1 \in 0..(issued + 1)
          BY <1>2
        <4>2. QED
          BY <1>1, <2>0, <3>2, <4>1
      <3>3. QED
        BY <1>1, <3>1, <3>2
    <2>5. \A q \in Senders : sat'[q] # "idle" => smsg'[q] # 0
      BY <1>1, <1>2 DEF ChannelInv, SendShape
    <2>6. QED
      BY <1>1, <1>2, <2>2, <2>3, <2>4, <2>5 DEF SendShape
  <1>4. ChannelInv'
    BY <1>1, <1>2, <1>3, ReadersKept DEF recvSide
  <1>5. Failover!Offer(issued + 1)
    BY <1>1, <1>2 DEF Failover!Offer, Msgs
  <1>6. QED
    BY <1>2, <1>4, <1>5 DEF Failover!Next, ChannelMove, Msgs

\* A message is written, or not, and its sender goes on with it or returns.
LEMMA SenderGoesOn ==
    ASSUME ChannelInv, NEW s \in Senders, sat[s] # "idle", NEW p \in Traffic!SendPlaces,
           sat' = [sat EXCEPT ![s] = p],
           \/ smsg' = smsg
           \/ smsg' = [smsg EXCEPT ![s] = 0] /\ p = "idle",
           Traffic!Written(s) \/ toB' = toB,
           UNCHANGED issued, UNCHANGED recvSide
    PROVE  ChannelInv' /\ UNCHANGED chan
  <1>0. issued \in Nat /\ smsg[s] \in 1..issued
    BY DEF ChannelInv, SendShape
  <1>1. toB' \in [Links -> Seq(1..issued)]
    <2>1. CASE toB' = toB
      BY <2>1 DEF ChannelInv, SendShape
    <2>2. CASE Traffic!Written(s)
      <3>1. toB \in [Links -> Seq(1..issued)]
        BY DEF ChannelInv, SendShape
      <3>2. \A l \in Links : Append(toB[l], smsg[s]) \in Seq(1..issued)
        BY <1>0, <3>1
      <3>3. QED
        BY <2>2, <3>1, <3>2 DEF Traffic!Written
    <2>3. QED
      BY <2>1, <2>2
  <1>2. smsg' \in [Senders -> 0..issued] /\ sat' \in [Senders -> Traffic!SendPlaces]
    BY <1>0 DEF ChannelInv, SendShape
  <1>3. \A q \in Senders : sat'[q] # "idle" => smsg'[q] # 0
    BY DEF ChannelInv, SendShape
  <1>4. SendShape'
    BY <1>1, <1>2, <1>3 DEF ChannelInv, SendShape
  <1>5. ChannelInv'
    BY <1>0, <1>4, ReadersKept
  <1>6. QED
    BY <1>5 DEF chan, recvSide

\* Every step of a sender that has a message.
LEMMA SenderSteps ==
    ASSUME ChannelInv, NEW s \in Senders, Traffic!SendStep(s)
    PROVE  ChannelInv' /\ UNCHANGED chan
  <1> USE DEF Traffic!SendPlaces
  <1>1. UNCHANGED recvSide /\ UNCHANGED issued
    BY DEF Traffic!SendStep, Traffic!CurrentOrPick, Traffic!Adopt, Traffic!Write,
           Traffic!PromoteOnFailure, Traffic!Retry, Traffic!RecordUnacked, Traffic!recvVars, recvSide
  <1>2. CASE Traffic!CurrentOrPick(s)
    <2>1. /\ sat[s] # "idle" /\ toB' = toB
          /\ \/ smsg' = smsg /\ sat' = [sat EXCEPT ![s] = "write"]
             \/ smsg' = smsg /\ sat' = [sat EXCEPT ![s] = "adopt"]
             \/ smsg' = [smsg EXCEPT ![s] = 0] /\ sat' = [sat EXCEPT ![s] = "idle"]
      BY <1>2 DEF Traffic!CurrentOrPick, Traffic!SendReturn, Traffic!netVars, Traffic!NoMsg
    <2>2. QED
      BY <1>1, <2>1, SenderGoesOn
  <1>3. CASE Traffic!Adopt(s)
    <2>1. sat[s] # "idle" /\ toB' = toB /\ smsg' = smsg /\ sat' = [sat EXCEPT ![s] = "write"]
      BY <1>3 DEF Traffic!Adopt, Traffic!netVars
    <2>2. QED
      BY <1>1, <2>1, SenderGoesOn
  <1>4. CASE Traffic!Write(s)
    <2>1. /\ sat[s] # "idle" /\ smsg' = smsg /\ (Traffic!Written(s) \/ toB' = toB)
          /\ \/ sat' = [sat EXCEPT ![s] = "record"]
             \/ sat' = [sat EXCEPT ![s] = "promote"]
      BY <1>4 DEF Traffic!Write, Traffic!Failed
    <2>2. QED
      BY <1>1, <2>1, SenderGoesOn
  <1>5. CASE Traffic!PromoteOnFailure(s)
    <2>1. /\ sat[s] # "idle" /\ toB' = toB
          /\ \/ smsg' = smsg /\ sat' = [sat EXCEPT ![s] = "retry"]
             \/ smsg' = [smsg EXCEPT ![s] = 0] /\ sat' = [sat EXCEPT ![s] = "idle"]
      BY <1>5 DEF Traffic!PromoteOnFailure, Traffic!SendReturn, Traffic!netVars, Traffic!NoMsg
    <2>2. QED
      BY <1>1, <2>1, SenderGoesOn
  <1>6. CASE Traffic!Retry(s)
    <2>1. /\ sat[s] # "idle" /\ (Traffic!Written(s) \/ toB' = toB)
          /\ \/ smsg' = smsg /\ sat' = [sat EXCEPT ![s] = "record"]
             \/ smsg' = [smsg EXCEPT ![s] = 0] /\ sat' = [sat EXCEPT ![s] = "idle"]
      BY <1>6 DEF Traffic!Retry, Traffic!Failed, Traffic!SendReturn, Traffic!NoMsg
    <2>2. QED
      BY <1>1, <2>1, SenderGoesOn
  <1>7. CASE Traffic!RecordUnacked(s)
    <2>1. /\ sat[s] # "idle" /\ toB' = toB
          /\ smsg' = [smsg EXCEPT ![s] = 0] /\ sat' = [sat EXCEPT ![s] = "idle"]
      BY <1>7 DEF Traffic!RecordUnacked, Traffic!SendReturn, Traffic!netVars, Traffic!NoMsg
    <2>2. QED
      BY <1>1, <2>1, SenderGoesOn
  <1>8. QED
    BY <1>2, <1>3, <1>4, <1>5, <1>6, <1>7 DEF Traffic!SendStep

\* Acknowledgements do not concern the channel; a link that goes down loses
\* messages and makes none.
LEMMA LinkSteps ==
    ASSUME ChannelInv, NEW l \in Links,
           Traffic!OnAck(l) \/ Traffic!ReadError(l) \/ Traffic!LoseLink(l)
    PROVE  ChannelInv' /\ UNCHANGED chan
  <1>1. UNCHANGED recvSide /\ UNCHANGED <<issued, sat, smsg>>
    BY DEF Traffic!OnAck, Traffic!ReadError, Traffic!LoseLink, Traffic!recvVars,
       Traffic!sendVars,
           recvSide
  <1>2. toB' \in [Links -> Seq(1..issued)]
    <2>0. toB \in [Links -> Seq(1..issued)]
      BY DEF ChannelInv, SendShape
    <2>1. CASE Traffic!OnAck(l) \/ Traffic!ReadError(l)
      BY <2>0, <2>1 DEF Traffic!OnAck, Traffic!ReadError, Traffic!netVars
    <2>2. CASE Traffic!LoseLink(l)
      <3>1. PICK i \in 0..Len(toB[l]) : toB' = [toB EXCEPT ![l] = SubSeq(toB[l], 1, i)]
        BY <2>2 DEF Traffic!LoseLink
      <3>2. SubSeq(toB[l], 1, i) \in Seq(1..issued)
        BY <2>0, QueueCut
      <3>3. QED
        BY <2>0, <3>1, <3>2
    <2>3. QED
      BY <2>1, <2>2
  <1>3. SendShape'
    BY <1>1, <1>2 DEF ChannelInv, SendShape
  <1>4. ChannelInv'
    BY <1>1, <1>3, ReadersKept DEF ChannelInv, SendShape
  <1>5. QED
    BY <1>1, <1>4 DEF chan, recvSide

\* The steps of a reader that flushes.
LEMMA FlushSteps ==
    ASSUME ChannelInv, NEW r \in Readers, Traffic!FlushStep(r)
    PROVE  ChannelInv' /\ [ChannelMove]_chan
  <1>1. UNCHANGED sendSide /\ UNCHANGED <<window, lapsed, content>>
    BY DEF Traffic!FlushStep, Traffic!CountAccept, Traffic!MaybeFlush, Traffic!TakePending,
           Traffic!TakeSnapshot, Traffic!SendAck, Traffic!sendVars, Traffic!netVars, sendSide
  <1>2. CASE Traffic!RecvReturn(r)
    BY <1>1, <1>2, ReaderReturns
  <1>3. CASE ~Traffic!RecvReturn(r)
    <2>1. UNCHANGED <<rmsg, got>> /\ \/ rat' = [rat EXCEPT ![r] = "take"]
                                      \/ rat' = [rat EXCEPT ![r] = "snapshot"]
                                      \/ rat' = [rat EXCEPT ![r] = "send"]
      BY <1>3 DEF Traffic!FlushStep, Traffic!CountAccept, Traffic!MaybeFlush,
         Traffic!TakePending, Traffic!TakeSnapshot, Traffic!SendAck
    <2>2. QED
      BY <1>1, <2>1, ReaderGoesOn DEF Traffic!RecvPlaces
  <1>4. QED
    BY <1>2, <1>3

\* Every step keeps the invariant and is a step of the channel.
LEMMA ChannelSteps ==
    ChannelInv /\ [Traffic!Next]_(Traffic!vars)
        => ChannelInv' /\ [ChannelMove]_chan
  <1> SUFFICES ASSUME ChannelInv, [Traffic!Next]_(Traffic!vars)
               PROVE  ChannelInv' /\ [ChannelMove]_chan
    OBVIOUS
  <1>1. ASSUME NEW s \in Senders, Traffic!SendBegin(s) \/ Traffic!SendStep(s)
        PROVE  ChannelInv' /\ [ChannelMove]_chan
    BY <1>1, SenderBegins, SenderSteps
  <1>2. ASSUME NEW r \in Readers, Traffic!FlushStep(r) \/ \E l \in Links : Traffic!RecvMessage(r, l)
        PROVE  ChannelInv' /\ [ChannelMove]_chan
    BY <1>2, FlushSteps, ReaderTakes
  <1>3. ASSUME NEW l \in Links, Traffic!OnAck(l) \/ Traffic!ReadError(l) \/ Traffic!LoseLink(l)
        PROVE  ChannelInv' /\ [ChannelMove]_chan
    BY <1>3, LinkSteps
  <1>4. CASE UNCHANGED Traffic!vars
    <2>1. UNCHANGED sendSide /\ UNCHANGED recvSide
      BY <1>4 DEF Traffic!vars, Traffic!netVars, Traffic!sendVars, Traffic!recvVars, sendSide,
         recvSide
    <2>2. SendShape' /\ issued' = issued /\ issued \in Nat
      BY <2>1 DEF ChannelInv, SendShape, sendSide
    <2>3. ChannelInv'
      BY <2>1, <2>2, ReadersKept
    <2>4. QED
      BY <2>1, <2>2, <2>3 DEF chan, recvSide
  <1>5. QED
    BY <1>1, <1>2, <1>3, <1>4 DEF Traffic!Next

\* Session::send with its failover and Session::recv with several readers step
\* as the at-most-once channel, for any links, senders, readers, losses and
\* payloads: a write that failed on one link, was carried out all the same and
\* was repeated on another reaches the caller once, unless payloads have taken
\* the newest number more than half the space past it.
THEOREM TrafficDeliversOnce == Traffic!Spec => OnceUnlessLapsed
  <1>1. Traffic!Init => Failover!Init
    <2>1. Traffic!Init => 1..issued = {}
      BY DEF Traffic!Init
    <2>2. QED
      BY <2>1 DEF Traffic!Init, Failover!Init, Msgs, Traffic!Msgs
  <1>2. Traffic!Init => ChannelInv
    BY ChannelInvInit
  <1>3. ChannelInv /\ [Traffic!Next]_(Traffic!vars)
            => ChannelInv' /\ [Failover!Next \/ \E m \in Msgs : Again(m)]_<<issued, got>>
    BY ChannelSteps DEF chan, ChannelMove
  <1>4. QED
    BY <1>1, <1>2, <1>3, PTL DEF Traffic!Spec, OnceUnlessLapsed
=============================================================================
