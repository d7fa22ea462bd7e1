------------------------- MODULE FramedStreamProofs -------------------------
(***************************************************************************)
(* The frames that one end of a TCP or IPC connection reads are the frames *)
(* that the other end wrote, in order, for headers, payloads and socket    *)
(* buffers of any size and any number of frames, as long as no read was    *)
(* given up half-way.                                                      *)
(***************************************************************************)
EXTENDS FramedStream, SequenceTheorems, TLAPS

-----------------------------------------------------------------------------
(* The inductive invariant.                                                *)

\* The queue of a read lock, by phase: one read at most, then the close.
ReadLock(e) ==
    /\ rq[e] \in {<<>>, <<"read">>, <<"close">>, <<"read", "close">>}
    /\ phase[e] = "write" => rq[e] = <<>>
    /\ phase[e] \in {"read", "up"} => rq[e] \in {<<>>, <<"read">>}

\* Frames are written in the order of their numbers.
WrittenInOrder(e) == \A i \in 1..Len(wrote[e]) : wrote[e][i] = i - 1

\* e may still write a unit, now or later: its half and the other end are
\* there, and its handshake is under way or written.
Writes(e) == whalf[e] /\ ~Gone(Other(e)) /\ (phase[e] = "write" \/ wrote[e] # <<>>)

\* The frames that wait at the write lock are the next ones.
WriteLock(e) ==
    /\ \A k \in 1..Len(wq[e]) : wq[e][k] = Close => ~rhalf[e]
    /\ phase[e] = "write" => wq[e] = <<0>> /\ wrote[e] = <<>> /\ begun[e] = 0
    /\ phase[e] = "read" => wq[e] = <<>> /\ begun[e] = 0
    /\ phase[e] \in {"read", "up"} => wrote[e] # <<>>
    /\ phase[e] # "write" /\ wrote[e] = <<>> => \A k \in 1..Len(wq[e]) : wq[e][k] = Close
    /\ Writes(e) =>
          /\ \A k \in 1..Len(wq[e]) : wq[e][k] # Close => wq[e][k] = Len(wrote[e]) + k - 1
          /\ phase[e] \in {"write", "read", "up"} => Len(wrote[e]) + Len(wq[e]) = begun[e] + 1

\* What e's reads have returned.
ReturnedInOrder(e) ==
    /\ \A i \in 1..Len(got[e]) : got[e][i] = i - 1
    /\ Len(got[e]) <= Len(wrote[Other(e)])

\* The unit after u, in the order in which frames are written.
Succ(u) == IF u[2] = FrameLen THEN <<u[1] + 1, 1>> ELSE <<u[1], u[2] + 1>>

\* p starts with unit r and goes on without a gap; it is of frames that, if
\* they end there, are among the first n; and w comes after it.
Chain(p, r) ==
    /\ p # <<>> => p[1] = r
    /\ \A k \in 1..(Len(p) - 1) : p[k + 1] = Succ(p[k])
Within(p, n) == \A k \in 1..Len(p) : Succ(p[k])[1] <= n
EndsAt(p, r, w) == IF p = <<>> THEN r = w ELSE Succ(p[Len(p)]) = w

Wanted(e)  == <<Len(got[e]), Len(buf[e]) + 1>>   \* what e reads next
Written(e) == <<Len(wrote[e]), put[e] + 1>>      \* what e writes next

\* e may still read a unit.
Reads(e) == ~torn[e] /\ rhalf[e] /\ (phase[e] \in {"write", "read", "up"} \/ Reading(e))

\* What a read has consumed is the beginning of the next frame, and what is
\* under way is the rest of it, up to what the other end writes next.
Consumed(e) ==
    /\ Len(buf[e]) < FrameLen
    /\ \A i \in 1..Len(buf[e]) : buf[e][i] = <<Len(got[e]), i>>
    /\ Len(buf[e]) >= HeaderLen => need[e] = BodyLen
Stream(e) ==
    /\ Chain(pipe[e], Wanted(e))
    /\ Within(pipe[e], Len(wrote[Other(e)]))
    /\ Writes(Other(e)) => EndsAt(pipe[e], Wanted(e), Written(Other(e)))

\* What holds of the end that writes and of the end that reads.
WriterInv(e) == ReadLock(e) /\ WrittenInOrder(e) /\ WriteLock(e)
ReaderInv(e) == (~torn[e] => ReturnedInOrder(e)) /\ (Reads(e) => Consumed(e) /\ Stream(e))

\* The stream ends when the other end has given back its write half.
EofMeansClosed == \A e \in Ends : eof[e] => ~whalf[Other(e)]

FInv == TypeOK /\ EofMeansClosed /\ \A e \in Ends : WriterInv(e) /\ ReaderInv(e)

-----------------------------------------------------------------------------
(* Ends, queues and units.                                                 *)

\* There are two ends.
LEMMA OtherEnd ==
    /\ Other("dialler") = "acceptor" /\ Other("acceptor") = "dialler"
    /\ \A e \in Ends : /\ Other(e) \in Ends /\ Other(e) # e /\ Other(Other(e)) = e
                       /\ \A x \in Ends : x = e \/ x = Other(e)
  <1>1. Other("dialler") = "acceptor" /\ Other("acceptor") = "dialler"
    BY DEF Other, Ends
  <1>2. QED
    BY <1>1 DEF Ends

\* The queues of a read lock.
LEMMA ReadQueues ==
    /\ "read" \notin Range(<<>>) /\ "read" \in Range(<<"read">>)
    /\ "read" \notin Range(<<"close">>) /\ "read" \in Range(<<"read", "close">>)
    /\ Tail(<<"read">>) = <<>> /\ Tail(<<"close">>) = <<>>
    /\ Tail(<<"read", "close">>) = <<"close">>
    /\ Append(<<>>, "read") = <<"read">> /\ Append(<<>>, "close") = <<"close">>
    /\ Append(<<"read">>, "close") = <<"read", "close">>
    /\ Head(<<"read">>) = "read" /\ Head(<<"read", "close">>) = "read"
    /\ Head(<<"close">>) = "close"
    /\ <<"read">> # <<>> /\ <<"close">> # <<>> /\ <<"read", "close">> # <<>>
  <1>1. "read" \notin Range(<<>>) /\ "read" \notin Range(<<"close">>)
    BY DEF Range
  <1>2. "read" \in Range(<<"read">>)
    <2>1. 1 \in DOMAIN <<"read">> /\ <<"read">>[1] = "read"
      OBVIOUS
    <2>2. QED
      BY <2>1, Zenon DEF Range
  <1>3. "read" \in Range(<<"read", "close">>)
    <2>1. 1 \in DOMAIN <<"read", "close">> /\ <<"read", "close">>[1] = "read"
      OBVIOUS
    <2>2. QED
      BY <2>1, Zenon DEF Range
  <1>4. /\ Tail(<<"read">>) = <<>> /\ Tail(<<"close">>) = <<>>
        /\ Tail(<<"read", "close">>) = <<"close">>
    OBVIOUS
  <1>5. Append(<<>>, "read") = <<"read">> /\ Append(<<>>, "close") = <<"close">>
    OBVIOUS
  <1>6. Append(<<"read">>, "close") = <<"read", "close">>
    <2>1. PICK q : q = Append(<<"read">>, "close")
      OBVIOUS
    <2>2. PICK t : t = <<"read", "close">>
      OBVIOUS
    <2>3. q \in Seq({"read", "close"}) /\ Len(q) = 2 /\ q[1] = "read" /\ q[2] = "close"
      BY <2>1
    <2>4. t \in Seq({"read", "close"}) /\ Len(t) = 2 /\ t[1] = "read" /\ t[2] = "close"
      BY <2>2
    <2>5. \A i \in 1..2 : q[i] = t[i]
      BY <2>3, <2>4
    <2>6. q = t
      BY <2>3, <2>4, <2>5, SeqEqual
    <2>7. QED
      BY <2>1, <2>2, <2>6
  <1>7. /\ Head(<<"read">>) = "read" /\ Head(<<"read", "close">>) = "read"
        /\ Head(<<"close">>) = "close"
    OBVIOUS
  <1>8. <<"read">> # <<>> /\ <<"close">> # <<>> /\ <<"read", "close">> # <<>>
    OBVIOUS
  <1>9. QED
    BY <1>1, <1>2, <1>3, <1>4, <1>5, <1>6, <1>7, <1>8

\* A unit is appended.
LEMMA ChainAppend ==
    ASSUME NEW S, NEW p \in Seq(S), NEW r, NEW w \in S, NEW n \in Int, NEW m \in Int, n <= m,
           \A u \in S : Succ(u)[1] \in Int,
           Chain(p, r), EndsAt(p, r, w), Within(p, n), Succ(w)[1] <= m
    PROVE  /\ Chain(Append(p, w), r) /\ Within(Append(p, w), m)
           /\ EndsAt(Append(p, w), r, Succ(w))
  <1> PICK q : q = Append(p, w)
    OBVIOUS
  <1>1. /\ q \in Seq(S) /\ Len(q) = Len(p) + 1 /\ Len(p) \in Nat /\ q # <<>>
        /\ \A k \in 1..Len(p) : q[k] = p[k]
        /\ q[Len(p) + 1] = w
        /\ p = <<>> <=> Len(p) = 0
        /\ \A k \in 1..Len(p) : p[k] \in S
    OBVIOUS
  <1>2. q[1] = r
    BY <1>1 DEF Chain, EndsAt
  <1>3. ASSUME NEW k \in 1..(Len(q) - 1) PROVE q[k + 1] = Succ(q[k])
    <2>1. CASE k = Len(p)
      BY <2>1, <1>1 DEF EndsAt
    <2>2. CASE k # Len(p)
      <3>1. k \in 1..(Len(p) - 1) /\ k + 1 \in 1..Len(p) /\ k \in 1..Len(p)
        BY <2>2, <1>1
      <3>2. QED
        BY <3>1, <1>1 DEF Chain
    <2>3. QED
      BY <2>1, <2>2
  <1>4. ASSUME NEW k \in 1..Len(q) PROVE Succ(q[k])[1] <= m
    <2>1. CASE k = Len(p) + 1
      BY <2>1, <1>1
    <2>2. CASE k # Len(p) + 1
      <3>1. k \in 1..Len(p) /\ q[k] = p[k] /\ p[k] \in S
        BY <2>2, <1>1
      <3>2. Succ(p[k])[1] <= n /\ Succ(p[k])[1] \in Int
        BY <3>1 DEF Within
      <3>3. QED
        BY <3>1, <3>2
    <2>3. QED
      BY <2>1, <2>2
  <1>5. QED
    BY <1>1, <1>2, <1>3, <1>4 DEF Chain, Within, EndsAt

\* A unit is taken.
LEMMA ChainTail ==
    ASSUME NEW S, NEW p \in Seq(S), NEW r, NEW n, p # <<>>, Chain(p, r), Within(p, n)
    PROVE  /\ Head(p) = r /\ Succ(r)[1] <= n
           /\ Chain(Tail(p), Succ(r)) /\ Within(Tail(p), n)
           /\ \A w : EndsAt(p, r, w) => EndsAt(Tail(p), Succ(r), w)
  <1> PICK q : q = Tail(p)
    OBVIOUS
  <1>1. /\ q \in Seq(S) /\ Len(q) = Len(p) - 1 /\ Len(p) \in Nat /\ Len(p) >= 1
        /\ \A k \in 1..Len(q) : q[k] = p[k + 1]
        /\ q = <<>> <=> Len(q) = 0
        /\ Head(p) = p[1]
    <2>1. /\ q \in Seq(S) /\ Len(q) = Len(p) - 1 /\ Len(p) \in Nat /\ Len(p) >= 1
          /\ Head(p) = p[1]
      OBVIOUS
    <2>2. \A k \in 1..Len(q) : q[k] = p[k + 1]
      OBVIOUS
    <2>3. q = <<>> <=> Len(q) = 0
      BY <2>1
    <2>4. QED
      BY <2>1, <2>2, <2>3
  <1>2. Head(p) = r /\ p[1] = r /\ Succ(r)[1] <= n
    BY <1>1 DEF Chain, Within
  <1>3. Chain(q, Succ(r))
    <2>1. q # <<>> => q[1] = Succ(r)
      BY <1>1, <1>2 DEF Chain
    <2>2. ASSUME NEW k \in 1..(Len(q) - 1) PROVE q[k + 1] = Succ(q[k])
      <3>1. /\ k \in 1..Len(q) /\ k + 1 \in 1..Len(q) /\ k + 1 \in 1..(Len(p) - 1)
            /\ (k + 1) + 1 = k + 2
        BY <1>1
      <3>2. p[(k + 1) + 1] = Succ(p[k + 1])
        BY <3>1 DEF Chain
      <3>3. q[k] = p[k + 1] /\ q[k + 1] = p[(k + 1) + 1]
        BY <3>1, <1>1
      <3>4. QED
        BY <3>2, <3>3
    <2>3. QED
      BY <2>1, <2>2 DEF Chain
  <1>4. Within(q, n)
    BY <1>1 DEF Within
  <1>5. ASSUME NEW w, EndsAt(p, r, w) PROVE EndsAt(q, Succ(r), w)
    <2>1. Succ(p[Len(p)]) = w
      BY <1>5 DEF EndsAt
    <2>2. CASE q = <<>>
      BY <2>1, <2>2, <1>1, <1>2 DEF EndsAt
    <2>3. CASE q # <<>>
      <3>1. Len(q) \in 1..Len(q) /\ Len(q) + 1 = Len(p)
        BY <2>3, <1>1
      <3>2. q[Len(q)] = p[Len(p)]
        BY <3>1, <1>1
      <3>3. QED
        BY <3>2, <2>1, <2>3 DEF EndsAt
    <2>4. QED
      BY <2>2, <2>3
  <1>6. QED
    BY <1>2, <1>3, <1>4, <1>5

-----------------------------------------------------------------------------
(* Types.                                                                  *)

\* The bounds are numbers.
LEMMA Bounds ==
    /\ HeaderLen \in Nat /\ HeaderLen >= 1 /\ BodyLen \in Nat /\ BodyLen >= 1
    /\ PipeCap \in Nat /\ MaxFrames \in Nat /\ MaxCancels \in Nat
    /\ FrameLen = HeaderLen + BodyLen /\ FrameLen \in Nat /\ FrameLen > HeaderLen
  BY StreamAssumption DEF FrameLen

\* A unit has a frame and a place in it, and so has the next one.
LEMMA UnitParts ==
    /\ \A u \in Units : u[1] \in 0..MaxFrames /\ u[2] \in 1..FrameLen /\ Succ(u)[1] \in Int
    /\ \A n \in 0..MaxFrames, i \in 1..FrameLen :
          <<n, i>> \in Units /\ <<n, i>>[1] = n /\ <<n, i>>[2] = i
  <1>1. MaxFrames \in Nat /\ FrameLen \in Nat
    BY Bounds
  <1>2. QED
    BY <1>1 DEF Units, Succ

\* Both ends start with their handshake to be written.
LEMMA FInvInit == Init => FInv
  <1> SUFFICES ASSUME Init PROVE FInv
    OBVIOUS
  <1>1. TypeOK
    <2>1. /\ pipe \in [Ends -> Seq(Units)] /\ \A e \in Ends : Len(pipe[e]) <= PipeCap
      BY Bounds DEF Init
    <2>2. /\ rq \in [Ends -> Seq({"read", "close"})]
          /\ wq \in [Ends -> Seq((0..MaxFrames) \cup {Close})]
          /\ buf \in [Ends -> Seq(Units)] /\ wrote \in [Ends -> Seq(0..MaxFrames)]
          /\ got \in [Ends -> Seq((0..MaxFrames) \cup {Garbage})]
      BY Bounds DEF Init
    <2>3. /\ need \in [Ends -> 0..(BodyLen + 1)] /\ put \in [Ends -> 0..(FrameLen - 1)]
          /\ begun \in [Ends -> 0..MaxFrames] /\ cancels \in 0..MaxCancels
      BY Bounds DEF Init
    <2>4. QED
      BY <2>1, <2>2, <2>3 DEF Init, TypeOK, BothHalves, Phases, Readers
  <1>2. ASSUME NEW e \in Ends PROVE WriterInv(e) /\ ReaderInv(e)
    <2>1. /\ Other(e) \in Ends /\ phase[e] = "write" /\ rq[e] = <<>> /\ wq[e] = <<0>>
          /\ wrote[e] = <<>> /\ wrote[Other(e)] = <<>> /\ begun[e] = 0 /\ got[e] = <<>>
          /\ buf[e] = <<>> /\ pipe[e] = <<>> /\ put[Other(e)] = 0
      BY OtherEnd DEF Init
    <2>2. WriterInv(e)
      <3>1. Len(wq[e]) = 1 /\ wq[e][1] = 0 /\ Len(wrote[e]) = 0
        BY <2>1
      <3>2. ReadLock(e) /\ WrittenInOrder(e)
        BY <2>1, <3>1 DEF ReadLock, WrittenInOrder
      <3>3. WriteLock(e)
        BY <2>1, <3>1 DEF WriteLock, Close
      <3>4. QED
        BY <3>2, <3>3 DEF WriterInv
    <2>3. Wanted(e) = <<0, 1>> /\ Written(Other(e)) = <<0, 1>>
      BY <2>1 DEF Wanted, Written
    <2>4. Len(got[e]) = 0 /\ Len(buf[e]) = 0 /\ Len(pipe[e]) = 0 /\ Len(wrote[Other(e)]) = 0
      BY <2>1
    <2>5. Consumed(e) /\ ReturnedInOrder(e)
      BY <2>4, Bounds DEF Consumed, ReturnedInOrder
    <2>6. Stream(e)
      BY <2>1, <2>3, <2>4 DEF Stream, Chain, Within, EndsAt
    <2>7. QED
      BY <2>2, <2>5, <2>6 DEF ReaderInv
  <1>3. EofMeansClosed
    BY DEF Init, EofMeansClosed
  <1>4. QED
    BY <1>1, <1>2, <1>3 DEF FInv

\* close() joins the queue of the read lock.
LEMMA StartCloseType ==
    ASSUME TypeOK, NEW e \in Ends, NEW q \in Seq({"read", "close"}), StartClose(e, q)
    PROVE  phase' \in [Ends -> Phases] /\ rq' \in [Ends -> Seq({"read", "close"})]
  <1>1. Append(q, "close") \in Seq({"read", "close"})
    OBVIOUS
  <1>2. QED
    BY <1>1 DEF TypeOK, StartClose, Phases

\* The number of a frame that was read.
LEMMA FrameOfType ==
    ASSUME NEW units \in Seq(Units)
    PROVE  FrameOf(units) \in (0..MaxFrames) \cup {Garbage}
  <1>1. CASE Len(units) = FrameLen
    <2>1. units[1] \in Units
      BY <1>1, Bounds
    <2>2. QED
      BY <2>1, UnitParts DEF FrameOf
  <1>2. CASE Len(units) # FrameLen
    BY <1>2 DEF FrameOf
  <1>3. QED
    BY <1>1, <1>2

\* What is written and read keeps its type.
LEMMA TypeOKStep == FInv /\ [Next]_vars => TypeOK'
  <1> SUFFICES ASSUME FInv, TypeOK, [Next]_vars PROVE TypeOK'
    BY DEF FInv
  <1>0. /\ HeaderLen \in Nat /\ BodyLen \in Nat /\ PipeCap \in Nat /\ MaxFrames \in Nat
        /\ MaxCancels \in Nat /\ FrameLen \in Nat /\ FrameLen >= 1
    BY Bounds
  <1>1. CASE UNCHANGED vars
    BY <1>1 DEF TypeOK, vars
  <1>2. ASSUME NEW e \in Ends, WriteBegin(e) PROVE TypeOK'
    <2>1. begun[e] + 1 \in 0..MaxFrames
      <3>1. begun[e] \in 0..MaxFrames /\ begun[Other(e)] \in 0..MaxFrames
        BY OtherEnd DEF TypeOK
      <3>2. QED
        BY <3>1, <1>0, <1>2 DEF WriteBegin
    <2>2. wq' \in [Ends -> Seq((0..MaxFrames) \cup {Close})]
      <3>1. Append(wq[e], begun[e] + 1) \in Seq((0..MaxFrames) \cup {Close})
        BY <2>1 DEF TypeOK
      <3>2. QED
        BY <3>1, <1>2 DEF WriteBegin, TypeOK
    <2>3. QED
      BY <2>1, <2>2, <1>2 DEF WriteBegin, TypeOK
  <1>3. ASSUME NEW e \in Ends, WriteUnit(e) PROVE TypeOK'
    <2> DEFINE o == Other(e)
               n == Head(wq[e])
    <2>1. o \in Ends /\ wq[e] \in Seq((0..MaxFrames) \cup {Close}) /\ pipe[o] \in Seq(Units)
          /\ wrote[e] \in Seq(0..MaxFrames) /\ put[e] \in 0..(FrameLen - 1)
      BY OtherEnd DEF TypeOK
    <2>2. n \in 0..MaxFrames /\ Tail(wq[e]) \in Seq((0..MaxFrames) \cup {Close})
      BY <2>1, <1>3 DEF WriteUnit
    <2>3. <<n, put[e] + 1>> \in Units /\ put[e] + 1 \in 1..FrameLen
      <3>1. put[e] + 1 \in 1..FrameLen
        BY <2>1, <1>0
      <3>2. QED
        BY <3>1, <2>2, UnitParts
    <2> HIDE DEF o, n
    <2>4. pipe' = [pipe EXCEPT ![o] = Append(pipe[o], <<n, put[e] + 1>>)] /\ Len(pipe[o]) < PipeCap
      BY <1>3 DEF WriteUnit, o, n
    <2>5. pipe' \in [Ends -> Seq(Units)] /\ \A x \in Ends : Len(pipe'[x]) <= PipeCap
      <3> PICK p : p = Append(pipe[o], <<n, put[e] + 1>>)
        OBVIOUS
      <3>1. p \in Seq(Units) /\ Len(p) <= PipeCap
        BY <2>1, <2>3, <2>4, <1>0
      <3>2. QED
        BY <3>1, <2>1, <2>4 DEF TypeOK
    <2>6. put' \in [Ends -> 0..(FrameLen - 1)]
      <3>1. (IF IsLast(e) THEN 0 ELSE put[e] + 1) \in 0..(FrameLen - 1)
        BY <2>1, <1>0 DEF IsLast
      <3>2. QED
        BY <3>1, <1>3 DEF WriteUnit, TypeOK
    <2>7. wq' \in [Ends -> Seq((0..MaxFrames) \cup {Close})] /\ wrote' \in [Ends -> Seq(0..MaxFrames)]
      <3>1. Append(wrote[e], n) \in Seq(0..MaxFrames)
        BY <2>1, <2>2
      <3>2. QED
        BY <3>1, <2>1, <2>2, <1>3 DEF WriteUnit, TypeOK, n
    <2>8. phase' \in [Ends -> Phases]
      BY <1>3 DEF WriteUnit, TypeOK, Phases
    <2>9. UNCHANGED <<eof, rhalf, whalf, rq, buf, need, reader, begun, got, torn, cancels>>
      BY <1>3 DEF WriteUnit
    <2>10. QED
      BY <2>5, <2>6, <2>7, <2>8, <2>9 DEF TypeOK
  <1>4. ASSUME NEW e \in Ends, WriteError(e) PROVE TypeOK'
    <2>1. phase' \in [Ends -> Phases] /\ rq' \in [Ends -> Seq({"read", "close"})]
      <3>1. rq[e] \in Seq({"read", "close"})
        BY DEF TypeOK
      <3>2. CASE StartClose(e, rq[e])
        BY <3>1, <3>2, StartCloseType
      <3>3. CASE UNCHANGED <<phase, rq>>
        BY <3>3 DEF TypeOK
      <3>4. QED
        BY <3>2, <3>3, <1>4 DEF WriteError
    <2>2. wq' \in [Ends -> Seq((0..MaxFrames) \cup {Close})]
      <3>1. Tail(wq[e]) \in Seq((0..MaxFrames) \cup {Close})
        BY <1>4 DEF TypeOK, WriteError
      <3>2. QED
        BY <3>1, <1>4 DEF TypeOK, WriteError
    <2>3. put' \in [Ends -> 0..(FrameLen - 1)]
      BY <1>0, <1>4 DEF TypeOK, WriteError
    <2>4. UNCHANGED <<pipe, eof, rhalf, whalf, buf, need, reader, begun, wrote, got, torn, cancels>>
      BY <1>4 DEF WriteError
    <2>5. QED
      BY <2>1, <2>2, <2>3, <2>4 DEF TypeOK
  <1>5. ASSUME NEW e \in Ends, HandshakeWriteTimeout(e) PROVE TypeOK'
    <2>1. phase' \in [Ends -> Phases] /\ rq' \in [Ends -> Seq({"read", "close"})]
      <3>1. rq[e] \in Seq({"read", "close"})
        BY DEF TypeOK
      <3>2. QED
        BY <3>1, <1>5, StartCloseType DEF HandshakeWriteTimeout
    <2>2. wq' \in [Ends -> Seq((0..MaxFrames) \cup {Close})]
      <3>1. Tail(wq[e]) \in Seq((0..MaxFrames) \cup {Close})
        <4>1. wq[e] = <<0>>
          BY <1>5 DEF HandshakeWriteTimeout, FInv, WriterInv, WriteLock
        <4>2. QED
          BY <4>1 DEF TypeOK
      <3>2. QED
        BY <3>1, <1>5 DEF TypeOK, HandshakeWriteTimeout
    <2>3. put' \in [Ends -> 0..(FrameLen - 1)] /\ cancels' \in 0..MaxCancels
      BY <1>0, <1>5 DEF TypeOK, HandshakeWriteTimeout
    <2>4. UNCHANGED <<pipe, eof, rhalf, whalf, buf, need, reader, begun, wrote, got, torn>>
      BY <1>5 DEF HandshakeWriteTimeout
    <2>5. QED
      BY <2>1, <2>2, <2>3, <2>4 DEF TypeOK
  <1>6. ASSUME NEW e \in Ends, ReadBegin(e) PROVE TypeOK'
    <2>1. rq' \in [Ends -> Seq({"read", "close"})]
      <3>1. Append(rq[e], "read") \in Seq({"read", "close"})
        BY DEF TypeOK
      <3>2. QED
        BY <3>1, <1>6 DEF TypeOK, ReadBegin
    <2>2. reader' \in [Ends -> Readers]
      BY <1>6 DEF TypeOK, ReadBegin, Readers
    <2>3. UNCHANGED <<pipe, eof, rhalf, whalf, wq, buf, need, put, phase, begun, wrote, got,
                     torn, cancels>>
      BY <1>6 DEF ReadBegin
    <2>4. QED
      BY <2>1, <2>2, <2>3 DEF TypeOK
  <1>7. ASSUME NEW e \in Ends, ReadUnit(e) PROVE TypeOK'
    <2> DEFINE units == Append(buf[e], Head(pipe[e]))
    <2>0. /\ pipe[e] # <<>> /\ rq[e] # <<>> /\ pipe' = [pipe EXCEPT ![e] = Tail(pipe[e])]
          /\ UNCHANGED <<eof, rhalf, whalf, wq, put, begun, wrote, torn, cancels>>
      BY <1>7 DEF ReadUnit
    <2>1. units \in Seq(Units)
      BY <2>0 DEF TypeOK
    <2>2. pipe' \in [Ends -> Seq(Units)] /\ \A x \in Ends : Len(pipe'[x]) <= PipeCap
      <3> PICK p : p = Tail(pipe[e])
        OBVIOUS
      <3>1. p \in Seq(Units) /\ Len(p) <= PipeCap
        BY <2>0, <1>0 DEF TypeOK
      <3>2. QED
        BY <3>1, <2>0 DEF TypeOK
    <2> HIDE DEF units
    <2>3. need' \in [Ends -> 0..(BodyLen + 1)]
      <3>1. need' = need \/ \E k \in LengthsOf(units) : need' = [need EXCEPT ![e] = k]
        BY <1>7 DEF ReadUnit, units
      <3>2. LengthsOf(units) \subseteq 0..(BodyLen + 1)
        BY <1>0 DEF LengthsOf
      <3>3. QED
        BY <3>1, <3>2 DEF TypeOK
    <2>4. Tail(rq[e]) \in Seq({"read", "close"})
      BY <2>0 DEF TypeOK
    <2>5. CASE /\ got' = [got EXCEPT ![e] = Append(got[e], FrameOf(units))]
               /\ buf' = [buf EXCEPT ![e] = <<>>] /\ AfterRead(e, FrameOf(units))
      <3>1. got' \in [Ends -> Seq((0..MaxFrames) \cup {Garbage})]
        <4>1. Append(got[e], FrameOf(units)) \in Seq((0..MaxFrames) \cup {Garbage})
          BY <2>1, FrameOfType DEF TypeOK
        <4>2. QED
          BY <4>1, <2>5 DEF TypeOK
      <3>2. buf' \in [Ends -> Seq(Units)]
        BY <2>5 DEF TypeOK
      <3>3. phase' \in [Ends -> Phases] /\ rq' \in [Ends -> Seq({"read", "close"})]
        <4>1. CASE StartClose(e, Tail(rq[e]))
          BY <4>1, <2>4, StartCloseType
        <4>2. CASE /\ UNCHANGED phase \/ phase' = [phase EXCEPT ![e] = "up"]
                   /\ rq' = [rq EXCEPT ![e] = Tail(rq[e])]
          BY <4>2, <2>4 DEF TypeOK, Phases
        <4>3. QED
          BY <4>1, <4>2, <2>5 DEF AfterRead
      <3>4. reader' \in [Ends -> Readers]
        BY <2>5 DEF AfterRead, TypeOK
      <3>5. QED
        BY <3>1, <3>2, <3>3, <3>4, <2>0, <2>2, <2>3 DEF TypeOK
    <2>6. CASE buf' = [buf EXCEPT ![e] = units] /\ UNCHANGED <<got, rq, phase, reader>>
      <3>1. buf' \in [Ends -> Seq(Units)]
        BY <2>1, <2>6 DEF TypeOK
      <3>2. QED
        BY <3>1, <2>6, <2>0, <2>2, <2>3 DEF TypeOK
    <2>7. QED
      BY <2>5, <2>6, <1>7 DEF ReadUnit, units
  <1>8. ASSUME NEW e \in Ends, ReadFail(e) PROVE TypeOK'
    <2>1. Tail(rq[e]) \in Seq({"read", "close"})
      BY <1>8 DEF TypeOK, ReadFail
    <2>2. phase' \in [Ends -> Phases] /\ rq' \in [Ends -> Seq({"read", "close"})]
      <3>1. CASE StartClose(e, Tail(rq[e]))
        BY <3>1, <2>1, StartCloseType
      <3>2. CASE rq' = [rq EXCEPT ![e] = Tail(rq[e])] /\ UNCHANGED phase
        BY <3>2, <2>1 DEF TypeOK
      <3>3. QED
        BY <3>1, <3>2, <1>8 DEF ReadFail
    <2>3. buf' \in [Ends -> Seq(Units)]
      BY <1>8 DEF TypeOK, ReadFail
    <2>4. UNCHANGED <<eof, rhalf, whalf, wq, need, put, reader, begun, wrote, got, torn, cancels>>
      BY <1>8 DEF ReadFail
    <2>5. pipe' \in [Ends -> Seq(Units)] /\ \A x \in Ends : Len(pipe'[x]) <= PipeCap
      BY SMTT(30), <1>0, <1>8 DEF TypeOK, ReadFail
    <2>6. QED
      BY <2>2, <2>3, <2>4, <2>5 DEF TypeOK
  <1>9. ASSUME NEW e \in Ends, ReadCancel(e) PROVE TypeOK'
    <2>0. rq[e] # <<>>
      BY <1>9, ReadQueues DEF ReadCancel, Reading
    <2>1. Tail(rq[e]) \in Seq({"read", "close"})
      BY <2>0 DEF TypeOK
    <2>2. phase' \in [Ends -> Phases] /\ rq' \in [Ends -> Seq({"read", "close"})]
      <3>1. CASE StartClose(e, Tail(rq[e]))
        BY <3>1, <2>1, StartCloseType
      <3>2. CASE rq' = [rq EXCEPT ![e] = Tail(rq[e])] /\ UNCHANGED phase
        BY <3>2, <2>1 DEF TypeOK
      <3>3. QED
        BY <3>1, <3>2, <1>9 DEF ReadCancel
    <2>3. buf' \in [Ends -> Seq(Units)] /\ cancels' \in 0..MaxCancels
      BY <1>0, <1>9 DEF TypeOK, ReadCancel
    <2>4. torn' \in [Ends -> BOOLEAN]
      BY <1>9 DEF TypeOK, ReadCancel
    <2>5. UNCHANGED <<pipe, eof, rhalf, whalf, wq, need, put, reader, begun, wrote, got>>
      BY <1>9 DEF ReadCancel
    <2>6. QED
      BY <2>2, <2>3, <2>4, <2>5 DEF TypeOK
  <1>10. ASSUME NEW e \in Ends, Disconnect(e) PROVE TypeOK'
    <2>1. rq[e] \in Seq({"read", "close"})
      BY DEF TypeOK
    <2>2. phase' \in [Ends -> Phases] /\ rq' \in [Ends -> Seq({"read", "close"})]
      BY <2>1, <1>10, StartCloseType DEF Disconnect
    <2>3. UNCHANGED <<pipe, eof, rhalf, whalf, wq, buf, need, put, reader, begun, wrote, got, torn,
                     cancels>>
      BY <1>10 DEF Disconnect
    <2>4. QED
      BY <2>2, <2>3 DEF TypeOK
  <1>11. ASSUME NEW e \in Ends, CloseRead(e) PROVE TypeOK'
    <2>1. Tail(rq[e]) \in Seq({"read", "close"})
      BY <1>11 DEF TypeOK, CloseRead
    <2>2. Append(wq[e], Close) \in Seq((0..MaxFrames) \cup {Close})
      BY DEF TypeOK
    <2>3. rq' \in [Ends -> Seq({"read", "close"})]
      BY <2>1, <1>11 DEF TypeOK, CloseRead
    <2>4. wq' \in [Ends -> Seq((0..MaxFrames) \cup {Close})] /\ rhalf' \in [Ends -> BOOLEAN]
      BY <2>2, <1>11 DEF TypeOK, CloseRead
    <2>5. UNCHANGED <<pipe, eof, whalf, buf, need, put, phase, reader, begun, wrote, got, torn,
                     cancels>>
      BY <1>11 DEF CloseRead
    <2>6. QED
      BY <2>3, <2>4, <2>5 DEF TypeOK
  <1>12. ASSUME NEW e \in Ends, CloseWrite(e) PROVE TypeOK'
    <2>1. Tail(wq[e]) \in Seq((0..MaxFrames) \cup {Close})
      BY <1>12 DEF TypeOK, CloseWrite
    <2>2. wq' \in [Ends -> Seq((0..MaxFrames) \cup {Close})]
      BY <2>1, <1>12 DEF TypeOK, CloseWrite
    <2>3. /\ whalf' \in [Ends -> BOOLEAN] /\ eof' \in [Ends -> BOOLEAN]
          /\ phase' \in [Ends -> Phases]
      BY <1>12 DEF TypeOK, CloseWrite, Phases
    <2>4. pipe' \in [Ends -> Seq(Units)] /\ \A x \in Ends : Len(pipe'[x]) <= PipeCap
      BY SMTT(30), <1>0, <1>12 DEF TypeOK, CloseWrite
    <2>5. UNCHANGED <<rhalf, rq, buf, need, put, reader, begun, wrote, got, torn, cancels>>
      BY <1>12 DEF CloseWrite
    <2>6. QED
      BY <2>2, <2>3, <2>4, <2>5 DEF TypeOK
  <1>13. ASSUME NEW e \in Ends, Exit(e) PROVE TypeOK'
    <2>1. /\ rhalf' \in [Ends -> BOOLEAN] /\ whalf' \in [Ends -> BOOLEAN]
          /\ eof' \in [Ends -> BOOLEAN] /\ phase' \in [Ends -> Phases]
      BY <1>13 DEF TypeOK, Exit, Phases
    <2>2. /\ rq' \in [Ends -> Seq({"read", "close"})]
          /\ wq' \in [Ends -> Seq((0..MaxFrames) \cup {Close})] /\ buf' \in [Ends -> Seq(Units)]
      <3>1. rq' \in [Ends -> Seq({"read", "close"})]
        BY <1>13 DEF TypeOK, Exit
      <3>2. wq' \in [Ends -> Seq((0..MaxFrames) \cup {Close})]
        BY <1>13 DEF TypeOK, Exit
      <3>3. buf' \in [Ends -> Seq(Units)]
        BY <1>13 DEF TypeOK, Exit
      <3>4. QED
        BY <3>1, <3>2, <3>3
    <2>3. pipe' \in [Ends -> Seq(Units)] /\ \A x \in Ends : Len(pipe'[x]) <= PipeCap
      BY <1>0, <1>13 DEF TypeOK, Exit
    <2>4. put' \in [Ends -> 0..(FrameLen - 1)] /\ cancels' \in 0..MaxCancels
      BY <1>0, <1>13 DEF TypeOK, Exit
    <2>5. UNCHANGED <<need, reader, begun, wrote, got, torn>>
      BY <1>13 DEF Exit
    <2>6. QED
      BY <2>1, <2>2, <2>3, <2>4, <2>5 DEF TypeOK
  <1>14. QED
    BY <1>1, <1>2, <1>3, <1>4, <1>5, <1>6, <1>7, <1>8, <1>9, <1>10, <1>11, <1>12, <1>13
       DEF Next, Write, Read, Closing

-----------------------------------------------------------------------------
(* What a step of one end leaves alone.                                    *)

\* End x is as it was; units may have come or the end of the stream.
Still(x) ==
    /\ rq'[x] = rq[x] /\ wq'[x] = wq[x] /\ buf'[x] = buf[x] /\ need'[x] = need[x]
    /\ put'[x] = put[x] /\ phase'[x] = phase[x] /\ begun'[x] = begun[x]
    /\ wrote'[x] = wrote[x] /\ got'[x] = got[x] /\ torn'[x] = torn[x]
    /\ rhalf'[x] = rhalf[x] /\ whalf'[x] = whalf[x]

\* A half that is given back is not taken again.
HalvesGoDown(x) == (rhalf'[x] => rhalf[x]) /\ (whalf'[x] => whalf[x])

\* One end's locks and numbers, when they stay and it does not write anew.
LEMMA WriterKept ==
    ASSUME NEW x, WriterInv(x), Writes(x)' => Writes(x), rhalf'[x] => rhalf[x],
           rq'[x] = rq[x], wq'[x] = wq[x], phase'[x] = phase[x], begun'[x] = begun[x],
           wrote'[x] = wrote[x]
    PROVE  WriterInv(x)'
  <1>1. ReadLock(x)' /\ WrittenInOrder(x)'
    BY DEF WriterInv, ReadLock, WrittenInOrder
  <1>2. WriteLock(x)'
    BY ZenonT(30) DEF WriterInv, WriteLock
  <1>3. QED
    BY <1>1, <1>2 DEF WriterInv

\* One end's reads, when they stay and the other end does not write.
LEMMA ReaderKept ==
    ASSUME NEW x, ReaderInv(x), Reads(x)' => Reads(x), torn[x] => torn'[x],
           pipe'[x] = pipe[x], got'[x] = got[x], buf'[x] = buf[x], need'[x] = need[x],
           wrote'[Other(x)] = wrote[Other(x)],
           Writes(Other(x))' => Writes(Other(x)) /\ put'[Other(x)] = put[Other(x)]
    PROVE  ReaderInv(x)'
  <1>1. ~torn'[x] => ReturnedInOrder(x)'
    BY DEF ReaderInv, ReturnedInOrder
  <1>2. ASSUME Reads(x)' PROVE Consumed(x)' /\ Stream(x)'
    <2>1. Consumed(x) /\ Stream(x)
      BY <1>2 DEF ReaderInv
    <2>2. Wanted(x)' = Wanted(x) /\ (Writes(Other(x))' => Written(Other(x))' = Written(Other(x)))
      BY DEF Wanted, Written
    <2>3. Consumed(x)'
      BY <2>1 DEF Consumed
    <2>4. Stream(x)'
      BY <2>1, <2>2 DEF Stream
    <2>5. QED
      BY <2>3, <2>4
  <1>3. QED
    BY <1>1, <1>2 DEF ReaderInv

\* The end that does not step.
LEMMA OtherKept ==
    ASSUME FInv, NEW e \in Ends, Still(Other(e)), HalvesGoDown(e)
    PROVE  /\ WriterInv(Other(e))'
           /\ Writes(Other(e))' => Writes(Other(e))
           /\ Gone(Other(e))' <=> Gone(Other(e))
           /\ Reads(Other(e))' <=> Reads(Other(e))
           /\ pipe'[Other(e)] = pipe[Other(e)] /\ wrote'[e] = wrote[e] /\
              (Writes(e)' => Writes(e) /\ put'[e] = put[e]) => ReaderInv(Other(e))'
  <1> DEFINE o == Other(e)
  <1>1. o \in Ends /\ Other(o) = e /\ WriterInv(o) /\ ReaderInv(o)
    BY OtherEnd DEF FInv
  <1>2. Writes(o)' => Writes(o)
    BY <1>1 DEF Writes, Gone, Still, HalvesGoDown
  <1>3. (Gone(o)' <=> Gone(o)) /\ (Reads(o)' <=> Reads(o))
    BY DEF Gone, Reads, Reading, Still
  <1>4. WriterInv(o)'
    BY <1>1, <1>2, WriterKept DEF Still
  <1>5. ASSUME pipe'[o] = pipe[o], wrote'[e] = wrote[e], Writes(e)' => Writes(e) /\ put'[e] = put[e]
        PROVE  ReaderInv(o)'
    <2> HIDE DEF o
    <2>1. (torn[o] => torn'[o]) /\ got'[o] = got[o] /\ buf'[o] = buf[o] /\ need'[o] = need[o]
      BY DEF Still, o
    <2>2. QED
      BY <2>1, <1>1, <1>3, <1>5, ReaderKept DEF Still, o
  <1>6. QED
    BY <1>2, <1>3, <1>4, <1>5

\* An end that does not write anew.
LEMMA NoNewWrites ==
    ASSUME NEW e \in Ends, Still(Other(e)), HalvesGoDown(e), wrote'[e] = wrote[e],
           phase'[e] = "write" => phase[e] = "write"
    PROVE  Writes(e)' => Writes(e)
  BY DEF Writes, Gone, Still, HalvesGoDown

\* What an end may do.
Step(e) ==
    \/ WriteBegin(e) \/ Write(e) \/ HandshakeWriteTimeout(e)
    \/ Read(e) \/ ReadCancel(e)
    \/ Disconnect(e) \/ Closing(e) \/ Exit(e)

\* A step of one end leaves the other as it was.
LEMMA StillStep ==
    ASSUME TypeOK, NEW e \in Ends, Step(e)
    PROVE  Still(Other(e)) /\ HalvesGoDown(e)
  <1> DEFINE o == Other(e)
  <1>0. /\ o \in Ends /\ o # e
        /\ rhalf \in [Ends -> BOOLEAN] /\ whalf \in [Ends -> BOOLEAN]
    BY OtherEnd DEF TypeOK
  <1>1. /\ rq \in [Ends -> Seq({"read", "close"})]
        /\ wq \in [Ends -> Seq((0..MaxFrames) \cup {Close})]
        /\ buf \in [Ends -> Seq(Units)] /\ need \in [Ends -> 0..(BodyLen + 1)]
        /\ put \in [Ends -> 0..(FrameLen - 1)]
        /\ phase \in [Ends -> Phases] /\ begun \in [Ends -> 0..MaxFrames]
        /\ wrote \in [Ends -> Seq(0..MaxFrames)]
        /\ got \in [Ends -> Seq((0..MaxFrames) \cup {Garbage})]
        /\ torn \in [Ends -> BOOLEAN]
    BY DEF TypeOK
  <1> HIDE DEF o
  <1> SUFFICES Still(o) /\ HalvesGoDown(e)
    BY DEF o
  <1>2. CASE WriteBegin(e)
    BY <1>0, <1>1, <1>2 DEF WriteBegin, Still, HalvesGoDown
  <1>3. CASE WriteUnit(e)
    BY <1>0, <1>1, <1>3 DEF WriteUnit, Still, HalvesGoDown
  <1>4. CASE WriteError(e)
    BY <1>0, <1>1, <1>4 DEF WriteError, StartClose, Still, HalvesGoDown
  <1>5. CASE HandshakeWriteTimeout(e)
    BY <1>0, <1>1, <1>5 DEF HandshakeWriteTimeout, StartClose, Still, HalvesGoDown
  <1>6. CASE ReadBegin(e)
    BY <1>0, <1>1, <1>6 DEF ReadBegin, Still, HalvesGoDown
  <1>7. CASE ReadUnit(e)
    <2>1. UNCHANGED <<rhalf, whalf, wq, put, begun, wrote, torn>>
      BY <1>7 DEF ReadUnit
    <2>2. need'[o] = need[o] /\ got'[o] = got[o] /\ buf'[o] = buf[o]
      <3> DEFINE units == Append(buf[e], Head(pipe[e]))
      <3>1. need' = need \/ \E k \in LengthsOf(units) : need' = [need EXCEPT ![e] = k]
        BY <1>7 DEF ReadUnit
      <3>2. got' = got \/ got' = [got EXCEPT ![e] = Append(got[e], FrameOf(units))]
        BY <1>7 DEF ReadUnit
      <3>3. buf' = [buf EXCEPT ![e] = <<>>] \/ buf' = [buf EXCEPT ![e] = units]
        BY <1>7 DEF ReadUnit
      <3> HIDE DEF units
      <3>4. QED
        BY <3>1, <3>2, <3>3, <1>0, <1>1
    <2>3. rq'[o] = rq[o] /\ phase'[o] = phase[o]
      <3>1. \/ UNCHANGED <<rq, phase>> \/ StartClose(e, Tail(rq[e]))
            \/ /\ UNCHANGED phase \/ phase' = [phase EXCEPT ![e] = "up"]
               /\ rq' = [rq EXCEPT ![e] = Tail(rq[e])]
        BY <1>7 DEF ReadUnit, AfterRead
      <3>2. QED
        BY <3>1, <1>0, <1>1 DEF StartClose
    <2>4. QED
      BY <2>1, <2>2, <2>3 DEF Still, HalvesGoDown
  <1>8. CASE ReadFail(e)
    BY <1>0, <1>1, <1>8 DEF ReadFail, StartClose, Still, HalvesGoDown
  <1>9. CASE ReadCancel(e)
    BY <1>0, <1>1, <1>9 DEF ReadCancel, StartClose, Still, HalvesGoDown
  <1>10. CASE Disconnect(e)
    BY <1>0, <1>1, <1>10 DEF Disconnect, StartClose, Still, HalvesGoDown
  <1>11. CASE CloseRead(e)
    BY <1>0, <1>1, <1>11 DEF CloseRead, Still, HalvesGoDown
  <1>12. CASE CloseWrite(e)
    BY <1>0, <1>1, <1>12 DEF CloseWrite, Still, HalvesGoDown
  <1>13. CASE Exit(e)
    BY <1>0, <1>1, <1>13 DEF Exit, Still, HalvesGoDown
  <1>14. QED
    BY <1>2, <1>3, <1>4, <1>5, <1>6, <1>7, <1>8, <1>9, <1>10, <1>11, <1>12, <1>13
       DEF Step, Write, Read, Closing

\* What holds of both ends after a step.
Both == \A x \in Ends : WriterInv(x) /\ ReaderInv(x)

\* A step that writes nothing: it is enough to look at the end that steps.
LEMMA QuietStep ==
    ASSUME FInv, NEW e \in Ends, Step(e), wrote'[e] = wrote[e],
           phase'[e] = "write" => phase[e] = "write",
           pipe'[Other(e)] = pipe[Other(e)], Writes(e)' => put'[e] = put[e],
           WriterInv(e)', ReaderInv(e)'
    PROVE  Both'
  <1>1. Still(Other(e)) /\ HalvesGoDown(e)
    BY StillStep DEF FInv
  <1>2. Writes(e)' => Writes(e)
    BY <1>1, NoNewWrites
  <1>3. WriterInv(Other(e))' /\ ReaderInv(Other(e))'
    BY <1>1, <1>2, OtherKept
  <1>4. QED
    BY <1>3, OtherEnd DEF Both

\* The end that steps, when its reads stay as they are.
LEMMA SameReads ==
    ASSUME FInv, NEW e \in Ends, Still(Other(e)), HalvesGoDown(e),
           pipe'[e] = pipe[e], got'[e] = got[e], buf'[e] = buf[e], need'[e] = need[e],
           torn'[e] = torn[e], Reads(e)' => Reads(e)
    PROVE  ReaderInv(e)'
  <1>1. Other(e) \in Ends /\ ReaderInv(e)
    BY OtherEnd DEF FInv
  <1>2. /\ wrote'[Other(e)] = wrote[Other(e)]
        /\ Writes(Other(e))' => Writes(Other(e)) /\ put'[Other(e)] = put[Other(e)]
    BY OtherKept DEF Still
  <1>3. QED
    BY <1>1, <1>2, ReaderKept

\* The end that steps, when it will read no more.
LEMMA LastReads ==
    ASSUME FInv, NEW e \in Ends, Still(Other(e)), got'[e] = got[e],
           torn[e] => torn'[e], ~Reads(e)'
    PROVE  ReaderInv(e)'
  <1>1. ReaderInv(e)
    BY DEF FInv
  <1>2. ~torn'[e] => ReturnedInOrder(e)'
    BY <1>1 DEF ReaderInv, ReturnedInOrder, Still
  <1>3. QED
    BY <1>2 DEF ReaderInv

-----------------------------------------------------------------------------
(* Steps that write nothing.                                               *)

\* The invariant of the end that steps, and what its variables are.
LEMMA Parts ==
    ASSUME FInv, NEW e \in Ends
    PROVE  /\ TypeOK /\ WriterInv(e) /\ ReaderInv(e)
           /\ ReadLock(e) /\ WrittenInOrder(e) /\ WriteLock(e)
           /\ Other(e) \in Ends /\ Other(e) # e /\ Other(Other(e)) = e
           /\ phase[e] \in Phases /\ rq[e] \in Seq({"read", "close"})
           /\ wq[e] \in Seq((0..MaxFrames) \cup {Close}) /\ Len(wq[e]) \in Nat
           /\ wrote[e] \in Seq(0..MaxFrames) /\ Len(wrote[e]) \in Nat
           /\ begun[e] \in 0..MaxFrames /\ put[e] \in 0..(FrameLen - 1)
           /\ rhalf[e] \in BOOLEAN /\ whalf[e] \in BOOLEAN /\ torn[e] \in BOOLEAN
  <1>1. TypeOK /\ WriterInv(e) /\ ReaderInv(e)
    BY DEF FInv
  <1>2. ReadLock(e) /\ WrittenInOrder(e) /\ WriteLock(e)
    BY <1>1 DEF WriterInv
  <1>3. /\ wq[e] \in Seq((0..MaxFrames) \cup {Close}) /\ wrote[e] \in Seq(0..MaxFrames)
        /\ phase[e] \in Phases /\ rq[e] \in Seq({"read", "close"})
        /\ begun[e] \in 0..MaxFrames /\ put[e] \in 0..(FrameLen - 1)
        /\ rhalf[e] \in BOOLEAN /\ whalf[e] \in BOOLEAN /\ torn[e] \in BOOLEAN
    BY <1>1 DEF TypeOK
  <1>4. QED
    BY <1>1, <1>2, <1>3, OtherEnd

\* close() is called.
LEMMA CloseCalled ==
    ASSUME TypeOK, NEW e \in Ends, NEW q \in {<<>>, <<"read">>}, StartClose(e, q)
    PROVE  /\ phase'[e] = "closing" /\ rq'[e] \in {<<"close">>, <<"read", "close">>}
           /\ Reading(e)' <=> q = <<"read">>
           /\ ReadLock(e)'
  <1>1. phase'[e] = "closing" /\ rq'[e] = Append(q, "close")
    BY DEF StartClose, TypeOK
  <1>2. CASE q = <<>>
    <2>1. rq'[e] = <<"close">>
      BY <1>1, <1>2, ReadQueues
    <2>2. QED
      BY <2>1, <1>1, <1>2, ReadQueues DEF Reading, ReadLock
  <1>3. CASE q = <<"read">>
    <2>1. rq'[e] = <<"read", "close">>
      BY <1>1, <1>3, ReadQueues
    <2>2. QED
      BY <2>1, <1>1, <1>3, ReadQueues DEF Reading, ReadLock
  <1>4. QED
    BY <1>2, <1>3

\* The write lock of an end that begins to close after its handshake was
\* written, or goes on as it was.
LEMMA WriteLockKept ==
    ASSUME FInv, NEW e \in Ends, ReadLock(e)', rhalf'[e] => rhalf[e], Writes(e)' => Writes(e),
           wq'[e] = wq[e], wrote'[e] = wrote[e], begun'[e] = begun[e],
           phase'[e] = phase[e] \/ (phase[e] # "write" /\ phase'[e] = "closing")
    PROVE  WriterInv(e)'
  <1>1. WrittenInOrder(e) /\ WriteLock(e)
    BY Parts
  <1>2. WrittenInOrder(e)'
    BY <1>1 DEF WrittenInOrder
  <1>3. WriteLock(e)'
    BY <1>1 DEF WriteLock
  <1>4. QED
    BY <1>2, <1>3 DEF WriterInv

\* A sender queues up.
LEMMA WriteBeginStep ==
    ASSUME FInv, NEW e \in Ends, WriteBegin(e)
    PROVE  Both'
  <1>0. Step(e) /\ Still(Other(e)) /\ HalvesGoDown(e)
    BY StillStep, Parts DEF Step
  <1>1. /\ phase[e] = "up" /\ begun'[e] = begun[e] + 1 /\ wq'[e] = Append(wq[e], begun[e] + 1)
        /\ UNCHANGED <<pipe, rhalf, whalf, rq, buf, need, put, phase, wrote, got, torn>>
    BY DEF WriteBegin, FInv, TypeOK
  <1>2. (Writes(e)' => Writes(e)) /\ (Reads(e)' <=> Reads(e))
    BY <1>1 DEF Writes, Gone, Reads, Reading
  <1>3. ReaderInv(e)'
    BY <1>0, <1>1, <1>2, SameReads
  <1>4. WriterInv(e)'
    <2> PICK q : q = Append(wq[e], begun[e] + 1)
      OBVIOUS
    <2>1. /\ Len(q) = Len(wq[e]) + 1 /\ Len(wq[e]) \in Nat /\ q[Len(wq[e]) + 1] = begun[e] + 1
          /\ \A k \in 1..Len(wq[e]) : q[k] = wq[e][k]
          /\ begun[e] \in Nat /\ begun[e] + 1 # Close /\ Len(wrote[e]) \in Nat
      <3>1. /\ wq[e] \in Seq((0..MaxFrames) \cup {Close}) /\ Len(wq[e]) \in Nat
            /\ Len(wrote[e]) \in Nat /\ begun[e] \in 0..MaxFrames
        BY Parts
      <3>2. begun[e] \in Nat /\ begun[e] + 1 # Close
        BY <3>1, Bounds DEF Close
      <3>3. /\ Len(q) = Len(wq[e]) + 1 /\ q[Len(wq[e]) + 1] = begun[e] + 1
            /\ \A k \in 1..Len(wq[e]) : q[k] = wq[e][k]
        BY <3>1
      <3>4. QED
        BY <3>1, <3>2, <3>3
    <2>2. WriteLock(e) /\ wrote[e] # <<>>
      BY <1>1, Parts DEF WriteLock
    <2>3. \A k \in 1..Len(q) : q[k] = Close => ~rhalf[e]
      BY <2>1, <2>2 DEF WriteLock
    <2>4. ASSUME Writes(e)
          PROVE  /\ \A k \in 1..Len(q) : q[k] # Close => q[k] = Len(wrote[e]) + k - 1
                 /\ Len(wrote[e]) + Len(q) = (begun[e] + 1) + 1
      <3>1. Len(wrote[e]) + Len(wq[e]) = begun[e] + 1
        BY <2>2, <2>4, <1>1 DEF WriteLock
      <3>2. \A k \in 1..Len(wq[e]) : q[k] # Close => q[k] = Len(wrote[e]) + k - 1
        BY <2>1, <2>2, <2>4 DEF WriteLock
      <3>3. \A k \in 1..Len(q) : k \in 1..Len(wq[e]) \/ k = Len(wq[e]) + 1
        BY <2>1
      <3>a. \A i, j, b \in Nat : i + j = b + 1 => /\ b + 1 = i + (j + 1) - 1
                                                 /\ i + (j + 1) = (b + 1) + 1
        OBVIOUS
      <3>b. /\ begun[e] + 1 = Len(wrote[e]) + (Len(wq[e]) + 1) - 1
            /\ Len(wrote[e]) + (Len(wq[e]) + 1) = (begun[e] + 1) + 1
        BY <3>a, <3>1, <2>1
      <3>4. q[Len(wq[e]) + 1] = Len(wrote[e]) + (Len(wq[e]) + 1) - 1
        BY <3>b, <2>1
      <3>5. Len(wrote[e]) + Len(q) = (begun[e] + 1) + 1
        BY <3>b, <2>1
      <3>6. QED
        BY <3>2, <3>3, <3>4, <3>5
    <2>5. WriteLock(e)'
      BY <2>2, <2>3, <2>4, <1>1, <1>2 DEF WriteLock
    <2>6. ReadLock(e)' /\ WrittenInOrder(e)'
      BY <1>1, Parts DEF ReadLock, WrittenInOrder
    <2>7. QED
      BY <2>5, <2>6 DEF WriterInv
  <1>5. QED
    BY <1>0, <1>1, <1>3, <1>4, QuietStep

\* A write fails, or the handshake's is dropped: nothing more is written.
LEMMA WriteLost ==
    ASSUME FInv, NEW e \in Ends, WriteError(e) \/ HandshakeWriteTimeout(e)
    PROVE  Both'
  <1>0. Step(e) /\ Still(Other(e)) /\ HalvesGoDown(e)
    BY StillStep, Parts DEF Step, Write
  <1>1. /\ UNCHANGED <<pipe, rhalf, whalf, buf, need, begun, wrote, got, torn>>
        /\ wq'[e] = Tail(wq[e])
    BY DEF WriteError, HandshakeWriteTimeout, FInv, TypeOK
  <1>2. wq[e] # <<>>
    <2>1. phase[e] = "write" => wq[e] = <<0>>
      BY Parts DEF WriteLock
    <2>2. <<0>> # <<>>
      OBVIOUS
    <2>3. QED
      BY <2>1, <2>2 DEF WriteError, HandshakeWriteTimeout
  <1>3. \/ phase[e] = "write" /\ StartClose(e, rq[e])
        \/ phase[e] # "write" /\ phase[e] # "read" /\ UNCHANGED <<phase, rq>>
    <2>1. phase[e] = "read" => wq[e] = <<>>
      BY Parts DEF WriteLock
    <2>2. QED
      BY <2>1, <1>2 DEF WriteError, HandshakeWriteTimeout
  <1>4. phase[e] = "write" => /\ rq[e] = <<>> /\ wrote[e] = <<>> /\ wq[e] = <<0>>
                              /\ phase'[e] = "closing" /\ ReadLock(e)' /\ ~Reading(e)'
    <2> SUFFICES ASSUME phase[e] = "write"
                 PROVE  /\ rq[e] = <<>> /\ wrote[e] = <<>> /\ wq[e] = <<0>>
                        /\ phase'[e] = "closing" /\ ReadLock(e)' /\ ~Reading(e)'
      OBVIOUS
    <2>1. rq[e] = <<>> /\ wrote[e] = <<>> /\ wq[e] = <<0>> /\ StartClose(e, rq[e])
      BY <1>3, Parts DEF ReadLock, WriteLock
    <2>2. QED
      BY <2>1, CloseCalled, Parts, ReadQueues
  <1>5. ~Writes(e)'
    <2>1. CASE WriteError(e)
      BY <2>1, <1>0, <1>1 DEF WriteError, Writes, Gone, Still
    <2>2. CASE HandshakeWriteTimeout(e)
      BY <2>2, <1>1, <1>4 DEF HandshakeWriteTimeout, Writes
    <2>3. QED
      BY <2>1, <2>2
  <1>6. Reads(e)' => Reads(e)
    BY <1>1, <1>3, <1>4 DEF Reads, Reading
  <1>7. ReaderInv(e)'
    BY <1>0, <1>1, <1>6, SameReads
  <1>8. WriterInv(e)'
    <2>1. ReadLock(e)'
      BY <1>3, <1>4, Parts DEF ReadLock
    <2>2. WrittenInOrder(e)'
      BY <1>1, Parts DEF WrittenInOrder
    <2>3. WriteLock(e)'
      <3> PICK q : q = Tail(wq[e])
        OBVIOUS
      <3>1. Len(q) = Len(wq[e]) - 1 /\ Len(wq[e]) \in Nat /\ \A k \in 1..Len(q) : q[k] = wq[e][k + 1]
        BY <1>2, Parts
      <3>2. \A k \in 1..Len(q) : k + 1 \in 1..Len(wq[e])
        BY <3>1
      <3>3. phase[e] = "write" => Len(q) = 0
        <4>1. Len(<<0>>) = 1
          OBVIOUS
        <4>2. phase[e] = "write" => Len(wq[e]) = 1
          BY <4>1, <1>4
        <4>3. QED
          BY <4>2, <3>1
      <3>4. WriteLock(e)
        BY Parts
      <3>5. \A k \in 1..Len(q) : q[k] = Close => ~rhalf[e]
        BY <3>1, <3>2, <3>4 DEF WriteLock
      <3>6. wrote[e] = <<>> => \A k \in 1..Len(q) : q[k] = Close
        <4>1. CASE phase[e] = "write"
          BY <4>1, <3>3
        <4>2. CASE phase[e] # "write"
          BY <4>2, <3>1, <3>2, <3>4 DEF WriteLock
        <4>3. QED
          BY <4>1, <4>2
      <3>7. phase'[e] # "write" /\ phase'[e] # "read" /\ (phase'[e] = "up" => wrote[e] # <<>>)
        BY <1>3, <1>4, <3>4 DEF WriteLock
      <3>8. QED
        BY <3>5, <3>6, <3>7, <1>1, <1>5 DEF WriteLock
    <2>4. QED
      BY <2>1, <2>2, <2>3 DEF WriterInv
  <1>9. phase'[e] = "write" => phase[e] = "write"
    BY <1>3
  <1>10. QED
    BY <1>0, <1>1, <1>5, <1>7, <1>8, <1>9, QuietStep

\* A read queues up.
LEMMA ReadBeginStep ==
    ASSUME FInv, NEW e \in Ends, ReadBegin(e)
    PROVE  Both'
  <1>0. Step(e) /\ Still(Other(e)) /\ HalvesGoDown(e)
    BY StillStep, Parts DEF Step, Read
  <1>1. /\ phase[e] \in {"read", "up"} /\ ~Reading(e) /\ rq'[e] = Append(rq[e], "read")
        /\ UNCHANGED <<pipe, rhalf, whalf, wq, buf, need, put, phase, begun, wrote, got, torn>>
    BY DEF ReadBegin, FInv, TypeOK
  <1>2. rq[e] = <<>>
    BY <1>1, Parts, ReadQueues DEF ReadLock, Reading
  <1>3. rq'[e] = <<"read">>
    BY <1>1, <1>2, ReadQueues
  <1>4. ReadLock(e)'
    BY <1>1, <1>3 DEF ReadLock
  <1>5. (Writes(e)' => Writes(e)) /\ (Reads(e)' => Reads(e))
    BY <1>1 DEF Writes, Gone, Reads
  <1>6. WriterInv(e)'
    BY <1>1, <1>4, <1>5, WriteLockKept
  <1>7. ReaderInv(e)'
    BY <1>0, <1>1, <1>5, SameReads
  <1>8. QED
    BY <1>0, <1>1, <1>6, <1>7, QuietStep

\* A read fails: there is none after it, or the other end writes no more.
LEMMA ReadFailStep ==
    ASSUME FInv, NEW e \in Ends, ReadFail(e)
    PROVE  Both'
  <1>0. /\ Step(e) /\ Still(Other(e)) /\ HalvesGoDown(e)
        /\ Other(e) \in Ends /\ Other(e) # e /\ Other(Other(e)) = e
    BY StillStep, Parts, OtherEnd DEF Step, Read
  <1>1. /\ rq[e] # <<>> /\ Head(rq[e]) = "read"
        /\ UNCHANGED <<rhalf, whalf, wq, need, put, begun, wrote, got, torn>>
    BY DEF ReadFail
  <1>2. rq[e] \in {<<"read">>, <<"read", "close">>} /\ phase[e] # "write" /\ Reading(e)
    BY <1>1, Parts, ReadQueues DEF ReadLock, Reading
  <1>3. pipe'[e] = <<>> /\ buf'[e] = <<>> /\ pipe'[Other(e)] = pipe[Other(e)]
    BY <1>0 DEF ReadFail, FInv, TypeOK
  <1>4. /\ ReadLock(e)' /\ ~Reading(e)'
        /\ phase'[e] = phase[e] \/ phase'[e] = "closing"
        /\ phase'[e] \notin {"write", "read"}
    <2>1. CASE phase[e] \in {"read", "up"} /\ StartClose(e, Tail(rq[e]))
      <3>1. rq[e] = <<"read">>
        BY <2>1, <1>2, Parts, ReadQueues DEF ReadLock
      <3>2. Tail(rq[e]) = <<>>
        BY <3>1, ReadQueues
      <3>3. QED
        BY <2>1, <3>2, CloseCalled, Parts, ReadQueues
    <2>2. CASE phase[e] # "read" /\ rq' = [rq EXCEPT ![e] = Tail(rq[e])] /\ UNCHANGED phase
      <3>1. rq'[e] = Tail(rq[e])
        BY <2>2 DEF FInv, TypeOK
      <3>2. /\ rq'[e] \in {<<>>, <<"close">>}
            /\ rq[e] = <<"read">> => rq'[e] = <<>>
        BY <3>1, <1>2, ReadQueues
      <3>3. phase[e] = "up" => rq[e] = <<"read">>
        BY <1>2, Parts, ReadQueues DEF ReadLock
      <3>4. QED
        BY <3>2, <3>3, <2>2, <1>2, ReadQueues DEF ReadLock, Reading
    <2>3. QED
      BY <2>1, <2>2 DEF ReadFail
  <1>5. (Writes(e)' => Writes(e)) /\ (Reads(e)' => Reads(e))
    BY <1>1, <1>2, <1>4 DEF Writes, Gone, Reads
  <1>6. WriterInv(e)'
    BY <1>1, <1>2, <1>4, <1>5, WriteLockKept
  <1>7. ReaderInv(e)'
    <2>1. CASE Reads(e)'
      <3>1. rhalf[e] /\ ~torn[e] /\ ~torn'[e] /\ Reads(e)
        BY <2>1, <1>1, <1>5 DEF Reads
      <3>2. eof[e]
        BY <3>1 DEF ReadFail
      <3>3. ~Writes(Other(e))'
        BY <3>2, <1>1 DEF FInv, EofMeansClosed, Writes
      <3>4. ReturnedInOrder(e) /\ ReturnedInOrder(e)'
        BY <3>1, <1>1, Parts DEF ReaderInv, ReturnedInOrder
      <3>5. Len(buf'[e]) = 0 /\ Len(pipe'[e]) = 0
        BY <1>3
      <3>6. Consumed(e)'
        BY <3>5, Bounds DEF Consumed
      <3>7. Stream(e)'
        BY <3>3, <3>5, <1>3 DEF Stream, Chain, Within
      <3>8. QED
        BY <3>4, <3>6, <3>7 DEF ReaderInv
    <2>2. CASE ~Reads(e)'
      BY <2>2, <1>0, <1>1, LastReads
    <2>3. QED
      BY <2>1, <2>2
  <1>8. QED
    BY <1>0, <1>1, <1>3, <1>4, <1>6, <1>7, QuietStep

\* A read is given up.
LEMMA ReadCancelStep ==
    ASSUME FInv, NEW e \in Ends, ReadCancel(e)
    PROVE  Both'
  <1>0. Step(e) /\ Still(Other(e)) /\ HalvesGoDown(e)
    BY StillStep, Parts DEF Step
  <1>1. /\ Reading(e) /\ phase[e] \in {"read", "up", "closing"}
        /\ UNCHANGED <<pipe, rhalf, whalf, wq, need, put, begun, wrote, got>>
        /\ buf'[e] = <<>> /\ torn'[e] = (torn[e] \/ buf[e] # <<>>)
    BY DEF ReadCancel, FInv, TypeOK
  <1>2. /\ rq[e] \in {<<"read">>, <<"read", "close">>}
        /\ phase[e] \in {"read", "up"} => rq[e] = <<"read">>
        /\ Tail(<<"read">>) = <<>> /\ Tail(<<"read", "close">>) = <<"close">>
    BY <1>1, Parts, ReadQueues DEF ReadLock, Reading
  <1>3. \/ phase[e] = "read" /\ StartClose(e, <<>>)
        \/ phase[e] = "up" /\ rq'[e] = <<>> /\ UNCHANGED phase
        \/ phase[e] = "closing" /\ rq'[e] \in {<<>>, <<"close">>} /\ UNCHANGED phase
    BY <1>1, <1>2 DEF ReadCancel, FInv, TypeOK
  <1>4. /\ ReadLock(e)' /\ ~Reading(e)'
        /\ phase[e] = "read" => phase'[e] = "closing"
        /\ phase[e] # "read" => phase'[e] = phase[e]
    <2>1. CASE phase[e] = "read" /\ StartClose(e, <<>>)
      BY <2>1, CloseCalled, Parts, ReadQueues
    <2>2. CASE phase[e] = "up" /\ rq'[e] = <<>> /\ UNCHANGED phase
      BY <2>2, ReadQueues DEF ReadLock, Reading
    <2>3. CASE phase[e] = "closing" /\ rq'[e] \in {<<>>, <<"close">>} /\ UNCHANGED phase
      BY <2>3, ReadQueues DEF ReadLock, Reading
    <2>4. QED
      BY <1>3, <2>1, <2>2, <2>3
  <1>5. Writes(e)' => Writes(e)
    BY <1>1, <1>4 DEF Writes, Gone
  <1>6. WriterInv(e)'
    BY <1>1, <1>4, <1>5, WriteLockKept
  <1>7. ReaderInv(e)'
    <2>1. CASE Reads(e)'
      <3>1. torn[e] = torn'[e] /\ buf[e] = <<>> /\ Reads(e)
        BY <2>1, <1>1, Parts DEF Reads
      <3>2. QED
        BY <3>1, <1>0, <1>1, SameReads
    <2>2. CASE ~Reads(e)'
      BY <2>2, <1>0, <1>1, LastReads
    <2>3. QED
      BY <2>1, <2>2
  <1>8. phase'[e] = "write" => phase[e] = "write"
    BY <1>1, <1>4
  <1>9. QED
    BY <1>0, <1>1, <1>6, <1>7, <1>8, QuietStep

\* The connection is to be closed.
LEMMA DisconnectStep ==
    ASSUME FInv, NEW e \in Ends, Disconnect(e)
    PROVE  Both'
  <1>0. Step(e) /\ Still(Other(e)) /\ HalvesGoDown(e)
    BY StillStep, Parts DEF Step
  <1>1. /\ phase[e] = "up" /\ StartClose(e, rq[e])
        /\ UNCHANGED <<pipe, rhalf, whalf, wq, buf, need, put, begun, wrote, got, torn>>
    BY DEF Disconnect
  <1>2. rq[e] \in {<<>>, <<"read">>}
    BY <1>1, Parts DEF ReadLock
  <1>3. phase'[e] = "closing" /\ ReadLock(e)'
    BY <1>1, <1>2, CloseCalled, Parts
  <1>4. (Writes(e)' => Writes(e)) /\ (Reads(e)' => Reads(e))
    BY <1>1, <1>3 DEF Writes, Gone, Reads
  <1>5. WriterInv(e)'
    BY <1>1, <1>3, <1>4, WriteLockKept
  <1>6. ReaderInv(e)'
    BY <1>0, <1>1, <1>4, SameReads
  <1>7. QED
    BY <1>0, <1>1, <1>3, <1>5, <1>6, QuietStep

\* close() has the read lock.
LEMMA CloseReadStep ==
    ASSUME FInv, NEW e \in Ends, CloseRead(e)
    PROVE  Both'
  <1>0. Step(e) /\ Still(Other(e)) /\ HalvesGoDown(e)
    BY StillStep, Parts DEF Step, Closing
  <1>1. /\ rq[e] # <<>> /\ Head(rq[e]) = "close" /\ rq'[e] = Tail(rq[e]) /\ rhalf'[e] = FALSE
        /\ wq'[e] = Append(wq[e], Close)
        /\ UNCHANGED <<pipe, whalf, buf, need, put, phase, begun, wrote, got, torn>>
    BY DEF CloseRead, FInv, TypeOK
  <1>2. rq[e] = <<"close">>
    BY <1>1, Parts, ReadQueues DEF ReadLock
  <1>3. phase[e] \notin {"write", "read", "up"} /\ rq'[e] = <<>>
    BY <1>1, <1>2, Parts, ReadQueues DEF ReadLock
  <1>4. (Writes(e)' => Writes(e)) /\ ~Reads(e)'
    BY <1>0, <1>1 DEF Writes, Gone, Reads, Still
  <1>5. WriterInv(e)'
    <2> PICK q : q = Append(wq[e], Close)
      OBVIOUS
    <2>1. /\ Len(q) = Len(wq[e]) + 1 /\ Len(wq[e]) \in Nat /\ q[Len(wq[e]) + 1] = Close
          /\ \A k \in 1..Len(wq[e]) : q[k] = wq[e][k]
      BY Parts
    <2>2. \A k \in 1..Len(q) : q[k] = Close \/ (k \in 1..Len(wq[e]) /\ q[k] = wq[e][k])
      BY <2>1
    <2>3. WriteLock(e)
      BY Parts
    <2>4. wrote[e] = <<>> => \A k \in 1..Len(q) : q[k] = Close
      BY <2>2, <2>3, <1>3 DEF WriteLock
    <2>5. Writes(e) => \A k \in 1..Len(q) : q[k] # Close => q[k] = Len(wrote[e]) + k - 1
      BY <2>2, <2>3 DEF WriteLock
    <2>6. WriteLock(e)'
      BY <2>4, <2>5, <1>1, <1>3, <1>4 DEF WriteLock
    <2>7. ReadLock(e)' /\ WrittenInOrder(e)'
      BY <1>1, <1>3, Parts DEF ReadLock, WrittenInOrder
    <2>8. QED
      BY <2>6, <2>7 DEF WriterInv
  <1>6. ReaderInv(e)'
    BY <1>0, <1>1, <1>4, LastReads
  <1>7. QED
    BY <1>0, <1>1, <1>5, <1>6, QuietStep

\* close() has the write lock, or the process ends.
LEMMA EndStep ==
    ASSUME FInv, NEW e \in Ends, CloseWrite(e) \/ Exit(e)
    PROVE  Both'
  <1>0. Step(e) /\ Still(Other(e)) /\ HalvesGoDown(e)
    BY StillStep, Parts DEF Step, Closing
  <1>1. /\ whalf'[e] = FALSE /\ phase'[e] = "closed"
        /\ UNCHANGED <<begun, wrote, got, torn>>
        /\ pipe'[Other(e)] = pipe[Other(e)]
    BY Parts DEF CloseWrite, Exit, TypeOK
  <1>2. rhalf'[e] = FALSE
    <2>1. CASE CloseWrite(e)
      <3>1. wq[e] # <<>> /\ Head(wq[e]) = Close /\ rhalf' = rhalf
        BY <2>1 DEF CloseWrite
      <3>2. 1 \in 1..Len(wq[e]) /\ wq[e][1] = Close
        BY <3>1, Parts
      <3>3. QED
        BY <3>1, <3>2, Parts DEF WriteLock
    <2>2. CASE Exit(e)
      BY <2>2 DEF Exit, FInv, TypeOK
    <2>3. QED
      BY <2>1, <2>2
  <1>3. ~Writes(e)' /\ ~Reads(e)'
    BY <1>1, <1>2 DEF Writes, Reads
  <1>4. ReadLock(e)'
    <2>1. rq'[e] = rq[e] \/ rq'[e] = <<>>
      BY DEF CloseWrite, Exit, FInv, TypeOK
    <2>2. QED
      BY <2>1, <1>1, Parts DEF ReadLock
  <1>5. WriteLock(e)'
    <2>1. wrote[e] = <<>> => \A k \in 1..Len(wq'[e]) : wq'[e][k] = Close
      <3>1. CASE CloseWrite(e)
        <4> PICK q : q = Tail(wq[e])
          OBVIOUS
        <4>1. wq'[e] = q /\ wq[e] # <<>> /\ Head(wq[e]) = Close
          BY <3>1 DEF CloseWrite, FInv, TypeOK
        <4>2. /\ Len(q) = Len(wq[e]) - 1 /\ Len(wq[e]) \in Nat /\ \A k \in 1..Len(q) : q[k] = wq[e][k + 1]
              /\ wq[e][1] = Close
          BY <4>1, Parts
        <4>3. \A k \in 1..Len(q) : k + 1 \in 1..Len(wq[e])
          BY <4>2
        <4>4. phase[e] # "write"
          <5>1. phase[e] = "write" => wq[e] = <<0>>
            BY Parts DEF WriteLock
          <5>2. QED
            BY <5>1, <4>2 DEF Close
        <4>5. wrote[e] = <<>> => \A k \in 1..Len(wq[e]) : wq[e][k] = Close
          BY <4>4, Parts DEF WriteLock
        <4>6. QED
          BY <4>1, <4>2, <4>3, <4>5
      <3>2. CASE Exit(e)
        <4>1. wq'[e] = <<>>
          BY <3>2 DEF Exit, FInv, TypeOK
        <4>2. QED
          BY <4>1
      <3>3. QED
        BY <3>1, <3>2
    <2>2. QED
      BY <2>1, <1>1, <1>2, <1>3 DEF WriteLock
  <1>6. WriterInv(e)'
    BY <1>1, <1>4, <1>5, Parts DEF WriterInv, WrittenInOrder
  <1>7. ReaderInv(e)'
    BY <1>0, <1>1, <1>3, LastReads
  <1>8. QED
    BY <1>0, <1>1, <1>3, <1>6, <1>7, QuietStep

-----------------------------------------------------------------------------
(* Units.                                                                  *)

\* A unit is written: it is the one that comes next.
LEMMA WriteUnitStep ==
    ASSUME FInv, NEW e \in Ends, WriteUnit(e)
    PROVE  Both'
  <1> DEFINE o == Other(e)
             n == Head(wq[e])
             w == <<n, put[e] + 1>>
  <1>0. Step(e) /\ Still(o) /\ HalvesGoDown(e) /\ o \in Ends /\ o # e /\ Other(o) = e
    BY StillStep, Parts DEF Step, Write
  <1>1. /\ wq[e] # <<>> /\ n # Close /\ whalf[e] /\ ~Gone(o)
        /\ pipe' = [pipe EXCEPT ![o] = Append(pipe[o], w)]
        /\ put'[e] = IF IsLast(e) THEN 0 ELSE put[e] + 1
        /\ wq'[e] = IF IsLast(e) THEN Tail(wq[e]) ELSE wq[e]
        /\ wrote'[e] = IF IsLast(e) THEN Append(wrote[e], n) ELSE wrote[e]
        /\ phase'[e] = IF IsLast(e) /\ n = 0 THEN "read" ELSE phase[e]
        /\ UNCHANGED <<rhalf, whalf, rq, buf, need, begun, got, torn>>
    BY DEF WriteUnit, MayWrite, FInv, TypeOK
  <1>2. /\ wq[e] \in Seq((0..MaxFrames) \cup {Close}) /\ Len(wq[e]) \in Nat /\ Len(wq[e]) >= 1
        /\ n = wq[e][1] /\ n \in 0..MaxFrames /\ put[e] \in 0..(FrameLen - 1)
        /\ wrote[e] \in Seq(0..MaxFrames) /\ Len(wrote[e]) \in Nat /\ begun[e] \in 0..MaxFrames
    <2>1. /\ wq[e] \in Seq((0..MaxFrames) \cup {Close}) /\ put[e] \in 0..(FrameLen - 1)
          /\ wrote[e] \in Seq(0..MaxFrames) /\ Len(wrote[e]) \in Nat /\ begun[e] \in 0..MaxFrames
      BY Parts
    <2>2. QED
      BY <2>1, <1>1
  <1>a. wrote[e] = <<>> <=> Len(wrote[e]) = 0
    BY <1>2
  <1>3. Writes(e)
    <2>1. phase[e] # "write" /\ wrote[e] = <<>> => \A k \in 1..Len(wq[e]) : wq[e][k] = Close
      BY Parts DEF WriteLock
    <2>2. phase[e] = "write" \/ wrote[e] # <<>>
      BY <2>1, <1>1, <1>2
    <2>3. QED
      BY <2>2, <1>1 DEF Writes
  <1>4. n = Len(wrote[e]) /\ w = Written(e)
    <2>1. \A k \in 1..Len(wq[e]) : wq[e][k] # Close => wq[e][k] = Len(wrote[e]) + k - 1
      BY <1>3, Parts DEF WriteLock
    <2>2. n = Len(wrote[e])
      BY <2>1, <1>1, <1>2
    <2>3. QED
      BY <2>2 DEF Written
  <1>5. w \in Units /\ w[1] = n /\ w[2] = put[e] + 1 /\ put[e] + 1 \in 1..FrameLen
    <2>1. put[e] + 1 \in 1..FrameLen
      BY <1>2, Bounds
    <2>2. QED
      BY <2>1, <1>2, UnitParts
  <1> HIDE DEF n, w
  <1>6. /\ Len(wrote'[e]) \in Nat /\ Len(wrote[e]) <= Len(wrote'[e])
        /\ Written(e)' = Succ(w) /\ Succ(w)[1] <= Len(wrote'[e])
    <2>1. CASE IsLast(e)
      <3>1. Len(wrote'[e]) = Len(wrote[e]) + 1 /\ put'[e] = 0
        BY <2>1, <1>1, <1>2
      <3>2. Succ(w) = <<n + 1, 1>>
        BY <2>1, <1>5 DEF IsLast, Succ
      <3>3. Written(e)' = <<n + 1, 1>>
        BY <3>1, <1>4 DEF Written
      <3>4. QED
        BY <3>1, <3>2, <3>3, <1>2, <1>4
    <2>2. CASE ~IsLast(e)
      <3>1. Len(wrote'[e]) = Len(wrote[e]) /\ put'[e] = put[e] + 1
        BY <2>2, <1>1, <1>2
      <3>2. Succ(w) = <<n, (put[e] + 1) + 1>>
        BY <2>2, <1>5 DEF IsLast, Succ
      <3>3. Written(e)' = <<n, (put[e] + 1) + 1>>
        BY <3>1, <1>4 DEF Written
      <3>4. QED
        BY <3>1, <3>2, <3>3, <1>2, <1>4
    <2>3. QED
      BY <2>1, <2>2
  \* The end that reads it.
  <1>7. ReaderInv(o)'
    <2>1. (Reads(o)' <=> Reads(o)) /\ ReaderInv(o)
      BY <1>0, OtherKept DEF FInv
    <2>2. /\ got'[o] = got[o] /\ buf'[o] = buf[o] /\ need'[o] = need[o] /\ torn'[o] = torn[o]
          /\ Wanted(o)' = Wanted(o)
      BY <1>0 DEF Still, Wanted
    <2>3. got[o] \in Seq((0..MaxFrames) \cup {Garbage}) /\ Len(got[o]) \in Nat
          /\ pipe[o] \in Seq(Units)
      <3>1. got[o] \in Seq((0..MaxFrames) \cup {Garbage}) /\ pipe[o] \in Seq(Units)
        BY <1>0 DEF FInv, TypeOK
      <3>2. QED
        BY <3>1
    <2>4. ASSUME ~torn'[o] PROVE ReturnedInOrder(o)'
      <3>1. ReturnedInOrder(o)
        BY <2>1, <2>2, <2>4 DEF ReaderInv
      <3>2. QED
        BY <3>1, <2>2, <2>3, <1>0, <1>2, <1>6 DEF ReturnedInOrder
    <2>5. ASSUME Reads(o)' PROVE Consumed(o)' /\ Stream(o)'
      <3>1. Consumed(o) /\ Stream(o)
        BY <2>1, <2>5 DEF ReaderInv
      <3>2. Consumed(o)'
        BY <3>1, <2>2 DEF Consumed
      <3>3. /\ Chain(pipe[o], Wanted(o)) /\ Within(pipe[o], Len(wrote[e]))
            /\ EndsAt(pipe[o], Wanted(o), w)
        BY <3>1, <1>0, <1>3, <1>4 DEF Stream
      <3>4. \A u \in Units : Succ(u)[1] \in Int
        BY UnitParts
      <3>5. /\ Chain(Append(pipe[o], w), Wanted(o)) /\ Within(Append(pipe[o], w), Len(wrote'[e]))
            /\ EndsAt(Append(pipe[o], w), Wanted(o), Succ(w))
        <4>1. Len(wrote[e]) \in Int /\ Len(wrote'[e]) \in Int
          BY <1>2, <1>6
        <4>2. QED
          BY <4>1, <3>3, <3>4, <2>3, <1>5, <1>6, ChainAppend
      <3>6. pipe'[o] = Append(pipe[o], w)
        BY <1>0, <1>1 DEF FInv, TypeOK
      <3>7. Stream(o)'
        BY <3>5, <3>6, <2>2, <1>0, <1>6 DEF Stream
      <3>8. QED
        BY <3>2, <3>7
    <2>6. QED
      BY <2>4, <2>5 DEF ReaderInv
  \* The end that writes it.
  <1>8. ReaderInv(e)'
    <2>1. pipe'[e] = pipe[e]
      BY <1>0, <1>1 DEF FInv, TypeOK
    <2>2. Reads(e)' => Reads(e)
      <3>1. phase'[e] \in {"write", "read", "up"} => phase[e] \in {"write", "read", "up"}
        <4>1. n = 0 => phase[e] = "write"
          BY <1>a, <1>3, <1>4 DEF Writes
        <4>2. QED
          BY <4>1, <1>1
      <3>2. QED
        BY <3>1, <1>1 DEF Reads, Reading
    <2>3. QED
      BY <2>1, <2>2, <1>0, <1>1, SameReads DEF o
  <1>9. WriterInv(e)'
    <2>0. phase[e] = "write" <=> n = 0
      <3>1. phase[e] = "write" => wrote[e] = <<>>
        BY Parts DEF WriteLock
      <3>2. QED
        BY <3>1, <1>a, <1>3, <1>4 DEF Writes
    <2>1. CASE ~IsLast(e)
      <3>1. Writes(e)' => Writes(e)
        BY <1>3
      <3>2. QED
        BY <3>1, <2>1, <1>1, Parts, WriterKept
    <2>2. CASE IsLast(e)
      <3> PICK q : q = Tail(wq[e])
        OBVIOUS
      <3> PICK l : l = Append(wrote[e], n)
        OBVIOUS
      <3>1. wq'[e] = q /\ wrote'[e] = l /\ phase'[e] = IF n = 0 THEN "read" ELSE phase[e]
        BY <2>2, <1>1
      <3>2. /\ Len(q) = Len(wq[e]) - 1 /\ \A k \in 1..Len(q) : q[k] = wq[e][k + 1]
            /\ q = <<>> <=> Len(q) = 0
        <4>1. q \in Seq((0..MaxFrames) \cup {Close}) /\ Len(q) = Len(wq[e]) - 1
          BY <1>1, <1>2
        <4>2. \A k \in 1..Len(q) : q[k] = wq[e][k + 1]
          BY <1>1, <1>2
        <4>3. q = <<>> <=> Len(q) = 0
          <5>1. q \in Seq((0..MaxFrames) \cup {Close})
            BY <4>1
          <5>2. QED
            BY <5>1, EmptySeq
        <4>4. QED
          BY <4>1, <4>2, <4>3
      <3>3. /\ Len(l) = Len(wrote[e]) + 1 /\ l # <<>> /\ l[Len(wrote[e]) + 1] = n
            /\ \A k \in 1..Len(wrote[e]) : l[k] = wrote[e][k]
        BY SMTT(30), <1>2
      <3>4. \A k \in 1..Len(q) : k + 1 \in 1..Len(wq[e])
        BY <3>2, <1>2
      <3>5. WriteLock(e) /\ WrittenInOrder(e) /\ ReadLock(e)
        BY Parts
      <3>6. WrittenInOrder(e)'
        <4>1. ASSUME NEW i \in 1..Len(l) PROVE l[i] = i - 1
          <5>1. CASE i = Len(wrote[e]) + 1
            BY <5>1, <3>3, <1>2, <1>4
          <5>2. CASE i # Len(wrote[e]) + 1
            <6>1. i \in 1..Len(wrote[e])
              BY <5>2, <3>3, <1>2
            <6>2. QED
              BY <6>1, <3>3, <3>5 DEF WrittenInOrder
          <5>3. QED
            BY <5>1, <5>2
        <4>2. QED
          BY <4>1, <3>1 DEF WrittenInOrder
      <3>7. phase'[e] = "read" => n = 0 /\ rq[e] = <<>> /\ begun[e] = 0 /\ Len(wq[e]) = 1
        <4>1. phase[e] = "write" => rq[e] = <<>> /\ begun[e] = 0 /\ wq[e] = <<0>>
          BY <3>5 DEF ReadLock, WriteLock
        <4>2. Len(<<0>>) = 1 /\ Len(<<>>) = 0
          OBVIOUS
        <4>3. phase[e] = "read" => wq[e] = <<>>
          BY <3>5 DEF WriteLock
        <4>4. QED
          BY <4>1, <4>2, <4>3, <3>1, <2>0, <1>1, <1>2
      <3>8. phase'[e] # "write" /\ (n = 0 => phase'[e] = "read") /\ (n # 0 => phase'[e] = phase[e])
        BY <3>1, <2>0
      <3>9. ReadLock(e)'
        BY <3>5, <3>7, <3>8, <1>1 DEF ReadLock
      <3>10. /\ \A k \in 1..Len(q) : q[k] = Close => ~rhalf[e]
             /\ \A k \in 1..Len(q) : q[k] # Close => q[k] = Len(l) + k - 1
        <4>1. \A k \in 1..Len(q) : q[k] = Close => ~rhalf[e]
          BY <3>2, <3>4, <3>5 DEF WriteLock
        <4>2. \A k \in 1..Len(wq[e]) : wq[e][k] # Close => wq[e][k] = Len(wrote[e]) + k - 1
          BY <3>5, <1>3 DEF WriteLock
        <4>3. ASSUME NEW k \in 1..Len(q), q[k] # Close PROVE q[k] = Len(l) + k - 1
          <5>1. wq[e][k + 1] = Len(wrote[e]) + (k + 1) - 1
            BY <4>2, <4>3, <3>2, <3>4
          <5>2. Len(wrote[e]) + (k + 1) - 1 = Len(l) + k - 1
            BY <3>3, <1>2
          <5>3. QED
            BY <5>1, <5>2, <3>2
        <4>4. QED
          BY <4>1, <4>3
      <3>11. phase'[e] \in {"write", "read", "up"} => Len(l) + Len(q) = begun[e] + 1
        <4>1. phase[e] \in {"write", "read", "up"} => Len(wrote[e]) + Len(wq[e]) = begun[e] + 1
          BY <3>5, <1>3 DEF WriteLock
        <4>2. Len(l) + Len(q) = Len(wrote[e]) + Len(wq[e])
          <5>1. \A i, j \in Nat : (i + 1) + (j - 1) = i + j
            OBVIOUS
          <5>2. QED
            BY <5>1, <3>2, <3>3, <1>2
        <4>3. QED
          BY <4>1, <4>2, <3>8, <2>0
      <3>12. WriteLock(e)'
        <4>1. phase'[e] = "read" => q = <<>>
          BY <3>2, <3>7
        <4>2. QED
          BY <4>1, <3>1, <3>3, <3>7, <3>8, <3>10, <3>11, <1>1 DEF WriteLock
      <3>13. QED
        BY <3>6, <3>9, <3>12 DEF WriterInv
    <2>3. QED
      BY <2>1, <2>2
  <1>10. WriterInv(o)'
    BY <1>0, OtherKept
  <1>11. QED
    BY <1>7, <1>8, <1>9, <1>10, OtherEnd DEF Both

\* A unit is read: it is the one that comes next, so a frame that is complete
\* is the next frame.
LEMMA ReadUnitStep ==
    ASSUME FInv, NEW e \in Ends, ReadUnit(e)
    PROVE  Both'
  <1> DEFINE o == Other(e)
             units == Append(buf[e], Head(pipe[e]))
             done == Len(units) >= HeaderLen /\ Len(units) = HeaderLen + need'[e]
             v == FrameOf(units)
  <1>0. Step(e) /\ Still(o) /\ HalvesGoDown(e) /\ o \in Ends /\ o # e /\ Other(o) = e
    BY StillStep, Parts DEF Step, Read
  <1>1. /\ rq[e] # <<>> /\ Head(rq[e]) = "read" /\ rhalf[e] /\ pipe[e] # <<>>
        /\ pipe' = [pipe EXCEPT ![e] = Tail(pipe[e])]
        /\ UNCHANGED <<rhalf, whalf, wq, put, begun, wrote, torn>>
    BY DEF ReadUnit
  <1>2. /\ Len(units) = HeaderLen => \E k \in LengthsOf(units) : need'[e] = k
        /\ Len(units) # HeaderLen => need'[e] = need[e]
    BY SMTT(30) DEF ReadUnit, FInv, TypeOK
  <1>3. /\ done => got'[e] = Append(got[e], v) /\ buf'[e] = <<>> /\ AfterRead(e, v)
        /\ ~done => buf'[e] = units /\ UNCHANGED <<got, rq, phase>>
    BY DEF ReadUnit, FInv, TypeOK
  <1>4. /\ buf[e] \in Seq(Units) /\ Len(buf[e]) \in Nat /\ pipe[e] \in Seq(Units)
        /\ got[e] \in Seq((0..MaxFrames) \cup {Garbage}) /\ Len(got[e]) \in Nat
        /\ rq[e] \in Seq({"read", "close"})
    <2>1. /\ buf[e] \in Seq(Units) /\ pipe[e] \in Seq(Units) /\ rq[e] \in Seq({"read", "close"})
          /\ got[e] \in Seq((0..MaxFrames) \cup {Garbage})
      BY DEF FInv, TypeOK
    <2>2. QED
      BY <2>1
  <1>5. /\ units \in Seq(Units) /\ Len(units) = Len(buf[e]) + 1
        /\ units[Len(buf[e]) + 1] = Head(pipe[e])
        /\ \A i \in 1..Len(buf[e]) : units[i] = buf[e][i]
    <2>1. Head(pipe[e]) \in Units
      BY <1>1, <1>4
    <2>2. QED
      BY <2>1, <1>4
  <1> HIDE DEF units, v
  \* The lock, and what the caller does.
  <1>6. rq[e] \in {<<"read">>, <<"read", "close">>} /\ Reading(e) /\ phase[e] # "write"
    BY <1>1, Parts, ReadQueues DEF ReadLock, Reading
  <1>7. /\ ReadLock(e)'
        /\ phase'[e] = phase[e] \/ phase'[e] = "closing" \/ (phase[e] = "read" /\ phase'[e] = "up")
    <2>1. CASE ~done
      BY <2>1, <1>3, Parts DEF ReadLock
    <2>2. CASE done /\ StartClose(e, Tail(rq[e])) /\ phase[e] \in {"read", "up"}
      <3>1. rq[e] = <<"read">>
        BY <2>2, <1>6, Parts, ReadQueues DEF ReadLock
      <3>2. Tail(rq[e]) = <<>>
        BY <3>1, ReadQueues
      <3>3. QED
        BY <3>2, <2>2, CloseCalled, Parts
    <2>3. CASE /\ done /\ rq' = [rq EXCEPT ![e] = Tail(rq[e])]
               /\ \/ phase[e] = "read" /\ phase' = [phase EXCEPT ![e] = "up"]
                  \/ phase[e] # "read" /\ UNCHANGED phase
      <3>1. /\ phase'[e] = IF phase[e] = "read" THEN "up" ELSE phase[e]
            /\ rq'[e] = Tail(rq[e])
        BY <2>3 DEF FInv, TypeOK
      <3>2. rq[e] = <<"read">> => rq'[e] = <<>>
        BY <3>1, ReadQueues
      <3>3. rq[e] = <<"read", "close">> => rq'[e] = <<"close">> /\ phase[e] \notin {"read", "up"}
        BY <3>1, Parts, ReadQueues DEF ReadLock
      <3>4. QED
        BY <3>1, <3>2, <3>3, <1>6 DEF ReadLock
    <2>4. QED
      BY <2>1, <2>2, <2>3, <1>3 DEF AfterRead
  <1>8. Writes(e)' => Writes(e)
    BY <1>1, <1>6, <1>7 DEF Writes, Gone
  <1>9. WriterInv(e)'
    <2>1. WrittenInOrder(e)'
      BY <1>1, Parts DEF WrittenInOrder
    <2>2. WriteLock(e)'
      <3>1. WriteLock(e)
        BY Parts
      <3>2. phase[e] = "read" /\ phase'[e] = "up" => wrote[e] # <<>>
        BY <3>1 DEF WriteLock
      <3>3. Writes(e)' =>
               /\ \A k \in 1..Len(wq[e]) : wq[e][k] # Close => wq[e][k] = Len(wrote[e]) + k - 1
               /\ phase[e] \in {"write", "read", "up"} => Len(wrote[e]) + Len(wq[e]) = begun[e] + 1
        BY <3>1, <1>8 DEF WriteLock
      <3>4. QED
        BY <3>1, <3>2, <3>3, <1>1, <1>6, <1>7 DEF WriteLock
    <2>3. QED
      BY <2>1, <2>2, <1>7 DEF WriterInv
  \* What was read.
  <1>10. ReaderInv(e)'
    <2> SUFFICES ASSUME ~torn[e]
                 PROVE  ReturnedInOrder(e)' /\ Consumed(e)' /\ Stream(e)'
      BY <1>1 DEF ReaderInv, Reads
    <2>1. Reads(e) /\ Consumed(e) /\ Stream(e) /\ ReturnedInOrder(e)
      BY <1>1, <1>6, Parts DEF Reads, ReaderInv
    <2> DEFINE r == Wanted(e)
               m == Len(wrote[o])
    <2>2. /\ Head(pipe[e]) = r /\ Succ(r)[1] <= m
          /\ Chain(Tail(pipe[e]), Succ(r)) /\ Within(Tail(pipe[e]), m)
          /\ \A w : EndsAt(pipe[e], r, w) => EndsAt(Tail(pipe[e]), Succ(r), w)
      <3>1. Chain(pipe[e], r) /\ Within(pipe[e], m)
        BY <2>1 DEF Stream
      <3> HIDE DEF r, m, o
      <3>2. QED
        BY <3>1, <1>1, <1>4, ChainTail
    <2>3. \A i \in 1..Len(units) : units[i] = <<Len(got[e]), i>>
      <3>1. ASSUME NEW i \in 1..Len(units) PROVE units[i] = <<Len(got[e]), i>>
        <4>1. CASE i = Len(buf[e]) + 1
          BY <4>1, <2>2, <1>5 DEF Wanted
        <4>2. CASE i # Len(buf[e]) + 1
          <5>1. i \in 1..Len(buf[e])
            BY <4>2, <1>4, <1>5
          <5>2. QED
            BY <5>1, <2>1, <1>5 DEF Consumed
        <4>3. QED
          BY <4>1, <4>2
      <3>2. QED
        BY <3>1
    <2>4. Len(units) \in Nat /\ Len(units) >= 1 /\ Len(units) <= FrameLen /\ need[e] \in Int
      <3>1. Len(buf[e]) < FrameLen /\ need[e] \in Int
        BY <2>1 DEF Consumed, FInv, TypeOK
      <3>2. QED
        BY <3>1, <1>4, <1>5, Bounds
    <2>5. Len(units) >= HeaderLen => need'[e] = BodyLen
      <3>1. CASE Len(units) = HeaderLen
        <4>1. units[1] = <<Len(got[e]), 1>> /\ units[1][1] = Len(got[e])
          BY <2>3, <2>4
        <4>2. \A i \in 1..HeaderLen : units[i] = <<units[1][1], i>>
          BY <4>1, <2>3, <3>1
        <4>3. LengthsOf(units) = {BodyLen}
          BY <4>2 DEF LengthsOf
        <4>4. QED
          BY <4>3, <3>1, <1>2
      <3>2. CASE Len(units) > HeaderLen
        <4>1. Len(buf[e]) >= HeaderLen /\ Len(units) # HeaderLen
          BY <3>2, <1>4, <1>5, Bounds
        <4>2. QED
          BY <4>1, <2>1, <1>2 DEF Consumed
      <3>3. QED
        BY <3>1, <3>2, <2>4, Bounds
    <2>6. done <=> Len(units) = FrameLen
      BY <2>4, <2>5, Bounds
    <2>7. Succ(r) = IF Len(units) = FrameLen THEN <<Len(got[e]) + 1, 1>>
                                             ELSE <<Len(got[e]), Len(units) + 1>>
      BY <1>5 DEF Wanted, Succ
    <2>8. pipe'[e] = Tail(pipe[e]) /\ wrote' = wrote /\ torn' = torn
      BY <1>1 DEF FInv, TypeOK
    <2>9. /\ ReturnedInOrder(e)' /\ Consumed(e)' /\ Wanted(e)' = Succ(r)
      <3>1. CASE done
        <4>1. v = Len(got[e])
          <5>1. units[1] = <<Len(got[e]), 1>> /\ units[1][1] = Len(got[e])
            BY <2>3, <2>4
          <5>2. \A i \in 1..FrameLen : units[i] = <<units[1][1], i>>
            BY <5>1, <2>3, <2>6, <3>1
          <5>3. QED
            BY <5>1, <5>2, <2>6, <3>1 DEF FrameOf, v
        <4>2. v \in (0..MaxFrames) \cup {Garbage}
          BY <1>5, FrameOfType DEF v
        <4> PICK g : g = Append(got[e], v)
          OBVIOUS
        <4>3. /\ Len(g) = Len(got[e]) + 1 /\ g[Len(got[e]) + 1] = Len(got[e])
              /\ \A i \in 1..Len(got[e]) : g[i] = got[e][i]
          BY <4>1, <4>2, <1>4
        <4>4. got'[e] = g /\ buf'[e] = <<>> /\ Len(buf'[e]) = 0
          BY <3>1, <1>3
        <4>5. ASSUME NEW i \in 1..Len(g) PROVE g[i] = i - 1
          <5>1. CASE i = Len(got[e]) + 1
            BY <5>1, <4>3, <1>4
          <5>2. CASE i # Len(got[e]) + 1
            <6>1. i \in 1..Len(got[e])
              BY <5>2, <4>3, <1>4
            <6>2. QED
              BY <6>1, <4>3, <2>1 DEF ReturnedInOrder
          <5>3. QED
            BY <5>1, <5>2
        <4>6. Len(g) <= Len(wrote[o])
          BY <4>3, <3>1, <2>2, <2>6, <2>7
        <4>7. ReturnedInOrder(e)'
          BY <4>4, <4>5, <4>6, <2>8 DEF ReturnedInOrder
        <4>8. Consumed(e)'
          BY <4>4, Bounds DEF Consumed
        <4>9. Wanted(e)' = Succ(r)
          BY <4>3, <4>4, <3>1, <2>6, <2>7 DEF Wanted
        <4>10. QED
          BY <4>7, <4>8, <4>9
      <3>2. CASE ~done
        <4>1. buf'[e] = units /\ got' = got
          BY <3>2, <1>3
        <4>2. ReturnedInOrder(e)'
          BY <4>1, <2>1, <2>8 DEF ReturnedInOrder
        <4>3. Consumed(e)'
          <5>1. Len(units) < FrameLen
            BY <3>2, <2>4, <2>6, Bounds
          <5>2. QED
            BY <5>1, <4>1, <2>3, <2>5 DEF Consumed
        <4>4. Wanted(e)' = Succ(r)
          BY <4>1, <3>2, <2>6, <2>7 DEF Wanted
        <4>5. QED
          BY <4>2, <4>3, <4>4
      <3>3. QED
        BY <3>1, <3>2
    <2>10. Stream(e)'
      <3>1. /\ Writes(o)' => Writes(o)
            /\ Written(o)' = Written(o)
        BY <1>0, <1>1, OtherKept DEF Still, Written
      <3>2. Writes(o) => EndsAt(pipe[e], r, Written(o))
        BY <2>1 DEF Stream
      <3> HIDE DEF r
      <3>3. QED
        BY <3>1, <3>2, <2>2, <2>8, <2>9 DEF Stream
    <2>11. QED
      BY <2>9, <2>10
  <1>11. pipe'[o] = pipe[o]
    BY <1>0, <1>1 DEF FInv, TypeOK
  <1>12. phase'[e] = "write" => phase[e] = "write"
    BY <1>7
  <1>13. QED
    BY <1>0, <1>1, <1>9, <1>10, <1>11, <1>12, QuietStep

\* The end of the stream is set together with the loss of the half.
LEMMA EofStep ==
    ASSUME FInv, NEW e \in Ends, Step(e)
    PROVE  EofMeansClosed'
  <1>0. /\ Still(Other(e)) /\ HalvesGoDown(e)
        /\ Other(e) \in Ends /\ Other(e) # e /\ Other(Other(e)) = e
        /\ \A x \in Ends : x = e \/ x = Other(e)
        /\ eof \in [Ends -> BOOLEAN] /\ whalf \in [Ends -> BOOLEAN] /\ EofMeansClosed
    BY StillStep, OtherEnd DEF FInv, TypeOK
  <1>1. \/ eof' = eof
        \/ eof' = [eof EXCEPT ![Other(e)] = TRUE] /\ whalf' = [whalf EXCEPT ![e] = FALSE]
    BY DEF Step, WriteBegin, Write, WriteUnit, WriteError, HandshakeWriteTimeout, Read,
           ReadBegin, ReadUnit, ReadFail, ReadCancel, Disconnect, Closing, CloseRead,
           CloseWrite, Exit
  <1>2. ASSUME NEW x \in Ends, eof'[x] PROVE ~whalf'[Other(x)]
    <2>1. CASE eof' = eof
      BY <2>1, <1>0, <1>2 DEF EofMeansClosed, Still, HalvesGoDown
    <2>2. CASE eof' = [eof EXCEPT ![Other(e)] = TRUE] /\ whalf' = [whalf EXCEPT ![e] = FALSE]
      BY <2>2, <1>0, <1>2 DEF EofMeansClosed
    <2>3. QED
      BY <1>1, <2>1, <2>2
  <1>3. QED
    BY <1>2 DEF EofMeansClosed

-----------------------------------------------------------------------------
\* Every step keeps the invariant.
LEMMA FInvStep == FInv /\ [Next]_vars => FInv'
  <1> SUFFICES ASSUME FInv, [Next]_vars PROVE FInv'
    OBVIOUS
  <1>1. TypeOK'
    BY TypeOKStep
  <1>2. Both'
    <2>1. CASE UNCHANGED vars
      <3>1. ASSUME NEW x \in Ends PROVE WriterInv(x)' /\ ReaderInv(x)'
        <4>1. WriterInv(x) /\ ReaderInv(x) /\ (Writes(x)' => Writes(x)) /\ (Reads(x)' => Reads(x))
              /\ (Writes(Other(x))' => Writes(Other(x)))
          BY <2>1 DEF FInv, vars, Writes, Reads, Reading, Gone
        <4>2. QED
          BY <4>1, <2>1, WriterKept, ReaderKept DEF vars
      <3>2. QED
        BY <3>1 DEF Both
    <2>2. CASE Next
      BY <2>2, WriteBeginStep, WriteUnitStep, WriteLost, ReadBeginStep, ReadUnitStep,
         ReadFailStep, ReadCancelStep, DisconnectStep, CloseReadStep, EndStep
         DEF Next, Write, Read, Closing
    <2>3. QED
      BY <2>1, <2>2
  <1>3. EofMeansClosed'
    <2>1. CASE UNCHANGED vars
      BY <2>1 DEF FInv, EofMeansClosed, vars
    <2>2. CASE Next
      <3>1. PICK e \in Ends : Step(e)
        BY <2>2 DEF Next, Step
      <3>2. QED
        BY <3>1, EofStep
    <2>3. QED
      BY <2>1, <2>2
  <1>4. QED
    BY <1>1, <1>2, <1>3 DEF FInv, Both

\* Every component of the state of both ends keeps its type.
THEOREM StreamTypes == Spec => []TypeOK
  <1>1. FInv => TypeOK
    BY DEF FInv
  <1>2. QED
    BY <1>1, FInvInit, FInvStep, PTL DEF Spec

\* What read() returns at one end is, frame for frame and in order, what was
\* written at the other, unless a read was given up half-way: for headers,
\* payloads and socket buffers of any size and any number of frames, timeouts
\* and processes that end.
THEOREM FramesStayIntact == Spec => []FramesIntact
  <1>1. FInv => FramesIntact
    <2> SUFFICES ASSUME FInv, NEW e \in Ends, ~torn[e]
                 PROVE  IsPrefix(got[e], wrote[Other(e)])
      BY DEF FramesIntact
    <2>1. PICK g \in Seq((0..MaxFrames) \cup {Garbage}) : g = got[e]
      BY DEF FInv, TypeOK
    <2>2. PICK w \in Seq(0..MaxFrames) : w = wrote[Other(e)]
      BY OtherEnd DEF FInv, TypeOK
    <2>3. /\ Len(g) <= Len(w) /\ Len(g) \in Nat /\ Len(w) \in Nat
          /\ \A i \in 1..Len(g) : g[i] = i - 1
          /\ \A i \in 1..Len(w) : w[i] = i - 1
      BY <2>1, <2>2, OtherEnd DEF FInv, ReaderInv, ReturnedInOrder, WriterInv, WrittenInOrder
    <2>4. SubSeq(g, 1, Len(g)) = SubSeq(w, 1, Len(g))
      <3>1. \A i \in 1..Len(g) : g[i] = w[i]
        BY <2>3
      <3>2. SubSeq(g, 1, Len(g)) = [i \in 1..Len(g) |-> g[i]]
        BY <2>3
      <3>3. SubSeq(w, 1, Len(g)) = [i \in 1..Len(g) |-> w[i]]
        BY <2>3
      <3>4. QED
        BY <3>1, <3>2, <3>3
    <2>5. QED
      BY <2>1, <2>2, <2>3, <2>4 DEF IsPrefix
  <1>2. QED
    BY <1>1, FInvInit, FInvStep, PTL DEF Spec
=============================================================================
