---------------------------- MODULE FramedStream ----------------------------
(***************************************************************************)
(* One TCP or IPC connection, both ends of it, from connect()/listen() on: *)
(*   transport/tcp.rs, transport/ipc.rs   read, write and close            *)
(*   core/connection.rs                   perform_handshake                *)
(*   core/node/connect.rs                 what follows the handshake       *)
(*                                                                         *)
(* A connection keeps the two halves of its stream behind a tokio Mutex    *)
(* each.  read holds one across both of its read_exact calls, write holds  *)
(* the other across its write_all calls, close takes first the one and     *)
(* then the other.  The mutexes are fair: rq and wq are their queues, and  *)
(* the head of a queue holds the lock.                                     *)
(*                                                                         *)
(* A frame is HeaderLen units with the length, then BodyLen units.  A unit *)
(* <<n, i>> is the i-th of frame n; frame 0 is the handshake.              *)
(***************************************************************************)
EXTENDS Integers, Sequences, FiniteSets, Functions, SequencesExt

CONSTANTS
    HeaderLen,   \* units of a length prefix (4)
    BodyLen,     \* units of a payload
    PipeCap,     \* units the socket buffers hold in one direction
    MaxFrames,   \* bound: frames written after the handshakes, by both ends
    MaxCancels   \* bound: reads and writes given up by a timer, processes ended

ASSUME StreamAssumption ==
    /\ HeaderLen \in Nat \ {0} /\ BodyLen \in Nat \ {0}
    /\ PipeCap \in Nat /\ MaxFrames \in Nat /\ MaxCancels \in Nat
    /\ PipeCap >= HeaderLen + BodyLen   \* the socket takes a handshake whole

Ends == {"dialler", "acceptor"}
Other(e) == CHOOSE o \in Ends : o # e
FrameLen == HeaderLen + BodyLen
Units == (0..MaxFrames) \X (1..FrameLen)

Garbage == -2   \* a read returned bytes that are no frame of the writer
Close   == -1   \* in wq: the task that closes the connection

VARIABLES
    pipe,      \* pipe[e]: units on their way to e
    eof,       \* the other end has shut down, or dropped, its write half
    rhalf, whalf,   \* the halves e still holds
    rq, wq,    \* tasks at e's two locks, the holder first
    buf, need, \* the units e's read has consumed, the body units it wants
    put,       \* units of the frame at the head of wq that are written
    phase,     \* where e's task is
    reader,    \* who reads at e once it is registered
    begun,     \* frames that e's senders have called write with
    wrote,     \* history: frames e has written, in order
    got,       \* history: what e's reads have returned, in order
    torn,      \* history: a read of e was given up half-way
    cancels

vars == <<pipe, eof, rhalf, whalf, rq, wq, buf, need, put, phase, reader, begun,
          wrote, got, torn, cancels>>

Phases == {"write", "read", "up", "closing", "closed"}

\* A registered end has no reader (CLI serve and plain join start none), or one
\* that reads the connection itself (recv_once), or one that reads it as a link
\* of a session with several (Session::recv).
Readers == {"none", "node", "session"}

TypeOK ==
    /\ pipe \in [Ends -> Seq(Units)] /\ \A e \in Ends : Len(pipe[e]) <= PipeCap
    /\ eof \in [Ends -> BOOLEAN]
    /\ rhalf \in [Ends -> BOOLEAN] /\ whalf \in [Ends -> BOOLEAN]
    /\ rq \in [Ends -> Seq({"read", "close"})]
    /\ wq \in [Ends -> Seq((0..MaxFrames) \cup {Close})]
    /\ buf \in [Ends -> Seq(Units)] /\ need \in [Ends -> 0..(BodyLen + 1)]
    /\ put \in [Ends -> 0..(FrameLen - 1)]
    /\ phase \in [Ends -> Phases] /\ reader \in [Ends -> Readers] /\ begun \in [Ends -> 0..MaxFrames]
    /\ wrote \in [Ends -> Seq(0..MaxFrames)]
    /\ got \in [Ends -> Seq((0..MaxFrames) \cup {Garbage})]
    /\ torn \in [Ends -> BOOLEAN] /\ cancels \in 0..MaxCancels

\* connect() and listen() hand out a connection with both halves, each behind
\* a lock of its own,
BothHalves == [e \in Ends |-> TRUE]

\* ... and the handshake starts with its write.
Init ==
    /\ pipe = [e \in Ends |-> <<>>] /\ eof = [e \in Ends |-> FALSE]
    /\ rhalf = BothHalves /\ whalf = BothHalves
    /\ rq = [e \in Ends |-> <<>>] /\ wq = [e \in Ends |-> <<0>>]
    /\ buf = [e \in Ends |-> <<>>] /\ need = [e \in Ends |-> 0]
    /\ put = [e \in Ends |-> 0]
    /\ phase = [e \in Ends |-> "write"] /\ reader = [e \in Ends |-> "none"]
    /\ begun = [e \in Ends |-> 0]
    /\ wrote = [e \in Ends |-> <<>>] /\ got = [e \in Ends |-> <<>>]
    /\ torn = [e \in Ends |-> FALSE] /\ cancels = 0

Gone(e) == ~rhalf[e] /\ ~whalf[e]
Reading(e) == "read" \in Range(rq[e])

\* The task at e goes on to close the connection: q is the read lock's queue
\* that close() joins.
StartClose(e, q) ==
    /\ phase' = [phase EXCEPT ![e] = "closing"]
    /\ rq' = [rq EXCEPT ![e] = Append(q, "close")]

-----------------------------------------------------------------------------
\* write()

\* Mutant: a writer does not wait for the lock.
WriteBegin_Unlocked(e) ==
    /\ phase[e] = "up" /\ begun[e] + begun[Other(e)] < MaxFrames
    /\ begun' = [begun EXCEPT ![e] = @ + 1]
    /\ wq' = [wq EXCEPT ![e] = <<begun[e] + 1>> \o @]
    /\ UNCHANGED <<pipe, eof, rhalf, whalf, rq, buf, need, put, phase, reader,
                   wrote, got, torn, cancels>>

WriteBegin(e) ==
    /\ phase[e] = "up" /\ begun[e] + begun[Other(e)] < MaxFrames
    /\ begun' = [begun EXCEPT ![e] = @ + 1]
    /\ wq' = [wq EXCEPT ![e] = Append(@, begun[e] + 1)]
    /\ UNCHANGED <<pipe, eof, rhalf, whalf, rq, buf, need, put, phase, reader,
                   wrote, got, torn, cancels>>

\* Mutant: one lock for the connection, which a parked reader holds.
MayWrite_OneLock(e) == whalf[e] /\ ~Reading(e)

MayWrite(e) == whalf[e]

IsLast(e) == put[e] + 1 = FrameLen

\* The socket takes one more unit; after the last one the lock is released.
WriteUnit(e) ==
    LET o == Other(e)
        n == Head(wq[e])
        last == IsLast(e)
    IN  /\ wq[e] # <<>> /\ n # Close
        /\ MayWrite(e) /\ ~Gone(o) /\ Len(pipe[o]) < PipeCap
        /\ pipe' = [pipe EXCEPT ![o] = Append(@, <<n, put[e] + 1>>)]
        /\ put' = [put EXCEPT ![e] = IF last THEN 0 ELSE @ + 1]
        /\ wq' = [wq EXCEPT ![e] = IF last THEN Tail(@) ELSE @]
        /\ wrote' = [wrote EXCEPT ![e] = IF last THEN Append(@, n) ELSE @]
        /\ phase' = [phase EXCEPT ![e] = IF last /\ n = 0 THEN "read" ELSE @]
        /\ UNCHANGED <<eof, rhalf, whalf, rq, buf, need, reader, begun, got, torn,
                       cancels>>

\* The half is taken (PeerGone), or the other end has gone (a socket error).
WriteError(e) ==
    /\ wq[e] # <<>> /\ Head(wq[e]) # Close
    /\ ~whalf[e] \/ Gone(Other(e))
    /\ wq' = [wq EXCEPT ![e] = Tail(@)]
    /\ put' = [put EXCEPT ![e] = 0]
    /\ IF phase[e] = "write" THEN StartClose(e, rq[e])
                             ELSE UNCHANGED <<phase, rq>>
    /\ UNCHANGED <<pipe, eof, rhalf, whalf, buf, need, reader, begun, wrote, got, torn,
                   cancels>>

\* HANDSHAKE_IO_TIMEOUT drops the write of the handshake, units and all.
HandshakeWriteTimeout(e) ==
    /\ phase[e] = "write" /\ cancels < MaxCancels
    /\ cancels' = cancels + 1
    /\ wq' = [wq EXCEPT ![e] = Tail(@)]   \* the handshake is alone there
    /\ put' = [put EXCEPT ![e] = 0]
    /\ StartClose(e, rq[e])
    /\ UNCHANGED <<pipe, eof, rhalf, whalf, buf, need, reader, begun, wrote, got, torn>>

-----------------------------------------------------------------------------
\* read()

\* The handshake's read, or the next turn of the reader's loop, which decides
\* anew whether it reads the connection or the session.
ReadBegin(e) ==
    /\ ~Reading(e)
    /\ \/ phase[e] = "read" /\ UNCHANGED reader
       \/ /\ phase[e] = "up" /\ reader[e] # "none"
          /\ \E k \in {"node", "session"} : reader' = [reader EXCEPT ![e] = k]
    /\ rq' = [rq EXCEPT ![e] = Append(@, "read")]
    /\ UNCHANGED <<pipe, eof, rhalf, whalf, wq, buf, need, put, phase, begun,
                   wrote, got, torn, cancels>>

\* The frame that units are the whole of, if they are one.
FrameOf(units) ==
    IF /\ Len(units) = FrameLen
       /\ \A i \in 1..FrameLen : units[i] = <<units[1][1], i>>
    THEN units[1][1] ELSE Garbage

\* The length four consumed bytes are taken for: that of their frame, or
\* whatever the bytes happen to say.
LengthsOf(units) ==
    IF \A i \in 1..HeaderLen : units[i] = <<units[1][1], i>>
    THEN {BodyLen} ELSE 0..(BodyLen + 1)

\* What the caller does with what its read returned.  The handshake fails on
\* anything else than a Handshake frame; a good one is followed by check_room
\* and attach_link, each of which may refuse the connection and close it, and
\* then by whatever reader the host starts.  recv_once gives up on bytes that do
\* not decode, Session::recv ignores them.
AfterRead(e, v) ==
    LET idle == Tail(rq[e]) IN
    \/ /\ phase[e] = "read" /\ v = 0
       /\ phase' = [phase EXCEPT ![e] = "up"]
       /\ \E k \in Readers : reader' = [reader EXCEPT ![e] = k]
       /\ rq' = [rq EXCEPT ![e] = idle]
    \/ /\ phase[e] # "read"
       /\ rq' = [rq EXCEPT ![e] = idle]
       /\ UNCHANGED <<phase, reader>>
    \/ /\ \/ phase[e] = "read"
          \/ phase[e] = "up" /\ v = Garbage /\ reader[e] = "node"
       /\ StartClose(e, idle)
       /\ UNCHANGED reader

ReadUnit(e) ==
    LET units == Append(buf[e], Head(pipe[e])) IN
    /\ rq[e] # <<>> /\ Head(rq[e]) = "read" /\ rhalf[e] /\ pipe[e] # <<>>
    /\ pipe' = [pipe EXCEPT ![e] = Tail(@)]
    /\ need' \in IF Len(units) = HeaderLen
                 THEN {[need EXCEPT ![e] = k] : k \in LengthsOf(units)}
                 ELSE {need}
    /\ IF Len(units) >= HeaderLen /\ Len(units) = HeaderLen + need'[e]
       THEN /\ got' = [got EXCEPT ![e] = Append(@, FrameOf(units))]
            /\ buf' = [buf EXCEPT ![e] = <<>>]
            /\ AfterRead(e, FrameOf(units))
       ELSE /\ buf' = [buf EXCEPT ![e] = units]
            /\ UNCHANGED <<got, rq, phase, reader>>
    /\ UNCHANGED <<eof, rhalf, whalf, wq, put, begun, wrote, torn, cancels>>

\* PeerGone after a close() here; the end of the stream, or a reset that loses
\* what was under way, when the other end has closed.  The handshake and
\* recv_once then close.  Session::recv reports the link as removed and, while
\* others are listed, goes on with all of them and closes nothing.
ReadFail(e) ==
    /\ rq[e] # <<>> /\ Head(rq[e]) = "read"
    /\ \/ ~rhalf[e]
       \/ eof[e] /\ (pipe[e] = <<>> \/ Gone(Other(e)))
    /\ buf' = [buf EXCEPT ![e] = <<>>] /\ pipe' = [pipe EXCEPT ![e] = <<>>]
    /\ \/ phase[e] \in {"read", "up"} /\ StartClose(e, Tail(rq[e]))
       \/ /\ phase[e] = "up" => reader[e] = "session"
          /\ phase[e] # "read"
          /\ rq' = [rq EXCEPT ![e] = Tail(@)] /\ UNCHANGED phase
    /\ UNCHANGED <<eof, rhalf, whalf, wq, need, put, reader, begun, wrote, got,
                   torn, cancels>>

\* The handshake's timer, or another link or the timer in read_any's select!,
\* drops the read and with it the units it has consumed.  After the handshake's
\* timeout the connection is closed; Session::recv goes on and reads again.  The
\* read is the first at its lock.
ReadCancel(e) ==
    /\ Reading(e) /\ cancels < MaxCancels
    /\ cancels' = cancels + 1
    /\ torn' = [torn EXCEPT ![e] = @ \/ buf[e] # <<>>]
    /\ buf' = [buf EXCEPT ![e] = <<>>]
    /\ \/ phase[e] = "read" /\ StartClose(e, Tail(rq[e]))
       \/ /\ phase[e] \in {"up", "closing"} /\ reader[e] = "session"
          /\ rq' = [rq EXCEPT ![e] = Tail(@)] /\ UNCHANGED phase
    /\ UNCHANGED <<pipe, eof, rhalf, whalf, wq, need, put, reader, begun, wrote, got>>

-----------------------------------------------------------------------------
\* close()

\* disconnect_peer, detach_link or drop_peer, while the reader may be parked.
Disconnect(e) ==
    /\ phase[e] = "up" /\ StartClose(e, rq[e])
    /\ UNCHANGED <<pipe, eof, rhalf, whalf, wq, buf, need, put, reader, begun, wrote,
                   got, torn, cancels>>

CloseRead(e) ==
    /\ rq[e] # <<>> /\ Head(rq[e]) = "close"
    /\ rq' = [rq EXCEPT ![e] = Tail(@)]
    /\ rhalf' = [rhalf EXCEPT ![e] = FALSE]
    /\ wq' = [wq EXCEPT ![e] = Append(@, Close)]
    /\ UNCHANGED <<pipe, eof, whalf, buf, need, put, phase, reader, begun, wrote, got,
                   torn, cancels>>

\* Mutant: the other end is not told.
CloseWrite_Silent(e) ==
    /\ wq[e] # <<>> /\ Head(wq[e]) = Close
    /\ wq' = [wq EXCEPT ![e] = Tail(@)]
    /\ whalf' = [whalf EXCEPT ![e] = FALSE]
    /\ phase' = [phase EXCEPT ![e] = "closed"]
    /\ UNCHANGED <<pipe, eof, rhalf, rq, buf, need, put, reader, begun, wrote, got,
                   torn, cancels>>

\* shutdown() and the drop of the half; with both halves dropped the socket
\* is closed and what it still held is lost.
CloseWrite(e) ==
    /\ wq[e] # <<>> /\ Head(wq[e]) = Close
    /\ wq' = [wq EXCEPT ![e] = Tail(@)]
    /\ whalf' = [whalf EXCEPT ![e] = FALSE]
    /\ eof' = [eof EXCEPT ![Other(e)] = TRUE]
    /\ pipe' = [pipe EXCEPT ![e] = <<>>]
    /\ phase' = [phase EXCEPT ![e] = "closed"]
    /\ UNCHANGED <<rhalf, rq, buf, need, put, reader, begun, wrote, got, torn, cancels>>

\* The process ends: its tasks vanish and the kernel closes the socket.
Exit(e) ==
    /\ phase[e] # "closed" /\ cancels < MaxCancels
    /\ cancels' = cancels + 1
    /\ rhalf' = [rhalf EXCEPT ![e] = FALSE] /\ whalf' = [whalf EXCEPT ![e] = FALSE]
    /\ rq' = [rq EXCEPT ![e] = <<>>] /\ wq' = [wq EXCEPT ![e] = <<>>]
    /\ buf' = [buf EXCEPT ![e] = <<>>] /\ put' = [put EXCEPT ![e] = 0]
    /\ eof' = [eof EXCEPT ![Other(e)] = TRUE]
    /\ pipe' = [pipe EXCEPT ![e] = <<>>]
    /\ phase' = [phase EXCEPT ![e] = "closed"]
    /\ UNCHANGED <<need, reader, begun, wrote, got, torn>>

-----------------------------------------------------------------------------
Write(e) == WriteUnit(e) \/ WriteError(e)
Read(e)  == ReadBegin(e) \/ ReadUnit(e) \/ ReadFail(e)
Closing(e) == CloseRead(e) \/ CloseWrite(e)

Next == \E e \in Ends :
    \/ WriteBegin(e) \/ Write(e) \/ HandshakeWriteTimeout(e)
    \/ Read(e) \/ ReadCancel(e)
    \/ Disconnect(e) \/ Closing(e) \/ Exit(e)

Spec == Init /\ [][Next]_vars

\* tokio runs a task that can go on, and TCP delivers: a read, a write and a
\* close that can take their next step take it, and a reader that was started
\* reads again.  Nobody has to start one, to send, to disconnect or to be
\* interrupted.
FairSpec == Spec /\ \A e \in Ends :
    WF_vars(Write(e)) /\ WF_vars(Read(e)) /\ WF_vars(Closing(e))

-----------------------------------------------------------------------------
\* What read() returns at one end is, frame for frame and in order, what was
\* written at the other: concurrent writers do not mix their units, and a
\* write that the handshake's timer cuts short never reaches a reader as a
\* frame.  The one exception is a read that was given up half-way.
FramesIntact ==
    \A e \in Ends : ~torn[e] => IsPrefix(got[e], wrote[Other(e)])

\* A parked reader does not stop the writers of its own end: between two ends
\* that stay connected, every write() returns if the other end has a reader.
\* (One that writes to CLI serve or plain join, which start none, waits for good
\* once the socket's buffers are full.)
WritesEnd ==
    \A e \in Ends : \A n \in 1..MaxFrames :
        n \in Range(wq[e]) ~>
            \/ n \notin Range(wq[e])
            \/ \E x \in Ends : phase[x] # "up"
            \/ reader[Other(e)] = "none"

\* An end whose peer has refused the handshake, timed out, closed or died does
\* not stay connected: in the handshake, or with a reader of this connection,
\* it finds out and closes its side too.  Left out are an end without a reader
\* and one whose reader is in Session::recv, which keeps a failed link listed.
HalfOpenEnds ==
    \A e \in Ends :
        phase[e] # "closed" /\ Gone(Other(e)) ~>
            phase[e] = "closed" \/ (phase[e] = "up" /\ reader[e] # "node")
=============================================================================
