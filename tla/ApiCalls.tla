------------------------------ MODULE ApiCalls ------------------------------
(***************************************************************************)
(* The application interface of a node towards one peer:                   *)
(*   api/rpc.rs      rpc_request, PendingRequests, dispatch_request        *)
(*   api/stream.rs   StreamWriter at the peer, StreamReader here           *)
(*   api/message.rs, api/pubsub.rs   broadcast and publish to all peers    *)
(*                                                                         *)
(* Requests, streams and messages of one peer share one connection, and    *)
(* whoever calls recv_raw next gets the next frame, whatever its type:     *)
(* what a consumer does not want it drops.  Request ids are u16 and wrap.  *)
(*                                                                         *)
(* Calls and streams are numbered in the order they begin; id(c) is the    *)
(* number modulo IdSpace.                                                  *)
(***************************************************************************)
EXTENDS Integers, Sequences, FiniteSets

CONSTANTS
    IdSpace,     \* request ids (2^16)
    MaxCalls,    \* bound: rpc_request calls
    MaxStreams,  \* bound: streams the peer opens
    Chunks,      \* bound: chunks of a stream
    Written,     \* chunks written to each stream before finish is called
    Subscribers, \* peers that may subscribe to the topic
    MaxOps       \* bound: calls, streams, subscriptions and publications

ASSUME ApiAssumption ==
    /\ IdSpace \in Nat \ {0} /\ MaxCalls \in Nat /\ MaxStreams \in Nat
    /\ Chunks \in Nat /\ Written \in [1..MaxStreams -> 0..Chunks]
    /\ MaxOps \in Nat /\ IsFiniteSet(Subscribers)

Ids     == 0..(IdSpace - 1)
Calls   == 1..MaxCalls
Streams == 1..MaxStreams
None    == 0

VARIABLES
    up,         \* the peer's connection is there
    nextId,     \* PendingRequests::next_id
    waiters,    \* PendingRequests::waiters, the call whose sender an id holds
    call,       \* where each rpc_request is
    idOf,       \* the id it got
    tx,         \* its oneshot: the sender is held, dropped, or has sent
    got,        \* history: the call whose answer it was sent
    asked,      \* requests that the peer has not answered yet
    inq,        \* frames from the peer, not yet received
    writer,     \* per stream, frames the peer's StreamWriter has sent
    reader,     \* per stream, its StreamReader here
    recvd,      \* chunks the reader returned, in order
    shared,     \* history: two consumers were at work while it read
    topic,      \* PubSubManager: the list of the topic's subscribers
    subs,       \* the list that the publication in progress has taken
    reached,    \* how many of it were sent to
    outcome,    \* how the publication ended
    ops

rpc    == <<nextId, waiters, call, idOf, tx, got, asked>>
stream == <<writer, reader, recvd, shared>>
pubsub == <<topic, subs, reached, outcome>>
vars   == <<up, rpc, inq, stream, pubsub, ops>>

Where  == {"new", "id", "registered", "waiting", "expired", "ok", "closed",
           "timeout", "unsent"}
Frames == [kind : {"response"}, id : Ids, of : Calls]
          \cup [kind : {"start", "end"}, s : Streams]
          \cup {f \in [kind : {"chunk"}, s : Streams, i : 1..Chunks] : f.i <= Written[f.s]}

TypeOK ==
    /\ up \in BOOLEAN
    /\ nextId \in Ids /\ waiters \in [Ids -> Calls \cup {None}]
    /\ call \in [Calls -> Where] /\ idOf \in [Calls -> Ids]
    /\ tx \in [Calls -> {"none", "held", "sent", "dropped"}]
    /\ got \in [Calls -> Calls \cup {None}]
    /\ asked \in SUBSET Calls /\ inq \in Seq(Frames)
    /\ writer \in [Streams -> 0..(Chunks + 2)]
    /\ reader \in [Streams -> {"none", "open", "ended", "failed"}]
    /\ recvd \in [Streams -> Seq(1..Chunks)]
    /\ shared \in SUBSET Streams
    /\ topic \in Seq(Subscribers) /\ subs \in Seq(Subscribers)
    /\ reached \in 0..Len(subs)
    /\ outcome \in {"none", "sending", "ok", "error"}
    /\ ops \in 0..MaxOps

Init ==
    /\ up = TRUE
    /\ nextId = 0 /\ waiters = [i \in Ids |-> None]
    /\ call = [c \in Calls |-> "new"] /\ idOf = [c \in Calls |-> 0]
    /\ tx = [c \in Calls |-> "none"] /\ got = [c \in Calls |-> None]
    /\ asked = {} /\ inq = <<>>
    /\ writer = [s \in Streams |-> 0] /\ reader = [s \in Streams |-> "none"]
    /\ recvd = [s \in Streams |-> <<>>] /\ shared = {}
    /\ topic = <<>> /\ subs = <<>> /\ reached = 0 /\ outcome = "none" /\ ops = 0

-----------------------------------------------------------------------------
\* rpc_request

\* Mutant: the counter is read and not advanced.
NextId_Stuck == nextId

\* wrapping_add(1)
NextId == (nextId + 1) % IdSpace

\* next_id(), under its own lock.
CallId(c) ==
    /\ call[c] = "new" /\ \A d \in Calls : d < c => call[d] # "new"
    /\ ops < MaxOps /\ ops' = ops + 1
    /\ idOf' = [idOf EXCEPT ![c] = nextId]
    /\ nextId' = NextId
    /\ call' = [call EXCEPT ![c] = "id"]
    /\ UNCHANGED <<up, waiters, tx, got, asked, inq, stream, pubsub>>

\* The sender of call c goes out of scope.
DropTx(c) == [d \in Calls |-> IF d = c /\ tx[d] = "held" THEN "dropped" ELSE tx[d]]

\* register(): insert replaces, and so drops, a sender under the same id.
CallRegister(c) ==
    /\ call[c] = "id"
    /\ tx' = [DropTx(waiters[idOf[c]]) EXCEPT ![c] = "held"]
    /\ waiters' = [waiters EXCEPT ![idOf[c]] = c]
    /\ call' = [call EXCEPT ![c] = "registered"]
    /\ UNCHANGED <<up, nextId, idOf, got, asked, inq, stream, pubsub, ops>>

\* What send_raw may say.  It fails without a connection, for a payload that
\* u16 cannot count, and when the write fails.
send_legacy == IF up THEN BOOLEAN ELSE {FALSE}

\* send_request: when it fails the function returns and the waiter stays.
CallSend(c) ==
    /\ call[c] = "registered"
    /\ \E sent \in send_legacy :
          /\ call' = [call EXCEPT ![c] = IF sent THEN "waiting" ELSE "unsent"]
          /\ asked' = IF sent THEN asked \cup {c} ELSE asked
    /\ UNCHANGED <<up, nextId, waiters, idOf, tx, got, inq, stream, pubsub, ops>>

\* The receiver resolves: with the answer, or with an error.
CallReturn(c) ==
    /\ call[c] = "waiting" /\ tx[c] \in {"sent", "dropped"}
    /\ call' = [call EXCEPT ![c] = IF tx[c] = "sent" THEN "ok" ELSE "closed"]
    /\ UNCHANGED <<up, nextId, waiters, idOf, tx, got, asked, inq, stream, pubsub, ops>>

\* Mutant: only a lost connection ends the wait.
CallExpire_IfLost(c) ==
    /\ call[c] = "waiting" /\ tx[c] = "held" /\ ~up
    /\ call' = [call EXCEPT ![c] = "expired"]
    /\ UNCHANGED <<up, nextId, waiters, idOf, tx, got, asked, inq, stream, pubsub, ops>>

\* The timer is first only when the receiver is not ready.
CallExpire(c) ==
    /\ call[c] = "waiting" /\ tx[c] = "held"
    /\ call' = [call EXCEPT ![c] = "expired"]
    /\ UNCHANGED <<up, nextId, waiters, idOf, tx, got, asked, inq, stream, pubsub, ops>>

\* Mutant: the waiter is left behind.
CallCancel_Kept(c) ==
    /\ call[c] = "expired"
    /\ call' = [call EXCEPT ![c] = "timeout"]
    /\ UNCHANGED <<up, nextId, waiters, idOf, tx, got, asked, inq, stream, pubsub, ops>>

\* cancel(id), after the wait for the lock: whatever sender the id now holds.
CallCancel(c) ==
    /\ call[c] = "expired"
    /\ tx' = DropTx(waiters[idOf[c]])
    /\ waiters' = [waiters EXCEPT ![idOf[c]] = None]
    /\ call' = [call EXCEPT ![c] = "timeout"]
    /\ UNCHANGED <<up, nextId, idOf, got, asked, inq, stream, pubsub, ops>>

\* complete(response), by the application's receive loop.
Complete(f) ==
    LET c == waiters[f.id] IN
    /\ waiters' = [waiters EXCEPT ![f.id] = None]
    /\ IF c # None /\ tx[c] = "held" /\ call[c] \in {"id", "registered", "waiting"}
       THEN /\ tx' = [tx EXCEPT ![c] = "sent"]
            /\ got' = [got EXCEPT ![c] = f.of]
       ELSE tx' = DropTx(c) /\ UNCHANGED got

-----------------------------------------------------------------------------
\* The peer: dispatch_request and StreamWriter

\* One answer to each request, in any order.
PeerAnswer(c) ==
    /\ up /\ c \in asked
    /\ asked' = asked \ {c}
    /\ inq' = Append(inq, [kind |-> "response", id |-> idOf[c], of |-> c])
    /\ UNCHANGED <<up, nextId, waiters, call, idOf, tx, got, stream, pubsub, ops>>

\* The next frame of stream s, which has sent n so far, is f.
PeerSends(s, n, f) ==
    /\ up /\ writer[s] = n
    /\ writer' = [writer EXCEPT ![s] = n + 1]
    /\ inq' = Append(inq, f)
    /\ UNCHANGED <<up, rpc, reader, recvd, shared, pubsub>>

create_stream(s) ==
    /\ ops < MaxOps /\ ops' = ops + 1
    /\ \A r \in Streams : r < s => writer[r] > 0
    /\ PeerSends(s, 0, [kind |-> "start", s |-> s])

\* A chunk that send_raw takes.  One that it refuses is not on its way, and
\* chunk_index stays for the next.
write(s) ==
    /\ writer[s] \in 1..Written[s] /\ UNCHANGED ops
    /\ PeerSends(s, writer[s], [kind |-> "chunk", s |-> s, i |-> writer[s]])

\* Whether or not they are the total_chunks that the start announced.
finish(s) ==
    /\ PeerSends(s, Written[s] + 1, [kind |-> "end", s |-> s])
    /\ UNCHANGED ops

-----------------------------------------------------------------------------
\* Consumers of recv_raw

Open == {s \in Streams : reader[s] = "open"}

\* The next frame is taken from the shared connection, whoever wants it.
recv_raw == inq # <<>> /\ inq' = Tail(inq)

\* The application's receive loop: answers are completed, a start gets a
\* StreamReader, and every other frame is nobody's.
AppRecv ==
    /\ recv_raw
    /\ shared' = shared \cup Open
    /\ IF Head(inq).kind = "response" THEN Complete(Head(inq))
                                      ELSE UNCHANGED <<waiters, tx, got>>
    /\ reader' = IF Head(inq).kind = "start"
                 THEN [reader EXCEPT ![Head(inq).s] = "open"] ELSE reader
    /\ UNCHANGED <<up, nextId, call, idOf, asked, writer, recvd, pubsub, ops>>

\* recv_message, on its way to a message: what is none is gone.
recv_message ==
    /\ recv_raw
    /\ shared' = shared \cup Open
    /\ UNCHANGED <<up, rpc, writer, reader, recvd, pubsub, ops>>

\* Mutant: any end ends the stream.
IsEndOf_Any(f, s) == f.kind = "end"

IsEndOf(f, s) == f.kind = "end" /\ f.s = s

\* StreamReader::next takes frames until one is its own; the others are lost.
StreamRecv(s) ==
    LET f == Head(inq) IN
    /\ reader[s] = "open" /\ recv_raw
    /\ shared' = shared \cup (Open \ {s})
    /\ recvd' = IF f.kind = "chunk" /\ f.s = s
                THEN [recvd EXCEPT ![s] = Append(@, f.i)] ELSE recvd
    /\ reader' = IF IsEndOf(f, s) THEN [reader EXCEPT ![s] = "ended"] ELSE reader
    /\ UNCHANGED <<up, rpc, writer, pubsub, ops>>

\* Without a connection recv_raw fails: the reader is done and does not say why.
StreamFail(s) ==
    /\ reader[s] = "open" /\ ~up /\ inq = <<>>
    /\ reader' = [reader EXCEPT ![s] = "failed"]
    /\ UNCHANGED <<up, rpc, inq, writer, recvd, shared, pubsub, ops>>

\* The connection goes; frames that were not received may go with it.
ConnectionLost ==
    /\ up /\ up' = FALSE
    /\ inq' \in {inq, <<>>}
    /\ UNCHANGED <<rpc, stream, pubsub, ops>>

-----------------------------------------------------------------------------
\* publish, and broadcast_message with the peers for a list

In(p, list) == \E i \in DOMAIN list : list[i] = p

Listed(p) == IF In(p, topic) THEN topic ELSE Append(topic, p)

\* publish borrows the manager until it returns: no list changes meanwhile.
Subscribe(p) ==
    /\ outcome # "sending" /\ ops < MaxOps /\ ops' = ops + 1
    /\ topic' = Listed(p)
    /\ UNCHANGED <<up, rpc, inq, stream, subs, reached, outcome>>

\* The list without the peer.  subscribe has put it there at most once, so
\* what retain takes out is one place.  remove_peer does so for every topic.
remove_peer(p) ==
    LET at == CHOOSE i \in DOMAIN topic : topic[i] = p
    IN  [i \in 1..(Len(topic) - 1) |-> IF i < at THEN topic[i] ELSE topic[i + 1]]

\* unsubscribe does so for one topic.
Unsubscribe(p) ==
    /\ outcome # "sending" /\ In(p, topic)
    /\ topic' = remove_peer(p)
    /\ UNCHANGED <<up, rpc, inq, stream, subs, reached, outcome, ops>>

PublishBegin ==
    /\ outcome # "sending" /\ ops < MaxOps /\ ops' = ops + 1
    /\ subs' = topic /\ reached' = 0
    /\ outcome' = IF topic = <<>> THEN "ok" ELSE "sending"
    /\ UNCHANGED <<up, rpc, inq, stream, topic>>

\* Mutant: a failed send does not end the publication.
PublishSend_Unchecked ==
    /\ outcome = "sending"
    /\ \/ /\ reached' = reached + 1
          /\ outcome' = IF reached' = Len(subs) THEN "ok" ELSE "sending"
       \/ reached' = reached /\ outcome' = "ok"
    /\ UNCHANGED <<up, rpc, inq, stream, topic, subs, ops>>

\* The next send_raw on the list; a peer without a connection makes it fail,
\* and the first failure ends the publication.
PublishSend ==
    /\ outcome = "sending"
    /\ \/ /\ reached' = reached + 1
          /\ outcome' = IF reached' = Len(subs) THEN "ok" ELSE "sending"
       \/ reached' = reached /\ outcome' = "error"
    /\ UNCHANGED <<up, rpc, inq, stream, topic, subs, ops>>

-----------------------------------------------------------------------------
CallStep(c) == \/ CallRegister(c) \/ CallSend(c) \/ CallReturn(c)
               \/ CallExpire(c) \/ CallCancel(c)

Next ==
    \/ \E c \in Calls : CallId(c) \/ CallStep(c) \/ PeerAnswer(c)
    \/ \E s \in Streams : \/ create_stream(s) \/ write(s) \/ finish(s)
                         \/ StreamRecv(s) \/ StreamFail(s)
    \/ AppRecv \/ recv_message \/ ConnectionLost \/ PublishBegin \/ PublishSend
    \/ \E p \in Subscribers : Subscribe(p) \/ Unsubscribe(p)

Spec == Init /\ [][Next]_vars

\* A call's task runs and its timer fires.  Nobody has to answer or receive.
FairSpec == Spec /\ \A c \in Calls : WF_vars(CallStep(c))

-----------------------------------------------------------------------------
\* A call returns the answer to its own request: an answer that comes after
\* the timeout, or after many other calls, finds no waiter of another call.
\* Only when the ids have gone once round can it find one.
AnswersItsOwn ==
    \A c \in Calls : got[c] # None =>
        got[c] = c \/ got[c] + IdSpace <= c \/ c + IdSpace <= got[c]

\* The table of waiters is exact.  It does not grow: a sender is there for a
\* call that still runs, or for one whose request could not be sent (which
\* rpc_request does not take back).  It loses nobody: a call that can still
\* be answered is found under its id.
WaitersExact ==
    /\ \A i \in Ids : waiters[i] # None =>
          /\ idOf[waiters[i]] = i
          /\ call[waiters[i]] \in {"registered", "waiting", "expired", "unsent"}
    /\ \A c \in Calls :
          call[c] \in {"registered", "waiting"} /\ tx[c] = "held" =>
              waiters[idOf[c]] = c

\* A reader that comes to the end frame of its stream, the connection's one
\* consumer, has returned every chunk written before finish, in order, other
\* streams in between or not.
StreamWhole ==
    \A s \in Streams : reader[s] = "ended" /\ s \notin shared =>
        recvd[s] = [i \in 1..Written[s] |-> i]

\* publish says Ok only when everyone on its list was sent to, and each of
\* them once, however often and in whatever order peers subscribed before.
PublishedOnceToAll ==
    /\ outcome = "ok" => reached = Len(subs)
    /\ \A i, j \in DOMAIN subs : subs[i] = subs[j] => i = j

\* Every rpc_request returns.
EveryCallReturns ==
    \A c \in Calls : call[c] # "new" ~> call[c] \in {"ok", "closed", "timeout", "unsent"}
=============================================================================
