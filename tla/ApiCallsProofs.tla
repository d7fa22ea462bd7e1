--------------------------- MODULE ApiCallsProofs ---------------------------
(***************************************************************************)
(* What requests, streams and publications towards a peer keep true, for   *)
(* any number of calls, streams, chunks and subscribers and any id space.  *)
(***************************************************************************)
EXTENDS ApiCalls, SequenceTheorems, TLAPS

-----------------------------------------------------------------------------
(* The inductive invariant.                                                *)

Started(c) == call[c] # "new"

\* Two ids given out n calls apart, n < IdSpace.
Apart(x, y, n) == y = x + n \/ y = x + n - IdSpace

\* Ids are given out one after the other, from nextId on: two of them, fewer
\* than IdSpace calls apart, differ.
IdsInOrder ==
    /\ \A c, d \in Calls : c < d /\ Started(d) => Started(c)
    /\ \A c, d \in Calls : c < d /\ Started(d) /\ d < c + IdSpace =>
          Apart(idOf[c], idOf[d], d - c)
    /\ \A c, d \in Calls :
          Started(c) /\ ~Started(d) /\ c < d /\ d < c + IdSpace
            /\ (\A e \in Calls : e < d => Started(e)) =>
              Apart(idOf[c], nextId, d - c)

\* An answer on its way, or arrived, bears the id of its request.
AnswersBearIds ==
    /\ \A c \in asked : Started(c)
    /\ \A i \in DOMAIN inq : inq[i].kind = "response" =>
          Started(inq[i].of) /\ idOf[inq[i].of] = inq[i].id
    /\ \A c \in Calls : got[c] # None =>
          Started(c) /\ Started(got[c]) /\ idOf[got[c]] = idOf[c]

\* Whoever is in the table holds a sender that is still to be used.
WaitersHold ==
    /\ WaitersExact
    /\ \A i \in Ids : waiters[i] # None => tx[waiters[i]] = "held"

\* The n-th frame of stream s, from its start, 0, to its end.
FrameOf(s, n) ==
    IF n = 0 THEN [kind |-> "start", s |-> s]
    ELSE IF n = Written[s] + 1 THEN [kind |-> "end", s |-> s]
    ELSE [kind |-> "chunk", s |-> s, i |-> n]

Numbers == 0..(Chunks + 1)

Present(s, n) == \E i \in DOMAIN inq : inq[i] = FrameOf(s, n)

\* The frames of a stream arrive in order, and behind one of them is every
\* other that the writer has sent since.
FramesInOrder ==
    \A s \in Streams, i \in DOMAIN inq, n \in Numbers : inq[i] = FrameOf(s, n) =>
        /\ n < writer[s]
        /\ \A j \in DOMAIN inq, m \in Numbers : inq[j] = FrameOf(s, m) /\ i < j => n < m
        /\ \A m \in Numbers : n < m /\ m < writer[s] => Present(s, m)

\* A reader is made for the start frame, of which there is one.
ReadersFollow ==
    \A s \in Streams :
        /\ reader[s] # "none" => writer[s] > 0 /\ ~Present(s, 0)
        /\ reader[s] = "none" => recvd[s] = <<>>

\* The one consumer of the connection has returned the chunks so far, and the
\* rest of what was sent waits for it, unless it went with the connection.
NothingMissed ==
    \A s \in Streams : s \notin shared =>
        /\ \A i \in DOMAIN recvd[s] : recvd[s][i] = i
        /\ reader[s] = "ended" => Len(recvd[s]) = Written[s]
        /\ reader[s] = "open" => Len(recvd[s]) < writer[s]
        /\ reader[s] = "open" /\ (up \/ \E n \in Numbers : Present(s, n)) =>
              \A n \in Numbers : n < writer[s] => (Present(s, n) <=> n > Len(recvd[s]))

\* The lists name each peer once; a publication goes through its list.
ListsOnce ==
    /\ \A i, j \in DOMAIN topic : topic[i] = topic[j] => i = j
    /\ PublishedOnceToAll
    /\ outcome = "sending" => reached < Len(subs)

IInv == /\ TypeOK
        /\ IdsInOrder /\ AnswersBearIds /\ WaitersHold
        /\ FramesInOrder /\ ReadersFollow /\ NothingMissed
        /\ ListsOnce
-----------------------------------------------------------------------------
(* Facts about frames and queues.                                          *)

\* What a frame is, by its kind.
LEMMA FrameKinds ==
    ASSUME NEW f \in Frames
    PROVE  /\ f.kind \in {"response", "start", "chunk", "end"}
           /\ f.kind = "response" => f.id \in Ids /\ f.of \in Calls
           /\ f.kind = "start" => f.s \in Streams /\ f = FrameOf(f.s, 0)
           /\ f.kind = "chunk" =>
                 f.s \in Streams /\ f.i \in 1..Chunks /\ f = FrameOf(f.s, f.i)
           /\ f.kind = "end" => f.s \in Streams /\ f = FrameOf(f.s, Written[f.s] + 1)
  BY ApiAssumption DEF Frames, FrameOf, Streams

\* The frames of the streams are frames, and differ.
LEMMA FramesDiffer ==
    ASSUME NEW s \in Streams, NEW n \in Numbers
    PROVE  /\ n <= Written[s] + 1 => FrameOf(s, n) \in Frames
           /\ FrameOf(s, n).kind # "response" /\ FrameOf(s, n).s = s
           /\ FrameOf(s, n).kind = "start" <=> n = 0
           /\ FrameOf(s, n).kind = "end" <=> n = Written[s] + 1
           /\ FrameOf(s, n).kind = "chunk" => FrameOf(s, n).i = n
           /\ \A r \in Streams, m \in Numbers :
                 FrameOf(s, n) = FrameOf(r, m) => s = r /\ n = m
  BY ApiAssumption DEF Frames, FrameOf, Numbers, Streams

\* What the next id is, without the modulus.
LEMMA NextIdWraps ==
    ASSUME nextId \in Ids
    PROVE  NextId \in Ids /\ (NextId = nextId + 1 \/ NextId = nextId + 1 - IdSpace)
  BY ApiAssumption DEF NextId, Ids

\* Append and Tail, by position.
LEMMA Appended ==
    ASSUME NEW S, NEW q \in Seq(S), NEW e \in S
    PROVE  /\ Append(q, e) \in Seq(S)
           /\ Len(Append(q, e)) = Len(q) + 1
           /\ DOMAIN Append(q, e) = 1..(Len(q) + 1)
           /\ \A i \in 1..Len(q) : Append(q, e)[i] = q[i]
           /\ Append(q, e)[Len(q) + 1] = e
  BY AppendProperties, LenProperties

\* Head and Tail, by position.
LEMMA Shifted ==
    ASSUME NEW S, NEW q \in Seq(S), q # <<>>
    PROVE  /\ Head(q) \in S /\ Head(q) = q[1]
           /\ Len(q) \in Nat /\ Len(q) >= 1 /\ DOMAIN q = 1..Len(q)
           /\ Tail(q) \in Seq(S)
           /\ DOMAIN Tail(q) = 1..(Len(q) - 1)
           /\ \A i \in 1..(Len(q) - 1) : Tail(q)[i] = q[i + 1]
  BY HeadTailProperties, LenProperties, EmptySeq

-----------------------------------------------------------------------------
(* The initial states, and the types.                                      *)

\* At first there is no call, no stream and no publication.
LEMMA InitIInv == Init => IInv
  <1> SUFFICES ASSUME Init PROVE IInv
    OBVIOUS
  <1> USE ApiAssumption DEF Init
  <1>1. TypeOK
    <2>1. /\ up \in BOOLEAN /\ nextId \in Ids /\ waiters \in [Ids -> Calls \cup {None}]
          /\ idOf \in [Calls -> Ids] /\ got \in [Calls -> Calls \cup {None}]
          /\ asked \in SUBSET Calls /\ inq \in Seq(Frames)
      BY DEF Ids
    <2>2. /\ call \in [Calls -> Where]
          /\ tx \in [Calls -> {"none", "held", "sent", "dropped"}]
          /\ reader \in [Streams -> {"none", "open", "ended", "failed"}]
      BY DEF Where
    <2>3. /\ writer \in [Streams -> 0..(Chunks + 2)]
          /\ recvd \in [Streams -> Seq(1..Chunks)]
          /\ shared \in SUBSET Streams
          /\ topic \in Seq(Subscribers) /\ subs \in Seq(Subscribers)
          /\ reached \in 0..Len(subs) /\ ops \in 0..MaxOps
      OBVIOUS
    <2> QED  BY <2>1, <2>2, <2>3 DEF TypeOK
  <1>2. IdsInOrder /\ AnswersBearIds /\ WaitersHold
    BY DEF IdsInOrder, AnswersBearIds, WaitersHold, WaitersExact, Started
  <1>3. FramesInOrder /\ ReadersFollow /\ NothingMissed /\ ListsOnce
    BY DEF FramesInOrder, ReadersFollow, NothingMissed, ListsOnce, PublishedOnceToAll,
           Present
  <1> QED  BY <1>1, <1>2, <1>3 DEF IInv

\* Taking a place out of a list that names each peer once leaves such a list.
LEMMA Removed ==
    ASSUME TypeOK, ListsOnce, NEW p \in Subscribers, In(p, topic)
    PROVE  /\ remove_peer(p) \in Seq(Subscribers)
           /\ \A i, j \in DOMAIN remove_peer(p) :
                 remove_peer(p)[i] = remove_peer(p)[j] => i = j
  <1> DEFINE at == CHOOSE i \in DOMAIN topic : topic[i] = p
  <1>1. at \in DOMAIN topic
    BY DEF In
  <1>2. /\ topic \in Seq(Subscribers) /\ Len(topic) \in Nat
        /\ DOMAIN topic = 1..Len(topic)
        /\ \A i \in 1..Len(topic) : topic[i] \in Subscribers
    BY LenProperties, ElementOfSeq DEF TypeOK
  <1> HIDE DEF at
  <1>3. remove_peer(p) = [i \in 1..(Len(topic) - 1) |->
                             IF i < at THEN topic[i] ELSE topic[i + 1]]
    BY DEF remove_peer, at
  <1>4. remove_peer(p) \in Seq(Subscribers)
    BY <1>1, <1>2, <1>3
  <1> QED  BY <1>1, <1>2, <1>3, <1>4 DEF ListsOnce

\* What a StreamWriter sends is the next frame of its stream.
LEMMA SentFrame ==
    ASSUME TypeOK, NEW s \in Streams, create_stream(s) \/ write(s) \/ finish(s)
    PROVE  \E n \in Numbers : n <= Written[s] + 1 /\ PeerSends(s, n, FrameOf(s, n))
  <1> USE ApiAssumption DEF FrameOf, Numbers, Streams
  <1>0. Written[s] \in 0..Chunks
    OBVIOUS
  <1>1. create_stream(s) =>
           PeerSends(s, 0, FrameOf(s, 0)) /\ 0 \in Numbers /\ 0 <= Written[s] + 1
    BY <1>0 DEF create_stream
  <1>2. write(s) =>
           PeerSends(s, writer[s], FrameOf(s, writer[s])) /\ writer[s] \in Numbers
           /\ writer[s] <= Written[s] + 1
    BY <1>0 DEF write
  <1>3. finish(s) =>
           /\ PeerSends(s, Written[s] + 1, FrameOf(s, Written[s] + 1))
           /\ Written[s] + 1 \in Numbers /\ Written[s] + 1 <= Written[s] + 1
    BY <1>0 DEF finish
  <1> HIDE DEF FrameOf, Numbers
  <1> QED  BY <1>1, <1>2, <1>3

\* Every step keeps the types.
LEMMA TypeStep == ASSUME TypeOK, ListsOnce, [Next]_vars PROVE TypeOK'
  <1> USE ApiAssumption DEF TypeOK, rpc, stream, pubsub
  <1>1. ASSUME NEW c \in Calls, CallId(c) PROVE TypeOK'
    BY <1>1, NextIdWraps DEF CallId, Where
  <1>2. ASSUME NEW c \in Calls, CallRegister(c) PROVE TypeOK'
    <2>1. tx' \in [Calls -> {"none", "held", "sent", "dropped"}]
      BY <1>2 DEF CallRegister, DropTx
    <2> QED  BY <1>2, <2>1 DEF CallRegister, Where
  <1>3. ASSUME NEW c \in Calls, CallSend(c) PROVE TypeOK'
    BY <1>3 DEF CallSend, Where
  <1>4. ASSUME NEW c \in Calls, CallReturn(c) \/ CallExpire(c) PROVE TypeOK'
    BY <1>4 DEF CallReturn, CallExpire, Where
  <1>5. ASSUME NEW c \in Calls, CallCancel(c) PROVE TypeOK'
    <2>1. tx' \in [Calls -> {"none", "held", "sent", "dropped"}]
      BY <1>5 DEF CallCancel, DropTx
    <2> QED  BY <1>5, <2>1 DEF CallCancel, Where
  <1>6. ASSUME NEW c \in Calls, PeerAnswer(c) PROVE TypeOK'
    <2>1. [kind |-> "response", id |-> idOf[c], of |-> c] \in Frames
      BY DEF Frames
    <2>2. inq' \in Seq(Frames)
      BY <1>6, <2>1, Appended DEF PeerAnswer
    <2> QED  BY <1>6, <2>2 DEF PeerAnswer
  <1>7. ASSUME NEW s \in Streams, NEW n \in Numbers,
               n <= Written[s] + 1, PeerSends(s, n, FrameOf(s, n)), ops' \in 0..MaxOps
        PROVE  TypeOK'
    <2>1. inq' \in Seq(Frames)
      BY <1>7, FramesDiffer, Appended DEF PeerSends
    <2>2. writer' \in [Streams -> 0..(Chunks + 2)]
      BY <1>7 DEF PeerSends, Numbers
    <2> QED  BY <1>7, <2>1, <2>2 DEF PeerSends
  <1>8. ASSUME NEW s \in Streams, create_stream(s) \/ write(s) \/ finish(s)
        PROVE  TypeOK'
    <2>1. ops' \in 0..MaxOps
      BY <1>8 DEF create_stream, write, finish
    <2>2. TypeOK => \E n \in Numbers : n <= Written[s] + 1 /\ PeerSends(s, n, FrameOf(s, n))
      <3> HIDE DEF TypeOK
      <3> QED  BY <1>8, SentFrame
    <2> QED  BY <1>7, <2>1, <2>2
  <1>9. ASSUME recv_raw
        PROVE  Head(inq) \in Frames /\ inq' \in Seq(Frames)
    BY <1>9, Shifted DEF recv_raw
  <1>10. ASSUME NEW s \in Streams, StreamRecv(s) PROVE TypeOK'
    <2>1. Head(inq) \in Frames /\ inq' \in Seq(Frames)
      BY <1>9, <1>10 DEF StreamRecv
    <2>2. recvd' \in [Streams -> Seq(1..Chunks)]
      BY <1>10, <2>1, FrameKinds DEF StreamRecv
    <2>3. shared' \in SUBSET Streams
      BY <1>10 DEF StreamRecv, Open
    <2> QED  BY <1>10, <2>1, <2>2, <2>3 DEF StreamRecv
  <1>11. ASSUME NEW s \in Streams, StreamFail(s) PROVE TypeOK'
    BY <1>11 DEF StreamFail
  <1>12. CASE AppRecv
    <2>1. Head(inq) \in Frames /\ inq' \in Seq(Frames)
      BY <1>9, <1>12 DEF AppRecv
    <2>2. /\ waiters' \in [Ids -> Calls \cup {None}]
          /\ got' \in [Calls -> Calls \cup {None}]
          /\ tx' \in [Calls -> {"none", "held", "sent", "dropped"}]
      <3>1. CASE Head(inq).kind = "response"
        <4>1. /\ Head(inq).id \in Ids /\ Head(inq).of \in Calls
              /\ Complete(Head(inq))
          BY <1>12, <2>1, <3>1, FrameKinds DEF AppRecv
        <4>2. /\ waiters' \in [Ids -> Calls \cup {None}]
              /\ got' \in [Calls -> Calls \cup {None}]
          BY <4>1 DEF Complete, None
        <4>3. tx' \in [Calls -> {"none", "held", "sent", "dropped"}]
          <5>1. \/ waiters[Head(inq).id] \in Calls
                      /\ tx' = [tx EXCEPT ![waiters[Head(inq).id]] = "sent"]
                \/ tx' = DropTx(waiters[Head(inq).id])
            BY <4>1 DEF Complete, None
          <5>2. DropTx(waiters[Head(inq).id])
                    \in [Calls -> {"none", "held", "sent", "dropped"}]
            BY DEF DropTx
          <5> QED  BY <5>1, <5>2
        <4> QED  BY <4>2, <4>3
      <3>2. CASE Head(inq).kind # "response"
        BY <1>12, <3>2 DEF AppRecv
      <3> QED  BY <3>1, <3>2
    <2>3. shared' \in SUBSET Streams
      BY <1>12 DEF AppRecv, Open
    <2>4. reader' \in [Streams -> {"none", "open", "ended", "failed"}]
      BY <1>12, <2>1, FrameKinds DEF AppRecv
    <2> QED  BY <1>12, <2>1, <2>2, <2>3, <2>4 DEF AppRecv
  <1>13. CASE recv_message
    <2>1. shared' \in SUBSET Streams
      BY <1>13 DEF recv_message, Open
    <2> QED  BY <1>9, <1>13, <2>1 DEF recv_message
  <1>14. CASE ConnectionLost
    <2>1. inq' \in Seq(Frames) /\ up' \in BOOLEAN
      <3>1. inq' \in Seq(Frames)
        BY <1>14, EmptySeq DEF ConnectionLost
      <3>2. up' \in BOOLEAN
        BY <1>14, Zenon DEF ConnectionLost
      <3> QED  BY <3>1, <3>2
    <2> QED  BY <1>14, <2>1 DEF ConnectionLost
  <1>15. CASE PublishBegin
    BY <1>15, LenProperties DEF PublishBegin
  <1>16. CASE PublishSend
    BY <1>16, LenProperties DEF PublishSend, ListsOnce
  <1>17. ASSUME NEW p \in Subscribers, Subscribe(p) \/ Unsubscribe(p) PROVE TypeOK'
    <2>1. topic' \in Seq(Subscribers)
      <3>1. Subscribe(p) => topic' \in Seq(Subscribers)
        BY Appended DEF Subscribe, Listed
      <3>2. Unsubscribe(p) => topic' \in Seq(Subscribers)
        <4> HIDE DEF TypeOK
        <4> QED  BY Removed DEF Unsubscribe
      <3> QED  BY <1>17, <3>1, <3>2
    <2> QED  BY <1>17, <2>1 DEF Subscribe, Unsubscribe
  <1>18. CASE UNCHANGED vars
    BY <1>18 DEF vars
  <1> QED  BY <1>1, <1>2, <1>3, <1>4, <1>5, <1>6, <1>8, <1>10, <1>11, <1>12, <1>13,
              <1>14, <1>15, <1>16, <1>17, <1>18 DEF Next, CallStep

-----------------------------------------------------------------------------
(* Publications.                                                           *)

\* Every step keeps the lists free of repetitions.
LEMMA ListsStep == ASSUME TypeOK, ListsOnce, [Next]_vars PROVE ListsOnce'
  <1> USE DEF ListsOnce, PublishedOnceToAll
  <1>1. CASE UNCHANGED pubsub
    BY <1>1 DEF pubsub
  <1>2. CASE PublishBegin
    <2>1. Len(topic) \in Nat /\ DOMAIN topic = 1..Len(topic)
      BY LenProperties DEF TypeOK
    <2>2. topic = <<>> <=> Len(topic) = 0
      BY EmptySeq DEF TypeOK
    <2> QED  BY <1>2, <2>1, <2>2 DEF PublishBegin
  <1>3. CASE PublishSend
    <2>1. Len(subs) \in Nat /\ reached \in Nat
      BY LenProperties DEF TypeOK
    <2> QED  BY <1>3, <2>1 DEF PublishSend
  <1>4. ASSUME NEW p \in Subscribers, Subscribe(p) PROVE ListsOnce'
    <2>1. CASE In(p, topic)
      BY <1>4, <2>1 DEF Subscribe, Listed
    <2>2. CASE ~In(p, topic)
      <3>1. topic' = Append(topic, p)
        BY <1>4, <2>2 DEF Subscribe, Listed
      <3>2. /\ DOMAIN topic' = 1..(Len(topic) + 1) /\ Len(topic) \in Nat
            /\ DOMAIN topic = 1..Len(topic)
            /\ \A i \in 1..Len(topic) : topic'[i] = topic[i]
            /\ topic'[Len(topic) + 1] = p
        BY <3>1, Appended, LenProperties DEF TypeOK
      <3>3. \A i \in 1..Len(topic) : topic[i] # p
        BY <2>2, <3>2 DEF In
      <3>4. \A i, j \in DOMAIN topic' : topic'[i] = topic'[j] => i = j
        BY <3>2, <3>3
      <3> QED  BY <1>4, <3>4 DEF Subscribe
    <2> QED  BY <2>1, <2>2
  <1>5. ASSUME NEW p \in Subscribers, Unsubscribe(p) PROVE ListsOnce'
    <2>1. \A i, j \in DOMAIN topic' : topic'[i] = topic'[j] => i = j
      <3> HIDE DEF ListsOnce
      <3> QED  BY <1>5, Removed DEF Unsubscribe
    <2> QED  BY <1>5, <2>1 DEF Unsubscribe
  <1>6. ASSUME Next,
               ~PublishBegin, ~PublishSend,
               \A p \in Subscribers : ~Subscribe(p) /\ ~Unsubscribe(p)
        PROVE  UNCHANGED pubsub
    BY <1>6 DEF Next, CallStep, CallId, CallRegister, CallSend, CallReturn, CallExpire,
                CallCancel, PeerAnswer, create_stream, write, finish, PeerSends,
                StreamRecv, StreamFail, AppRecv, recv_message, ConnectionLost
  <1> QED  BY <1>1, <1>2, <1>3, <1>4, <1>5, <1>6 DEF vars

-----------------------------------------------------------------------------
(* Requests.                                                               *)

\* Every step keeps the ids in their order.
LEMMA IdsStep == ASSUME TypeOK, IdsInOrder, [Next]_vars PROVE IdsInOrder'
  <1>1. CASE UNCHANGED <<nextId, idOf>> /\ \A c \in Calls : Started(c)' <=> Started(c)
    BY <1>1 DEF IdsInOrder, Apart
  <1>2. ASSUME NEW c \in Calls, CallId(c) PROVE IdsInOrder'
    <2> USE DEF Apart
    <2>1. /\ nextId \in Ids /\ nextId' \in Ids
          /\ nextId' = nextId + 1 \/ nextId' = nextId + 1 - IdSpace
      BY <1>2, NextIdWraps DEF CallId, TypeOK
    <2>2. /\ \A d \in Calls : Started(d)' <=> d = c \/ Started(d)
          /\ ~Started(c) /\ \A d \in Calls : d < c => Started(d)
      BY <1>2 DEF CallId, TypeOK, Started
    <2>3. \A d \in Calls : d > c => ~Started(d)
      BY <2>2 DEF IdsInOrder
    <2>4. \A d \in Calls : idOf'[d] = IF d = c THEN nextId ELSE idOf[d]
      BY <1>2 DEF CallId, TypeOK
    <2>5. \A d \in Calls : d < c /\ c < d + IdSpace => Apart(idOf[d], nextId, c - d)
      BY <2>2 DEF IdsInOrder
    <2>6. \A d, e \in Calls : d < e /\ Started(e)' => Started(d)'
      BY <2>2, <2>3 DEF IdsInOrder, Calls
    <2>7. \A d, e \in Calls : d < e /\ Started(e)' /\ e < d + IdSpace =>
             Apart(idOf'[d], idOf'[e], e - d)
      BY <2>2, <2>3, <2>4, <2>5 DEF IdsInOrder, Calls
    <2>8. ASSUME NEW d \in Calls, NEW e \in Calls, Started(d)', ~Started(e)',
                 d < e, e < d + IdSpace, \A b \in Calls : b < e => Started(b)'
          PROVE  Apart(idOf'[d], nextId', e - d)
      <3>1. e = c + 1
        <4>1. /\ c \in Int /\ d \in Int /\ e \in Int /\ MaxCalls \in Nat
              /\ 1 <= c /\ c < e /\ e <= MaxCalls
          <5>1. e # c /\ ~(e < c)
            BY <2>2, <2>8
          <5> QED  BY <5>1, ApiAssumption DEF Calls
        <4>2. ~(c + 1 < e)
          <5>1. SUFFICES ASSUME c + 1 < e PROVE FALSE
            OBVIOUS
          <5>2. c + 1 \in Calls /\ c + 1 > c
            BY <4>1, <5>1 DEF Calls
          <5>3. Started(c + 1)'
            BY <2>8, <5>1, <5>2
          <5> QED  BY <2>2, <2>3, <4>1, <5>2, <5>3
        <4> QED  BY <4>1, <4>2
      <3>2. d \in Int /\ c \in Int /\ idOf[d] \in Ids /\ IdSpace \in Nat
        BY ApiAssumption DEF TypeOK, Calls
      <3>3. CASE d = c
        BY <2>1, <2>4, <3>1, <3>3 DEF Ids, Calls
      <3>4. CASE d < c
        <4>1. Apart(idOf[d], nextId, c - d)
          BY <2>5, <2>8, <3>1, <3>2, <3>4
        <4> QED  BY <2>1, <2>4, <2>8, <3>1, <3>2, <3>4, <4>1 DEF Ids
      <3> QED  BY <2>8, <3>1, <3>2, <3>3, <3>4
    <2> HIDE DEF Apart
    <2> QED  BY <2>6, <2>7, <2>8 DEF IdsInOrder, Apart
  <1>3. ASSUME NEW c \in Calls, CallStep(c)
        PROVE  UNCHANGED <<nextId, idOf>> /\ \A d \in Calls : Started(d)' <=> Started(d)
    BY <1>3 DEF CallStep, CallRegister, CallSend, CallReturn, CallExpire, CallCancel,
                Started, TypeOK
  <1>4. ASSUME Next, \A c \in Calls : ~CallId(c) /\ ~CallStep(c)
        PROVE  UNCHANGED <<nextId, idOf, call>>
    BY <1>4 DEF Next, PeerAnswer, create_stream, write, finish, PeerSends, StreamRecv,
                StreamFail, AppRecv, recv_message, ConnectionLost, PublishBegin,
                PublishSend, Subscribe, Unsubscribe, rpc
  <1> QED  BY <1>1, <1>2, <1>3, <1>4 DEF vars, rpc, Started

\* An answer's position moves up when a frame is received and stays when one
\* is appended.
OldFrames == \A i \in DOMAIN inq' : \E j \in DOMAIN inq : inq'[i] = inq[j]

\* Taking a frame leaves frames that were there.
LEMMA ReceivedAreOld == ASSUME TypeOK, recv_raw PROVE OldFrames
  <1>1. /\ DOMAIN inq' = 1..(Len(inq) - 1) /\ DOMAIN inq = 1..Len(inq)
        /\ Len(inq) \in Nat /\ Len(inq) >= 1
        /\ \A i \in 1..(Len(inq) - 1) : inq'[i] = inq[i + 1]
    BY Shifted DEF recv_raw, TypeOK
  <1> QED  BY <1>1 DEF OldFrames

\* Every step keeps the ids of answers right.
LEMMA AnswersStep ==
    ASSUME TypeOK, AnswersBearIds, WaitersHold, [Next]_vars
    PROVE  AnswersBearIds'
  <1> USE DEF AnswersBearIds
  <1>1. ASSUME OldFrames, UNCHANGED <<call, idOf, asked, got>> PROVE AnswersBearIds'
    BY <1>1 DEF OldFrames, Started
  <1>2. ASSUME NEW c \in Calls, CallId(c) PROVE AnswersBearIds'
    <2>1. /\ \A d \in Calls : Started(d) => Started(d)' /\ idOf'[d] = idOf[d]
          /\ UNCHANGED <<inq, asked, got>>
      BY <1>2 DEF CallId, TypeOK, Started
    <2>2. /\ \A d \in asked : d \in Calls
          /\ \A i \in DOMAIN inq : inq[i].kind = "response" => inq[i].of \in Calls
          /\ \A d \in Calls : got[d] # None => got[d] \in Calls
      BY FrameKinds, LenProperties DEF TypeOK, None
    <2> QED  BY <2>1, <2>2
  <1>3. ASSUME NEW c \in Calls, CallStep(c) PROVE AnswersBearIds'
    <2>1. /\ \A d \in Calls : Started(d)' <=> Started(d)
          /\ UNCHANGED <<inq, idOf, got>> /\ asked' \subseteq asked \cup {c}
          /\ Started(c)
      BY <1>3 DEF CallStep, CallRegister, CallSend, CallReturn, CallExpire, CallCancel,
                  TypeOK, Started
    <2>2. /\ \A d \in asked : d \in Calls
          /\ \A i \in DOMAIN inq : inq[i].kind = "response" => inq[i].of \in Calls
          /\ \A d \in Calls : got[d] # None => got[d] \in Calls
      BY FrameKinds, LenProperties DEF TypeOK, None
    <2> QED  BY <2>1, <2>2
  <1>4. ASSUME NEW c \in Calls, PeerAnswer(c) PROVE AnswersBearIds'
    <2> DEFINE f == [kind |-> "response", id |-> idOf[c], of |-> c]
    <2>1. f \in Frames
      BY DEF Frames, TypeOK
    <2>2. /\ DOMAIN inq' = 1..(Len(inq) + 1) /\ DOMAIN inq = 1..Len(inq)
          /\ Len(inq) \in Nat
          /\ \A i \in 1..Len(inq) : inq'[i] = inq[i]
          /\ inq'[Len(inq) + 1] = f
      BY <1>4, <2>1, Appended, LenProperties DEF PeerAnswer, TypeOK
    <2>3. UNCHANGED <<call, idOf, got>> /\ asked' \subseteq asked /\ Started(c)
      BY <1>4 DEF PeerAnswer
    <2> QED  BY <2>2, <2>3 DEF Started
  <1>5. ASSUME NEW s \in Streams, NEW n \in Numbers, PeerSends(s, n, FrameOf(s, n))
        PROVE  AnswersBearIds'
    <2>1. /\ DOMAIN inq' = 1..(Len(inq) + 1) /\ DOMAIN inq = 1..Len(inq)
          /\ Len(inq) \in Nat
          /\ \A i \in 1..Len(inq) : inq'[i] = inq[i]
          /\ inq'[Len(inq) + 1].kind # "response"
      BY <1>5, FramesDiffer, Appended, LenProperties DEF PeerSends, TypeOK
    <2> QED  BY <1>5, <2>1 DEF PeerSends, rpc, Started
  <1>6. ASSUME NEW s \in Streams, create_stream(s) \/ write(s) \/ finish(s)
        PROVE  AnswersBearIds'
    BY <1>5, <1>6, SentFrame
  <1>7. ASSUME NEW s \in Streams, StreamRecv(s) PROVE AnswersBearIds'
    BY <1>1, <1>7, ReceivedAreOld DEF StreamRecv, rpc
  <1>8. CASE recv_message
    BY <1>1, <1>8, ReceivedAreOld DEF recv_message, rpc
  <1>9. CASE AppRecv
    <2>1. OldFrames /\ UNCHANGED <<call, idOf, asked>> /\ Head(inq) \in Frames
             /\ inq # <<>> /\ Head(inq) = inq[1] /\ 1 \in DOMAIN inq
      BY <1>9, ReceivedAreOld, Shifted DEF AppRecv, recv_raw, TypeOK
    <2>2. CASE Head(inq).kind # "response"
      BY <1>1, <1>9, <2>1, <2>2 DEF AppRecv
    <2>3. CASE Head(inq).kind = "response"
      <3> DEFINE f == Head(inq)
                 c == waiters[f.id]
      <3>1. /\ f.id \in Ids /\ f.of \in Calls
            /\ Started(f.of) /\ idOf[f.of] = f.id
        BY <2>1, <2>3, FrameKinds
      <3>2. Complete(f)
        BY <1>9, <2>3 DEF AppRecv
      <3>3. CASE got' = got
        BY <1>1, <2>1, <3>3
      <3>4. CASE c # None /\ got' = [got EXCEPT ![c] = f.of]
        <4>1. c \in Calls /\ idOf[c] = f.id /\ Started(c)
          <5>1. c \in Calls /\ waiters[f.id] # None
            BY <3>1, <3>4 DEF TypeOK
          <5>2. idOf[c] = f.id /\ call[c] \in {"registered", "waiting", "expired", "unsent"}
            BY <3>1, <5>1 DEF WaitersHold, WaitersExact
          <5> QED  BY <5>1, <5>2 DEF Started
        <4>2. \A d \in Calls : got'[d] # None =>
                  Started(d) /\ Started(got'[d]) /\ idOf[got'[d]] = idOf[d]
          BY <3>1, <3>4, <4>1 DEF TypeOK
        <4> QED  BY <2>1, <4>2 DEF OldFrames, Started
      <3> QED  BY <3>2, <3>3, <3>4 DEF Complete
    <2> QED  BY <2>2, <2>3
  <1>10. CASE ConnectionLost
    <2>1. OldFrames
      BY <1>10, LenProperties, EmptySeq DEF ConnectionLost, OldFrames
    <2> QED  BY <1>1, <1>10, <2>1 DEF ConnectionLost, rpc
  <1>11. CASE UNCHANGED <<rpc, inq>>
    BY <1>11 DEF rpc, Started
  <1>12. ASSUME NEW s \in Streams, StreamFail(s) PROVE UNCHANGED <<rpc, inq>>
    BY <1>12 DEF StreamFail
  <1>13. ASSUME PublishBegin \/ PublishSend
                  \/ \E p \in Subscribers : Subscribe(p) \/ Unsubscribe(p)
         PROVE  UNCHANGED <<rpc, inq>>
    BY <1>13 DEF PublishBegin, PublishSend, Subscribe, Unsubscribe
  <1> QED  BY <1>2, <1>3, <1>4, <1>6, <1>7, <1>8, <1>9, <1>10, <1>11, <1>12, <1>13
           DEF Next, vars

\* Every step keeps the table of waiters exact.
LEMMA WaitersStep ==
    ASSUME TypeOK, WaitersHold, [Next]_vars
    PROVE  WaitersHold'
  <1> USE DEF WaitersHold, WaitersExact, None
  <1>1. CASE UNCHANGED <<waiters, idOf, call, tx>>
    BY <1>1
  <1>2. ASSUME NEW c \in Calls, CallId(c) PROVE WaitersHold'
    BY <1>2 DEF CallId, TypeOK
  <1>3. ASSUME NEW c \in Calls, CallRegister(c) PROVE WaitersHold'
    <2>0. 0 \notin Calls
      BY DEF Calls
    <2>1. idOf[c] \in Ids /\ waiters \in [Ids -> Calls \cup {0}] /\ 0 \notin Calls
             /\ call \in [Calls -> Where] /\ call[c] = "id"
      BY <1>3, <2>0 DEF CallRegister, TypeOK
    <2>2. \A d \in Calls : tx'[d] = IF d = c THEN "held"
                                  ELSE IF d = waiters[idOf[c]] /\ tx[d] = "held"
                                  THEN "dropped" ELSE tx[d]
      BY <1>3 DEF CallRegister, DropTx
    <2>3. /\ \A i \in Ids : waiters'[i] = IF i = idOf[c] THEN c ELSE waiters[i]
          /\ \A d \in Calls : call'[d] = IF d = c THEN "registered" ELSE call[d]
          /\ idOf' = idOf
      BY <1>3, <2>1 DEF CallRegister
    <2>4. \A i \in Ids : waiters[i] # c
      BY <2>1
    <2>5. ASSUME NEW i \in Ids, waiters'[i] # 0
          PROVE  /\ idOf'[waiters'[i]] = i
                 /\ call'[waiters'[i]] \in {"registered", "waiting", "expired", "unsent"}
                 /\ tx'[waiters'[i]] = "held"
      <3>1. CASE i = idOf[c]
        BY <2>1, <2>2, <2>3, <3>1
      <3>2. CASE i # idOf[c]
        <4>1. waiters'[i] = waiters[i] /\ waiters[i] \in Calls /\ waiters[i] # c
          BY <2>1, <2>3, <2>4, <2>5, <3>2
        <4>2. waiters[i] # waiters[idOf[c]]
          BY <2>1, <2>5, <3>2, <4>1
        <4> QED  BY <2>2, <2>3, <2>5, <4>1, <4>2
      <3> QED  BY <3>1, <3>2
    <2>6. ASSUME NEW d \in Calls, call'[d] \in {"registered", "waiting"}, tx'[d] = "held"
          PROVE  waiters'[idOf'[d]] = d
      <3>1. CASE d = c
        BY <2>1, <2>3, <3>1
      <3>2. CASE d # c
        <4>1. tx[d] = "held" /\ d # waiters[idOf[c]] /\ waiters[idOf[d]] = d
          BY <2>2, <2>3, <2>6, <3>2
        <4> QED  BY <2>1, <2>3, <4>1 DEF TypeOK
      <3> QED  BY <3>1, <3>2
    <2> QED  BY <2>5, <2>6
  <1>4. ASSUME NEW c \in Calls, CallSend(c) \/ CallExpire(c) PROVE WaitersHold'
    <2>1. /\ waiters \in [Ids -> Calls \cup {0}] /\ UNCHANGED <<waiters, idOf, tx>>
          /\ call[c] \in {"registered", "waiting"}
      BY <1>4 DEF CallSend, CallExpire, TypeOK
    <2>2. \E w \in {"waiting", "expired", "unsent"} :
             \A d \in Calls : call'[d] = IF d = c THEN w ELSE call[d]
      BY <1>4 DEF CallSend, CallExpire, TypeOK
    <2> QED  BY <2>1, <2>2
  <1>5. ASSUME NEW c \in Calls, CallReturn(c) PROVE WaitersHold'
    BY <1>5 DEF CallReturn, TypeOK
  <1>6. ASSUME NEW c \in Calls, CallCancel(c) PROVE WaitersHold'
    <2>1. /\ idOf[c] \in Ids /\ 0 \notin Calls
          /\ \A d \in Calls : tx'[d] = IF d = waiters[idOf[c]] /\ tx[d] = "held"
                                  THEN "dropped" ELSE tx[d]
      BY <1>6 DEF CallCancel, DropTx, TypeOK, Calls
    <2> QED  BY <1>6, <2>1 DEF CallCancel, TypeOK
  <1>7. CASE AppRecv
    <2>1. CASE Head(inq).kind # "response"
      BY <1>1, <1>7, <2>1 DEF AppRecv
    <2>2. CASE Head(inq).kind = "response"
      <3> DEFINE i == Head(inq).id
                 c == waiters[i]
      <3>1. i \in Ids /\ Complete(Head(inq)) /\ UNCHANGED <<call, idOf>>
        BY <1>7, <2>2, FrameKinds, Shifted DEF AppRecv, recv_raw, TypeOK
      <3>2. /\ 0 \notin Calls /\ tx \in [Calls -> {"none", "held", "sent", "dropped"}]
            /\ \A d \in Calls : d # c => DropTx(c)[d] = tx[d]
            /\ \A d \in Calls : d = c => DropTx(c)[d] # "held"
        BY DEF DropTx, TypeOK, Calls
      <3>3. tx' = [tx EXCEPT ![c] = "sent"] \/ tx' = DropTx(c)
        BY <3>1 DEF Complete
      <3>4. /\ \A d \in Calls : d # c => tx'[d] = tx[d]
            /\ \A d \in Calls : d = c => tx'[d] # "held"
        BY <3>2, <3>3
      <3>5. waiters' = [waiters EXCEPT ![i] = 0]
        BY <3>1 DEF Complete
      <3> QED  BY <3>1, <3>2, <3>4, <3>5 DEF TypeOK
    <2> QED  BY <2>1, <2>2
  <1>8. ASSUME Next, ~AppRecv, \A c \in Calls : ~CallId(c) /\ ~CallStep(c)
        PROVE  UNCHANGED <<waiters, idOf, call, tx>>
    BY <1>8 DEF Next, PeerAnswer, create_stream, write, finish, PeerSends, StreamRecv,
                StreamFail, recv_message, ConnectionLost, PublishBegin, PublishSend,
                Subscribe, Unsubscribe, rpc
  <1> QED  BY <1>1, <1>2, <1>3, <1>4, <1>5, <1>6, <1>7, <1>8 DEF vars, rpc, CallStep

-----------------------------------------------------------------------------
(* Streams.                                                                *)

\* Sending adds one frame, behind the others.
LEMMA SendPresent ==
    ASSUME TypeOK, NEW s \in Streams, NEW n \in Numbers, PeerSends(s, n, FrameOf(s, n))
    PROVE  /\ Len(inq) \in Nat /\ DOMAIN inq = 1..Len(inq)
           /\ DOMAIN inq' = 1..(Len(inq) + 1)
           /\ \A i \in DOMAIN inq : inq'[i] = inq[i]
           /\ inq'[Len(inq) + 1] = FrameOf(s, n)
           /\ \A r \in Streams, m \in Numbers :
                 Present(r, m)' <=> Present(r, m) \/ (r = s /\ m = n)
  <1>1. /\ Len(inq) \in Nat /\ DOMAIN inq = 1..Len(inq)
        /\ DOMAIN inq' = 1..(Len(inq) + 1)
        /\ \A i \in DOMAIN inq : inq'[i] = inq[i]
        /\ inq'[Len(inq) + 1] = FrameOf(s, n)
    BY FramesDiffer, Appended, LenProperties DEF PeerSends, TypeOK
  <1>2. ASSUME NEW r \in Streams, NEW m \in Numbers
        PROVE  Present(r, m)' <=> Present(r, m) \/ (r = s /\ m = n)
    <2>1. FrameOf(s, n) = FrameOf(r, m) <=> (r = s /\ m = n)
      BY FramesDiffer
    <2> QED  BY <1>1, <2>1 DEF Present
  <1> QED  BY <1>1, <1>2

\* Receiving takes the first frame, and no other is equal to it.
LEMMA RecvPresent ==
    ASSUME TypeOK, FramesInOrder, recv_raw
    PROVE  /\ Len(inq) \in Nat /\ Len(inq) >= 1 /\ DOMAIN inq = 1..Len(inq)
           /\ DOMAIN inq' = 1..(Len(inq) - 1)
           /\ \A i \in DOMAIN inq' : inq'[i] = inq[i + 1]
           /\ Head(inq) = inq[1] /\ Head(inq) \in Frames
           /\ \A r \in Streams, m \in Numbers :
                 Present(r, m)' <=> Present(r, m) /\ Head(inq) # FrameOf(r, m)
  <1>1. /\ Len(inq) \in Nat /\ Len(inq) >= 1 /\ DOMAIN inq = 1..Len(inq)
        /\ DOMAIN inq' = 1..(Len(inq) - 1)
        /\ \A i \in DOMAIN inq' : inq'[i] = inq[i + 1]
        /\ Head(inq) = inq[1] /\ Head(inq) \in Frames
    BY Shifted DEF recv_raw, TypeOK
  <1>2. ASSUME NEW r \in Streams, NEW m \in Numbers, Present(r, m)'
        PROVE  Present(r, m) /\ Head(inq) # FrameOf(r, m)
    <2>1. PICK i \in DOMAIN inq' : inq'[i] = FrameOf(r, m)
      BY <1>2 DEF Present
    <2>2. i + 1 \in DOMAIN inq /\ inq[i + 1] = FrameOf(r, m) /\ 1 \in DOMAIN inq /\ 1 < i + 1
      BY <1>1, <2>1
    <2>3. inq[1] = FrameOf(r, m) => m < m
      BY <2>2 DEF FramesInOrder
    <2>4. ~(m < m)
      BY DEF Numbers
    <2> QED  BY <1>1, <2>2, <2>3, <2>4 DEF Present
  <1>3. ASSUME NEW r \in Streams, NEW m \in Numbers,
               Present(r, m), Head(inq) # FrameOf(r, m)
        PROVE  Present(r, m)'
    <2>1. PICK i \in DOMAIN inq : inq[i] = FrameOf(r, m)
      BY <1>3 DEF Present
    <2>2. i # 1
      BY <1>1, <1>3, <2>1
    <2>3. i - 1 \in DOMAIN inq' /\ inq'[i - 1] = FrameOf(r, m)
      BY <1>1, <2>1, <2>2
    <2> QED  BY <2>3 DEF Present
  <1> QED  BY <1>1, <1>2, <1>3

\* The steps, as far as streams can tell.
LEMMA StreamSteps ==
    ASSUME TypeOK, [Next]_vars
    PROVE  \/ \E s \in Streams, n \in Numbers : PeerSends(s, n, FrameOf(s, n))
           \/ \E c \in Calls : PeerAnswer(c)
           \/ \E s \in Streams : StreamRecv(s) \/ StreamFail(s)
           \/ AppRecv \/ recv_message \/ ConnectionLost
           \/ UNCHANGED <<up, inq, stream>>
  <1>1. ASSUME NEW s \in Streams, create_stream(s) \/ write(s) \/ finish(s)
        PROVE  \E n \in Numbers : PeerSends(s, n, FrameOf(s, n))
    BY <1>1, SentFrame
  <1>2. ASSUME NEW c \in Calls, CallId(c) \/ CallStep(c) PROVE UNCHANGED <<up, inq, stream>>
    BY <1>2 DEF CallId, CallStep, CallRegister, CallSend, CallReturn, CallExpire, CallCancel
  <1>3. ASSUME PublishBegin \/ PublishSend
                  \/ \E p \in Subscribers : Subscribe(p) \/ Unsubscribe(p)
        PROVE  UNCHANGED <<up, inq, stream>>
    BY <1>3 DEF PublishBegin, PublishSend, Subscribe, Unsubscribe
  <1> QED  BY <1>1, <1>2, <1>3 DEF Next, vars

\* An answer is no frame of a stream.
LEMMA AnswerPresent ==
    ASSUME TypeOK, NEW c \in Calls, PeerAnswer(c)
    PROVE  /\ \A s \in Streams, n \in Numbers : Present(s, n)' <=> Present(s, n)
           /\ \A s \in Streams, n \in Numbers, i \in DOMAIN inq' :
                 inq'[i] = FrameOf(s, n) => i \in DOMAIN inq /\ inq[i] = FrameOf(s, n)
           /\ UNCHANGED <<up, stream>>
  <1> DEFINE f == [kind |-> "response", id |-> idOf[c], of |-> c]
  <1>1. f \in Frames
    BY DEF Frames, TypeOK
  <1>2. /\ DOMAIN inq' = 1..(Len(inq) + 1) /\ DOMAIN inq = 1..Len(inq)
        /\ Len(inq) \in Nat
        /\ \A i \in 1..Len(inq) : inq'[i] = inq[i]
        /\ inq'[Len(inq) + 1] = f
    BY <1>1, Appended, LenProperties DEF PeerAnswer, TypeOK
  <1>3. ASSUME NEW s \in Streams, NEW n \in Numbers PROVE f # FrameOf(s, n)
    BY FramesDiffer
  <1>4. ASSUME NEW s \in Streams, NEW n \in Numbers, NEW i \in DOMAIN inq',
               inq'[i] = FrameOf(s, n)
        PROVE  i \in DOMAIN inq /\ inq[i] = FrameOf(s, n)
    <2> HIDE DEF f
    <2> QED  BY <1>2, <1>3, <1>4
  <1>5. \A i \in DOMAIN inq : i \in DOMAIN inq' /\ inq'[i] = inq[i]
    BY <1>2
  <1>6. UNCHANGED <<up, stream>>
    BY DEF PeerAnswer
  <1> QED  BY <1>4, <1>5, <1>6 DEF Present

\* Every step keeps the frames of each stream in order.
LEMMA FramesStep ==
    ASSUME TypeOK, FramesInOrder, [Next]_vars
    PROVE  FramesInOrder'
  <1>1. ASSUME NEW s \in Streams, NEW n \in Numbers, PeerSends(s, n, FrameOf(s, n))
        PROVE  FramesInOrder'
    <2>1. SUFFICES ASSUME NEW r \in Streams, NEW i \in DOMAIN inq', NEW k \in Numbers,
                          inq'[i] = FrameOf(r, k)
                   PROVE  /\ k < writer'[r]
                          /\ \A j \in DOMAIN inq', m \in Numbers :
                                inq'[j] = FrameOf(r, m) /\ i < j => k < m
                          /\ \A m \in Numbers : k < m /\ m < writer'[r] => Present(r, m)'
      BY DEF FramesInOrder
    <2>2. /\ writer[s] = n /\ writer'[s] = n + 1
          /\ \A t \in Streams : t # s => writer'[t] = writer[t]
      BY <1>1 DEF PeerSends, TypeOK
    <2>3. \A j \in DOMAIN inq', m \in Numbers : inq'[j] = FrameOf(r, m) =>
             (j \in DOMAIN inq /\ inq[j] = FrameOf(r, m)) \/ (j = Len(inq) + 1 /\ r = s /\ m = n)
      BY <1>1, SendPresent, FramesDiffer
    <2>4. /\ \A m \in Numbers : Present(r, m)' <=> Present(r, m) \/ (r = s /\ m = n)
          /\ DOMAIN inq = 1..Len(inq) /\ Len(inq) \in Nat /\ DOMAIN inq' = 1..(Len(inq) + 1)
      BY <1>1, SendPresent
    <2>5. n \in Int /\ k \in Int
      BY DEF Numbers
    <2>6. CASE i \in DOMAIN inq /\ inq[i] = FrameOf(r, k)
      <3>1. /\ k < writer[r]
            /\ \A j \in DOMAIN inq, m \in Numbers : inq[j] = FrameOf(r, m) /\ i < j => k < m
            /\ \A m \in Numbers : k < m /\ m < writer[r] => Present(r, m)
        BY <2>6 DEF FramesInOrder
      <3>2. k < writer'[r]
        BY <2>2, <2>5, <3>1
      <3>3. \A j \in DOMAIN inq', m \in Numbers : inq'[j] = FrameOf(r, m) /\ i < j => k < m
        BY <2>2, <2>3, <3>1
      <3>4. \A m \in Numbers : k < m /\ m < writer'[r] => Present(r, m)'
        BY <2>2, <2>4, <3>1 DEF Numbers
      <3> QED  BY <3>2, <3>3, <3>4
    <2>7. CASE i = Len(inq) + 1 /\ r = s /\ k = n
      BY <2>2, <2>4, <2>5, <2>7 DEF Numbers
    <2> QED  BY <2>1, <2>3, <2>6, <2>7
  <1>2. ASSUME NEW c \in Calls, PeerAnswer(c) PROVE FramesInOrder'
    <2>1. UNCHANGED writer
      BY <1>2, AnswerPresent DEF stream
    <2> QED  BY <1>2, <2>1, AnswerPresent DEF FramesInOrder
  <1>3. ASSUME recv_raw, UNCHANGED writer PROVE FramesInOrder'
    <2>1. SUFFICES ASSUME NEW r \in Streams, NEW i \in DOMAIN inq', NEW k \in Numbers,
                          inq'[i] = FrameOf(r, k)
                   PROVE  /\ k < writer[r]
                          /\ \A j \in DOMAIN inq', m \in Numbers :
                                inq'[j] = FrameOf(r, m) /\ i < j => k < m
                          /\ \A m \in Numbers : k < m /\ m < writer[r] => Present(r, m)'
      BY <1>3 DEF FramesInOrder
    <2>2. /\ DOMAIN inq = 1..Len(inq) /\ Len(inq) \in Nat
          /\ DOMAIN inq' = 1..(Len(inq) - 1) /\ Len(inq) >= 1
          /\ \A j \in DOMAIN inq' : inq'[j] = inq[j + 1]
          /\ Head(inq) = inq[1]
      BY <1>3, RecvPresent
    <2>3. /\ i + 1 \in DOMAIN inq /\ inq[i + 1] = FrameOf(r, k) /\ 1 \in DOMAIN inq
          /\ 1 < i + 1
      BY <2>1, <2>2
    <2>4. /\ k < writer[r]
          /\ \A j \in DOMAIN inq, m \in Numbers : inq[j] = FrameOf(r, m) /\ i + 1 < j => k < m
          /\ \A m \in Numbers : k < m /\ m < writer[r] => Present(r, m)
      BY <2>3 DEF FramesInOrder
    <2>5. \A j \in DOMAIN inq', m \in Numbers : inq'[j] = FrameOf(r, m) /\ i < j => k < m
      BY <2>2, <2>4
    <2>6. ASSUME NEW m \in Numbers, k < m, m < writer[r] PROVE Present(r, m)'
      <3>1. inq[1] = FrameOf(r, m) => m < k
        BY <2>3 DEF FramesInOrder
      <3>2. ~(m < k)
        BY <2>6 DEF Numbers
      <3> QED  BY <1>3, <2>2, <2>4, <2>6, <3>1, <3>2, RecvPresent
    <2> QED  BY <2>4, <2>5, <2>6
  <1>4. CASE ConnectionLost
    <2>1. UNCHANGED writer /\ (inq' = inq \/ inq' = <<>>)
      BY <1>4 DEF ConnectionLost, stream
    <2> QED  BY <2>1 DEF FramesInOrder, Present
  <1>5. CASE UNCHANGED <<inq, writer>>
    BY <1>5 DEF FramesInOrder, Present
  <1>6. ASSUME NEW s \in Streams, StreamRecv(s) PROVE recv_raw /\ UNCHANGED writer
    BY <1>6 DEF StreamRecv
  <1>7. ASSUME AppRecv \/ recv_message PROVE recv_raw /\ UNCHANGED writer
    BY <1>7 DEF AppRecv, recv_message
  <1>8. ASSUME NEW s \in Streams, StreamFail(s) PROVE UNCHANGED <<inq, writer>>
    BY <1>8 DEF StreamFail
  <1> QED  BY <1>1, <1>2, <1>3, <1>4, <1>5, <1>6, <1>7, <1>8, StreamSteps DEF stream

\* Every step keeps one start per reader.
LEMMA ReadersStep ==
    ASSUME TypeOK, FramesInOrder, ReadersFollow, [Next]_vars
    PROVE  ReadersFollow'
  <1> USE DEF ReadersFollow
  <1>0. 0 \in Numbers
    BY ApiAssumption DEF Numbers
  <1>1. ASSUME NEW s \in Streams, NEW n \in Numbers, PeerSends(s, n, FrameOf(s, n))
        PROVE  ReadersFollow'
    <2>1. /\ writer[s] = n /\ UNCHANGED <<reader, recvd>>
          /\ \A t \in Streams : writer'[t] = IF t = s THEN n + 1 ELSE writer[t]
      BY <1>1 DEF PeerSends, TypeOK
    <2>2. \A r \in Streams : Present(r, 0)' <=> Present(r, 0) \/ (r = s /\ 0 = n)
      BY <1>0, <1>1, SendPresent
    <2> QED  BY <2>1, <2>2 DEF Numbers
  <1>2. ASSUME NEW c \in Calls, PeerAnswer(c) PROVE ReadersFollow'
    <2>1. UNCHANGED <<writer, reader, recvd>>
      BY <1>2, AnswerPresent DEF stream
    <2> QED  BY <1>0, <1>2, <2>1, AnswerPresent
  <1>3. ASSUME NEW s \in Streams, StreamRecv(s) PROVE ReadersFollow'
    <2>1. /\ UNCHANGED writer /\ reader[s] = "open" /\ reader'[s] # "none"
          /\ \A t \in Streams : t # s => reader'[t] = reader[t] /\ recvd'[t] = recvd[t]
      BY <1>3 DEF StreamRecv, TypeOK
    <2>2. \A r \in Streams : Present(r, 0)' => Present(r, 0)
      BY <1>0, <1>3, RecvPresent DEF StreamRecv
    <2> QED  BY <2>1, <2>2
  <1>4. ASSUME NEW s \in Streams, StreamFail(s) PROVE ReadersFollow'
    BY <1>4 DEF StreamFail, TypeOK, Present
  <1>5. CASE AppRecv
    <2>1. /\ UNCHANGED <<writer, recvd>> /\ Head(inq) \in Frames
          /\ Head(inq) = inq[1] /\ 1 \in DOMAIN inq
          /\ \A r \in Streams :
                Present(r, 0)' <=> Present(r, 0) /\ Head(inq) # FrameOf(r, 0)
      BY <1>0, <1>5, RecvPresent DEF AppRecv
    <2>2. CASE Head(inq).kind # "start"
      BY <1>5, <2>1, <2>2 DEF AppRecv
    <2>3. CASE Head(inq).kind = "start"
      <3>1. Head(inq).s \in Streams /\ Head(inq) = FrameOf(Head(inq).s, 0)
        BY <2>1, <2>3, FrameKinds
      <3>2. 0 < writer[Head(inq).s]
        BY <1>0, <2>1, <3>1 DEF FramesInOrder
      <3>3. \A r \in Streams : reader'[r] = IF r = Head(inq).s THEN "open" ELSE reader[r]
        BY <1>5, <2>3, <3>1 DEF AppRecv, TypeOK
      <3> QED  BY <2>1, <3>1, <3>2, <3>3
    <2> QED  BY <2>2, <2>3
  <1>6. CASE recv_message
    <2>1. \A r \in Streams : Present(r, 0)' => Present(r, 0)
      BY <1>0, <1>6, RecvPresent DEF recv_message
    <2> QED  BY <1>6, <2>1 DEF recv_message
  <1>7. CASE ConnectionLost
    <2>1. UNCHANGED <<writer, reader, recvd>> /\ (inq' = inq \/ inq' = <<>>)
      BY <1>7 DEF ConnectionLost, stream
    <2> QED  BY <2>1 DEF Present
  <1>8. CASE UNCHANGED <<up, inq, stream>>
    BY <1>8 DEF stream, Present
  <1> QED  BY <1>1, <1>2, <1>3, <1>4, <1>5, <1>6, <1>7, <1>8, StreamSteps

\* The one consumer finds the frame that it expects at the head of the queue,
\* if there is one of its stream.
LEMMA HeadIsExpected ==
    ASSUME TypeOK, FramesInOrder, ReadersFollow, NothingMissed, inq # <<>>,
           NEW s \in Streams, s \notin shared, reader[s] = "open",
           NEW n \in Numbers, Head(inq) = FrameOf(s, n)
    PROVE  n = Len(recvd[s]) + 1 /\ n < writer[s]
  <1>1. 1 \in DOMAIN inq /\ inq[1] = FrameOf(s, n) /\ Present(s, n)
    BY Shifted DEF TypeOK, Present
  <1>2. n < writer[s] /\ writer[s] \in Int /\ n \in Int /\ writer[s] <= Chunks + 2
           /\ Chunks \in Nat
    BY <1>1, ApiAssumption DEF FramesInOrder, TypeOK, Numbers
  <1>3. \A m \in Numbers : m < writer[s] => (Present(s, m) <=> m > Len(recvd[s]))
    BY <1>1 DEF NothingMissed
  <1>4. Len(recvd[s]) \in Nat
    BY LenProperties DEF TypeOK
  <1>5. n > Len(recvd[s])
    BY <1>1, <1>2, <1>3
  <1>6. ~(n > Len(recvd[s]) + 1)
    <2>1. SUFFICES ASSUME n > Len(recvd[s]) + 1 PROVE FALSE
      OBVIOUS
    <2> DEFINE m == Len(recvd[s]) + 1
    <2>2. m \in Numbers /\ m < writer[s] /\ m > Len(recvd[s]) /\ m < n
      BY <1>2, <1>4, <2>1 DEF Numbers
    <2> HIDE DEF m
    <2>3. PICK j \in DOMAIN inq : inq[j] = FrameOf(s, m)
      BY <1>3, <2>2 DEF Present
    <2>4. j # 1
      BY <1>1, <1>2, <2>2, <2>3, FramesDiffer
    <2>5. 1 < j
      BY <2>4, LenProperties DEF TypeOK
    <2>6. n < m
      BY <1>1, <2>2, <2>3, <2>5 DEF FramesInOrder
    <2> QED  BY <1>2, <2>2, <2>6 DEF Numbers
  <1> QED  BY <1>2, <1>4, <1>5, <1>6

\* Every step keeps what the one consumer has and still gets.
LEMMA MissedStep ==
    ASSUME TypeOK, FramesInOrder, ReadersFollow, NothingMissed, [Next]_vars
    PROVE  NothingMissed'
  <1> DEFINE Missed(s) ==
        /\ \A i \in DOMAIN recvd[s] : recvd[s][i] = i
        /\ reader[s] = "ended" => Len(recvd[s]) = Written[s]
        /\ reader[s] = "open" => Len(recvd[s]) < writer[s]
        /\ reader[s] = "open" /\ (up \/ \E n \in Numbers : Present(s, n)) =>
              \A n \in Numbers : n < writer[s] => (Present(s, n) <=> n > Len(recvd[s]))
  <1>0. /\ \A s \in Streams : s \notin shared => Missed(s)
        /\ (\A s \in Streams : s \notin shared' => Missed(s)') => NothingMissed'
    BY DEF NothingMissed
  <1>1. ASSUME NEW s \in Streams, s \notin shared, UNCHANGED <<recvd[s], writer[s]>>,
               reader'[s] = reader[s], up' => up,
               \A n \in Numbers : Present(s, n)' <=> Present(s, n)
        PROVE  Missed(s)'
    BY <1>0, <1>1
  <1>2. ASSUME NEW s \in Streams, s \notin shared, UNCHANGED recvd[s],
               reader'[s] # "open", reader'[s] = "ended" => reader[s] = "ended"
        PROVE  Missed(s)'
    BY <1>0, <1>2
  <1> SUFFICES ASSUME NEW s \in Streams, s \notin shared' PROVE Missed(s)'
    BY <1>0
  <1> HIDE DEF Missed
  <1>3. ASSUME NEW r \in Streams, NEW n \in Numbers, PeerSends(r, n, FrameOf(r, n))
        PROVE  Missed(s)'
    <2>1. /\ writer[r] = n /\ UNCHANGED <<reader, recvd, shared, up>> /\ up = TRUE
          /\ \A t \in Streams : writer'[t] = IF t = r THEN n + 1 ELSE writer[t]
      BY <1>3 DEF PeerSends, TypeOK
    <2>2. \A m \in Numbers : Present(s, m)' <=> Present(s, m) \/ (s = r /\ m = n)
      BY <1>3, SendPresent
    <2>3. CASE s # r
      BY <1>1, <2>1, <2>2, <2>3
    <2>4. CASE s = r
      <3>1. Missed(s) /\ n \in Int /\ Len(recvd[s]) \in Nat
        BY <1>0, <2>1, LenProperties DEF Numbers, TypeOK
      <3> QED  BY <2>1, <2>2, <2>4, <3>1 DEF Missed, Numbers
    <2> QED  BY <2>3, <2>4
  <1>4. ASSUME NEW c \in Calls, PeerAnswer(c) PROVE Missed(s)'
    BY <1>1, <1>4, AnswerPresent DEF stream
  <1>5. ASSUME NEW r \in Streams, StreamRecv(r) PROVE Missed(s)'
    <2>1. /\ recv_raw /\ UNCHANGED <<up, writer>> /\ s \notin shared
          /\ reader[r] = "open" /\ (s # r => reader[s] # "open")
          /\ inq # <<>>
      BY <1>5 DEF StreamRecv, Open, recv_raw
    <2>2. /\ Head(inq) \in Frames
          /\ \A m \in Numbers :
                Present(s, m)' <=> Present(s, m) /\ Head(inq) # FrameOf(s, m)
      BY <2>1, RecvPresent
    <2>3. CASE s # r
      BY <1>2, <1>5, <2>1, <2>3 DEF StreamRecv, TypeOK
    <2>4. CASE s = r /\ \A n \in Numbers : Head(inq) # FrameOf(s, n)
      <3>1. 1..Chunks \subseteq Numbers /\ Written[s] + 1 \in Numbers
        BY ApiAssumption DEF Numbers, Streams
      <3>2. ~(Head(inq).kind = "chunk" /\ Head(inq).s = s) /\ ~IsEndOf(Head(inq), s)
        BY <2>2, <2>4, <3>1, FrameKinds DEF IsEndOf
      <3>3. UNCHANGED <<recvd, reader>>
        BY <1>5, <2>4, <3>2 DEF StreamRecv
      <3> QED  BY <1>1, <2>1, <2>2, <2>4, <3>3
    <2>5. ASSUME s = r, NEW n \in Numbers, Head(inq) = FrameOf(s, n) PROVE Missed(s)'
      <3>1. n = Len(recvd[s]) + 1 /\ n < writer[s]
        BY <2>1, <2>5, HeadIsExpected
      <3>2. /\ Head(inq).kind # "response" /\ Head(inq).s = s
            /\ Head(inq).kind = "start" <=> n = 0
            /\ Head(inq).kind = "end" <=> n = Written[s] + 1
            /\ Head(inq).kind = "chunk" => Head(inq).i = n
            /\ \A m \in Numbers : Head(inq) = FrameOf(s, m) => m = n
        BY <2>5, FramesDiffer
      <3>3. /\ recvd[s] \in Seq(1..Chunks) /\ Len(recvd[s]) \in Nat
            /\ DOMAIN recvd[s] = 1..Len(recvd[s])
            /\ writer[s] \in Int /\ n \in Int
        BY LenProperties DEF TypeOK, Numbers
      <3>4. Missed(s) /\ Present(s, n)
        BY <1>0, <2>1, <2>5, Shifted DEF Present, TypeOK
      <3>5. CASE n = Written[s] + 1
        <4>1. recvd'[s] = recvd[s] /\ reader'[s] = "ended"
          BY <1>5, <2>5, <3>2, <3>5 DEF StreamRecv, IsEndOf, TypeOK
        <4>2. Len(recvd[s]) = Written[s]
          BY <3>1, <3>3, <3>5, ApiAssumption DEF Streams
        <4> QED  BY <3>4, <4>1, <4>2 DEF Missed
      <3>6. CASE n # Written[s] + 1
        <4>1. Head(inq).kind = "chunk" /\ n \in 1..Chunks
          BY <2>2, <3>1, <3>2, <3>3, <3>6, FrameKinds DEF Numbers
        <4>2. recvd'[s] = Append(recvd[s], n) /\ reader'[s] = "open"
          BY <1>5, <2>1, <2>5, <3>2, <4>1 DEF StreamRecv, IsEndOf, TypeOK
        <4>3. /\ Len(recvd'[s]) = n
              /\ \A i \in DOMAIN recvd'[s] : recvd'[s][i] = i
          BY <3>1, <3>3, <3>4, <4>1, <4>2, Appended DEF Missed
        <4>4. \A m \in Numbers : m < writer[s] => (Present(s, m) <=> m > n - 1)
          BY <3>1, <3>3, <3>4, <2>1, <2>5 DEF Missed
        <4>5. \A m \in Numbers : m < writer[s] => (Present(s, m)' <=> m > n)
          BY <2>2, <2>5, <3>2, <3>3, <4>4 DEF Numbers
        <4> QED  BY <2>1, <3>1, <4>2, <4>3, <4>5 DEF Missed
      <3> QED  BY <3>5, <3>6
    <2> QED  BY <2>3, <2>4, <2>5
  <1>6. ASSUME NEW r \in Streams, StreamFail(r) PROVE Missed(s)'
    <2>1. CASE r = s
      BY <1>2, <1>6, <2>1 DEF StreamFail, TypeOK
    <2>2. CASE r # s
      BY <1>1, <1>6, <2>2 DEF StreamFail, TypeOK, Present
    <2> QED  BY <2>1, <2>2
  <1>7. CASE AppRecv \/ recv_message
    <2>1. /\ recv_raw /\ UNCHANGED <<up, writer, recvd>> /\ s \notin shared
          /\ reader[s] # "open" /\ inq # <<>>
      BY <1>7 DEF AppRecv, recv_message, Open, recv_raw
    <2>2. CASE reader'[s] = reader[s]
      BY <1>2, <2>1, <2>2
    <2>3. CASE reader'[s] # reader[s]
      <3>1. Head(inq) \in Frames /\ Head(inq) = inq[1] /\ 1 \in DOMAIN inq
        BY <2>1, RecvPresent
      <3>2. AppRecv /\ Head(inq).kind = "start"
        BY <1>7, <2>3 DEF AppRecv, recv_message
      <3>3. Head(inq).s = s /\ reader'[s] = "open"
        BY <2>3, <3>1, <3>2, FrameKinds DEF AppRecv, TypeOK
      <3>4. Head(inq) = FrameOf(s, 0) /\ 0 \in Numbers
        BY <3>1, <3>2, <3>3, FrameKinds, ApiAssumption DEF Numbers
      <3>5. /\ 0 < writer[s]
            /\ \A m \in Numbers : 0 < m /\ m < writer[s] => Present(s, m)
        BY <3>1, <3>4 DEF FramesInOrder
      <3>6. recvd[s] = <<>> /\ Len(recvd[s]) = 0
        <4>1. Present(s, 0)
          BY <3>1, <3>4 DEF Present
        <4> QED  BY <4>1 DEF ReadersFollow
      <3>7. \A m \in Numbers : m < writer[s] => (Present(s, m)' <=> m > 0)
        <4>1. \A m \in Numbers : Head(inq) = FrameOf(s, m) <=> m = 0
          BY <3>4, FramesDiffer
        <4> QED  BY <2>1, <3>5, <4>1, RecvPresent DEF Numbers
      <3> QED  BY <2>1, <3>3, <3>5, <3>6, <3>7 DEF Missed
    <2> QED  BY <2>2, <2>3
  <1>8. CASE ConnectionLost
    <2>1. UNCHANGED <<writer, reader, recvd, shared>> /\ up' = FALSE
      BY <1>8 DEF ConnectionLost, stream
    <2>2. CASE inq' = inq
      BY <1>1, <2>1, <2>2 DEF Present
    <2>3. CASE inq' = <<>>
      <3>1. \A n \in Numbers : ~Present(s, n)'
        BY <2>3 DEF Present
      <3> QED  BY <1>0, <2>1, <3>1 DEF Missed
    <2> QED  BY <1>8, <2>2, <2>3 DEF ConnectionLost
  <1>9. CASE UNCHANGED <<up, inq, stream>>
    BY <1>1, <1>9 DEF stream, Present
  <1> QED  BY <1>3, <1>4, <1>5, <1>6, <1>7, <1>8, <1>9, StreamSteps

-----------------------------------------------------------------------------
(* The theorems.                                                           *)

\* The invariant is inductive,
LEMMA IInvStep == IInv /\ [Next]_vars => IInv'
  BY TypeStep, ListsStep, IdsStep, AnswersStep, WaitersStep, FramesStep, ReadersStep,
     MissedStep DEF IInv

\* ... so that it always holds.
LEMMA IInvAlways == Spec => []IInv
  BY InitIInv, IInvStep, PTL DEF Spec

\* Every state the calls, streams and publications reach is well typed.
THEOREM ApiTypes == Spec => []TypeOK
  BY IInvAlways, PTL DEF IInv

\* rpc_request: a call is answered by the peer's answer to it, late answers
\* and reused ids notwithstanding, until IdSpace further calls have begun.
THEOREM AnswersAreTheirOwn == Spec => []AnswersItsOwn
  <1>1. IInv => AnswersItsOwn
    <2> SUFFICES ASSUME IInv, NEW c \in Calls, got[c] # None
                 PROVE  got[c] = c \/ got[c] + IdSpace <= c \/ c + IdSpace <= got[c]
      BY DEF AnswersItsOwn
    <2> DEFINE d == got[c]
    <2>1. d \in Calls /\ Started(c) /\ Started(d) /\ idOf[d] = idOf[c]
      BY DEF IInv, TypeOK, AnswersBearIds, None
    <2>2. idOf[c] \in Ids /\ c \in Int /\ d \in Int /\ IdSpace \in Nat \ {0}
      BY <2>1, ApiAssumption DEF IInv, TypeOK, Calls
    <2>3. ~(c < d /\ d < c + IdSpace)
      <3>1. c < d /\ d < c + IdSpace => Apart(idOf[c], idOf[d], d - c)
        BY <2>1 DEF IInv, IdsInOrder
      <3> QED  BY <2>1, <2>2, <3>1 DEF Apart, Ids
    <2>4. ~(d < c /\ c < d + IdSpace)
      <3>1. d < c /\ c < d + IdSpace => Apart(idOf[d], idOf[c], c - d)
        BY <2>1 DEF IInv, IdsInOrder
      <3> QED  BY <2>1, <2>2, <3>1 DEF Apart, Ids
    <2> HIDE DEF d
    <2>5. d = c \/ d + IdSpace <= c \/ c + IdSpace <= d
      BY <2>2, <2>3, <2>4
    <2> QED  BY <2>5 DEF d
  <1> QED  BY <1>1, IInvAlways, PTL

\* PendingRequests: no entry outlives its call, except one whose request could
\* not be sent, and no call that can still be answered lacks its entry.
THEOREM WaitersAreExact == Spec => []WaitersExact
  <1>1. IInv => WaitersExact
    BY DEF IInv, WaitersHold
  <1> QED  BY <1>1, IInvAlways, PTL

\* StreamReader: whoever alone reads the connection and comes to the end of
\* its stream has every chunk that was written, in order, whatever other
\* frames came between and whenever the writer was finished.
THEOREM StreamsAreWhole == Spec => []StreamWhole
  <1>1. IInv => StreamWhole
    <2> SUFFICES ASSUME IInv, NEW s \in Streams, reader[s] = "ended", s \notin shared
                 PROVE  recvd[s] = [i \in 1..Written[s] |-> i]
      BY DEF StreamWhole
    <2>1. /\ \A i \in DOMAIN recvd[s] : recvd[s][i] = i
          /\ Len(recvd[s]) = Written[s]
      BY DEF IInv, NothingMissed
    <2>2. recvd[s] \in [1..Written[s] -> 1..Chunks]
      BY <2>1, LenProperties DEF IInv, TypeOK
    <2> QED  BY <2>1, <2>2
  <1> QED  BY <1>1, IInvAlways, PTL

\* publish: Ok means that everyone on the list was sent to, and once.
THEOREM PublishesOnceToAll == Spec => []PublishedOnceToAll
  <1>1. IInv => PublishedOnceToAll
    BY DEF IInv, ListsOnce
  <1> QED  BY <1>1, IInvAlways, PTL
=============================================================================
