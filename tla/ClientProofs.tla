---------------------------- MODULE ClientProofs ----------------------------
(***************************************************************************)
(* Programs that use mlink: the TypeScript client, whose rooms agree with  *)
(* the daemon's and which waits for no answer that cannot come; and the    *)
(* CLI host, which has one reader per peer and never refuses a dial        *)
(* without a reason.  For any number of rooms, sockets, requests and drops,*)
(* and any peers, connections and losses.                                  *)
(***************************************************************************)
EXTENDS ClientSession, CliState, FiniteSetTheorems, SequenceTheorems, TLAPS

-----------------------------------------------------------------------------
(* The inductive invariant.                                                *)

\* this.ws has its handlers.
WsIsWired == ws # None => ws \in wired

\* A socket that has not opened has no session, its promise is pending once
\* it connects, and one that was not opened has no handlers.
NewSockets ==
    \A s \in Sockets :
        /\ sock[s] \in {"new", "connecting"} => sess[s] = "none"
        /\ sock[s] = "connecting" => promise[s] = "pending"
        /\ sock[s] = "new" => s \notin wired

\* Request ids are never used twice: what is under way names ids that were
\* given, and a request in flight is the one that waits under its id.  (P, n,
\* U and D are the requests that wait, the next id and what is under way.)
IdsOf(P, n, U, D) ==
    /\ \A q \in P : q.id < n
    /\ \A s \in Sockets : \A k \in DOMAIN U[s] : U[s][k].kind # "hello" =>
          /\ U[s][k].id < n
          /\ \A q \in P : q.id = U[s][k].id => q.kind = U[s][k].kind /\ q.room = U[s][k].room
    /\ \A s \in Sockets : \A k \in DOMAIN D[s] :
          D[s][k].kind \in {"ack", "error"} => D[s][k].id < n

\* The state frames about room r, and a join of r under way to the daemon.
About(r) == {State(r, TRUE), State(r, FALSE)}
JoinIn(U, r) == \E k \in DOMAIN U : U[k].kind = "join" /\ U[k].room = r

\* The ack of a join or leave that waits comes with the state of its room.
AcksOf(P, D) ==
    \A s \in Sockets : \A k \in DOMAIN D[s] : \A q \in P :
        D[s][k].kind = "ack" /\ q.id = D[s][k].id /\ q.kind # "send" =>
            \E j \in DOMAIN D[s] : j > k /\ D[s][j] \in About(q.room)

\* About room r the last state under way (in D) is the daemon's own; and when
\* it has arrived, the client shows the room if it is subscribed, and a room
\* that the client shows is subscribed or about to be, once its socket was
\* ready (p).
AgreesOn(r, D, U, S, J, p) ==
    /\ \A i \in DOMAIN D : D[i] = State(r, r \notin S) =>
          \E j \in DOMAIN D : j > i /\ D[j] = State(r, r \in S)
    /\ (\A i \in DOMAIN D : D[i] # State(r, r \in S)) =>
          /\ r \in S => r \in J
          /\ r \in J /\ p = "resolved" => r \in S \/ JoinIn(U, r)

\* The client has one socket, and the daemon a session for it.
Solo == ws # None /\ wired = {ws} /\ sess[ws] = "live"

IdsUnique    == IdsOf(pending, nextId, up, down)
AckThenState == AcksOf(pending, down)
RoomsFollow  ==
    Solo => \A r \in Rooms : AgreesOn(r, down[ws], up[ws], subs[ws], joined, promise[ws])

\* SInv is inductive and gives NoOrphanRequest; KInv is and gives RoomsAgree.
SInv == TypeOK /\ WsIsWired /\ NewSockets /\ NoOrphanRequest
KInv == SInv /\ IdsUnique /\ AckThenState /\ RoomsFollow

-----------------------------------------------------------------------------
(* Sequences made from sets.                                               *)

\* SetToSeq lists a finite set.
LEMMA SetToSeqLists ==
    ASSUME NEW S, IsFiniteSet(S)
    PROVE  SetToSeq(S) \in Seq(S) /\ \A x \in S : \E i \in DOMAIN SetToSeq(S) : SetToSeq(S)[i] = x
  <1> DEFINE n == Cardinality(S)
             f == SetToSeq(S)
  <1>1. n \in Nat /\ ExistsBijection(1..n, S)
    BY FS_CardinalityType
  <1>2. \E g \in [1..n -> S] : IsInjective(g)
    BY <1>1 DEF ExistsBijection, Bijection, Injection
  <1>3. f \in [1..n -> S] /\ IsInjective(f)
    BY <1>2 DEF SetToSeq
  <1>4. IsFiniteSet(1..n) /\ Cardinality(1..n) = Cardinality(S)
    BY <1>1, FS_Interval
  <1>5. f \in Injection(1..n, S)
    BY <1>3 DEF Injection
  <1>6. f \in Surjection(1..n, S)
    BY <1>4, <1>5, FS_Injection
  <1>7. QED
    BY <1>1, <1>3, <1>6 DEF Surjection

-----------------------------------------------------------------------------
(* Requests.                                                               *)

\* What a call asks for, and the requests it becomes.
Wanted == [kind : Kinds, room : Rooms]
UpSet  == Requests \cup [kind : {"hello"}]
Asked(qs) == [i \in 1..Len(qs) |-> [id |-> nextId + i - 1, kind |-> qs[i].kind,
                                    room |-> qs[i].room]]

\* The frames of a request carry the next ids.
LEMMA AskedFrames ==
    ASSUME NEW qs \in Seq(Wanted), nextId \in Nat
    PROVE  /\ Asked(qs) \in Seq(Requests) /\ Len(Asked(qs)) = Len(qs)
           /\ DOMAIN Asked(qs) = 1..Len(qs)
           /\ \A i \in 1..Len(qs) :
                 /\ Asked(qs)[i] \in Requests
                 /\ Asked(qs)[i].id = nextId + i - 1
                 /\ Asked(qs)[i].kind = qs[i].kind /\ Asked(qs)[i].room = qs[i].room
  <1>1. \A i \in 1..Len(qs) : qs[i] \in Wanted
    OBVIOUS
  <1>2. \A i \in 1..Len(qs) : [id |-> nextId + i - 1, kind |-> qs[i].kind, room |-> qs[i].room]
                              \in Requests
    BY <1>1 DEF Wanted, Requests
  <1>3. Asked(qs) \in [1..Len(qs) -> Requests] /\ Len(qs) \in Nat
    BY <1>2 DEF Asked
  <1>4. Asked(qs) \in Seq(Requests) /\ Len(Asked(qs)) = Len(qs)
    BY <1>3
  <1>5. QED
    BY <1>3, <1>4 DEF Asked

\* Two sequences one after the other.
LEMMA Joined ==
    ASSUME NEW S, NEW s \in Seq(S), NEW t \in Seq(S)
    PROVE  /\ s \o t \in Seq(S)
           /\ \A k \in DOMAIN s : k \in DOMAIN (s \o t) /\ (s \o t)[k] = s[k]
           /\ \A k \in DOMAIN t : /\ k + Len(s) \in DOMAIN (s \o t)
                                  /\ (s \o t)[k + Len(s)] = t[k]
           /\ \A k \in DOMAIN (s \o t) :
                 \/ k \in DOMAIN s
                 \/ \E i \in DOMAIN t : k = i + Len(s) /\ (s \o t)[k] = t[i]
           /\ Len(s) \in Nat /\ \A k \in DOMAIN s : k \in Int /\ 1 <= k /\ k <= Len(s)
           /\ \A k \in DOMAIN t : k \in Int /\ 1 <= k
  <1> PICK u : u = s \o t
    OBVIOUS
  <1>1. u \in Seq(S) /\ Len(u) = Len(s) + Len(t) /\ Len(s) \in Nat /\ Len(t) \in Nat
    OBVIOUS
  <1>2. DOMAIN u = 1..Len(u) /\ DOMAIN s = 1..Len(s) /\ DOMAIN t = 1..Len(t)
    BY <1>1
  <1>3. \A k \in 1..Len(u) : u[k] = IF k <= Len(s) THEN s[k] ELSE t[k - Len(s)]
    BY <1>1
  <1>4. \A k \in 1..Len(t) : k + Len(s) \in 1..Len(u) /\ u[k + Len(s)] = t[k]
    BY <1>1, <1>3
  <1>5. \A k \in 1..Len(u) : k \in 1..Len(s) \/ (k - Len(s) \in 1..Len(t) /\ u[k] = t[k - Len(s)]
                                                /\ k = (k - Len(s)) + Len(s))
    BY <1>1, <1>3
  <1>6. \A k \in DOMAIN u :
           k \in DOMAIN s \/ \E i \in DOMAIN t : k = i + Len(s) /\ u[k] = t[i]
    BY <1>1, <1>2, <1>5
  <1>7. /\ \A k \in DOMAIN s : k \in DOMAIN u /\ u[k] = s[k]
        /\ \A k \in DOMAIN s : k \in Int /\ 1 <= k /\ k <= Len(s)
        /\ \A k \in DOMAIN t : k \in Int /\ 1 <= k
    BY <1>1, <1>2, <1>3
  <1>8. QED
    BY <1>1, <1>2, <1>4, <1>6, <1>7

\* A reply of two frames.
LEMMA TwoFrames ==
    ASSUME NEW S, NEW a \in S, NEW b \in S
    PROVE  /\ <<a, b>> \in Seq(S) /\ Len(<<a, b>>) = 2
           /\ DOMAIN <<a, b>> = {1, 2} /\ <<a, b>>[1] = a /\ <<a, b>>[2] = b
  OBVIOUS

\* All but the first.
LEMMA Taken ==
    ASSUME NEW S, NEW s \in Seq(S), s # <<>>
    PROVE  /\ Tail(s) \in Seq(S) /\ Head(s) = s[1] /\ Head(s) \in S
           /\ \A i \in DOMAIN s : i = 1 \/ (i - 1 \in DOMAIN Tail(s) /\ Tail(s)[i - 1] = s[i])
           /\ \A i \in DOMAIN Tail(s) : i + 1 \in DOMAIN s /\ Tail(s)[i] = s[i + 1]
           /\ DOMAIN s \subseteq Int /\ DOMAIN Tail(s) \subseteq Int /\ 1 \in DOMAIN s
           /\ \A i \in DOMAIN s : i >= 1
           /\ \A i \in DOMAIN Tail(s) : i >= 1
  <1> DEFINE t == Tail(s)
  <1>1. t \in Seq(S) /\ Len(t) = Len(s) - 1 /\ Len(s) \in Nat \ {0}
    OBVIOUS
  <1>2. \A i \in 1..Len(t) : t[i] = s[i + 1]
    OBVIOUS
  <1>3. DOMAIN t = 1..Len(t) /\ DOMAIN s = 1..Len(s)
    OBVIOUS
  <1>4. Head(s) = s[1] /\ Head(s) \in S
    OBVIOUS
  <1> HIDE DEF t
  <1>5. QED
    BY <1>1, <1>2, <1>3, <1>4 DEF t

\* What request() does when connected.
LEMMA RequestStep ==
    ASSUME NEW qs \in Seq(Wanted), Request(qs), TypeOK, isConnected
    PROVE  /\ nextId' = nextId + Len(qs) /\ Len(qs) \in Nat
           /\ pending' = pending \cup {[id |-> a.id, kind |-> a.kind, room |-> a.room,
                                        on |-> ws] : a \in Range(Asked(qs))}
           /\ \A q \in pending' : q \in pending \/ \E i \in 1..Len(qs) :
                 q = [id |-> nextId + i - 1, kind |-> qs[i].kind, room |-> qs[i].room, on |-> ws]
           /\ sess[ws] # "live" => up' = up
           /\ sess[ws] = "live" => up' = [up EXCEPT ![ws] = up[ws] \o Asked(qs)]
           /\ up' \in [Sockets -> Seq(UpSet)]
           /\ \A s \in Sockets : sess[s] # "live" => up'[s] = up[s]
           /\ \A q \in pending' : q \in [id : Nat, kind : Kinds, room : Rooms, on : Sockets]
  <1>0. nextId \in Nat /\ ws \in Sockets /\ Len(qs) \in Nat
    BY DEF TypeOK, isConnected
  <1> PICK a : a = Asked(qs)
    OBVIOUS
  <1>1. /\ a \in Seq(Requests) /\ DOMAIN a = 1..Len(qs)
        /\ \A i \in 1..Len(qs) : /\ a[i] \in Requests /\ a[i].id = nextId + i - 1
                                 /\ a[i].kind = qs[i].kind /\ a[i].room = qs[i].room
    BY <1>0, AskedFrames
  <1>2. /\ pending' = pending \cup {[id |-> x.id, kind |-> x.kind, room |-> x.room,
                                      on |-> ws] : x \in Range(a)}
        /\ nextId' = nextId + Len(qs)
        /\ up' = Sent(a)
    BY DEF Request, Asked
  <1>3. /\ sess[ws] # "live" => up' = up
        /\ sess[ws] = "live" => up' = [up EXCEPT ![ws] = up[ws] \o a]
    BY <1>2 DEF Sent
  <1>4. up' \in [Sockets -> Seq(UpSet)]
    <2>1. up[ws] \in Seq(UpSet) /\ a \in Seq(UpSet) /\ up \in [Sockets -> Seq(UpSet)]
      BY <1>0, <1>1 DEF TypeOK, UpSet
    <2>2. up[ws] \o a \in Seq(UpSet)
      BY <2>1, Joined
    <2>3. QED
      BY <1>3, <2>1, <2>2
  <1>5. \A q \in pending' : q \in pending \/ \E i \in 1..Len(qs) :
           q = [id |-> nextId + i - 1, kind |-> qs[i].kind, room |-> qs[i].room, on |-> ws]
    <2>1. SUFFICES ASSUME NEW q \in pending', q \notin pending
                   PROVE  \E i \in 1..Len(qs) :
           q = [id |-> nextId + i - 1, kind |-> qs[i].kind, room |-> qs[i].room, on |-> ws]
      OBVIOUS
    <2>2. PICK x \in Range(a) : q = [id |-> x.id, kind |-> x.kind, room |-> x.room, on |-> ws]
      BY <1>2, <2>1
    <2>3. PICK i \in 1..Len(qs) : x = a[i]
      BY <2>2, <1>1 DEF Range
    <2>4. QED
      BY <2>2, <2>3, <1>1
  <1>6. \A q \in pending' : q \in [id : Nat, kind : Kinds, room : Rooms, on : Sockets]
    <2>1. SUFFICES ASSUME NEW q \in pending', q \notin pending
                   PROVE  q \in [id : Nat, kind : Kinds, room : Rooms, on : Sockets]
      BY DEF TypeOK
    <2>2. PICK i \in 1..Len(qs) :
           q = [id |-> nextId + i - 1, kind |-> qs[i].kind, room |-> qs[i].room, on |-> ws]
      BY <1>5, <2>1
    <2>3. qs[i] \in Wanted
      BY <2>2
    <2>4. QED
      BY <2>2, <2>3, <1>0 DEF Wanted
  <1>7. \A s \in Sockets : sess[s] # "live" => up'[s] = up[s]
    BY <1>3, <1>0 DEF TypeOK
  <1>8. QED
    BY <1>0, <1>2, <1>3, <1>4, <1>5, <1>6, <1>7

\* What a client that is ready again joins: every room it shows.
LEMMA RejoinRooms ==
    ASSUME joined \subseteq Rooms
    PROVE  /\ Rejoin \in Seq(Wanted)
           /\ \A r \in joined : \E i \in 1..Len(Rejoin) : Rejoin[i] = [kind |-> "join", room |-> r]
           /\ \A i \in 1..Len(Rejoin) : Rejoin[i].kind = "join"
  <1> DEFINE S == {[kind |-> "join", room |-> r] : r \in joined}
             f == [r \in joined |-> [kind |-> "join", room |-> r]]
  <1>1. IsFiniteSet(joined)
    BY ClientAssumption, FS_Subset
  <1>2. f \in Surjection(joined, S)
    BY DEF Surjection
  <1>3. IsFiniteSet(S)
    BY <1>1, <1>2, FS_Surjection
  <1>4. /\ Rejoin \in Seq(S)
        /\ \A x \in S : \E i \in DOMAIN Rejoin : Rejoin[i] = x
    BY <1>3, SetToSeqLists DEF Rejoin
  <1>5. S \subseteq Wanted /\ \A x \in S : x.kind = "join"
    BY DEF Wanted, Kinds
  <1>6. Rejoin \in Seq(Wanted) /\ DOMAIN Rejoin = 1..Len(Rejoin)
        /\ \A i \in 1..Len(Rejoin) : Rejoin[i] \in S
    BY <1>4, <1>5
  <1>7. \A r \in joined : [kind |-> "join", room |-> r] \in S
    OBVIOUS
  <1> HIDE DEF S
  <1>8. QED
    BY <1>4, <1>5, <1>6, <1>7

\* The frames that the daemon sends, told apart.
LEMMA ReplyFrames ==
    /\ [kind |-> "ready"] \in Replies
    /\ \A r \in Rooms, b \in BOOLEAN : State(r, b) \in Replies
    /\ \A r, b : State(r, b).kind = "state" /\ State(r, b).room = r /\ State(r, b).in = b
    /\ \A q : q.id \in Nat => Ack(q) \in Replies /\ Error(q) \in Replies
    /\ \A q : /\ Ack(q).kind = "ack" /\ Ack(q).id = q.id
              /\ Error(q).kind = "error" /\ Error(q).id = q.id
    /\ \A f \in Replies : f.kind = "state" =>
          f.room \in Rooms /\ f.in \in BOOLEAN /\ f = State(f.room, f.in)
    /\ \A f \in Replies : f.kind \in {"ack", "error"} => f.id \in Nat
    /\ \A f \in Replies : f.kind \in {"ready", "ack", "error", "state"}
  <1>1. [kind |-> "ready"] \in Replies
    BY DEF Replies
  <1>2. ASSUME NEW r \in Rooms, NEW b \in BOOLEAN PROVE State(r, b) \in Replies
    <2>1. State(r, b) \in [kind : {"state"}, room : Rooms, in : BOOLEAN]
      BY DEF State
    <2>2. QED
      BY <2>1 DEF Replies
  <1>3. \A r, b : State(r, b).kind = "state" /\ State(r, b).room = r /\ State(r, b).in = b
    BY DEF State
  <1>4. ASSUME NEW q, q.id \in Nat PROVE Ack(q) \in Replies /\ Error(q) \in Replies
    BY <1>4 DEF Ack, Error, Replies
  <1>5. \A q : /\ Ack(q).kind = "ack" /\ Ack(q).id = q.id
              /\ Error(q).kind = "error" /\ Error(q).id = q.id
    BY DEF Ack, Error
  <1>6. ASSUME NEW f \in Replies, f.kind = "state"
        PROVE  f.room \in Rooms /\ f.in \in BOOLEAN /\ f = State(f.room, f.in)
    <2>1. f \in [kind : {"state"}, room : Rooms, in : BOOLEAN]
      BY <1>6 DEF Replies
    <2>2. QED
      BY <2>1 DEF State
  <1>7. ASSUME NEW f \in Replies, f.kind \in {"ack", "error"} PROVE f.id \in Nat
    BY <1>7 DEF Replies
  <1>8. \A f \in Replies : f.kind \in {"ready", "ack", "error", "state"}
    BY DEF Replies
  <1>9. QED
    BY <1>1, <1>2, <1>3, <1>4, <1>5, <1>6, <1>7, <1>8

\* The frames that the client sends, told apart.
LEMMA RequestFrames ==
    /\ [kind |-> "hello"] \in UpSet
    /\ \A h \in UpSet : h.kind # "hello" => h \in Requests
    /\ \A h \in Requests : h.id \in Nat /\ h.kind \in Kinds /\ h.room \in Rooms
                           /\ h.kind # "hello"
  BY DEF UpSet, Requests, Kinds

\* The states that forward_peer_event sends.
LEMMA PeerStates ==
    ASSUME NEW S \in SUBSET Rooms
    PROVE  LET z == SetToSeq({State(r, TRUE) : r \in S}) IN
           z \in Seq(Replies) /\ \A i \in DOMAIN z : \E r \in S : z[i] = State(r, TRUE)
  <1> DEFINE T == {State(r, TRUE) : r \in S}
             f == [r \in S |-> State(r, TRUE)]
  <1>1. IsFiniteSet(S)
    BY ClientAssumption, FS_Subset
  <1>2. f \in Surjection(S, T)
    BY DEF Surjection
  <1>3. IsFiniteSet(T)
    BY <1>1, <1>2, FS_Surjection
  <1>4. T \subseteq Replies
    BY ZenonT(40), ReplyFrames
  <1>a. \A x \in T : \E r \in S : x = State(r, TRUE)
    OBVIOUS
  <1> HIDE DEF T
  <1>5. PICK z : z = SetToSeq(T)
    OBVIOUS
  <1>6. z \in Seq(T)
    BY <1>3, <1>5, SetToSeqLists
  <1>7. z \in Seq(Replies) /\ \A i \in DOMAIN z : z[i] \in T
    BY <1>4, <1>6
  <1>8. QED
    BY <1>a, <1>5, <1>7 DEF T

-----------------------------------------------------------------------------
(* Sockets and requests.                                                   *)

\* The client starts without a socket.
LEMMA SInvInit == Init => SInv
  <1> SUFFICES ASSUME Init PROVE SInv
    OBVIOUS
  <1>1. MaxConnects \in Nat /\ MaxRequests \in Nat /\ MaxEvents \in Nat /\ MaxDrops \in Nat
    BY ClientAssumption
  <1>2. TypeOK
    <2>1. /\ up \in [Sockets -> Seq(Requests \cup [kind : {"hello"}])]
          /\ down \in [Sockets -> Seq(Replies)]
      BY DEF Init
    <2>2. \A s \in Sockets : subs[s] = {} /\ up[s] = <<>>
      BY DEF Init
    <2>3. /\ connects \in 0..MaxConnects /\ requests \in 0..MaxRequests
          /\ events \in 0..MaxEvents /\ drops \in 0..MaxDrops /\ nextId \in Nat
      BY <1>1 DEF Init
    <2>4. QED
      BY <2>1, <2>2, <2>3 DEF Init, TypeOK
  <1>3. QED
    BY <1>2 DEF Init, SInv, WsIsWired, NewSockets, NoOrphanRequest

\* A new socket becomes this.ws.
LEMMA OpenStep ==
    ASSUME SInv, NEW s \in Sockets, openSocket(s), UNCHANGED <<pending, daemon, up>>
    PROVE  /\ WsIsWired' /\ NewSockets' /\ NoOrphanRequest'
           /\ ws' \in Sockets \cup {None} /\ wired' \subseteq Sockets
           /\ promise' \in [Sockets -> {"none", "pending", "resolved", "rejected"}]
           /\ sock' \in [Sockets -> {"new", "connecting", "open", "closing", "closed"}]
  <1>1. /\ sock[s] = "new" /\ sock' = [sock EXCEPT ![s] = "connecting"]
        /\ promise' = [promise EXCEPT ![s] = "pending"]
        /\ wired' = wired \cup {s} /\ ws' = s
        /\ UNCHANGED <<pending, sess>>
    BY DEF openSocket, daemon
  <1>2. /\ wired \subseteq Sockets
        /\ promise \in [Sockets -> {"none", "pending", "resolved", "rejected"}]
        /\ sock \in [Sockets -> {"new", "connecting", "open", "closing", "closed"}]
    BY DEF SInv, TypeOK
  <1>3. NewSockets'
    BY <1>1, <1>2 DEF SInv, NewSockets
  <1>4. NoOrphanRequest'
    BY <1>1, <1>2 DEF SInv, NoOrphanRequest
  <1>5. QED
    BY <1>1, <1>2, <1>3, <1>4 DEF WsIsWired

\* onclose.
LEMMA CloseStep ==
    ASSUME SInv, NEW s \in Sockets, Closed(s), UNCHANGED daemon
    PROVE  /\ WsIsWired' /\ NewSockets' /\ NoOrphanRequest'
           /\ ws' \in Sockets \cup {None} /\ wired' \subseteq Sockets
           /\ promise' \in [Sockets -> {"none", "pending", "resolved", "rejected"}]
           /\ cached' \in Sockets \cup {None, Resolving} /\ armed' \in BOOLEAN
           /\ sock' \in [Sockets -> {"new", "connecting", "open", "closing", "closed"}]
           /\ pending' \subseteq pending
  <1>1. sock' = [sock EXCEPT ![s] = "closed"] /\ UNCHANGED sess
    BY DEF Closed, daemon
  <1>2. /\ wired \subseteq Sockets /\ ws \in Sockets \cup {None}
        /\ promise \in [Sockets -> {"none", "pending", "resolved", "rejected"}]
        /\ cached \in Sockets \cup {None, Resolving} /\ armed \in BOOLEAN
        /\ closedByUser \in BOOLEAN
        /\ sock \in [Sockets -> {"new", "connecting", "open", "closing", "closed"}]
    BY DEF SInv, TypeOK
  <1>3. CASE s \in wired
    <2>1. /\ ws' = None /\ pending' = {} /\ wired' = wired \ {s, ws}
          /\ Settle(s, "rejected") /\ armed' = (armed \/ ~closedByUser)
      BY <1>3 DEF Closed, cleanupSocket, scheduleReconnect
    <2>2. /\ promise' \in [Sockets -> {"none", "pending", "resolved", "rejected"}]
          /\ cached' \in Sockets \cup {None, Resolving}
          /\ \A t \in Sockets : t # s => promise'[t] = promise[t]
      BY <2>1, <1>2 DEF Settle
    <2>3. armed' \in BOOLEAN
      BY <2>1, <1>2
    <2>4. NewSockets'
      BY <2>1, <2>2, <1>1, <1>2 DEF SInv, NewSockets
    <2>5. QED
      BY <2>1, <2>2, <2>3, <2>4, <1>1, <1>2 DEF WsIsWired, NoOrphanRequest
  <1>4. CASE s \notin wired
    <2>1. UNCHANGED <<ws, pending, wired, promise, cached, armed>>
      BY <1>4 DEF Closed
    <2>2. NewSockets' /\ NoOrphanRequest' /\ WsIsWired'
      BY <2>1, <1>1, <1>2, <1>4 DEF SInv, NewSockets, NoOrphanRequest, WsIsWired
    <2>3. QED
      BY <2>1, <2>2, <1>1, <1>2
  <1>5. QED
    BY <1>3, <1>4

\* The promise of an open socket settles.
LEMMA SettleStep ==
    ASSUME SInv, NEW s \in Sockets, sock[s] = "open", Settle(s, "resolved")
    PROVE  /\ promise' \in [Sockets -> {"none", "pending", "resolved", "rejected"}]
           /\ cached' \in Sockets \cup {None, Resolving}
           /\ \A t \in Sockets : sock[t] # "open" => promise'[t] = promise[t]
           /\ promise[s] = "pending" => promise'[s] = "resolved"
           /\ promise[s] # "pending" => promise' = promise
  <1>1. /\ promise \in [Sockets -> {"none", "pending", "resolved", "rejected"}]
        /\ cached \in Sockets \cup {None, Resolving}
    BY DEF SInv, TypeOK
  <1>2. CASE promise[s] = "pending"
    <2>1. /\ promise' = [promise EXCEPT ![s] = "resolved"]
          /\ cached' = IF cached = s THEN None ELSE cached
      BY <1>2 DEF Settle
    <2>2. QED
      BY <2>1, <1>1, <1>2
  <1>3. CASE promise[s] # "pending"
    BY <1>1, <1>3 DEF Settle
  <1>4. QED
    BY <1>2, <1>3

\* Every step of the client, of its sockets and of the daemon keeps SInv.
LEMMA SInvStep == SInv /\ [Next]_vars => SInv'
  <1> SUFFICES ASSUME SInv, [Next]_vars PROVE SInv'
    OBVIOUS
  <1>0. /\ TypeOK /\ WsIsWired /\ NewSockets /\ NoOrphanRequest
        /\ MaxConnects \in Nat /\ MaxRequests \in Nat /\ MaxEvents \in Nat /\ MaxDrops \in Nat
    BY ClientAssumption DEF SInv
  <1>1. ASSUME connect PROVE SInv'
    <2>0. connects' \in 0..MaxConnects
      BY <1>0, <1>1 DEF connect, TypeOK
    <2>1. TypeOK'
      BY <2>0, <1>0, <1>1 DEF connect, TypeOK, daemon
    <2>2. QED
      BY <2>1, <1>0, <1>1 DEF connect, SInv, WsIsWired, NewSockets, NoOrphanRequest, daemon
  <1>2. ASSUME ProbeFails PROVE SInv'
    <2>1. TypeOK'
      BY <1>0, <1>2 DEF ProbeFails, TypeOK, daemon, bounds
    <2>2. QED
      BY <2>1, <1>0, <1>2 DEF ProbeFails, SInv, WsIsWired, NewSockets, NoOrphanRequest, daemon
  <1>3. ASSUME disconnect PROVE SInv'
    <2>1. /\ ws' = None /\ pending' = {} /\ wired' = wired \ {ws}
          /\ closedByUser' = TRUE /\ armed' = FALSE
          /\ sock' = [s \in Sockets |->
                        IF s # ws THEN sock[s]
                        ELSE IF sock[s] = "connecting" THEN "closed" ELSE "closing"]
          /\ UNCHANGED <<promise, cached, nextId, joined, daemon, up, down, bounds>>
      BY <1>3 DEF disconnect, cleanupSocket
    <2>2. sock' \in [Sockets -> {"new", "connecting", "open", "closing", "closed"}]
      BY <2>1, <1>0 DEF TypeOK
    <2>3. TypeOK'
      BY <2>1, <2>2, <1>0 DEF TypeOK, daemon, bounds
    <2>4. NewSockets'
      BY <2>1, <1>0 DEF NewSockets, daemon
    <2>5. QED
      BY <2>1, <2>3, <2>4 DEF SInv, WsIsWired, NoOrphanRequest
  <1>4. ASSUME NEW s \in Sockets, PortResolved(s) PROVE SInv'
    <2>1. /\ openSocket(s) /\ cached' = s
          /\ UNCHANGED <<armed, closedByUser, pending, nextId, joined, daemon, up, down, bounds>>
      BY <1>4 DEF PortResolved
    <2>2. /\ WsIsWired' /\ NewSockets' /\ NoOrphanRequest'
          /\ ws' \in Sockets \cup {None} /\ wired' \subseteq Sockets
          /\ promise' \in [Sockets -> {"none", "pending", "resolved", "rejected"}]
          /\ sock' \in [Sockets -> {"new", "connecting", "open", "closing", "closed"}]
      BY <2>1, OpenStep
    <2>3. TypeOK'
      BY <2>1, <2>2, <1>0 DEF TypeOK, daemon, bounds
    <2>4. QED
      BY <2>2, <2>3 DEF SInv
  <1>5. ASSUME NEW s \in Sockets, TimerFires(s) PROVE SInv'
    <2>1. /\ openSocket(s) /\ armed' = FALSE
          /\ UNCHANGED <<cached, closedByUser, pending, nextId, joined, daemon, up, down, bounds>>
      BY <1>5 DEF TimerFires
    <2>2. /\ WsIsWired' /\ NewSockets' /\ NoOrphanRequest'
          /\ ws' \in Sockets \cup {None} /\ wired' \subseteq Sockets
          /\ promise' \in [Sockets -> {"none", "pending", "resolved", "rejected"}]
          /\ sock' \in [Sockets -> {"new", "connecting", "open", "closing", "closed"}]
      BY <2>1, OpenStep
    <2>3. TypeOK'
      BY <2>1, <2>2, <1>0 DEF TypeOK, daemon, bounds
    <2>4. QED
      BY <2>2, <2>3 DEF SInv
  <1>6. ASSUME NEW s \in Sockets, Refused(s) \/ Noticed(s) PROVE SInv'
    <2>1. /\ Closed(s) /\ UNCHANGED <<closedByUser, nextId, joined, daemon, up, down, connects,
                                      requests, events>>
          /\ drops' \in 0..MaxDrops
      BY <1>6, <1>0 DEF Refused, Noticed, bounds, Closed, TypeOK
    <2>2. /\ WsIsWired' /\ NewSockets' /\ NoOrphanRequest'
          /\ ws' \in Sockets \cup {None} /\ wired' \subseteq Sockets
          /\ promise' \in [Sockets -> {"none", "pending", "resolved", "rejected"}]
          /\ cached' \in Sockets \cup {None, Resolving} /\ armed' \in BOOLEAN
          /\ sock' \in [Sockets -> {"new", "connecting", "open", "closing", "closed"}]
          /\ pending' \subseteq pending
      BY <2>1, CloseStep
    <2>3. TypeOK'
      BY <2>1, <2>2, <1>0 DEF TypeOK, daemon
    <2>4. QED
      BY <2>2, <2>3 DEF SInv
  <1>7. ASSUME NEW s \in Sockets, Opened(s) PROVE SInv'
    <2> DEFINE h == <<[kind |-> "hello"]>>
    <2>1. /\ sock[s] = "connecting" /\ sock' = [sock EXCEPT ![s] = "open"]
          /\ sess' = [sess EXCEPT ![s] = "live"]
          /\ down' = [down EXCEPT ![s] = <<[kind |-> "ready"]>>]
          /\ UNCHANGED <<client, subs, bounds>>
      BY <1>7 DEF Opened
    <2>2. \/ up' = up
          \/ up' = [up EXCEPT ![s] = h]
          \/ ws # None /\ sess[ws] = "live" /\ up' = [up EXCEPT ![ws] = up[ws] \o h]
      BY <1>7 DEF Opened, Sent, isConnected
    <2>3. h \in Seq(UpSet) /\ <<[kind |-> "ready"]>> \in Seq(Replies)
      BY RequestFrames, ReplyFrames
    <2> HIDE DEF h
    <2>4. up \in [Sockets -> Seq(UpSet)] /\ down \in [Sockets -> Seq(Replies)]
          /\ ws \in Sockets \cup {None}
          /\ sess \in [Sockets -> {"none", "live", "gone"}]
          /\ sock \in [Sockets -> {"new", "connecting", "open", "closing", "closed"}]
      BY <1>0 DEF TypeOK, UpSet
    <2>5. ws # None => up[ws] \o h \in Seq(UpSet)
      BY <2>3, <2>4, Joined
    <2>6. /\ up' \in [Sockets -> Seq(UpSet)]
          /\ \A t \in Sockets : t # s /\ sess[t] # "live" => up'[t] = up[t]
      BY <2>2, <2>3, <2>4, <2>5
    <2>7. TypeOK'
      <3>1. down' \in [Sockets -> Seq(Replies)] /\ sess' \in [Sockets -> {"none", "live", "gone"}]
            /\ sock' \in [Sockets -> {"new", "connecting", "open", "closing", "closed"}]
        BY <2>1, <2>3, <2>4
      <3>2. \A t \in Sockets : sess'[t] # "live" => subs'[t] = {} /\ up'[t] = <<>>
        BY <2>1, <2>4, <2>6, <1>0 DEF TypeOK
      <3>3. QED
        BY <3>1, <3>2, <2>1, <2>6, <1>0 DEF TypeOK, client, bounds, UpSet
    <2>8. NewSockets' /\ NoOrphanRequest' /\ WsIsWired'
      BY <2>1, <2>4, <1>0 DEF NewSockets, NoOrphanRequest, WsIsWired, client
    <2>9. QED
      BY <2>7, <2>8 DEF SInv
  <1>8. ASSUME NEW s \in Sockets, Drop(s) PROVE SInv'
    <2>1. /\ sess[s] = "live" /\ drops' \in 0..MaxDrops
          /\ sess' = [sess EXCEPT ![s] = "gone"] /\ subs' = [subs EXCEPT ![s] = {}]
          /\ up' = [up EXCEPT ![s] = <<>>]
          /\ (down' = down \/ down' = [down EXCEPT ![s] = <<>>])
          /\ UNCHANGED <<client, sock, connects, requests, events>>
      BY <1>8, <1>0 DEF Drop, TypeOK
    <2>2. up' \in [Sockets -> Seq(UpSet)] /\ down' \in [Sockets -> Seq(Replies)]
      <3>1. up \in [Sockets -> Seq(UpSet)] /\ down \in [Sockets -> Seq(Replies)]
        BY <1>0 DEF TypeOK, UpSet
      <3>2. <<>> \in Seq(UpSet) /\ <<>> \in Seq(Replies)
        OBVIOUS
      <3>3. QED
        BY <3>1, <3>2, <2>1
    <2>3. TypeOK'
      BY <2>1, <2>2, <1>0 DEF TypeOK, UpSet, client
    <2>4. NewSockets' /\ NoOrphanRequest' /\ WsIsWired'
      BY <2>1, <1>0 DEF TypeOK, NewSockets, NoOrphanRequest, WsIsWired, client
    <2>5. QED
      BY <2>3, <2>4 DEF SInv
  <1>9. ASSUME NEW kind \in Kinds, NEW r \in Rooms, Call(kind, r) PROVE SInv'
    <2> DEFINE qs == <<[kind |-> kind, room |-> r]>>
    <2>1. /\ isConnected /\ requests' \in 0..MaxRequests /\ Request(qs)
          /\ UNCHANGED <<ws, wired, promise, cached, armed, closedByUser, joined, sock,
                         daemon, down, connects, events, drops>>
      BY <1>9, <1>0 DEF Call, TypeOK
    <2>2. qs \in Seq(Wanted)
      BY DEF Wanted
    <2> HIDE DEF qs
    <2>3. /\ nextId' = nextId + Len(qs) /\ Len(qs) \in Nat
          /\ \A q \in pending' : q \in pending \/ \E i \in 1..Len(qs) :
                q = [id |-> nextId + i - 1, kind |-> qs[i].kind, room |-> qs[i].room, on |-> ws]
          /\ up' \in [Sockets -> Seq(UpSet)]
          /\ \A s \in Sockets : sess[s] # "live" => up'[s] = up[s]
          /\ \A q \in pending' : q \in [id : Nat, kind : Kinds, room : Rooms, on : Sockets]
      BY <2>1, <2>2, <1>0, RequestStep
    <2>4. TypeOK'
      BY <2>1, <2>3, <1>0 DEF TypeOK, UpSet, daemon
    <2>5. NoOrphanRequest'
      BY <2>1, <2>3, <1>0 DEF isConnected, NoOrphanRequest, WsIsWired
    <2>6. QED
      BY <2>1, <2>4, <2>5, <1>0 DEF SInv, NewSockets, WsIsWired, daemon
  <1>10. ASSUME NEW q \in pending, Timeout(q) PROVE SInv'
    <2>1. TypeOK'
      BY <1>0, <1>10 DEF Timeout, TypeOK, daemon, bounds
    <2>2. QED
      BY <2>1, <1>0, <1>10 DEF Timeout, SInv, WsIsWired, NewSockets, NoOrphanRequest, daemon
  <1>11. ASSUME NEW s \in Sockets, DaemonHandles(s) PROVE SInv'
    <2> DEFINE q == Head(up[s])
    <2>1. /\ sess[s] = "live" /\ up[s] # <<>> /\ up' = [up EXCEPT ![s] = Tail(up[s])]
          /\ handle_text(s, q) /\ UNCHANGED <<client, sock, sess, bounds>>
      BY <1>11 DEF DaemonHandles
    <2>2. up[s] \in Seq(UpSet) /\ up \in [Sockets -> Seq(UpSet)]
          /\ down \in [Sockets -> Seq(Replies)] /\ down[s] \in Seq(Replies)
          /\ subs \in [Sockets -> SUBSET Rooms]
      BY <1>0 DEF TypeOK, UpSet
    <2>3. q \in UpSet /\ Tail(up[s]) \in Seq(UpSet)
      BY <2>1, <2>2, Taken
    <2> HIDE DEF q
    <2>4. /\ subs' \in [Sockets -> SUBSET Rooms] /\ \A t \in Sockets : t # s => subs'[t] = subs[t]
          /\ \E fs \in Seq(Replies) : down' = [down EXCEPT ![s] = down[s] \o fs]
      <3>1. CASE q.kind = "hello" /\ handle_hello(s)
        <4>1. <<[kind |-> "ready"]>> \in Seq(Replies)
          BY ReplyFrames
        <4>2. QED
          BY <4>1, <3>1, <2>2 DEF handle_hello, Reply
      <3>2. CASE q.kind = "join" /\ handle_join(s, q)
        <4>1. q \in Requests
          BY <3>2, <2>3, RequestFrames
        <4>a. Ack(q) \in Replies /\ State(q.room, TRUE) \in Replies
          BY <4>1, RequestFrames, ReplyFrames
        <4>2. <<Ack(q), State(q.room, TRUE)>> \in Seq(Replies)
          BY <4>a, TwoFrames
        <4>3. subs' = [subs EXCEPT ![s] = subs[s] \cup {q.room}] /\ q.room \in Rooms
          BY <3>2, <4>1, RequestFrames DEF handle_join
        <4>4. QED
          BY <4>2, <4>3, <3>2, <2>2 DEF handle_join, Reply
      <3>3. CASE q.kind = "leave" /\ handle_leave(s, q)
        <4>1. q \in Requests
          BY <3>3, <2>3, RequestFrames
        <4>a. Ack(q) \in Replies /\ State(q.room, FALSE) \in Replies
          BY <4>1, RequestFrames, ReplyFrames
        <4>2. <<Ack(q), State(q.room, FALSE)>> \in Seq(Replies)
          BY <4>a, TwoFrames
        <4>3. subs' = [subs EXCEPT ![s] = subs[s] \ {q.room}]
          BY <3>3 DEF handle_leave
        <4>4. QED
          BY <4>2, <4>3, <3>3, <2>2 DEF handle_leave, Reply
      <3>4. CASE q.kind = "send" /\ handle_send(s, q)
        <4>1. q \in Requests
          BY <3>4, <2>3, RequestFrames
        <4>2. <<Ack(q)>> \in Seq(Replies) /\ <<Error(q)>> \in Seq(Replies)
          BY <4>1, RequestFrames, ReplyFrames
        <4>3. QED
          BY <4>2, <3>4, <2>2 DEF handle_send, Reply
      <3>5. QED
        BY <2>1, <3>1, <3>2, <3>3, <3>4 DEF handle_text
    <2>5. PICK fs \in Seq(Replies) : down' = [down EXCEPT ![s] = down[s] \o fs]
      BY <2>4
    <2>6. down[s] \o fs \in Seq(Replies)
      BY <2>2, Joined
    <2>7. down' \in [Sockets -> Seq(Replies)] /\ up' \in [Sockets -> Seq(UpSet)]
      BY <2>1, <2>2, <2>3, <2>5, <2>6
    <2>8. \A t \in Sockets : sess'[t] # "live" => subs'[t] = {} /\ up'[t] = <<>>
      BY <2>1, <2>2, <2>4, <1>0 DEF TypeOK
    <2>9. TypeOK'
      BY <2>1, <2>4, <2>7, <2>8, <1>0 DEF TypeOK, UpSet, client, bounds
    <2>10. QED
      BY <2>1, <2>9, <1>0 DEF SInv, NewSockets, NoOrphanRequest, WsIsWired, client
  <1>12. ASSUME NEW s \in Sockets, PeerEvent(s) PROVE SInv'
    <2> DEFINE z == SetToSeq({State(r, TRUE) : r \in subs[s]})
    <2>1. /\ down' = [down EXCEPT ![s] = down[s] \o z] /\ events' \in 0..MaxEvents
          /\ UNCHANGED <<client, sock, daemon, up, connects, requests, drops>>
      BY <1>12, <1>0 DEF PeerEvent, Reply, TypeOK
    <2>2. z \in Seq(Replies)
      BY PeerStates, <1>0 DEF TypeOK
    <2> HIDE DEF z
    <2>3. down[s] \in Seq(Replies)
      BY <1>0 DEF TypeOK
    <2>4. down[s] \o z \in Seq(Replies)
      BY <2>2, <2>3, Joined
    <2>5. TypeOK'
      BY <2>1, <2>4, <1>0 DEF TypeOK, client, daemon
    <2>6. QED
      BY <2>1, <2>5, <1>0 DEF SInv, NewSockets, NoOrphanRequest, WsIsWired, client, daemon
  <1>13. ASSUME NEW s \in Sockets, DaemonEnds(s) PROVE SInv'
    <2>1. TypeOK'
      BY <1>0, <1>13 DEF DaemonEnds, TypeOK, client, bounds
    <2>2. NewSockets' /\ NoOrphanRequest' /\ WsIsWired'
      BY <1>13, <1>0 DEF DaemonEnds, TypeOK, NewSockets, NoOrphanRequest, WsIsWired, client
    <2>3. QED
      BY <2>1, <2>2 DEF SInv
  <1>14. ASSUME NEW s \in Sockets, handleFrame(s) PROVE SInv'
    <2> DEFINE f == Head(down[s])
    <2>1. /\ sock[s] = "open" /\ down[s] # <<>> /\ down' = [down EXCEPT ![s] = Tail(down[s])]
          /\ UNCHANGED <<ws, wired, armed, closedByUser, sock, daemon, bounds>>
      BY <1>14 DEF handleFrame
    <2>2. down[s] \in Seq(Replies) /\ down \in [Sockets -> Seq(Replies)]
      BY <1>0 DEF TypeOK
    <2>3. f \in Replies /\ Tail(down[s]) \in Seq(Replies)
      BY <2>1, <2>2, Taken
    <2>4. down' \in [Sockets -> Seq(Replies)]
      BY <2>1, <2>2, <2>3
    <2>5. /\ promise' \in [Sockets -> {"none", "pending", "resolved", "rejected"}]
          /\ cached' \in Sockets \cup {None, Resolving}
          /\ \A t \in Sockets : sock[t] # "open" => promise'[t] = promise[t]
          /\ \A q \in pending' : q \in [id : Nat, kind : Kinds, room : Rooms, on : Sockets]
          /\ \A q \in pending' : q \in pending \/ (isConnected /\ q.on = ws)
          /\ nextId' \in Nat /\ joined' \subseteq Rooms
          /\ up' \in [Sockets -> Seq(UpSet)]
          /\ \A t \in Sockets : sess[t] # "live" => up'[t] = up[t]
      <3>0. /\ promise \in [Sockets -> {"none", "pending", "resolved", "rejected"}]
            /\ cached \in Sockets \cup {None, Resolving}
            /\ \A q \in pending : q \in [id : Nat, kind : Kinds, room : Rooms, on : Sockets]
            /\ nextId \in Nat /\ joined \subseteq Rooms
            /\ up \in [Sockets -> Seq(UpSet)]
        BY <1>0 DEF TypeOK, UpSet
      <3>1. CASE UNCHANGED <<promise, cached, pending, nextId, joined, up>>
        BY <3>0, <3>1
      <3>2. CASE f.kind = "ready" /\ Ready(s)
        <4>1. /\ promise' \in [Sockets -> {"none", "pending", "resolved", "rejected"}]
              /\ cached' \in Sockets \cup {None, Resolving}
              /\ \A t \in Sockets : sock[t] # "open" => promise'[t] = promise[t]
              /\ joined' = joined
          BY <3>2, <2>1, SettleStep DEF Ready
        <4>2. CASE promise[s] = "pending" /\ isConnected
          <5>1. Request(Rejoin) /\ Rejoin \in Seq(Wanted)
            BY <4>2, <3>0, <3>2, RejoinRooms DEF Ready
          <5> PICK qs : qs = Rejoin
            OBVIOUS
          <5>2. /\ nextId' = nextId + Len(qs) /\ Len(qs) \in Nat
                /\ \A q \in pending' : q \in pending \/ \E i \in 1..Len(qs) :
                      q = [id |-> nextId + i - 1, kind |-> qs[i].kind, room |-> qs[i].room, on |-> ws]
                /\ up' \in [Sockets -> Seq(UpSet)]
                /\ \A t \in Sockets : sess[t] # "live" => up'[t] = up[t]
                /\ \A q \in pending' : q \in [id : Nat, kind : Kinds, room : Rooms, on : Sockets]
            BY <5>1, <4>2, <1>0, RequestStep
          <5>3. QED
            BY <5>2, <4>1, <4>2, <3>0
        <4>3. CASE ~(promise[s] = "pending" /\ isConnected)
          <5>1. UNCHANGED <<pending, nextId, up>>
            BY <4>3, <3>2 DEF Ready, Request
          <5>2. QED
            BY <5>1, <4>1, <3>0
        <4>4. QED
          BY <4>2, <4>3
      <3>3. CASE f.kind = "state" /\ RoomState(f)
        BY <3>0, <3>3, <2>3, ReplyFrames DEF RoomState
      <3>4. CASE Answer(f)
        <4>1. /\ pending' \subseteq pending /\ joined' \subseteq Rooms
              /\ UNCHANGED <<promise, cached, nextId, up>>
          BY <3>0, <3>4 DEF Answer
        <4>2. QED
          BY <4>1, <3>0
      <3>5. QED
        BY <1>14, <3>1, <3>2, <3>3, <3>4 DEF handleFrame
    <2>6. TypeOK'
      BY <2>1, <2>4, <2>5, <1>0 DEF TypeOK, UpSet, daemon, bounds
    <2>7. NewSockets'
      BY <2>1, <2>5, <1>0 DEF NewSockets, daemon
    <2>8. NoOrphanRequest'
      BY <2>1, <2>5, <1>0 DEF NoOrphanRequest, isConnected, WsIsWired
    <2>9. QED
      BY <2>1, <2>6, <2>7, <2>8, <1>0 DEF SInv, WsIsWired
  <1>15. ASSUME UNCHANGED vars PROVE SInv'
    BY <1>0, <1>15 DEF vars, client, daemon, bounds, SInv, TypeOK, WsIsWired, NewSockets,
                       NoOrphanRequest
  <1>16. QED
    BY <1>1, <1>2, <1>3, <1>4, <1>5, <1>6, <1>7, <1>8, <1>9, <1>10, <1>11, <1>12, <1>13, <1>14,
       <1>15 DEF Next, EventLoop

\* Every component of the state of the client and of its sessions keeps its type.
THEOREM ClientTypes == Spec => []TypeOK
  <1>1. SInv => TypeOK
    BY DEF SInv
  <1>2. QED
    BY <1>1, SInvInit, SInvStep, PTL DEF Spec

\* A request that waits has its own socket open and heard, for any number of
\* rooms, sockets, calls and broken connections (request, cleanupSocket and
\* the onclose handler of client.ts).
THEOREM NoRequestOrphaned == Spec => []NoOrphanRequest
  <1>1. SInv => NoOrphanRequest
    BY DEF SInv
  <1>2. QED
    BY <1>1, SInvInit, SInvStep, PTL DEF Spec

-----------------------------------------------------------------------------
(* What frames do to the rooms.                                            *)

\* The two states of a room.
LEMMA TwoStates ==
    ASSUME NEW r, NEW S
    PROVE  /\ State(r, TRUE) # State(r, FALSE)
           /\ r \in S => State(r, r \in S) = State(r, TRUE) /\ State(r, r \notin S) = State(r, FALSE)
           /\ r \notin S => State(r, r \in S) = State(r, FALSE) /\ State(r, r \notin S) = State(r, TRUE)
  <1>1. State(r, TRUE) # State(r, FALSE)
    <2>1. State(r, TRUE).in = TRUE /\ State(r, FALSE).in = FALSE
      BY Zenon DEF State
    <2>2. QED
      BY <2>1, Zenon
  <1>2. ASSUME r \in S PROVE (r \in S) = TRUE /\ (r \notin S) = FALSE
    BY <1>2
  <1>3. ASSUME r \notin S PROVE (r \in S) = FALSE /\ (r \notin S) = TRUE
    BY <1>3
  <1>4. QED
    BY <1>1, <1>2, <1>3, Zenon

\* Frames are appended that do not contradict the daemon's own state.
LEMMA AgreeAppend ==
    ASSUME NEW r, NEW D \in Seq(Replies), NEW fs \in Seq(Replies), NEW U, NEW U2, NEW S, NEW S2,
           NEW J, NEW p, AgreesOn(r, D, U, S, J, p),
           (r \in S2) <=> (r \in S),
           \A i \in DOMAIN fs : fs[i] # State(r, r \notin S),
           JoinIn(U, r) => JoinIn(U2, r)
    PROVE  AgreesOn(r, D \o fs, U2, S2, J, p)
  <1> PICK E : E = D \o fs
    OBVIOUS
  <1>1. /\ \A k \in DOMAIN D : k \in DOMAIN E /\ E[k] = D[k]
        /\ \A k \in DOMAIN E : k \in DOMAIN D \/ \E i \in DOMAIN fs : E[k] = fs[i]
    BY Joined
  <1>2. ASSUME NEW i \in DOMAIN E, E[i] = State(r, r \notin S)
        PROVE  \E j \in DOMAIN E : j > i /\ E[j] = State(r, r \in S)
    <2>1. i \in DOMAIN D /\ D[i] = State(r, r \notin S)
      BY <1>1, <1>2
    <2>2. PICK j \in DOMAIN D : j > i /\ D[j] = State(r, r \in S)
      BY <2>1 DEF AgreesOn
    <2>3. QED
      BY <2>2, <1>1
  <1>3. ASSUME \A i \in DOMAIN E : E[i] # State(r, r \in S)
        PROVE  /\ r \in S => r \in J
               /\ r \in J /\ p = "resolved" => r \in S \/ JoinIn(U2, r)
    <2>1. \A i \in DOMAIN D : D[i] # State(r, r \in S)
      BY <1>1, <1>3
    <2>2. QED
      BY <2>1 DEF AgreesOn
  <1>4. CASE r \in S
    BY <1>2, <1>3, <1>4 DEF AgreesOn
  <1>5. CASE r \notin S
    BY <1>2, <1>3, <1>5 DEF AgreesOn
  <1>6. QED
    BY <1>4, <1>5

\* The daemon's own state comes last.
LEMMA AgreeLast ==
    ASSUME NEW r \in Rooms, NEW D \in Seq(Replies), NEW a \in Replies, a.kind = "ack", NEW U,
           NEW S, NEW J, NEW p, NEW b \in BOOLEAN, b <=> (r \in S)
    PROVE  AgreesOn(r, D \o <<a, State(r, b)>>, U, S, J, p)
  <1> DEFINE f == State(r, b)
  <1>0. f \in Replies /\ f = State(r, r \in S)
    <2>1. f \in Replies
      BY ReplyFrames
    <2>2. CASE r \in S
      BY <2>1, <2>2
    <2>3. CASE r \notin S
      BY <2>1, <2>3
    <2>4. QED
      BY <2>2, <2>3
  <1>1. f # State(r, r \notin S) /\ a # State(r, r \notin S)
    BY <1>0, ReplyFrames
  <1> HIDE DEF f
  <1> PICK fs : fs = <<a, f>>
    OBVIOUS
  <1>2. fs \in Seq(Replies) /\ DOMAIN fs = {1, 2} /\ fs[1] = a /\ fs[2] = f
    BY <1>0, TwoFrames
  <1> DEFINE E == D \o fs
  <1>3a. /\ Len(D) \in Nat
         /\ \A k \in DOMAIN E : \/ k \in DOMAIN D
                                \/ \E i \in DOMAIN fs : k = i + Len(D) /\ E[k] = fs[i]
         /\ \A k \in DOMAIN D : k \in Int /\ 1 <= k /\ k <= Len(D)
         /\ \A k \in DOMAIN fs : k + Len(D) \in DOMAIN E /\ E[k + Len(D)] = fs[k]
    <2>1. Len(D) \in Nat /\ \A k \in DOMAIN D : k \in Int /\ 1 <= k /\ k <= Len(D)
      BY <1>2, Joined
    <2>2. \A k \in DOMAIN E : \/ k \in DOMAIN D
                              \/ \E i \in DOMAIN fs : k = i + Len(D) /\ E[k] = fs[i]
      BY <1>2, Joined
    <2>3. \A k \in DOMAIN fs : k + Len(D) \in DOMAIN E /\ E[k + Len(D)] = fs[k]
      BY <1>2, Joined
    <2>4. QED
      BY <2>1, <2>2, <2>3
  <1> HIDE DEF E
  <1>3. 2 + Len(D) \in DOMAIN E /\ E[2 + Len(D)] = f
    BY <1>2, <1>3a
  <1>4. \A k \in DOMAIN E : E[k] = State(r, r \notin S) => 2 + Len(D) > k
    <2> SUFFICES ASSUME NEW k \in DOMAIN E, E[k] = State(r, r \notin S) PROVE 2 + Len(D) > k
      OBVIOUS
    <2>1. CASE k \in DOMAIN D
      BY <2>1, <1>3a
    <2>2. CASE \E i \in DOMAIN fs : k = i + Len(D) /\ E[k] = fs[i]
      <3>1. PICK i \in {1, 2} : k = i + Len(D) /\ E[k] = fs[i]
        BY <2>2, <1>2
      <3>2. fs[i] = a \/ fs[i] = f
        BY <3>1, <1>2
      <3>3. QED
        BY <3>1, <3>2, <1>1
    <2>3. QED
      BY <2>1, <2>2, <1>3a
  <1>5. AgreesOn(r, E, U, S, J, p)
    BY <1>0, <1>3, <1>4 DEF AgreesOn
  <1>6. QED
    BY <1>5 DEF f, E

\* The client handles the first frame.
LEMMA AgreeTail ==
    ASSUME NEW r, NEW D \in Seq(Replies), D # <<>>, NEW U, NEW U2, NEW S, NEW J, NEW J2,
           NEW p, NEW p2, AgreesOn(r, D, U, S, J, p),
           \/ Head(D) \notin About(r) /\ (r \in J2 <=> r \in J)
           \/ Head(D) \notin About(r) /\ \E i \in DOMAIN Tail(D) : Tail(D)[i] \in About(r)
           \/ Head(D) \in About(r) /\ (Head(D) = State(r, TRUE) <=> r \in J2),
           p2 = "resolved" /\ r \in J2 => JoinIn(U2, r) \/ (p = "resolved" /\ U2 = U)
    PROVE  AgreesOn(r, Tail(D), U2, S, J2, p2)
  <1> PICK E : E = Tail(D)
    OBVIOUS
  <1> DEFINE f == Head(D)
             says == State(r, r \in S)
             lies == State(r, r \notin S)
  <1>1. /\ f = D[1] /\ 1 \in DOMAIN D /\ f \in Replies
        /\ \A i \in DOMAIN D : i = 1 \/ (i - 1 \in DOMAIN E /\ E[i - 1] = D[i])
        /\ \A i \in DOMAIN E : i + 1 \in DOMAIN D /\ E[i] = D[i + 1]
        /\ DOMAIN D \subseteq Int /\ DOMAIN E \subseteq Int
        /\ \A i \in DOMAIN D : i >= 1
        /\ \A i \in DOMAIN E : i >= 1
    BY Taken
  <1>2. says # lies /\ About(r) = {says, lies}
    <2>1. CASE r \in S
      BY <2>1, TwoStates DEF About
    <2>2. CASE r \notin S
      BY <2>2, TwoStates DEF About
    <2>3. QED
      BY <2>1, <2>2
  <1>3. \A i \in DOMAIN D : D[i] = lies => \E j \in DOMAIN D : j > i /\ D[j] = says
    BY DEF AgreesOn
  <1>a. f \in About(r) => (f = State(r, TRUE) <=> (f = says <=> r \in S))
    <2>1. CASE r \in S
      BY <2>1, TwoStates DEF About
    <2>2. CASE r \notin S
      BY <2>2, TwoStates DEF About
    <2>3. QED
      BY <2>1, <2>2
  <1>b. (\A i \in DOMAIN D : D[i] # says) =>
          (r \in S => r \in J) /\ (r \in J /\ p = "resolved" => r \in S \/ JoinIn(U, r))
    BY DEF AgreesOn
  <1>g. AgreesOn(r, E, U2, S, J2, p2) <=>
           /\ \A i \in DOMAIN E : E[i] = lies => \E j \in DOMAIN E : j > i /\ E[j] = says
           /\ (\A i \in DOMAIN E : E[i] # says) =>
                 /\ r \in S => r \in J2
                 /\ r \in J2 /\ p2 = "resolved" => r \in S \/ JoinIn(U2, r)
    BY DEF AgreesOn
  <1> HIDE DEF f, says, lies
  <1>4. ASSUME NEW i \in DOMAIN E, E[i] = lies
        PROVE  \E j \in DOMAIN E : j > i /\ E[j] = says
    <2>1. i + 1 \in DOMAIN D /\ D[i + 1] = lies
      BY <1>1, <1>4
    <2>2. PICK j \in DOMAIN D : j > i + 1 /\ D[j] = says
      BY <1>3, <2>1
    <2>3. j - 1 \in DOMAIN E /\ E[j - 1] = says /\ j - 1 > i
      BY <2>2, <1>1
    <2>4. QED
      BY <2>3
  <1>5. ASSUME \A i \in DOMAIN E : E[i] # says
        PROVE  /\ r \in S => r \in J2
               /\ r \in J2 /\ p2 = "resolved" => r \in S \/ JoinIn(U2, r)
    <2>1. \A i \in DOMAIN E : E[i] \notin About(r)
      BY <1>2, <1>4, <1>5
    <2>2. CASE f \notin About(r)
      <3>1. \A i \in DOMAIN D : D[i] # says
        BY <1>1, <1>2, <1>5, <2>2
      <3>2. r \in J2 <=> r \in J
        BY <2>1, <2>2 DEF f
      <3>3. QED
        BY <3>1, <3>2, <1>b
    <2>3. CASE f \in About(r)
      <3>1. f = says
        <4>1. SUFFICES ASSUME f = lies PROVE FALSE
          BY <2>3, <1>2
        <4>2. PICK j \in DOMAIN D : j > 1 /\ D[j] = says
          BY <4>1, <1>1, <1>3
        <4>3. QED
          <5>1. j - 1 \in DOMAIN E /\ E[j - 1] = D[j]
            BY <4>2, <1>1
          <5>2. QED
            BY <5>1, <4>2, <1>5
      <3>2. r \in J2 <=> r \in S
        BY <2>3, <3>1, <1>a DEF f
      <3>3. QED
        BY <3>2
    <2>4. QED
      BY <2>2, <2>3
  <1>6. QED
    BY <1>4, <1>5, <1>g

-----------------------------------------------------------------------------
(* Ids and acks.                                                           *)

\* V has no request that U has not; E has the replies of D, or none.
NoNewRequest(U, V) ==
    \A s \in Sockets : \A k \in DOMAIN V[s] :
        V[s][k].kind = "hello" \/ \E j \in DOMAIN U[s] : V[s][k] = U[s][j]
NoNewReply(D, E) ==
    \A s \in Sockets : E[s] = D[s] \/ \A k \in DOMAIN E[s] : E[s][k].kind = "ready"

\* Requests settle, frames get lost, a hello or a ready is sent.
LEMMA IdsLess ==
    ASSUME NEW P, NEW Q \in SUBSET P, NEW n, NEW U, NEW V, NEW D, NEW E,
           IdsOf(P, n, U, D), AcksOf(P, D),
           NoNewRequest(U, V), NoNewReply(D, E)
    PROVE  IdsOf(Q, n, V, E) /\ AcksOf(Q, E)
  <1>1. \A q \in Q : q.id < n
    BY DEF IdsOf
  <1>2. ASSUME NEW s \in Sockets, NEW k \in DOMAIN V[s], V[s][k].kind # "hello"
        PROVE  /\ V[s][k].id < n
               /\ \A q \in Q : q.id = V[s][k].id => q.kind = V[s][k].kind /\ q.room = V[s][k].room
    <2>1. PICK j \in DOMAIN U[s] : V[s][k] = U[s][j]
      BY <1>2 DEF NoNewRequest
    <2>2. QED
      BY <2>1, <1>2 DEF IdsOf
  <1>3. ASSUME NEW s \in Sockets, NEW k \in DOMAIN E[s], E[s][k].kind \in {"ack", "error"}
        PROVE  E[s] = D[s] /\ E[s][k].id < n
    BY <1>3 DEF IdsOf, NoNewReply
  <1>4. AcksOf(Q, E)
    BY <1>3 DEF AcksOf
  <1>5. QED
    BY <1>1, <1>2, <1>3, <1>4 DEF IdsOf

\* The client takes a frame.
LEMMA IdsTail ==
    ASSUME NEW P, NEW n, NEW U, NEW D \in [Sockets -> Seq(Replies)], NEW s \in Sockets,
           D[s] # <<>>, IdsOf(P, n, U, D), AcksOf(P, D),
           NEW E, E = [D EXCEPT ![s] = Tail(D[s])]
    PROVE  IdsOf(P, n, U, E) /\ AcksOf(P, E)
  <1>1. /\ \A i \in DOMAIN D[s] : i = 1 \/ (i - 1 \in DOMAIN E[s] /\ E[s][i - 1] = D[s][i])
        /\ \A i \in DOMAIN E[s] : i + 1 \in DOMAIN D[s] /\ E[s][i] = D[s][i + 1]
        /\ DOMAIN D[s] \subseteq Int /\ DOMAIN E[s] \subseteq Int
        /\ \A i \in DOMAIN E[s] : i >= 1
    <2>1. E[s] = Tail(D[s]) /\ D[s] \in Seq(Replies)
      OBVIOUS
    <2>2. QED
      BY <2>1, Taken
  <1>2. \A t \in Sockets : t # s => E[t] = D[t]
    OBVIOUS
  <1>3. IdsOf(P, n, U, E)
    BY <1>1, <1>2 DEF IdsOf
  <1>4. ASSUME NEW t \in Sockets, NEW k \in DOMAIN E[t], NEW q \in P, E[t][k].kind = "ack",
               q.id = E[t][k].id, q.kind # "send"
        PROVE  \E j \in DOMAIN E[t] : j > k /\ E[t][j] \in About(q.room)
    <2>1. CASE t = s
      <3>1. k + 1 \in DOMAIN D[s] /\ D[s][k + 1] = E[s][k]
        BY <2>1, <1>1
      <3>2. PICK j \in DOMAIN D[s] : j > k + 1 /\ D[s][j] \in About(q.room)
        BY <3>1, <2>1, <1>4 DEF AcksOf
      <3>3. j - 1 \in DOMAIN E[s] /\ E[s][j - 1] = D[s][j] /\ j - 1 > k
        BY <3>2, <2>1, <1>1
      <3>4. QED
        BY <3>2, <3>3, <2>1
    <2>2. CASE t # s
      BY <2>2, <1>2, <1>4 DEF AcksOf
    <2>3. QED
      BY <2>1, <2>2
  <1>5. AcksOf(P, E)
    BY <1>4 DEF AcksOf
  <1>6. QED
    BY <1>3, <1>5

\* The daemon sends frames.
LEMMA IdsAppend ==
    ASSUME NEW P, NEW n, NEW U, NEW D \in [Sockets -> Seq(Replies)], NEW s \in Sockets,
           NEW fs \in Seq(Replies), IdsOf(P, n, U, D), AcksOf(P, D),
           \A i \in DOMAIN fs : fs[i].kind \in {"ack", "error"} => fs[i].id < n,
           \A i \in DOMAIN fs : \A q \in P :
               fs[i].kind = "ack" /\ q.id = fs[i].id /\ q.kind # "send" =>
                   \E j \in DOMAIN fs : j > i /\ fs[j] \in About(q.room),
           NEW E, E = [D EXCEPT ![s] = D[s] \o fs]
    PROVE  IdsOf(P, n, U, E) /\ AcksOf(P, E)
  <1> DEFINE u == D[s] \o fs
             m == Len(D[s])
  <1>0. D[s] \in Seq(Replies)
    OBVIOUS
  <1>1. /\ \A k \in DOMAIN D[s] : k \in DOMAIN u /\ u[k] = D[s][k]
        /\ \A k \in DOMAIN fs : k + m \in DOMAIN u /\ u[k + m] = fs[k]
        /\ \A k \in DOMAIN u :
              k \in DOMAIN D[s] \/ \E i \in DOMAIN fs : k = i + m /\ u[k] = fs[i]
        /\ m \in Nat /\ \A k \in DOMAIN fs : k \in Int
    BY <1>0, Joined
  <1>2. E[s] = u /\ \A t \in Sockets : t # s => E[t] = D[t]
    OBVIOUS
  <1> HIDE DEF u, m
  <1>3. ASSUME NEW k \in DOMAIN u, u[k].kind \in {"ack", "error"} PROVE u[k].id < n
    BY <1>1, <1>3 DEF IdsOf
  <1>4. IdsOf(P, n, U, E)
    BY <1>2, <1>3 DEF IdsOf
  <1>5. ASSUME NEW k \in DOMAIN u, NEW q \in P, u[k].kind = "ack", q.id = u[k].id, q.kind # "send"
        PROVE  \E j \in DOMAIN u : j > k /\ u[j] \in About(q.room)
    <2>1. CASE k \in DOMAIN D[s]
      <3>1. D[s][k].kind = "ack" /\ q.id = D[s][k].id
        BY <2>1, <1>1, <1>5
      <3>2. PICK j \in DOMAIN D[s] : j > k /\ D[s][j] \in About(q.room)
        BY <3>1, <2>1, <1>5 DEF AcksOf
      <3>3. QED
        BY <3>2, <1>1
    <2>2. CASE \E i \in DOMAIN fs : k = i + m /\ u[k] = fs[i]
      <3>1. PICK i \in DOMAIN fs : k = i + m /\ u[k] = fs[i]
        BY <2>2
      <3>2. PICK j \in DOMAIN fs : j > i /\ fs[j] \in About(q.room)
        BY <3>1, <1>5
      <3>3. j + m \in DOMAIN u /\ u[j + m] = fs[j] /\ j + m > k
        BY <3>1, <3>2, <1>1
      <3>4. QED
        BY <3>2, <3>3
    <2>3. QED
      BY <2>1, <2>2, <1>1
  <1>6. AcksOf(P, E)
    <2> SUFFICES ASSUME NEW t \in Sockets, NEW k \in DOMAIN E[t], NEW q \in P,
                        E[t][k].kind = "ack", q.id = E[t][k].id, q.kind # "send"
                 PROVE  \E j \in DOMAIN E[t] : j > k /\ E[t][j] \in About(q.room)
      BY DEF AcksOf
    <2>1. CASE t = s
      BY <2>1, <1>2, <1>5
    <2>2. CASE t # s
      BY <2>2, <1>2 DEF AcksOf
    <2>3. QED
      BY <2>1, <2>2
  <1>7. QED
    BY <1>4, <1>6

\* The client makes requests; D is what is under way to it by then.
LEMMA IdsRequest ==
    ASSUME TypeOK, isConnected, NEW qs \in Seq(Wanted), Request(qs),
           NEW D \in [Sockets -> Seq(Replies)],
           IdsOf(pending, nextId, up, D), AcksOf(pending, D)
    PROVE  IdsOf(pending', nextId', up', D) /\ AcksOf(pending', D)
  <1> DEFINE a == Asked(qs)
  <1>0. nextId \in Nat /\ ws \in Sockets /\ up \in [Sockets -> Seq(UpSet)]
        /\ \A q \in pending : q.id \in Nat
    BY DEF TypeOK, isConnected, UpSet
  <1>1. /\ nextId' = nextId + Len(qs) /\ Len(qs) \in Nat
        /\ \A q \in pending' : q \in pending \/ \E i \in 1..Len(qs) :
              q = [id |-> nextId + i - 1, kind |-> qs[i].kind, room |-> qs[i].room, on |-> ws]
        /\ (up' = up \/ up' = [up EXCEPT ![ws] = up[ws] \o a])
    BY RequestStep
  <1>2. /\ a \in Seq(UpSet) /\ DOMAIN a = 1..Len(qs)
        /\ \A i \in 1..Len(qs) : /\ a[i].id = nextId + i - 1
                                 /\ a[i].kind = qs[i].kind /\ a[i].room = qs[i].room
    <2>1. a \in Seq(Requests)
      BY <1>0, AskedFrames
    <2>2. a \in Seq(UpSet)
      BY <2>1 DEF UpSet
    <2>3. QED
      BY <2>2, <1>0, AskedFrames
  <1> HIDE DEF a
  <1>3. ASSUME NEW q \in pending', q \notin pending
        PROVE  \E i \in 1..Len(qs) : /\ q.id = nextId + i - 1
                                     /\ q.kind = qs[i].kind /\ q.room = qs[i].room
    <2>1. PICK i \in 1..Len(qs) :
              q = [id |-> nextId + i - 1, kind |-> qs[i].kind, room |-> qs[i].room, on |-> ws]
      BY <1>1, <1>3
    <2>2. QED
      BY <2>1
  <1>4. \A q \in pending' : q.id < nextId' /\ (q \in pending \/ q.id >= nextId)
    BY <1>0, <1>1, <1>3 DEF IdsOf
  <1>5. ASSUME NEW s \in Sockets, NEW k \in DOMAIN D[s], D[s][k].kind \in {"ack", "error"}
        PROVE  D[s][k].id < nextId' /\ D[s][k].id \in Nat /\ D[s][k].id < nextId
    <2>1. D[s][k] \in Replies
      OBVIOUS
    <2>2. D[s][k].id \in Nat /\ D[s][k].id < nextId
      BY <2>1, <1>5, ReplyFrames DEF IdsOf
    <2>3. QED
      BY <2>2, <1>0, <1>1
  <1>6. AcksOf(pending', D)
    <2> SUFFICES ASSUME NEW s \in Sockets, NEW k \in DOMAIN D[s], NEW q \in pending',
                        D[s][k].kind = "ack", q.id = D[s][k].id, q.kind # "send"
                 PROVE  \E j \in DOMAIN D[s] : j > k /\ D[s][j] \in About(q.room)
      BY DEF AcksOf
    <2>1. q \in pending
      BY <1>0, <1>4, <1>5
    <2>2. QED
      BY <2>1 DEF AcksOf
  <1>7. ASSUME NEW s \in Sockets, NEW k \in DOMAIN up[s], up[s][k].kind # "hello"
        PROVE  /\ up[s][k].id < nextId'
               /\ \A q \in pending' :
                    q.id = up[s][k].id => q.kind = up[s][k].kind /\ q.room = up[s][k].room
    <2>1. up[s][k] \in UpSet
      BY <1>0
    <2>2. up[s][k].id \in Nat /\ up[s][k].id < nextId
      BY <2>1, <1>7, RequestFrames DEF IdsOf
    <2>3. ASSUME NEW q \in pending', q.id = up[s][k].id PROVE q \in pending
      BY <2>2, <2>3, <1>0, <1>4
    <2>4. QED
      BY <2>2, <2>3, <1>0, <1>1, <1>7 DEF IdsOf
  <1>8. ASSUME NEW i \in 1..Len(qs)
        PROVE  /\ a[i].id < nextId'
               /\ \A q \in pending' : q.id = a[i].id => q.kind = a[i].kind /\ q.room = a[i].room
    <2>1. a[i].id = nextId + i - 1 /\ a[i].kind = qs[i].kind /\ a[i].room = qs[i].room
      BY <1>2
    <2>2. ASSUME NEW q \in pending', q.id = a[i].id
          PROVE  q.kind = a[i].kind /\ q.room = a[i].room
      <3>1. q \notin pending
        BY <2>1, <2>2, <1>0 DEF IdsOf
      <3>2. PICK j \in 1..Len(qs) : /\ q.id = nextId + j - 1
                                    /\ q.kind = qs[j].kind /\ q.room = qs[j].room
        BY <3>1, <1>3
      <3>3. j = i
        BY <3>2, <2>1, <2>2, <1>0
      <3>4. QED
        BY <3>2, <3>3, <2>1
    <2>3. QED
      BY <2>1, <2>2, <1>0, <1>1
  <1>9. ASSUME NEW s \in Sockets, NEW k \in DOMAIN up'[s], up'[s][k].kind # "hello"
        PROVE  /\ up'[s][k].id < nextId'
               /\ \A q \in pending' :
                    q.id = up'[s][k].id => q.kind = up'[s][k].kind /\ q.room = up'[s][k].room
    <2>1. CASE up'[s] = up[s]
      BY <2>1, <1>7, <1>9
    <2>2. CASE up'[s] # up[s]
      <3> DEFINE u == up[s] \o a
      <3>1. s = ws /\ up'[s] = u
        BY <2>2, <1>0, <1>1
      <3>0. up[s] \in Seq(UpSet) /\ a \in Seq(UpSet)
        BY <1>0, <1>2
      <3>2. \A j \in DOMAIN u :
               \/ j \in DOMAIN up[s] /\ u[j] = up[s][j]
               \/ \E i \in DOMAIN a : u[j] = a[i]
        BY <3>0, Joined
      <3> HIDE DEF u
      <3>3. CASE k \in DOMAIN up[s] /\ u[k] = up[s][k]
        <4>1. up'[s][k] = up[s][k]
          BY <3>1, <3>3
        <4>2. QED
          BY <4>1, <3>3, <1>7, <1>9
      <3>4. CASE \E i \in DOMAIN a : u[k] = a[i]
        BY <3>1, <3>4, <1>2, <1>8
      <3>5. QED
        BY <3>1, <3>2, <3>3, <3>4
    <2>3. QED
      BY <2>1, <2>2
  <1>10. IdsOf(pending', nextId', up', D)
    BY <1>4, <1>5, <1>9 DEF IdsOf
  <1>11. QED
    BY <1>6, <1>10

-----------------------------------------------------------------------------
(* The rooms agree.                                                        *)

\* Nothing is under way at first.
LEMMA KInvInit == Init => KInv
  <1> SUFFICES ASSUME Init PROVE KInv
    OBVIOUS
  <1>1. \A s \in Sockets : DOMAIN up[s] = {} /\ DOMAIN down[s] = {}
    BY DEF Init
  <1>2. pending = {} /\ ws = None
    BY DEF Init
  <1>3. IdsUnique /\ AckThenState
    BY <1>1, <1>2 DEF IdsUnique, AckThenState, IdsOf, AcksOf
  <1>4. QED
    BY <1>2, <1>3, SInvInit DEF KInv, RoomsFollow, Solo

\* More requests on their way take nothing back.
LEMMA AgreeMono ==
    ASSUME NEW r, NEW D, NEW U, NEW V, NEW S, NEW J, NEW p, AgreesOn(r, D, U, S, J, p),
           JoinIn(U, r) => JoinIn(V, r)
    PROVE  AgreesOn(r, D, V, S, J, p)
  BY DEF AgreesOn

\* A join that is sent is on its way, and so are those before it.
LEMMA JoinAppended ==
    ASSUME NEW S, NEW u \in Seq(S), NEW a \in Seq(S), NEW r
    PROVE  /\ JoinIn(u, r) => JoinIn(u \o a, r)
           /\ \A i \in DOMAIN a : a[i].kind = "join" /\ a[i].room = r => JoinIn(u \o a, r)
  <1> DEFINE v == u \o a
  <1>1. \A k \in DOMAIN u : k \in DOMAIN v /\ v[k] = u[k]
    BY Joined
  <1>2. \A k \in DOMAIN a : k + Len(u) \in DOMAIN v /\ v[k + Len(u)] = a[k]
    BY Joined
  <1> HIDE DEF v
  <1>3. QED
    BY <1>1, <1>2 DEF v, JoinIn

\* Steps that leave alone what the invariant speaks of.
LEMMA KInvFrame ==
    ASSUME KInv, pending' \subseteq pending,
           UNCHANGED <<nextId, ws, wired, promise, joined, sess, subs, up, down>>
    PROVE  IdsUnique' /\ AckThenState' /\ RoomsFollow'
  <1>1. IdsUnique' /\ AckThenState'
    BY DEF KInv, IdsUnique, AckThenState, IdsOf, AcksOf
  <1>2. RoomsFollow'
    BY DEF KInv, RoomsFollow, Solo
  <1>3. QED
    BY <1>1, <1>2

\* The frames fs answer a request on socket s: they carry its id, an ack that
\* somebody waits for comes with the room's state, and they keep the rooms.
HandledWith(s, fs) ==
    /\ fs \in Seq(Replies)
    /\ down' = [down EXCEPT ![s] = down[s] \o fs]
    /\ \A i \in DOMAIN fs : fs[i].kind \in {"ack", "error"} => fs[i].id < nextId
    /\ \A i \in DOMAIN fs : \A p \in pending :
          fs[i].kind = "ack" /\ p.id = fs[i].id /\ p.kind # "send" =>
              \E j \in DOMAIN fs : j > i /\ fs[j] \in About(p.room)
    /\ \A r \in Rooms : AgreesOn(r, down[s], up[s], subs[s], joined, promise[s]) =>
          AgreesOn(r, down[s] \o fs, up'[s], subs'[s], joined, promise[s])

\* The daemon handles a request.
LEMMA HandlesStep ==
    ASSUME KInv, NEW s \in Sockets, DaemonHandles(s)
    PROVE  IdsUnique' /\ AckThenState' /\ RoomsFollow'
  <1> DEFINE q == Head(up[s])
  <1>1. /\ sess[s] = "live" /\ up[s] # <<>> /\ up' = [up EXCEPT ![s] = Tail(up[s])]
        /\ handle_text(s, q) /\ UNCHANGED <<client, sock, sess, bounds>>
    BY DEF DaemonHandles
  <1>2. /\ up \in [Sockets -> Seq(UpSet)] /\ up[s] \in Seq(UpSet)
        /\ down \in [Sockets -> Seq(Replies)] /\ down[s] \in Seq(Replies)
        /\ subs \in [Sockets -> SUBSET Rooms] /\ nextId \in Nat
        /\ \A p \in pending : p.id \in Nat
    BY DEF KInv, SInv, TypeOK, UpSet
  <1>3. /\ q \in UpSet /\ q = up[s][1] /\ 1 \in DOMAIN up[s]
        /\ \A i \in DOMAIN up'[s] : i + 1 \in DOMAIN up[s] /\ up'[s][i] = up[s][i + 1]
        /\ \A i \in DOMAIN up[s] : i = 1 \/ (i - 1 \in DOMAIN up'[s] /\ up'[s][i - 1] = up[s][i])
    <2>1. up'[s] = Tail(up[s])
      BY <1>1, <1>2
    <2>2. QED
      BY <2>1, <1>1, <1>2, Taken
  <1> HIDE DEF q
  <1>4. /\ q.kind # "hello" => /\ q \in Requests /\ q.id < nextId
                               /\ \A p \in pending : p.id = q.id => p.kind = q.kind /\ p.room = q.room
    BY <1>3, RequestFrames DEF KInv, IdsUnique, IdsOf
  <1>5. IdsOf(pending, nextId, up', down) /\ AcksOf(pending, down)
    <2>1. NoNewRequest(up, up') /\ NoNewReply(down, down)
      BY <1>1, <1>2, <1>3 DEF NoNewRequest, NoNewReply
    <2>2. QED
      BY <2>1, IdsLess DEF KInv, IdsUnique, AckThenState
  <1>6. pending' = pending /\ nextId' = nextId
    BY <1>1 DEF client
  \* What is sent, and whom it is about.
  <1>7. \E fs : HandledWith(s, fs)
    <2>0. ASSUME NEW r, q.kind # "join" \/ q.room # r, JoinIn(up[s], r) PROVE JoinIn(up'[s], r)
      <3>1. PICK k \in DOMAIN up[s] : up[s][k].kind = "join" /\ up[s][k].room = r
        BY <2>0 DEF JoinIn
      <3>2. k # 1
        BY <3>1, <2>0, <1>3
      <3>3. QED
        BY <3>1, <3>2, <1>3 DEF JoinIn
    <2>1. CASE q.kind = "hello" /\ handle_hello(s)
      <3> DEFINE fs == <<[kind |-> "ready"]>>
      <3>1. fs \in Seq(Replies) /\ DOMAIN fs = {1} /\ fs[1].kind = "ready"
        BY ReplyFrames
      <3>2. down' = [down EXCEPT ![s] = down[s] \o fs] /\ subs' = subs
        BY <2>1 DEF handle_hello, Reply
      <3> HIDE DEF fs
      <3>3. ASSUME NEW r \in Rooms, AgreesOn(r, down[s], up[s], subs[s], joined, promise[s])
            PROVE  AgreesOn(r, down[s] \o fs, up'[s], subs'[s], joined, promise[s])
        <4>1. \A i \in DOMAIN fs : fs[i] # State(r, r \notin subs[s])
          BY <3>1, ReplyFrames
        <4>2. JoinIn(up[s], r) => JoinIn(up'[s], r)
          BY <2>0, <2>1
        <4>3. QED
          BY <4>1, <4>2, <3>1, <3>2, <3>3, <1>2, AgreeAppend
      <3>4. QED
        BY <3>1, <3>2, <3>3 DEF HandledWith
    <2>2. ASSUME NEW b \in BOOLEAN, q.kind \in {"join", "leave"},
                 down' = [down EXCEPT ![s] = down[s] \o <<Ack(q), State(q.room, b)>>],
                 q.room \in subs'[s] <=> b,
                 \A r \in Rooms : r # q.room => (r \in subs'[s] <=> r \in subs[s])
          PROVE  \E fs : HandledWith(s, fs)
      <3> DEFINE a == Ack(q)  f == State(q.room, b)  fs == <<a, f>>
      <3>0. q \in Requests /\ q.room \in Rooms /\ q.id \in Nat
        BY <2>2, <1>4, RequestFrames
      <3>1. a \in Replies /\ a.kind = "ack" /\ a.id = q.id /\ f \in Replies /\ f.kind = "state"
            /\ f \in About(q.room)
        BY <3>0, ReplyFrames DEF About
      <3> HIDE DEF a, f
      <3>2. fs \in Seq(Replies) /\ DOMAIN fs = {1, 2} /\ fs[1] = a /\ fs[2] = f
        BY <3>1, TwoFrames
      <3> HIDE DEF fs
      <3>3. \A i \in DOMAIN fs : fs[i].kind \in {"ack", "error"} => fs[i].id < nextId
        BY <3>1, <3>2, <2>2, <1>4
      <3>4. ASSUME NEW i \in DOMAIN fs, NEW p \in pending,
                   fs[i].kind = "ack", p.id = fs[i].id, p.kind # "send"
            PROVE  \E j \in DOMAIN fs : j > i /\ fs[j] \in About(p.room)
        <4>1. i = 1 /\ p.id = q.id
          BY <3>1, <3>2, <3>4
        <4>2. p.room = q.room
          BY <4>1, <2>2, <1>4
        <4>3. QED
          BY <4>1, <4>2, <3>1, <3>2
      <3>5. ASSUME NEW r \in Rooms, AgreesOn(r, down[s], up[s], subs[s], joined, promise[s])
            PROVE  AgreesOn(r, down[s] \o fs, up'[s], subs'[s], joined, promise[s])
        <4>1. CASE r = q.room
          <5>1. AgreesOn(q.room, down[s] \o <<a, State(q.room, b)>>, up'[s], subs'[s], joined, promise[s])
            BY <3>0, <3>1, <2>2, <1>2, AgreeLast
          <5>2. QED
            BY <5>1, <4>1 DEF fs, f
        <4>2. CASE r # q.room
          <5>1. \A i \in DOMAIN fs : fs[i] # State(r, r \notin subs[s])
            <6>1. f # State(r, r \notin subs[s])
              BY <4>2, ReplyFrames DEF f
            <6>2. QED
              BY <6>1, <3>1, <3>2, ReplyFrames
          <5>2. JoinIn(up[s], r) => JoinIn(up'[s], r)
            BY <2>0, <4>2
          <5>3. QED
            BY <5>1, <5>2, <4>2, <3>2, <3>5, <2>2, <1>2, AgreeAppend
        <4>3. QED
          BY <4>1, <4>2
      <3>6. down' = [down EXCEPT ![s] = down[s] \o fs]
        BY <2>2 DEF fs, a, f
      <3>7. QED
        BY <3>2, <3>3, <3>4, <3>5, <3>6 DEF HandledWith
    <2>3. CASE q.kind = "join" /\ handle_join(s, q)
      <3>1. /\ down' = [down EXCEPT ![s] = down[s] \o <<Ack(q), State(q.room, TRUE)>>]
            /\ subs' = [subs EXCEPT ![s] = subs[s] \cup {q.room}]
        BY <2>3 DEF handle_join, Reply
      <3>2. subs'[s] = subs[s] \cup {q.room}
        BY <3>1, <1>2
      <3>3. QED
        BY <3>1, <3>2, <2>2, <2>3
    <2>4. CASE q.kind = "leave" /\ handle_leave(s, q)
      <3>1. /\ down' = [down EXCEPT ![s] = down[s] \o <<Ack(q), State(q.room, FALSE)>>]
            /\ subs' = [subs EXCEPT ![s] = subs[s] \ {q.room}]
        BY <2>4 DEF handle_leave, Reply
      <3>2. subs'[s] = subs[s] \ {q.room}
        BY <3>1, <1>2
      <3>3. QED
        BY <3>1, <3>2, <2>2, <2>4
    <2>5. CASE q.kind = "send" /\ handle_send(s, q)
      <3>0. q \in Requests /\ q.id \in Nat
        BY <2>5, <1>4, RequestFrames
      <3>1. PICK f \in {Ack(q), Error(q)} : down' = [down EXCEPT ![s] = down[s] \o <<f>>]
        BY <2>5 DEF handle_send, Reply
      <3>2. subs' = subs
        BY <2>5 DEF handle_send
      <3>3. f \in Replies /\ f.id = q.id /\ f.kind \in {"ack", "error"}
        BY <3>0, ReplyFrames
      <3> DEFINE fs == <<f>>
      <3>4. fs \in Seq(Replies) /\ DOMAIN fs = {1} /\ fs[1] = f
        BY <3>3
      <3> HIDE DEF fs
      <3>5. \A i \in DOMAIN fs : fs[i].kind \in {"ack", "error"} => fs[i].id < nextId
        BY <3>3, <3>4, <2>5, <1>4
      <3>6. \A i \in DOMAIN fs : \A p \in pending : ~(p.id = fs[i].id /\ p.kind # "send")
        BY <3>3, <3>4, <2>5, <1>4
      <3>7. ASSUME NEW r \in Rooms, AgreesOn(r, down[s], up[s], subs[s], joined, promise[s])
            PROVE  AgreesOn(r, down[s] \o fs, up'[s], subs'[s], joined, promise[s])
        <4>1. \A i \in DOMAIN fs : fs[i] # State(r, r \notin subs[s])
          BY <3>3, <3>4, ReplyFrames
        <4>2. JoinIn(up[s], r) => JoinIn(up'[s], r)
          BY <2>0, <2>5
        <4>3. QED
          BY <4>1, <4>2, <3>2, <3>4, <3>7, <1>2, AgreeAppend
      <3>8. QED
        BY <3>1, <3>4, <3>5, <3>6, <3>7 DEF fs, HandledWith
    <2>6. QED
      BY <1>1, <2>1, <2>3, <2>4, <2>5 DEF handle_text
  <1>8. PICK fs : HandledWith(s, fs)
    BY <1>7
  <1>9. IdsUnique' /\ AckThenState'
    BY <1>2, <1>5, <1>6, <1>8, IdsAppend DEF IdsUnique, AckThenState, HandledWith
  <1>10. RoomsFollow'
    <2> SUFFICES ASSUME Solo', NEW r \in Rooms
                 PROVE  AgreesOn(r, down'[ws], up'[ws], subs'[ws], joined, promise[ws])
      BY <1>1 DEF RoomsFollow, client
    <2>1. ws \in Sockets /\ AgreesOn(r, down[ws], up[ws], subs[ws], joined, promise[ws])
      BY <1>1 DEF KInv, SInv, TypeOK, RoomsFollow, Solo, client
    <2>2. CASE ws = s
      <3>1. down'[s] = down[s] \o fs
        BY <1>2, <1>8 DEF HandledWith
      <3>2. QED
        BY <3>1, <2>1, <2>2, <1>8 DEF HandledWith
    <2>3. CASE ws # s
      <3>1. subs'[ws] = subs[ws]
        BY <2>1, <2>3, <1>1, <1>2
           DEF handle_text, handle_hello, handle_join, handle_leave, handle_send
      <3>2. down'[ws] = down[ws] /\ up'[ws] = up[ws]
        BY <2>1, <2>3, <1>1, <1>2, <1>8 DEF HandledWith
      <3>3. QED
        BY <3>1, <3>2, <2>1
    <2>4. QED
      BY <2>2, <2>3
  <1>11. QED
    BY <1>9, <1>10

\* The client handles a frame.
LEMMA FrameStep ==
    ASSUME KInv, NEW s \in Sockets, handleFrame(s)
    PROVE  IdsUnique' /\ AckThenState' /\ RoomsFollow'
  <1> DEFINE f == Head(down[s])
             E == [down EXCEPT ![s] = Tail(down[s])]
  <1>1. /\ sock[s] = "open" /\ down[s] # <<>> /\ down' = E
        /\ UNCHANGED <<ws, wired, sock, sess, subs>>
    BY DEF handleFrame, daemon
  <1>2. /\ TypeOK /\ down \in [Sockets -> Seq(Replies)] /\ down[s] \in Seq(Replies)
        /\ up \in [Sockets -> Seq(UpSet)] /\ joined \subseteq Rooms
    BY DEF KInv, SInv, TypeOK, UpSet
  <1>3. f \in Replies /\ Tail(down[s]) \in Seq(Replies) /\ f = down[s][1] /\ 1 \in DOMAIN down[s]
    BY <1>1, <1>2, Taken
  <1>4. /\ E \in [Sockets -> Seq(Replies)] /\ E[s] = Tail(down[s])
        /\ \A t \in Sockets : t # s => E[t] = down[t]
    BY <1>2, <1>3
  <1> HIDE DEF f, E
  <1>5. IdsOf(pending, nextId, up, E) /\ AcksOf(pending, E)
    <2>1. E = [down EXCEPT ![s] = Tail(down[s])]
      BY DEF E
    <2>2. QED
      BY <2>1, <1>1, <1>2, IdsTail DEF KInv, IdsUnique, AckThenState
  <1>6. ASSUME Solo', NEW r \in Rooms
        PROVE  ws \in Sockets /\ AgreesOn(r, down[ws], up[ws], subs[ws], joined, promise[ws])
               /\ sess[ws] = "live" /\ (s \in wired => s = ws) /\ (s \notin wired => s # ws)
    BY <1>1, <1>6 DEF KInv, SInv, TypeOK, RoomsFollow, Solo
  <1>7. CASE s \notin wired /\ UNCHANGED <<promise, cached, pending, nextId, joined, up>>
    <2>1. IdsUnique' /\ AckThenState'
      BY <1>1, <1>5, <1>7 DEF IdsUnique, AckThenState
    <2>2. RoomsFollow'
      BY <1>1, <1>4, <1>6, <1>7 DEF RoomsFollow
    <2>3. QED
      BY <2>1, <2>2
  <1>8. CASE s \in wired /\ f.kind = "ready" /\ Ready(s)
    <2>1. /\ joined' = joined
          /\ promise[s] = "pending" => Request(Rejoin)
          /\ promise[s] # "pending" => UNCHANGED <<pending, nextId, up, promise>>
      BY <1>8 DEF Ready, Settle
    <2>2. IdsUnique' /\ AckThenState'
      <3>1. CASE promise[s] = "pending" /\ isConnected
        <4>1. Rejoin \in Seq(Wanted)
          BY <1>2, RejoinRooms
        <4>2. QED
          BY <4>1, <3>1, <2>1, <1>1, <1>2, <1>4, <1>5, IdsRequest DEF IdsUnique, AckThenState
      <3>2. CASE ~(promise[s] = "pending" /\ isConnected)
        <4>1. UNCHANGED <<pending, nextId, up>>
          BY <3>2, <2>1 DEF Request
        <4>2. QED
          BY <4>1, <1>1, <1>5 DEF IdsUnique, AckThenState
      <3>3. QED
        BY <3>1, <3>2
    <2>3. RoomsFollow'
      <3> SUFFICES ASSUME Solo', NEW r \in Rooms
                   PROVE  AgreesOn(r, Tail(down[s]), up'[s], subs[s], joined, promise'[s])
        BY <2>1, <1>1, <1>4, <1>6, <1>8 DEF RoomsFollow
      <3>1. s = ws /\ AgreesOn(r, down[s], up[s], subs[s], joined, promise[s]) /\ sess[s] = "live"
        BY <1>6, <1>8
      <3>2. f \notin About(r)
        BY <1>8, ReplyFrames DEF About
      <3>3. promise'[s] = "resolved" /\ r \in joined =>
               JoinIn(up'[s], r) \/ (promise[s] = "resolved" /\ up'[s] = up[s])
        <4>1. CASE promise[s] = "pending" /\ r \in joined
          <5> PICK qs : qs = Rejoin
            OBVIOUS
          <5>1. /\ qs \in Seq(Wanted) /\ Request(qs) /\ isConnected
                /\ \E i \in 1..Len(qs) : qs[i] = [kind |-> "join", room |-> r]
            BY <4>1, <3>1, <2>1, <1>1, <1>2, RejoinRooms DEF isConnected, Solo
          <5>2. PICK i \in 1..Len(qs) : qs[i] = [kind |-> "join", room |-> r]
            BY <5>1
          <5>3. up' = [up EXCEPT ![s] = up[s] \o Asked(qs)]
            BY <5>1, <3>1, <1>2, RequestStep
          <5> PICK a : a = Asked(qs)
            OBVIOUS
          <5>4. a \in Seq(Requests) /\ i \in DOMAIN a /\ a[i].kind = "join" /\ a[i].room = r
            <6>0. nextId \in Nat
              BY <1>2 DEF TypeOK
            <6>1. /\ a \in Seq(Requests) /\ DOMAIN a = 1..Len(qs)
                  /\ \A n \in 1..Len(qs) : a[n].kind = qs[n].kind /\ a[n].room = qs[n].room
              BY <6>0, <5>1, AskedFrames
            <6>2. QED
              BY <6>1, <5>2
          <5>5. a \in Seq(UpSet) /\ up[s] \in Seq(UpSet)
            BY <5>4, <1>2 DEF UpSet
          <5>6. JoinIn(up[s] \o a, r)
            BY <5>4, <5>5, JoinAppended
          <5>7. up'[s] = up[s] \o a
            BY <5>3, <1>2
          <5>8. QED
            BY <5>6, <5>7
        <4>2. CASE promise[s] # "pending"
          BY <4>2, <2>1
        <4>3. QED
          BY <4>1, <4>2
      <3>4. QED
        <4>1. PICK D \in Seq(Replies) : D = down[s] /\ D # <<>>
          BY <1>1, <1>2
        <4>2. PICK U2 : U2 = up'[s]
          OBVIOUS
        <4>3. PICK p2 : p2 = promise'[s]
          OBVIOUS
        <4>4. AgreesOn(r, D, up[s], subs[s], joined, promise[s])
          BY <3>1, <4>1
        <4>5. Head(D) \notin About(r)
          BY <3>2, <4>1 DEF f
        <4>6. p2 = "resolved" /\ r \in joined =>
                 JoinIn(U2, r) \/ (promise[s] = "resolved" /\ U2 = up[s])
          BY <3>3, <4>2, <4>3
        <4>7. AgreesOn(r, Tail(D), U2, subs[s], joined, p2)
          BY <4>1, <4>4, <4>5, <4>6, AgreeTail
        <4>8. QED
          BY <4>1, <4>2, <4>3, <4>7
    <2>4. QED
      BY <2>2, <2>3
  <1>9. CASE s \in wired /\ f.kind = "state" /\ RoomState(f)
    <2>1. /\ joined' = IF f.in THEN joined \cup {f.room} ELSE joined \ {f.room}
          /\ UNCHANGED <<promise, pending, nextId, up>>
      BY <1>9 DEF RoomState
    <2>2. IdsUnique' /\ AckThenState'
      BY <2>1, <1>1, <1>5 DEF IdsUnique, AckThenState
    <2>3. RoomsFollow'
      <3> SUFFICES ASSUME Solo', NEW r \in Rooms
                   PROVE  AgreesOn(r, Tail(down[s]), up[s], subs[s], joined', promise[s])
        BY <2>1, <1>1, <1>4, <1>6, <1>9 DEF RoomsFollow
      <3>1. AgreesOn(r, down[s], up[s], subs[s], joined, promise[s])
        BY <1>6, <1>9
      <3>2. f.room \in Rooms /\ f.in \in BOOLEAN /\ f = State(f.room, f.in)
        BY <1>3, <1>9, ReplyFrames
      <3>3. CASE f.room = r
        <4>1. f \in About(r) /\ (f = State(r, TRUE) <=> r \in joined')
          <5>1. CASE f.in = TRUE
            BY <5>1, <3>2, <3>3, <2>1 DEF About
          <5>2. CASE f.in = FALSE
            BY <5>2, <3>2, <3>3, <2>1, TwoStates DEF About
          <5>3. QED
            BY <5>1, <5>2, <3>2
        <4>2. promise[s] = "resolved" /\ r \in joined' =>
                 JoinIn(up[s], r) \/ (promise[s] = "resolved" /\ up[s] = up[s])
          OBVIOUS
        <4>3. QED
          BY <4>1, <4>2, <3>1, <1>1, <1>2, AgreeTail DEF f
      <3>4. CASE f.room # r
        <4>1. f \notin About(r)
          <5>1. State(r, TRUE).room = r /\ State(r, FALSE).room = r
            BY ReplyFrames
          <5>2. QED
            BY <5>1, <3>4 DEF About
        <4>2. r \in joined' <=> r \in joined
          BY <3>4, <2>1
        <4>3. promise[s] = "resolved" /\ r \in joined' =>
                 JoinIn(up[s], r) \/ (promise[s] = "resolved" /\ up[s] = up[s])
          OBVIOUS
        <4>4. QED
          BY <4>1, <4>2, <4>3, <3>1, <1>1, <1>2, AgreeTail DEF f
      <3>5. QED
        BY <3>3, <3>4
    <2>4. QED
      BY <2>2, <2>3
  <1>10. CASE s \in wired /\ f.kind \in {"ack", "error"} /\ Answer(f)
    <2> DEFINE mine == {q \in pending : q.id = f.id}
               ok(kind) == {q.room : q \in {p \in mine : f.kind = "ack" /\ p.kind = kind}}
    <2>1. /\ pending' = pending \ mine /\ joined' = (joined \cup ok("join")) \ ok("leave")
          /\ UNCHANGED <<promise, nextId, up>>
      BY <1>10 DEF Answer
    <2>2. IdsUnique' /\ AckThenState'
      BY <2>1, <1>1, <1>5 DEF IdsUnique, AckThenState, IdsOf, AcksOf
    <2>3. RoomsFollow'
      <3> SUFFICES ASSUME Solo', NEW r \in Rooms
                   PROVE  AgreesOn(r, Tail(down[s]), up[s], subs[s], joined', promise[s])
        BY <2>1, <1>1, <1>4, <1>6, <1>10 DEF RoomsFollow
      <3>1. AgreesOn(r, down[s], up[s], subs[s], joined, promise[s])
        BY <1>6, <1>10
      <3>2. f \notin About(r)
        BY <1>10, ReplyFrames DEF About
      <3>3. \/ r \in joined' <=> r \in joined
            \/ \E i \in DOMAIN Tail(down[s]) : Tail(down[s])[i] \in About(r)
        <4>1. SUFFICES ASSUME ~(r \in joined' <=> r \in joined)
                       PROVE  \E i \in DOMAIN Tail(down[s]) : Tail(down[s])[i] \in About(r)
          OBVIOUS
        <4>2. PICK q \in pending : /\ q.id = f.id /\ f.kind = "ack" /\ q.room = r
                                   /\ q.kind \in {"join", "leave"}
          BY <4>1, <2>1
        <4>3. PICK j \in DOMAIN down[s] : j > 1 /\ down[s][j] \in About(r)
          BY <4>2, <1>3 DEF KInv, AckThenState, AcksOf
        <4>4. j - 1 \in DOMAIN Tail(down[s]) /\ Tail(down[s])[j - 1] = down[s][j]
          BY <4>3, <1>1, <1>2, Taken
        <4>5. QED
          BY <4>3, <4>4
      <3>4. promise[s] = "resolved" /\ r \in joined' =>
               JoinIn(up[s], r) \/ (promise[s] = "resolved" /\ up[s] = up[s])
        OBVIOUS
      <3>5. QED
        BY <3>1, <3>2, <3>3, <3>4, <1>1, <1>2, AgreeTail DEF f
    <2>4. QED
      BY <2>2, <2>3
  <1>11. QED
    BY <1>7, <1>8, <1>9, <1>10 DEF handleFrame, f

\* Requests settle and nothing else under way changes.
LEMMA IdsKept ==
    ASSUME KInv, pending' \subseteq pending, UNCHANGED <<nextId, up, down>>
    PROVE  IdsUnique' /\ AckThenState'
  BY DEF KInv, IdsUnique, AckThenState, IdsOf, AcksOf

\* A socket becomes this.ws: it has no session yet.
LEMMA NewSocketStep ==
    ASSUME KInv, NEW s \in Sockets, openSocket(s), UNCHANGED <<pending, nextId, daemon, up, down>>
    PROVE  IdsUnique' /\ AckThenState' /\ RoomsFollow'
  <1>1. ws' = s /\ sess'[s] = "none"
    BY DEF openSocket, daemon, KInv, SInv, NewSockets
  <1>2. QED
    BY <1>1, IdsKept DEF RoomsFollow, Solo

\* onclose: this.ws is gone, unless nobody listens to the socket.
LEMMA ClosedStep ==
    ASSUME KInv, NEW s \in Sockets, Closed(s), UNCHANGED <<daemon, up, down>>
    PROVE  IdsUnique' /\ AckThenState' /\ RoomsFollow'
  <1>1. pending' \subseteq pending /\ nextId' = nextId
    BY CloseStep DEF KInv, Closed
  <1>2. CASE s \in wired
    <2>1. ws' = None
      BY <1>2 DEF Closed, cleanupSocket
    <2>2. QED
      BY <2>1, <1>1, IdsKept DEF RoomsFollow, Solo
  <1>3. CASE s \notin wired
    <2>1. UNCHANGED <<nextId, ws, wired, promise, joined, sess, subs, up, down>>
      BY <1>3 DEF Closed, daemon
    <2>2. QED
      BY <2>1, <1>1, KInvFrame
  <1>4. QED
    BY <1>2, <1>3

\* A session ends: it is not live any more, and frames may be lost with it.
LEMMA EndedStep ==
    ASSUME KInv, NEW s \in Sockets, UNCHANGED client,
           sess' = [sess EXCEPT ![s] = "gone"], subs' = [subs EXCEPT ![s] = {}],
           up' \in {up, [up EXCEPT ![s] = <<>>]}, down' \in {down, [down EXCEPT ![s] = <<>>]}
    PROVE  IdsUnique' /\ AckThenState' /\ RoomsFollow'
  <1>0. /\ up \in [Sockets -> Seq(UpSet)] /\ down \in [Sockets -> Seq(Replies)]
        /\ subs \in [Sockets -> SUBSET Rooms] /\ ws \in Sockets \cup {None}
        /\ sess \in [Sockets -> {"none", "live", "gone"}]
    BY DEF KInv, SInv, TypeOK, UpSet
  <1>1. UNCHANGED <<pending, nextId, ws, wired, promise, joined>>
    BY DEF client
  <1>2. /\ \A t \in Sockets : up'[t] = up[t] \/ DOMAIN up'[t] = {}
        /\ \A t \in Sockets : down'[t] = down[t] \/ DOMAIN down'[t] = {}
        /\ \A t \in Sockets : t # s => up'[t] = up[t] /\ down'[t] = down[t] /\ subs'[t] = subs[t]
                                       /\ sess'[t] = sess[t]
        /\ sess'[s] = "gone"
    BY <1>0
  <1>3. IdsUnique' /\ AckThenState'
    <2>1. NoNewRequest(up, up')
      BY <1>2 DEF NoNewRequest
    <2>2. NoNewReply(down, down')
      BY <1>2 DEF NoNewReply
    <2>3. pending \in SUBSET pending /\ IdsOf(pending, nextId, up, down) /\ AcksOf(pending, down)
      BY DEF KInv, IdsUnique, AckThenState
    <2>4. IdsOf(pending, nextId, up', down') /\ AcksOf(pending, down')
      BY <2>1, <2>2, <2>3, IdsLess
    <2>5. QED
      BY <2>4, <1>1 DEF IdsUnique, AckThenState
  <1>4. RoomsFollow'
    <2> SUFFICES ASSUME Solo' PROVE Solo /\ ws # s
      BY <1>0, <1>1, <1>2 DEF RoomsFollow, KInv, Solo
    <2>1. QED
      BY <1>0, <1>1, <1>2 DEF Solo
  <1>5. QED
    BY <1>3, <1>4

\* A session starts: `ready` is under way, and hello, but nothing is
\* subscribed and the socket is not ready yet.
LEMMA OpenedStep ==
    ASSUME KInv, NEW s \in Sockets, Opened(s)
    PROVE  IdsUnique' /\ AckThenState' /\ RoomsFollow'
  <1> DEFINE hello == [kind |-> "hello"]
             ready == <<[kind |-> "ready"]>>
  <1>0. /\ up \in [Sockets -> Seq(UpSet)] /\ down \in [Sockets -> Seq(Replies)]
        /\ ws \in Sockets \cup {None} /\ subs[s] = {} /\ promise[s] = "pending"
        /\ sess \in [Sockets -> {"none", "live", "gone"}]
    BY DEF Opened, KInv, SInv, TypeOK, NewSockets, UpSet
  <1>1. /\ UNCHANGED <<pending, nextId, ws, wired, promise, joined, subs>>
        /\ sess' = [sess EXCEPT ![s] = "live"] /\ down' = [down EXCEPT ![s] = ready]
        /\ s \notin wired => up' = up
        /\ \/ up' = up \/ up' = [up EXCEPT ![s] = <<hello>>]
           \/ ws \in Sockets /\ up' = [up EXCEPT ![ws] = up[ws] \o <<hello>>]
    BY <1>0 DEF Opened, client, Sent, isConnected
  <1>2. DOMAIN ready = {1} /\ ready[1].kind = "ready"
    OBVIOUS
  <1>3. down'[s] = ready /\ \A t \in Sockets : t # s => down'[t] = down[t] /\ sess'[t] = sess[t]
    BY <1>0, <1>1
  <1> HIDE DEF ready
  <1>4. NoNewRequest(up, up')
    <2> USE DEF NoNewRequest
    <2> DEFINE hs == <<hello>>
    <2>0. hs \in Seq(UpSet) /\ DOMAIN hs = {1} /\ hs[1].kind = "hello"
      BY RequestFrames
    <2>1. CASE up' = up
      BY <2>1
    <2>2. CASE up' = [up EXCEPT ![s] = hs]
      <3> HIDE DEF hs
      <3>1. up'[s] = hs /\ \A t \in Sockets : t # s => up'[t] = up[t]
        BY <1>0, <2>2
      <3>2. QED
        BY <2>0, <3>1
    <2>3. CASE ws \in Sockets /\ up' = [up EXCEPT ![ws] = up[ws] \o hs]
      <3> HIDE DEF hs
      <3> DEFINE u == up[ws] \o hs
      <3>1. up'[ws] = u /\ \A t \in Sockets : t # ws => up'[t] = up[t]
        BY <1>0, <2>3
      <3>2. \A k \in DOMAIN u :
               \/ k \in DOMAIN up[ws]
               \/ \E i \in DOMAIN hs : k = i + Len(up[ws]) /\ u[k] = hs[i]
        BY <1>0, <2>0, <2>3, Joined
      <3>3. \A k \in DOMAIN up[ws] : k \in DOMAIN u /\ u[k] = up[ws][k]
        BY <1>0, <2>0, <2>3, Joined
      <3> HIDE DEF u
      <3>4. ASSUME NEW k \in DOMAIN u
            PROVE  u[k].kind = "hello" \/ \E j \in DOMAIN up[ws] : u[k] = up[ws][j]
        BY <2>0, <3>2, <3>3
      <3>5. QED
        BY <3>1, <3>4
    <2>4. QED
      BY <1>1, <2>1, <2>2, <2>3
  <1>5. IdsUnique' /\ AckThenState'
    <2>1. NoNewReply(down, down')
      BY <1>2, <1>3 DEF NoNewReply
    <2>2. pending \in SUBSET pending /\ IdsOf(pending, nextId, up, down) /\ AcksOf(pending, down)
      BY DEF KInv, IdsUnique, AckThenState
    <2>3. IdsOf(pending, nextId, up', down') /\ AcksOf(pending, down')
      BY <2>1, <2>2, <1>4, IdsLess
    <2>4. QED
      BY <2>3, <1>1 DEF IdsUnique, AckThenState
  <1>6. RoomsFollow'
    <2> SUFFICES ASSUME Solo', NEW r \in Rooms
                 PROVE  AgreesOn(r, down'[ws], up'[ws], subs[ws], joined, promise[ws])
      BY <1>1 DEF RoomsFollow
    <2>0. ws \in Sockets /\ wired = {ws} /\ sess'[ws] = "live"
      BY <1>0, <1>1 DEF Solo
    <2>1. CASE ws = s
      <3>1. \A i \in DOMAIN down'[s] : down'[s][i].kind = "ready"
        BY <1>2, <1>3
      <3>2. \A i \in DOMAIN down'[s] : down'[s][i] # State(r, r \notin subs[s])
        BY <3>1, ReplyFrames
      <3>3. QED
        BY <3>2, <2>1, <1>0 DEF AgreesOn
    <2>2. CASE ws # s
      <3>1. Solo /\ up' = up /\ down'[ws] = down[ws]
        BY <2>0, <2>2, <1>1, <1>3 DEF Solo
      <3>2. QED
        BY <3>1 DEF KInv, RoomsFollow
    <2>3. QED
      BY <2>1, <2>2
  <1>7. QED
    BY <1>5, <1>6

\* A call: its request is under way.
LEMMA CallStep ==
    ASSUME KInv, NEW kind \in Kinds, NEW room \in Rooms, Call(kind, room)
    PROVE  IdsUnique' /\ AckThenState' /\ RoomsFollow'
  <1> DEFINE qs == <<[kind |-> kind, room |-> room]>>
  <1>0. /\ TypeOK /\ up \in [Sockets -> Seq(UpSet)] /\ down \in [Sockets -> Seq(Replies)]
        /\ nextId \in Nat
    BY DEF KInv, SInv, TypeOK, UpSet
  <1>1. /\ isConnected /\ Request(qs)
        /\ UNCHANGED <<ws, wired, promise, joined, sess, subs, down>>
    BY DEF Call, daemon
  <1>2. qs \in Seq(Wanted)
    BY DEF Wanted
  <1> HIDE DEF qs
  <1>3. IdsUnique' /\ AckThenState'
    BY <1>0, <1>1, <1>2, IdsRequest DEF KInv, IdsUnique, AckThenState
  <1>4. RoomsFollow'
    <2> SUFFICES ASSUME Solo, NEW r \in Rooms
                 PROVE  AgreesOn(r, down[ws], up'[ws], subs[ws], joined, promise[ws])
      BY <1>1 DEF RoomsFollow, Solo
    <2>1. /\ AgreesOn(r, down[ws], up[ws], subs[ws], joined, promise[ws])
          /\ ws \in Sockets /\ sess[ws] = "live"
      BY DEF KInv, SInv, TypeOK, RoomsFollow, Solo
    <2> PICK a : a = Asked(qs)
      OBVIOUS
    <2>2. up' = [up EXCEPT ![ws] = up[ws] \o a]
      BY <2>1, <1>0, <1>1, <1>2, RequestStep
    <2>3. a \in Seq(UpSet) /\ up[ws] \in Seq(UpSet)
      <3>1. a \in Seq(Requests)
        BY <1>0, <1>2, AskedFrames
      <3>2. QED
        BY <3>1, <2>1, <1>0 DEF UpSet
    <2>4. up'[ws] = up[ws] \o a
      BY <2>1, <2>2, <1>0
    <2>5. JoinIn(up[ws], r) => JoinIn(up[ws] \o a, r)
      BY <2>3, JoinAppended
    <2>6. QED
      BY <2>1, <2>4, <2>5, AgreeMono
  <1>5. QED
    BY <1>3, <1>4

\* The states of the subscribed rooms are sent.
LEMMA PeerEventStep ==
    ASSUME KInv, NEW s \in Sockets, PeerEvent(s)
    PROVE  IdsUnique' /\ AckThenState' /\ RoomsFollow'
  <1>0. /\ up \in [Sockets -> Seq(UpSet)] /\ down \in [Sockets -> Seq(Replies)]
        /\ subs \in [Sockets -> SUBSET Rooms] /\ ws \in Sockets \cup {None}
    BY DEF KInv, SInv, TypeOK, UpSet
  <1>1. PICK z : z = SetToSeq({State(r, TRUE) : r \in subs[s]})
    OBVIOUS
  <1>2. /\ down' = [down EXCEPT ![s] = down[s] \o z]
        /\ UNCHANGED <<pending, nextId, ws, wired, promise, joined, sess, subs, up>>
    BY <1>1 DEF PeerEvent, Reply, client, daemon
  <1>3. z \in Seq(Replies) /\ \A i \in DOMAIN z : \E r \in subs[s] : z[i] = State(r, TRUE)
    <2>1. subs[s] \in SUBSET Rooms
      BY <1>0
    <2>2. QED
      BY <2>1, <1>1, PeerStates
  <1>4. \A i \in DOMAIN z : z[i].kind = "state"
    BY <1>3 DEF State
  <1>5. IdsUnique' /\ AckThenState'
    BY <1>0, <1>2, <1>3, <1>4, IdsAppend DEF KInv, IdsUnique, AckThenState
  <1>6. RoomsFollow'
    <2> SUFFICES ASSUME Solo, NEW r \in Rooms
                 PROVE  AgreesOn(r, down'[ws], up[ws], subs[ws], joined, promise[ws])
      BY <1>2 DEF RoomsFollow, Solo
    <2>1. /\ AgreesOn(r, down[ws], up[ws], subs[ws], joined, promise[ws])
          /\ ws \in Sockets
      BY <1>0 DEF KInv, RoomsFollow, Solo
    <2>2. CASE ws = s
      <3>1. \A i \in DOMAIN z : z[i] # State(r, r \notin subs[s])
        <4>1. SUFFICES ASSUME NEW i \in DOMAIN z, z[i] = State(r, r \notin subs[s]) PROVE FALSE
          OBVIOUS
        <4>2. PICK t \in subs[s] : z[i] = State(t, TRUE)
          BY <1>3
        <4>3. t = r
          <5>1. State(t, TRUE).room = t /\ State(r, r \notin subs[s]).room = r
            BY ReplyFrames
          <5>2. QED
            BY <5>1, <4>1, <4>2
        <4>4. QED
          BY <4>1, <4>2, <4>3, TwoStates
      <3>2. down'[s] = down[s] \o z /\ down[s] \in Seq(Replies)
        BY <1>0, <1>2
      <3>3. AgreesOn(r, down[s] \o z, up[s], subs[s], joined, promise[s])
        BY <2>1, <2>2, <3>1, <3>2, <1>3, AgreeAppend
      <3>4. QED
        BY <3>2, <3>3, <2>2
    <2>3. CASE ws # s
      BY <2>1, <2>3, <1>0, <1>2
    <2>4. QED
      BY <2>2, <2>3
  <1>7. QED
    BY <1>5, <1>6

\* Every step keeps the invariant.
LEMMA KInvStep == KInv /\ [Next]_vars => KInv'
  <1> SUFFICES ASSUME KInv, [Next]_vars PROVE KInv'
    OBVIOUS
  <1>0. SUFFICES IdsUnique' /\ AckThenState' /\ RoomsFollow'
    BY SInvStep DEF KInv
  <1>1. CASE UNCHANGED vars
    BY <1>1, KInvFrame DEF vars, client, daemon
  <1>2. CASE connect
    BY <1>2, KInvFrame DEF connect, daemon
  <1>3. CASE ProbeFails
    BY <1>3, KInvFrame DEF ProbeFails, daemon
  <1>4. CASE disconnect
    <2>1. ws' = None /\ pending' = {} /\ UNCHANGED <<nextId, up, down>>
      BY <1>4 DEF disconnect, cleanupSocket
    <2>2. QED
      BY <2>1, IdsKept DEF RoomsFollow, Solo
  <1>5. ASSUME NEW s \in Sockets, PortResolved(s) PROVE IdsUnique' /\ AckThenState' /\ RoomsFollow'
    BY <1>5, NewSocketStep DEF PortResolved
  <1>6. ASSUME NEW s \in Sockets, TimerFires(s) PROVE IdsUnique' /\ AckThenState' /\ RoomsFollow'
    BY <1>6, NewSocketStep DEF TimerFires
  <1>7. ASSUME NEW s \in Sockets, Noticed(s) PROVE IdsUnique' /\ AckThenState' /\ RoomsFollow'
    BY <1>7, ClosedStep DEF Noticed
  <1>8. ASSUME NEW s \in Sockets, Refused(s) PROVE IdsUnique' /\ AckThenState' /\ RoomsFollow'
    BY <1>8, ClosedStep DEF Refused
  <1>9. ASSUME NEW s \in Sockets, Drop(s) PROVE IdsUnique' /\ AckThenState' /\ RoomsFollow'
    BY <1>9, EndedStep DEF Drop
  <1>10. ASSUME NEW s \in Sockets, DaemonEnds(s) PROVE IdsUnique' /\ AckThenState' /\ RoomsFollow'
    BY <1>10, EndedStep DEF DaemonEnds
  <1>11. ASSUME NEW q \in pending, Timeout(q) PROVE IdsUnique' /\ AckThenState' /\ RoomsFollow'
    BY <1>11, KInvFrame DEF Timeout, daemon
  <1>12. QED
    BY <1>1, <1>2, <1>3, <1>4, <1>5, <1>6, <1>7, <1>8, <1>9, <1>10, <1>11,
       OpenedStep, CallStep, PeerEventStep, HandlesStep, FrameStep DEF Next, EventLoop

\* When the client has one socket, that socket is ready and nothing is under
\* way, the rooms that the client shows are the rooms that the daemon routes to
\* it: for any rooms and any number of calls, answers, peer events and drops.
THEOREM RoomsAlwaysAgree == Spec => []RoomsAgree
  <1>1. KInv => RoomsAgree
    <2> SUFFICES ASSUME KInv, wired = {ws}, Up, up[ws] = <<>>, down[ws] = <<>>
                 PROVE  joined = subs[ws]
      BY DEF RoomsAgree
    <2>1. ws \in Sockets /\ joined \subseteq Rooms /\ subs[ws] \subseteq Rooms
      BY DEF KInv, SInv, TypeOK, Up
    <2>2. ASSUME NEW r \in Rooms PROVE r \in joined <=> r \in subs[ws]
      <3>1. AgreesOn(r, down[ws], up[ws], subs[ws], joined, promise[ws])
        BY DEF KInv, RoomsFollow, Solo, Up
      <3>2. DOMAIN down[ws] = {} /\ DOMAIN up[ws] = {} /\ promise[ws] = "resolved"
        BY DEF Up
      <3>3. ~JoinIn(up[ws], r)
        BY <3>2 DEF JoinIn
      <3>4. QED
        BY <3>1, <3>2, <3>3 DEF AgreesOn
    <2>3. QED
      BY <2>1, <2>2
  <1>2. QED
    BY <1>1, KInvInit, KInvStep, PTL DEF Spec

-----------------------------------------------------------------------------
(***************************************************************************)
(* The CLI host, for any peers and any limits that CliState allows.        *)
(***************************************************************************)

Cli == INSTANCE CliHost

-----------------------------------------------------------------------------
\* A reader that runs has its handle.
HandlesComplete ==
    \A p \in Peers : /\ running[p] <= 1
                     /\ running[p] > 0 => p \in readers
                     /\ at = Cli!Done => running[p] = 0

\* An incoming connection never has the wire id that its peer advertises.
IncomingAreNew ==
    /\ \A w \in inbound : w[2] # 0
    /\ \A i \in DOMAIN accepted : accepted[i][2] # 0
    /\ \A w \in Cli!Wires : at = <<"accept", w>> => w[2] # 0

\* An advertised wire id is engaged by the dial that runs or one that
\* succeeded, and mapped to its peer by one that succeeded.
DialsKnown ==
    /\ \A q \in Peers : Cli!Adv(q) \in engaged => at = <<"dial", q>> \/ q \in held
    /\ \A q \in Peers : Cli!Adv(q) \in wire_to_app => q \in held

\* What waits in a queue of events: of every connect event of a peer its
\* disconnect event, and a disconnect event of the peer at all.
FollowedIn(s, q) ==
    \A i \in DOMAIN s : s[i] = <<"connected", q>> =>
        \E j \in DOMAIN s : j > i /\ s[j] = <<"disconnected", q>>
WaitsIn(s, q) == \E i \in DOMAIN s : s[i] = <<"disconnected", q>>

\* A connect event of a peer the node no longer has is followed by the
\* disconnect event, which therefore is never overwritten before it.
EventsFollow == \A p \in Peers : link[p] # "none" \/ FollowedIn(nodeEvents, p)

\* A peer counts as connected while the node has it or its disconnect waits or
\* was overwritten.
ConnectedIsKnown ==
    \A p \in connected : link[p] # "none" \/ WaitsIn(nodeEvents, p) \/ p \in missed

CInv == Cli!TypeOK /\ HandlesComplete /\ IncomingAreNew /\ DialsKnown /\ EventsFollow
              /\ ConnectedIsKnown

\* The events of the node that the loop looks at.
EventSet == {"connected", "disconnected"} \X Peers

\* A command starts with nothing known of its peers.
LEMMA CInvInit == Cli!Init => CInv
  <1> SUFFICES ASSUME Cli!Init PROVE CInv
    OBVIOUS
  <1>0. Cli!Tasks.scans \in BOOLEAN
    <2>1. Cli!cmd_serve.scans \in BOOLEAN /\ Cli!cmd_chat.scans \in BOOLEAN
      BY DEF Cli!Init, Cli!cmd_serve, Cli!cmd_chat
    <2>2. Cli!cmd_join(command = "join_chat").scans \in BOOLEAN
      BY DEF Cli!cmd_join
    <2>3. \/ Cli!Tasks = Cli!cmd_serve
          \/ Cli!Tasks = Cli!cmd_chat
          \/ Cli!Tasks = Cli!cmd_join(command = "join_chat")
      BY Zenon DEF Cli!Tasks
    <2>4. QED
      BY <2>1, <2>2, <2>3
  <1>1. Cli!TypeOK
    BY <1>0, CliAssumption DEF Cli!Init, Cli!TypeOK, Cli!Idle
  <1>2. EventsFollow
    BY DEF Cli!Init, EventsFollow, FollowedIn
  <1>3. QED
    BY <1>1, <1>2 DEF Cli!Init, CInv, HandlesComplete, IncomingAreNew, DialsKnown,
                ConnectedIsKnown, Cli!Idle, Cli!Done

\* A new event goes to the end.
LEMMA EventAppended ==
    ASSUME NEW s \in Seq(EventSet), NEW e \in EventSet
    PROVE  /\ Append(s, e) \in Seq(EventSet)
           /\ DOMAIN Append(s, e) = DOMAIN s \cup {Len(s) + 1}
           /\ \A i \in DOMAIN s : Append(s, e)[i] = s[i] /\ i < Len(s) + 1
           /\ Append(s, e)[Len(s) + 1] = e
  OBVIOUS

\* The first event is taken; the others keep their order.
LEMMA EventTaken ==
    ASSUME NEW S, NEW s \in Seq(S), s # <<>>
    PROVE  /\ Tail(s) \in Seq(S) /\ Head(s) = s[1] /\ Head(s) \in S
           /\ \A i \in DOMAIN s : i = 1 \/ (i - 1 \in DOMAIN Tail(s) /\ Tail(s)[i - 1] = s[i])
           /\ \A i \in DOMAIN Tail(s) : i + 1 \in DOMAIN s /\ Tail(s)[i] = s[i + 1]
           /\ DOMAIN s \subseteq Int /\ DOMAIN Tail(s) \subseteq Int /\ 1 \in DOMAIN s
           /\ \A i \in DOMAIN s : i >= 1
  <1> DEFINE t == Tail(s)
  <1>1. t \in Seq(S) /\ Len(t) = Len(s) - 1 /\ Len(s) \in Nat \ {0}
    OBVIOUS
  <1>2. \A i \in 1..Len(t) : t[i] = s[i + 1]
    OBVIOUS
  <1>3. DOMAIN t = 1..Len(t) /\ DOMAIN s = 1..Len(s)
    OBVIOUS
  <1>4. Head(s) = s[1] /\ Head(s) \in S
    OBVIOUS
  <1> HIDE DEF t
  <1>5. QED
    BY <1>1, <1>2, <1>3, <1>4 DEF t

\* An event at the end keeps what waits, and answers the connects before it.
LEMMA EndStep ==
    ASSUME NEW s \in Seq(EventSet), NEW e \in EventSet
    PROVE  /\ Append(s, e) \in Seq(EventSet) /\ Len(Append(s, e)) = Len(s) + 1
           /\ \A q : FollowedIn(s, q) /\ e # <<"connected", q>> => FollowedIn(Append(s, e), q)
           /\ \A q : WaitsIn(s, q) => WaitsIn(Append(s, e), q)
           /\ \A q : e = <<"disconnected", q>> =>
                     FollowedIn(Append(s, e), q) /\ WaitsIn(Append(s, e), q)
  <1> DEFINE t == Append(s, e)
  <1>1. /\ t \in Seq(EventSet) /\ Len(t) = Len(s) + 1
        /\ DOMAIN t = DOMAIN s \cup {Len(s) + 1}
        /\ \A i \in DOMAIN s : t[i] = s[i] /\ i < Len(s) + 1
        /\ t[Len(s) + 1] = e
    BY EventAppended
  <1> HIDE DEF t
  <1>2. ASSUME NEW q, FollowedIn(s, q), e # <<"connected", q>> PROVE FollowedIn(t, q)
    BY <1>1, <1>2 DEF FollowedIn
  <1>3. ASSUME NEW q, WaitsIn(s, q) PROVE WaitsIn(t, q)
    BY <1>1, <1>3 DEF WaitsIn
  <1>4. ASSUME NEW q, e = <<"disconnected", q>> PROVE FollowedIn(t, q) /\ WaitsIn(t, q)
    <2>1. e # <<"connected", q>>
      BY <1>4
    <2>2. QED
      BY <1>1, <1>4, <2>1 DEF FollowedIn, WaitsIn
  <1>5. QED
    BY <1>1, <1>2, <1>3, <1>4 DEF t

\* Without the first event every connect is still answered, and what waits is
\* the same but for that event.
LEMMA HeadStep ==
    ASSUME NEW s \in Seq(EventSet), s # <<>>
    PROVE  /\ Tail(s) \in Seq(EventSet) /\ Len(Tail(s)) = Len(s) - 1
           /\ Head(s) \in EventSet
           /\ \A q : FollowedIn(s, q) => FollowedIn(Tail(s), q)
           /\ \A q : WaitsIn(s, q) => WaitsIn(Tail(s), q) \/ Head(s) = <<"disconnected", q>>
           /\ \A q : FollowedIn(s, q) /\ Head(s) = <<"connected", q>> => WaitsIn(Tail(s), q)
  <1> DEFINE t == Tail(s)
  <1>1. /\ t \in Seq(EventSet) /\ Len(t) = Len(s) - 1 /\ Head(s) = s[1] /\ Head(s) \in EventSet
        /\ \A i \in DOMAIN s : i = 1 \/ (i - 1 \in DOMAIN t /\ t[i - 1] = s[i])
        /\ \A i \in DOMAIN t : i + 1 \in DOMAIN s /\ t[i] = s[i + 1]
        /\ DOMAIN s \subseteq Int /\ DOMAIN t \subseteq Int /\ 1 \in DOMAIN s
        /\ \A i \in DOMAIN s : i >= 1
    <2>1. Len(t) = Len(s) - 1
      OBVIOUS
    <2>2. QED
      BY <2>1, EventTaken
  <1> HIDE DEF t
  <1>2. ASSUME NEW q, FollowedIn(s, q) PROVE FollowedIn(t, q)
    <2> SUFFICES ASSUME NEW i \in DOMAIN t, t[i] = <<"connected", q>>
                 PROVE  \E j \in DOMAIN t : j > i /\ t[j] = <<"disconnected", q>>
      BY DEF FollowedIn
    <2>1. PICK j \in DOMAIN s : j > i + 1 /\ s[j] = <<"disconnected", q>>
      BY <1>1, <1>2 DEF FollowedIn
    <2>2. j - 1 \in DOMAIN t /\ j - 1 > i /\ t[j - 1] = <<"disconnected", q>>
      BY <1>1, <2>1
    <2>3. QED
      BY <2>2
  <1>3. ASSUME NEW q, WaitsIn(s, q) PROVE WaitsIn(t, q) \/ Head(s) = <<"disconnected", q>>
    <2>1. PICK i \in DOMAIN s : s[i] = <<"disconnected", q>>
      BY <1>3 DEF WaitsIn
    <2>2. QED
      BY <1>1, <2>1 DEF WaitsIn
  <1>4. ASSUME NEW q, FollowedIn(s, q), Head(s) = <<"connected", q>> PROVE WaitsIn(t, q)
    <2>1. PICK j \in DOMAIN s : j > 1 /\ s[j] = <<"disconnected", q>>
      BY <1>1, <1>4 DEF FollowedIn
    <2>2. j - 1 \in DOMAIN t /\ t[j - 1] = <<"disconnected", q>>
      BY <1>1, <2>1
    <2>3. QED
      BY <2>2 DEF WaitsIn
  <1>5. QED
    BY <1>1, <1>2, <1>3, <1>4 DEF t

\* The types of the node's events.
EventTypes == /\ nodeEvents \in Seq(EventSet) /\ Len(nodeEvents) <= EventCap
              /\ missed \subseteq Peers /\ EventCap \in Nat \ {0}

\* The oldest event goes; a disconnect among them is counted as missed.
LEMMA OverwriteStep ==
    ASSUME EventTypes, nodeEvents # <<>>
    PROVE  /\ missed \subseteq Cli!Overwritten /\ Cli!Overwritten \subseteq Peers
           /\ \A q : Head(nodeEvents) = <<"disconnected", q>> => q \in Cli!Overwritten
  <1>1. Head(nodeEvents) \in EventSet
    BY HeadStep DEF EventTypes
  <1> DEFINE e == Head(nodeEvents)
  <1> HIDE DEF e
  <1>2. e \in EventSet
    BY <1>1 DEF e
  <1>3. e[2] \in Peers /\ \A q : e = <<"disconnected", q>> => e[1] = "disconnected" /\ e[2] = q
    BY <1>2 DEF EventSet
  <1>4. Cli!Overwritten = IF e[1] = "disconnected" THEN missed \cup {e[2]} ELSE missed
    BY DEF Cli!Overwritten, e
  <1>5. QED
    BY <1>3, <1>4 DEF EventTypes, e

\* An event is published, at the cost of the oldest when there is no room.
LEMMA PublishStep ==
    ASSUME NEW e \in EventSet, Cli!Publish(e), EventTypes
    PROVE  /\ nodeEvents' \in Seq(EventSet) /\ Len(nodeEvents') <= EventCap
           /\ missed' \subseteq Peers /\ missed \subseteq missed'
           /\ \A q : FollowedIn(nodeEvents, q) /\ e # <<"connected", q>> => FollowedIn(nodeEvents', q)
           /\ \A q : WaitsIn(nodeEvents, q) => WaitsIn(nodeEvents', q) \/ q \in missed'
           /\ \A q : e = <<"disconnected", q>> =>
                     FollowedIn(nodeEvents', q) /\ WaitsIn(nodeEvents', q)
  <1>1. CASE Len(nodeEvents) < EventCap
    <2>1. nodeEvents' = Append(nodeEvents, e) /\ missed' = missed
      BY <1>1 DEF Cli!Publish
    <2>2. Len(nodeEvents) \in Nat
      BY DEF EventTypes
    <2>3. QED
      BY <1>1, <2>1, <2>2, EndStep DEF EventTypes
  <1>2. CASE ~(Len(nodeEvents) < EventCap)
    <2> DEFINE t == Tail(nodeEvents)
    <2>1. nodeEvents' = Append(t, e) /\ missed' = Cli!Overwritten
      BY <1>2 DEF Cli!Publish
    <2>2. nodeEvents # <<>> /\ Len(nodeEvents) \in Nat
      BY <1>2 DEF EventTypes
    <2>3. /\ t \in Seq(EventSet) /\ Len(t) = Len(nodeEvents) - 1
          /\ \A q : FollowedIn(nodeEvents, q) => FollowedIn(t, q)
          /\ \A q : WaitsIn(nodeEvents, q) =>
                    WaitsIn(t, q) \/ Head(nodeEvents) = <<"disconnected", q>>
      BY <2>2, HeadStep DEF EventTypes
    <2> HIDE DEF t
    <2>4. /\ nodeEvents' \in Seq(EventSet) /\ Len(nodeEvents') = Len(t) + 1
          /\ \A q : FollowedIn(t, q) /\ e # <<"connected", q>> => FollowedIn(nodeEvents', q)
          /\ \A q : WaitsIn(t, q) => WaitsIn(nodeEvents', q)
          /\ \A q : e = <<"disconnected", q>> =>
                    FollowedIn(nodeEvents', q) /\ WaitsIn(nodeEvents', q)
      BY <2>1, <2>3, EndStep
    <2>5. /\ missed \subseteq missed' /\ missed' \subseteq Peers
          /\ \A q : Head(nodeEvents) = <<"disconnected", q>> => q \in missed'
      BY <2>1, <2>2, OverwriteStep
    <2>6. Len(nodeEvents') <= EventCap
      BY <2>2, <2>3, <2>4 DEF EventTypes
    <2>7. QED
      BY <2>3, <2>4, <2>5, <2>6
  <1>3. QED
    BY <1>1, <1>2

\* A wire id is a pair.
LEMMA WirePair ==
    ASSUME NEW w \in Cli!Wires
    PROVE  w[1] \in Peers /\ w = <<w[1], w[2]>> /\ (w[2] # 0 => \A p : w # Cli!Adv(p))
  BY DEF Cli!Wires, Cli!Adv

\* The node takes a connection, or knows the peer.
LEMMA RegisterStep ==
    ASSUME NEW p \in Peers, Cli!Register(p),
           link \in [Peers -> {"none", "live", "dead"}], EventTypes, EventsFollow
    PROVE  /\ link' \in [Peers -> {"none", "live", "dead"}]
           /\ nodeEvents' \in Seq(EventSet) /\ Len(nodeEvents') <= EventCap
           /\ missed' \subseteq Peers /\ missed \subseteq missed'
           /\ EventsFollow' /\ link'[p] # "none"
           /\ \A q \in Peers : link[q] # "none" => link'[q] # "none"
           /\ \A q : WaitsIn(nodeEvents, q) => WaitsIn(nodeEvents', q) \/ q \in missed'
  <1>1. CASE link[p] = "none"
    <2> DEFINE e == <<"connected", p>>
    <2>0. e \in EventSet
      BY DEF EventSet
    <2>1. link' = [link EXCEPT ![p] = "live"] /\ Cli!Publish(e)
      BY <1>1 DEF Cli!Register
    <2>2. /\ nodeEvents' \in Seq(EventSet) /\ Len(nodeEvents') <= EventCap
          /\ missed' \subseteq Peers /\ missed \subseteq missed'
          /\ \A q : FollowedIn(nodeEvents, q) /\ e # <<"connected", q>> => FollowedIn(nodeEvents', q)
          /\ \A q : WaitsIn(nodeEvents, q) => WaitsIn(nodeEvents', q) \/ q \in missed'
      BY <2>0, <2>1, PublishStep
    <2>3. /\ link' \in [Peers -> {"none", "live", "dead"}] /\ link'[p] # "none"
          /\ \A q \in Peers : link[q] # "none" => link'[q] # "none"
          /\ \A q \in Peers : q # p => link'[q] = link[q]
      BY <2>1
    <2>4. \A q : q # p => e # <<"connected", q>>
      OBVIOUS
    <2> HIDE DEF e
    <2>5. EventsFollow'
      BY <2>2, <2>3, <2>4 DEF EventsFollow
    <2>6. QED
      BY <2>2, <2>3, <2>5
  <1>2. CASE link[p] # "none"
    <2>1. UNCHANGED <<link, nodeEvents, missed>>
      BY <1>2 DEF Cli!Register
    <2>2. QED
      BY <1>2, <2>1 DEF EventsFollow, EventTypes
  <1>3. QED
    BY <1>1, <1>2

\* A reader is started unless there is a handle.
LEMMA SpawnStep ==
    ASSUME NEW p \in Peers, Cli!SpawnReader(p), HandlesComplete, at # Cli!Done, at' # Cli!Done,
           running \in [Peers -> 0..2], readers \subseteq Peers
    PROVE  HandlesComplete' /\ running' \in [Peers -> 0..2] /\ readers' \subseteq Peers
  <1>1. CASE p \notin readers /\ Cli!Reads
    <2>1. running' = [running EXCEPT ![p] = running[p] + 1] /\ readers' = readers \cup {p}
      BY <1>1 DEF Cli!SpawnReader
    <2>2. running[p] = 0
      BY <1>1 DEF HandlesComplete
    <2>3. QED
      BY <2>1, <2>2 DEF HandlesComplete
  <1>2. CASE ~(p \notin readers /\ Cli!Reads)
    BY <1>2 DEF Cli!SpawnReader, HandlesComplete
  <1>3. QED
    BY <1>1, <1>2

\* Every step keeps CInv.
LEMMA CInvStep == CInv /\ [Cli!Next]_(Cli!vars) => CInv'
  <1> SUFFICES ASSUME CInv, [Cli!Next]_(Cli!vars) PROVE CInv'
    OBVIOUS
  <1>0. /\ Cli!TypeOK /\ HandlesComplete /\ IncomingAreNew /\ DialsKnown /\ EventsFollow
        /\ ConnectedIsKnown /\ MaxRetries \in Nat \ {0} /\ MaxInbound \in Nat
        /\ PeerCap \in Nat \ {0} /\ MaxLosses \in Nat
        /\ EventTypes
    BY CliAssumption DEF CInv, Cli!TypeOK, EventSet, EventTypes
  <1> USE DEF Cli!Idle, Cli!Sending, Cli!Done
  <1>1. ASSUME NEW p \in Peers, Cli!ScanReports(p) PROVE CInv'
    <2>1. Cli!TypeOK'
      BY SMTT(30), <1>0, <1>1 DEF Cli!ScanReports, Cli!TypeOK, Cli!setting, Cli!tracker, Cli!node
    <2>2. QED
      BY <2>1, <1>0, <1>1
         DEF Cli!ScanReports, CInv, HandlesComplete, IncomingAreNew, DialsKnown,
         EventsFollow, ConnectedIsKnown, Cli!setting, Cli!tracker, Cli!node
  <1>2. ASSUME Cli!ScanForgets \/ Cli!ScanFails PROVE CInv'
    <2>1. Cli!TypeOK'
      BY <1>0, <1>2
         DEF Cli!ScanForgets, Cli!ScanFails, Cli!TypeOK, Cli!setting, Cli!tracker, Cli!node
    <2>2. QED
      BY <2>1, <1>0, <1>2
         DEF Cli!ScanForgets, Cli!ScanFails, CInv, HandlesComplete, IncomingAreNew,
         DialsKnown, EventsFollow, ConnectedIsKnown, Cli!setting, Cli!tracker, Cli!node
  <1>3. ASSUME NEW p \in Peers, Cli!RetryDue(p) PROVE CInv'
    <2>1. Cli!TypeOK'
      BY <1>0, <1>3 DEF Cli!RetryDue, Cli!TypeOK, Cli!setting, Cli!tracker, Cli!node
    <2>2. QED
      BY <2>1, <1>0, <1>3 DEF Cli!RetryDue, CInv, HandlesComplete, IncomingAreNew, DialsKnown,
         EventsFollow, ConnectedIsKnown, Cli!setting, Cli!tracker, Cli!node
  <1>4. ASSUME NEW p \in Peers, Cli!Incoming(p) PROVE CInv'
    <2> DEFINE w == <<p, incoming[p] + 1>>
    <2>0. /\ incoming[p] \in 0..MaxInbound /\ incoming[p] < MaxInbound
          /\ incoming' = [incoming EXCEPT ![p] = incoming[p] + 1]
          /\ UNCHANGED <<Cli!setting, Cli!scanner, at, Cli!tracker, readers, Cli!node, held, losses>>
      BY <1>0, <1>4 DEF Cli!Incoming, Cli!TypeOK
    <2>1. w \in Cli!Wires /\ w[2] # 0
      BY <2>0, <1>0 DEF Cli!Wires
    <2>2. accepted' = Append(accepted, w) /\ accepted \in Seq(Cli!Wires)
      BY <1>0, <1>4 DEF Cli!Incoming, Cli!TypeOK
    <2>a. incoming' \in [Peers -> 0..MaxInbound]
      BY <2>0, <1>0 DEF Cli!TypeOK
    <2> HIDE DEF w
    <2>3. /\ accepted' \in Seq(Cli!Wires)
          /\ \A i \in DOMAIN accepted' :
                \/ i \in DOMAIN accepted /\ accepted'[i] = accepted[i]
                \/ accepted'[i] = w
      BY <2>1, <2>2
    <2>4. Cli!TypeOK'
      BY <2>0, <2>a, <2>3, <1>0 DEF Cli!TypeOK, Cli!setting, Cli!scanner, Cli!tracker, Cli!node
    <2>5. IncomingAreNew'
      BY <2>0, <2>1, <2>3, <1>0 DEF IncomingAreNew, Cli!tracker
    <2>6. QED
      BY <2>4, <2>5, <1>0, <1>4 DEF Cli!Incoming, CInv, HandlesComplete, DialsKnown,
         EventsFollow, ConnectedIsKnown, Cli!tracker, Cli!node
  <1>5. ASSUME Cli!TakePeer PROVE CInv'
    <2> DEFINE p == Head(found)
    <2>1. found \in Seq(Peers) /\ found # <<>> /\ found' = Tail(found)
      BY <1>0, <1>5 DEF Cli!TakePeer, Cli!TypeOK
    <2>2. p \in Peers /\ found' \in Seq(Peers) /\ Len(found') <= Len(found)
      BY <2>1
    <2>a. UNCHANGED <<Cli!setting, scanning, seen, waiting, unsee, accepted, inbound, connected,
                      wire_to_app, readers, Cli!node, held, incoming, losses>>
      BY <1>5 DEF Cli!TakePeer
    <2>3. Cli!Adv(p) \in Cli!Wires
      BY <2>2, <1>0 DEF Cli!Wires, Cli!Adv
    <2>4. CASE Cli!should_skip_dial(Cli!Adv(p))
      <3>1. UNCHANGED <<at, engaged, attempts>>
        BY <2>4, <1>5 DEF Cli!TakePeer
      <3>2. Cli!TypeOK'
        <4>1. Len(found') <= PeerCap
          BY <2>1, <2>2, <1>0 DEF Cli!TypeOK
        <4>2. QED
          BY <4>1, <3>1, <2>a, <2>2, <1>0 DEF Cli!TypeOK, Cli!setting, Cli!node
      <3>3. QED
        BY <3>1, <3>2, <1>0, <1>5 DEF Cli!TakePeer, CInv, HandlesComplete, IncomingAreNew,
           DialsKnown, EventsFollow, ConnectedIsKnown, Cli!setting, Cli!node
    <2>5. CASE ~Cli!should_skip_dial(Cli!Adv(p))
      <3>1. /\ at' = <<"dial", p>> /\ at = Cli!Idle
            /\ engaged' = engaged \cup {Cli!Adv(p)}
            /\ attempts' = [attempts EXCEPT ![p] = attempts[p] + 1]
        BY <2>5, <1>5 DEF Cli!TakePeer, Cli!bump_attempt
      <3>2. ~(attempts[p] >= MaxRetries)
        BY <2>5 DEF Cli!should_skip_dial, Cli!Adv
      <3> HIDE DEF p
      <3>3. attempts' \in [Peers -> 0..MaxRetries]
        BY <3>1, <3>2, <2>2, <1>0 DEF Cli!TypeOK
      <3>4. Cli!TypeOK'
        <4>1. engaged' \subseteq Cli!Wires /\ at' \in {"dial"} \X Peers
          BY <3>1, <2>2, <2>3, <1>0 DEF Cli!TypeOK
        <4>2. Len(found') <= PeerCap
          BY <2>1, <2>2, <1>0 DEF Cli!TypeOK
        <4>3. QED
          BY <4>1, <4>2, <3>3, <2>a, <2>2, <1>0 DEF Cli!TypeOK, Cli!setting, Cli!node
      <3>5. DialsKnown'
        BY <3>1, <2>a, <2>2, <1>0 DEF DialsKnown, Cli!Adv
      <3>6. QED
        BY <3>1, <3>4, <3>5, <1>0, <2>a DEF CInv, HandlesComplete, IncomingAreNew,
           EventsFollow, ConnectedIsKnown, Cli!node
    <2>6. QED
      BY <2>4, <2>5
  <1>6. ASSUME NEW p \in Peers, Cli!DialOk(p) PROVE CInv'
    <2>0. Cli!Adv(p) \in Cli!Wires /\ Cli!Adv(p)[1] = p
      BY <1>0 DEF Cli!Wires, Cli!Adv
    <2>1. /\ at = <<"dial", p>> /\ at' = Cli!Idle /\ Cli!Register(p) /\ Cli!SpawnReader(p)
          /\ attempts' = [attempts EXCEPT ![p] = 0]
          /\ wire_to_app' = wire_to_app \cup {Cli!Adv(p)} /\ connected' = connected \cup {p}
          /\ held' = held \cup {p}
          /\ UNCHANGED <<Cli!setting, Cli!scanner, accepted, engaged, inbound, incoming, losses>>
      BY <2>0, <1>6 DEF Cli!DialOk, Cli!Succeeded, Cli!on_dial_ok
    <2>2. /\ link' \in [Peers -> {"none", "live", "dead"}] /\ nodeEvents' \in Seq(EventSet)
          /\ Len(nodeEvents') <= EventCap /\ missed' \subseteq Peers /\ missed \subseteq missed'
          /\ EventsFollow' /\ link'[p] # "none"
          /\ \A q \in Peers : link[q] # "none" => link'[q] # "none"
          /\ \A q : WaitsIn(nodeEvents, q) => WaitsIn(nodeEvents', q) \/ q \in missed'
      BY <2>1, <1>0, RegisterStep DEF Cli!TypeOK
    <2>3. HandlesComplete' /\ running' \in [Peers -> 0..2] /\ readers' \subseteq Peers
      BY <2>1, <1>0, SpawnStep DEF Cli!TypeOK
    <2>4. Cli!TypeOK'
      BY SMTT(30), <2>0, <2>1, <2>2, <2>3, <1>0
         DEF Cli!TypeOK, EventSet, Cli!setting, Cli!scanner
    <2>5. DialsKnown'
      BY <2>1, <1>0 DEF DialsKnown, Cli!Adv
    <2>6. ConnectedIsKnown'
      BY <2>1, <2>2, <1>0 DEF ConnectedIsKnown, Cli!TypeOK
    <2>7. IncomingAreNew'
      BY <2>1, <1>0 DEF IncomingAreNew
    <2>8. QED
      BY <2>2, <2>3, <2>4, <2>5, <2>6, <2>7 DEF CInv
  <1>7. ASSUME NEW p \in Peers, Cli!DialErr(p) PROVE CInv'
    <2>1. /\ at = <<"dial", p>> /\ at' = Cli!Idle /\ engaged' = engaged \ {Cli!Adv(p)}
          /\ Cli!Cancelled(p) /\ waiting' = waiting \cup {p}
          /\ UNCHANGED <<Cli!setting, scanning, seen, found, unsee, accepted, inbound, connected,
                         wire_to_app, attempts, readers, running, held, incoming, losses>>
      BY <1>7 DEF Cli!DialErr, Cli!on_dial_err, Cli!schedule_retry_unsee
    <2>2. /\ link' \in [Peers -> {"none", "live", "dead"}] /\ nodeEvents' \in Seq(EventSet)
          /\ Len(nodeEvents') <= EventCap /\ missed' \subseteq Peers /\ missed \subseteq missed'
          /\ EventsFollow'
          /\ \A q \in Peers : link[q] # "none" => link'[q] # "none"
          /\ \A q : WaitsIn(nodeEvents, q) => WaitsIn(nodeEvents', q) \/ q \in missed'
      <3>1. CASE Cli!Register(p)
        BY <3>1, <1>0, RegisterStep DEF Cli!TypeOK
      <3>2. CASE UNCHANGED <<link, nodeEvents, missed>>
        BY <3>2, <1>0 DEF Cli!TypeOK, EventsFollow, EventTypes
      <3>3. QED
        BY <2>1, <3>1, <3>2 DEF Cli!Cancelled
    <2>4. Cli!TypeOK'
      BY <2>1, <2>2, <1>0 DEF Cli!TypeOK, EventSet, Cli!setting
    <2>5. DialsKnown'
      BY <2>1, <1>0 DEF DialsKnown, Cli!Adv
    <2>6. ConnectedIsKnown'
      BY <2>1, <2>2, <1>0 DEF ConnectedIsKnown, Cli!TypeOK
    <2>7. IncomingAreNew' /\ HandlesComplete'
      BY <2>1, <1>0 DEF IncomingAreNew, HandlesComplete
    <2>8. QED
      BY <2>2, <2>4, <2>5, <2>6, <2>7 DEF CInv
  <1>8. ASSUME NEW p \in Peers, Cli!DialMismatch(p) PROVE CInv'
    <2>1. Cli!TypeOK'
      BY <1>0, <1>8 DEF Cli!DialMismatch, Cli!TypeOK, Cli!setting, Cli!scanner, Cli!node
    <2>2. DialsKnown'
      BY <1>0, <1>8 DEF Cli!DialMismatch, DialsKnown, Cli!Adv
    <2>3. QED
      BY <2>1, <2>2, <1>0, <1>8 DEF Cli!DialMismatch, CInv, HandlesComplete, IncomingAreNew,
         EventsFollow, ConnectedIsKnown, Cli!node
  <1>9. ASSUME Cli!TakeAccepted PROVE CInv'
    <2> DEFINE w == Head(accepted)
    <2>1. /\ accepted \in Seq(Cli!Wires) /\ accepted # <<>> /\ accepted' = Tail(accepted)
          /\ at = Cli!Idle /\ at' = <<"accept", w>>
          /\ engaged' = engaged \cup {w} /\ inbound' = inbound \cup {w}
          /\ UNCHANGED <<Cli!setting, Cli!scanner, connected, wire_to_app, attempts, readers, Cli!node,
                         held, incoming, losses>>
      BY <1>0, <1>9 DEF Cli!TakeAccepted, Cli!TypeOK
    <2>2. /\ accepted' \in Seq(Cli!Wires) /\ w = accepted[1] /\ w \in Cli!Wires /\ 1 \in DOMAIN accepted
          /\ \A i \in DOMAIN accepted' : i + 1 \in DOMAIN accepted /\ accepted'[i] = accepted[i + 1]
      BY <2>1, EventTaken
    <2> HIDE DEF w
    <2>3. w[2] # 0
      BY <2>2, <1>0 DEF IncomingAreNew
    <2>4. Cli!TypeOK'
      BY <2>1, <2>2, <1>0 DEF Cli!TypeOK, Cli!setting, Cli!scanner, Cli!node
    <2>5. IncomingAreNew'
      BY <2>1, <2>2, <2>3, <1>0 DEF IncomingAreNew
    <2>6. DialsKnown'
      BY <2>1, <2>2, <2>3, <1>0, WirePair DEF DialsKnown
    <2>7. QED
      BY <2>1, <2>4, <2>5, <2>6, <1>0 DEF CInv, HandlesComplete, EventsFollow,
         ConnectedIsKnown, Cli!node
  <1>10. ASSUME NEW w \in Cli!Wires, Cli!AcceptOk(w) PROVE CInv'
    <2> DEFINE p == w[1]
    <2>1. /\ at = <<"accept", w>> /\ at' = Cli!Idle /\ Cli!Register(p) /\ Cli!SpawnReader(p)
          /\ wire_to_app' = wire_to_app \cup {w} /\ connected' = connected \cup {p}
          /\ UNCHANGED <<Cli!setting, Cli!scanner, accepted, engaged, inbound, attempts, held,
                         incoming, losses>>
      BY <1>10 DEF Cli!AcceptOk, Cli!Succeeded, Cli!on_accept_ok
    <2>2. p \in Peers /\ w[2] # 0 /\ \A q : w # Cli!Adv(q)
      BY <2>1, <1>0, WirePair DEF IncomingAreNew
    <2> HIDE DEF p
    <2>3. /\ link' \in [Peers -> {"none", "live", "dead"}] /\ nodeEvents' \in Seq(EventSet)
          /\ Len(nodeEvents') <= EventCap /\ missed' \subseteq Peers /\ missed \subseteq missed'
          /\ EventsFollow' /\ link'[p] # "none"
          /\ \A q \in Peers : link[q] # "none" => link'[q] # "none"
          /\ \A q : WaitsIn(nodeEvents, q) => WaitsIn(nodeEvents', q) \/ q \in missed'
      BY <2>1, <2>2, <1>0, RegisterStep DEF Cli!TypeOK
    <2>4. HandlesComplete' /\ running' \in [Peers -> 0..2] /\ readers' \subseteq Peers
      BY <2>1, <2>2, <1>0, SpawnStep DEF Cli!TypeOK
    <2>5. Cli!TypeOK'
      BY <2>1, <2>2, <2>3, <2>4, <1>0 DEF Cli!TypeOK, EventSet, Cli!setting, Cli!scanner
    <2>6. DialsKnown'
      BY <2>1, <2>2, <1>0 DEF DialsKnown
    <2>7. ConnectedIsKnown'
      BY <2>1, <2>3, <1>0 DEF ConnectedIsKnown, Cli!TypeOK
    <2>8. IncomingAreNew'
      BY <2>1, <1>0 DEF IncomingAreNew
    <2>9. QED
      BY <2>3, <2>4, <2>5, <2>6, <2>7, <2>8 DEF CInv
  <1>11. ASSUME NEW w \in Cli!Wires, Cli!AcceptErr(w) PROVE CInv'
    <2> DEFINE p == w[1]
    <2>1. /\ at = <<"accept", w>> /\ at' = Cli!Idle /\ Cli!Cancelled(p)
          /\ engaged' = engaged \ {w} /\ inbound' = inbound \ {w}
          /\ UNCHANGED <<Cli!setting, Cli!scanner, accepted, connected, wire_to_app, attempts,
                         readers, running, held, incoming, losses>>
      BY <1>11 DEF Cli!AcceptErr
    <2>2. p \in Peers
      BY WirePair
    <2> HIDE DEF p
    <2>3. /\ link' \in [Peers -> {"none", "live", "dead"}] /\ nodeEvents' \in Seq(EventSet)
          /\ Len(nodeEvents') <= EventCap /\ missed' \subseteq Peers /\ missed \subseteq missed'
          /\ EventsFollow'
          /\ \A q \in Peers : link[q] # "none" => link'[q] # "none"
          /\ \A q : WaitsIn(nodeEvents, q) => WaitsIn(nodeEvents', q) \/ q \in missed'
      <3>1. CASE Cli!Register(p)
        BY <3>1, <2>2, <1>0, RegisterStep DEF Cli!TypeOK
      <3>2. CASE UNCHANGED <<link, nodeEvents, missed>>
        BY <3>2, <1>0 DEF Cli!TypeOK, EventsFollow, EventTypes
      <3>3. QED
        BY <2>1, <3>1, <3>2 DEF Cli!Cancelled
    <2>4. Cli!TypeOK'
      BY <2>1, <2>3, <1>0 DEF Cli!TypeOK, EventSet, Cli!setting, Cli!scanner
    <2>5. ConnectedIsKnown'
      BY <2>1, <2>3, <1>0 DEF ConnectedIsKnown, Cli!TypeOK
    <2>6. IncomingAreNew' /\ HandlesComplete' /\ DialsKnown'
      BY <2>1, <1>0 DEF IncomingAreNew, HandlesComplete, DialsKnown
    <2>7. QED
      BY <2>3, <2>4, <2>5, <2>6 DEF CInv
  <1>12. ASSUME Cli!TakeEvent PROVE CInv'
    <2> DEFINE e == Head(nodeEvents)  p == e[2]
    <2>1. nodeEvents # <<>> /\ nodeEvents' = Tail(nodeEvents) /\ at = Cli!Idle
      BY <1>12 DEF Cli!TakeEvent
    <2>2. /\ nodeEvents' \in Seq(EventSet) /\ Len(nodeEvents') = Len(nodeEvents) - 1
          /\ e \in EventSet
          /\ \A q : FollowedIn(nodeEvents, q) => FollowedIn(nodeEvents', q)
          /\ \A q : WaitsIn(nodeEvents, q) => WaitsIn(nodeEvents', q) \/ e = <<"disconnected", q>>
          /\ \A q : FollowedIn(nodeEvents, q) /\ e = <<"connected", q>> => WaitsIn(nodeEvents', q)
      BY <2>1, <1>0, HeadStep DEF EventTypes
    <2>3. p \in Peers /\ e = <<e[1], p>> /\ e[1] \in {"connected", "disconnected"}
      BY <2>2 DEF EventSet
    <2>0. nodeEvents' \in Seq(EventSet) /\ Len(nodeEvents') <= EventCap
      <3>1. Len(nodeEvents) \in Nat
        BY <1>0 DEF EventTypes
      <3>2. QED
        BY <3>1, <2>2, <1>0 DEF EventTypes
    <2>4. EventsFollow'
      <3>1. link' = link
        BY <1>12 DEF Cli!TakeEvent
      <3>2. QED
        BY <3>1, <2>2, <1>0 DEF EventsFollow
    <2>5. CASE e[1] = "connected"
      <3>1. /\ connected' = connected \cup {p}
            /\ UNCHANGED <<Cli!setting, Cli!scanner, accepted, at, engaged, inbound, wire_to_app,
                           attempts, readers, running, link, missed, held, incoming, losses>>
        BY <2>5, <1>12 DEF Cli!TakeEvent, Cli!on_peer_connected
      <3> HIDE DEF e, p
      <3>2. Cli!TypeOK'
        BY <3>1, <2>0, <2>3, <1>0 DEF Cli!TypeOK, EventSet, Cli!setting, Cli!scanner
      <3>3. ConnectedIsKnown'
        <4> SUFFICES ASSUME NEW q \in connected', link'[q] = "none", q \notin missed'
                     PROVE  WaitsIn(nodeEvents', q)
          BY DEF ConnectedIsKnown
        <4>0. q \in Peers
          BY <3>1, <2>3, <1>0 DEF Cli!TypeOK
        <4>1. CASE q = p
          BY <4>0, <4>1, <3>1, <2>2, <2>3, <2>5, <1>0 DEF EventsFollow
        <4>2. CASE q # p
          <5>1. e # <<"disconnected", q>>
            BY <2>3, <2>5
          <5>2. QED
            BY <5>1, <4>0, <4>2, <3>1, <2>2, <1>0 DEF ConnectedIsKnown
        <4>3. QED
          BY <4>1, <4>2
      <3>4. QED
        BY <3>1, <3>2, <3>3, <2>4, <1>0 DEF CInv, HandlesComplete, IncomingAreNew, DialsKnown
    <2>6. CASE e[1] # "connected"
      <3>1. /\ connected' = connected \ {p} /\ missed' = missed \ {p}
            /\ wire_to_app' = {w \in wire_to_app : w[1] # p}
            /\ readers' = readers \ {p}
            /\ running' = IF p \in readers /\ running[p] > 0
                          THEN [running EXCEPT ![p] = running[p] - 1] ELSE running
            /\ UNCHANGED <<Cli!setting, Cli!scanner, accepted, at, engaged, inbound,
                           attempts, link, held, incoming, losses>>
        BY <2>6, <1>12 DEF Cli!TakeEvent, Cli!on_peer_disconnected
      <3> HIDE DEF e, p
      <3>2. running' \in [Peers -> 0..2] /\ HandlesComplete'
        <4>1. running \in [Peers -> 0..2]
          BY <1>0 DEF Cli!TypeOK
        <4>2. CASE p \in readers /\ running[p] > 0
          BY <4>1, <4>2, <3>1, <2>1, <2>3, <1>0 DEF HandlesComplete
        <4>3. CASE ~(p \in readers /\ running[p] > 0)
          BY <4>1, <4>3, <3>1, <2>1, <2>3, <1>0 DEF HandlesComplete
        <4>4. QED
          BY <4>2, <4>3
      <3>3. Cli!TypeOK'
        BY <3>1, <3>2, <2>0, <2>3, <1>0
           DEF Cli!TypeOK, EventSet, EventTypes, Cli!setting, Cli!scanner
      <3>4. ConnectedIsKnown'
        <4> SUFFICES ASSUME NEW q \in connected', link'[q] = "none", q \notin missed'
                     PROVE  WaitsIn(nodeEvents', q)
          BY DEF ConnectedIsKnown
        <4>0. q \in Peers /\ q \in connected /\ q # p /\ link[q] = "none" /\ q \notin missed
          BY <3>1, <2>3, <1>0 DEF Cli!TypeOK
        <4>1. e # <<"disconnected", q>>
          BY <4>0, <2>3
        <4>2. QED
          BY <4>0, <4>1, <2>2, <1>0 DEF ConnectedIsKnown
      <3>5. QED
        BY <3>1, <3>2, <3>3, <3>4, <2>4, <1>0 DEF CInv, IncomingAreNew, DialsKnown
    <2>7. QED
      BY <2>5, <2>6
  <1>13. ASSUME Cli!Quit PROVE CInv'
    <2>1. running' = [p \in Peers |-> 0]
      BY <1>13, <1>0 DEF Cli!Quit, HandlesComplete, Cli!TypeOK
    <2>2. Cli!TypeOK'
      BY <2>1, <1>0, <1>13 DEF Cli!Quit, Cli!TypeOK, Cli!setting, Cli!scanner, Cli!tracker
    <2>3. QED
      BY <2>1, <2>2, <1>0, <1>13
         DEF Cli!Quit, CInv, HandlesComplete, IncomingAreNew, DialsKnown,
         EventsFollow, ConnectedIsKnown, Cli!tracker
  <1>14. ASSUME NEW p \in Peers, Cli!Lose(p) PROVE CInv'
    <2>1. Cli!TypeOK'
      BY <1>0, <1>14 DEF Cli!Lose, Cli!TypeOK, Cli!setting, Cli!scanner, Cli!tracker
    <2>2. EventsFollow' /\ ConnectedIsKnown'
      BY SMTT(30), <1>0, <1>14 DEF Cli!Lose, Cli!TypeOK, EventsFollow, ConnectedIsKnown, Cli!tracker
    <2>3. QED
      BY <2>1, <2>2, <1>0, <1>14
         DEF Cli!Lose, CInv, HandlesComplete, IncomingAreNew, DialsKnown,
         Cli!tracker
  <1>15. ASSUME NEW p \in Peers, Cli!ReaderEnds(p) PROVE CInv'
    <2> DEFINE e == <<"disconnected", p>>
    <2>0. e \in EventSet /\ \A q : e # <<"connected", q>>
      BY DEF EventSet
    <2>1. /\ running' = [running EXCEPT ![p] = running[p] - 1] /\ running[p] > 0
          /\ link' = [link EXCEPT ![p] = "none"] /\ Cli!Publish(e)
          /\ UNCHANGED <<Cli!setting, Cli!scanner, accepted, at, Cli!tracker, readers, held, incoming, losses>>
      BY <1>15 DEF Cli!ReaderEnds
    <2>2. /\ nodeEvents' \in Seq(EventSet) /\ Len(nodeEvents') <= EventCap
          /\ missed' \subseteq Peers /\ missed \subseteq missed'
          /\ \A q : FollowedIn(nodeEvents, q) => FollowedIn(nodeEvents', q)
          /\ \A q : WaitsIn(nodeEvents, q) => WaitsIn(nodeEvents', q) \/ q \in missed'
          /\ FollowedIn(nodeEvents', p) /\ WaitsIn(nodeEvents', p)
      BY <2>0, <2>1, <1>0, PublishStep
    <2>3. /\ link' \in [Peers -> {"none", "live", "dead"}]
          /\ \A q \in Peers : q # p => link'[q] = link[q]
      BY <2>1, <1>0 DEF Cli!TypeOK
    <2>4. running' \in [Peers -> 0..2] /\ HandlesComplete'
      BY <2>1, <1>0 DEF Cli!TypeOK, HandlesComplete
    <2>5. Cli!TypeOK'
      BY <2>1, <2>2, <2>3, <2>4, <1>0
         DEF Cli!TypeOK, EventSet, Cli!setting, Cli!scanner, Cli!tracker
    <2>6. EventsFollow'
      BY <2>2, <2>3, <1>0 DEF EventsFollow
    <2>7. ConnectedIsKnown'
      BY <2>1, <2>2, <2>3, <1>0 DEF ConnectedIsKnown, Cli!tracker, Cli!TypeOK
    <2>8. QED
      BY <2>1, <2>4, <2>5, <2>6, <2>7, <1>0 DEF CInv, IncomingAreNew, DialsKnown, Cli!tracker
  <1>17. ASSUME NEW p \in Peers, Cli!MessageReceived(p) PROVE CInv'
    <2>1. /\ nodeEvents # <<>> /\ nodeEvents' = Tail(nodeEvents) /\ missed' = Cli!Overwritten
          /\ UNCHANGED <<Cli!setting, Cli!scanner, accepted, at, Cli!tracker, readers, link, running,
                         held, incoming, losses>>
      BY <1>17 DEF Cli!MessageReceived
    <2>2. /\ nodeEvents' \in Seq(EventSet) /\ Len(nodeEvents') = Len(nodeEvents) - 1
          /\ \A q : FollowedIn(nodeEvents, q) => FollowedIn(nodeEvents', q)
          /\ \A q : WaitsIn(nodeEvents, q) =>
                    WaitsIn(nodeEvents', q) \/ Head(nodeEvents) = <<"disconnected", q>>
      BY <2>1, <1>0, HeadStep DEF EventTypes
    <2>3. /\ missed \subseteq missed' /\ missed' \subseteq Peers
          /\ \A q : Head(nodeEvents) = <<"disconnected", q>> => q \in missed'
      BY <2>1, <1>0, OverwriteStep
    <2>4. Len(nodeEvents') <= EventCap
      <3>1. Len(nodeEvents) \in Nat
        BY <1>0 DEF EventTypes
      <3>2. QED
        BY <3>1, <2>2, <1>0 DEF EventTypes
    <2>5. Cli!TypeOK'
      BY <2>1, <2>2, <2>3, <2>4, <1>0 DEF Cli!TypeOK, EventSet, Cli!setting, Cli!scanner, Cli!tracker
    <2>6. EventsFollow' /\ ConnectedIsKnown'
      BY <2>1, <2>2, <2>3, <1>0 DEF EventsFollow, ConnectedIsKnown, Cli!tracker
    <2>7. QED
      BY <2>1, <2>5, <2>6, <1>0 DEF CInv, HandlesComplete, IncomingAreNew, DialsKnown, Cli!tracker
  <1>18. ASSUME Cli!TypeLine \/ Cli!SendReturns PROVE CInv'
    <2>1. /\ at' \in {Cli!Sending, Cli!Idle} /\ at \in {Cli!Sending, Cli!Idle}
          /\ UNCHANGED <<Cli!setting, Cli!scanner, accepted, Cli!tracker, readers, Cli!node, held,
                         incoming, losses>>
      BY <1>18 DEF Cli!TypeLine, Cli!SendReturns
    <2>2. Cli!TypeOK'
      BY <2>1, <1>0 DEF Cli!TypeOK, Cli!setting, Cli!scanner, Cli!tracker, Cli!node
    <2>3. QED
      BY <2>1, <2>2, <1>0 DEF CInv, HandlesComplete, IncomingAreNew, DialsKnown, EventsFollow,
         ConnectedIsKnown, Cli!tracker, Cli!node
  <1>16. ASSUME UNCHANGED Cli!vars PROVE CInv'
    <2>1. Cli!TypeOK'
      BY <1>0, <1>16 DEF Cli!vars, Cli!TypeOK, Cli!setting, Cli!scanner, Cli!tracker, Cli!node
    <2>2. QED
      BY <2>1, <1>0, <1>16 DEF Cli!vars, CInv, HandlesComplete, IncomingAreNew, DialsKnown,
         EventsFollow, ConnectedIsKnown, Cli!tracker, Cli!node
  <1>19. QED
    BY <1>1, <1>2, <1>3, <1>4, <1>5, <1>6, <1>7, <1>8, <1>9, <1>10, <1>11, <1>12, <1>13,
       <1>14, <1>15, <1>16, <1>17, <1>18 DEF Cli!Next, Cli!Arm

\* Every component of the state of a CLI process keeps its type.
THEOREM CliTypes == Cli!Spec => []Cli!TypeOK
  <1>1. CInv => Cli!TypeOK
    BY DEF CInv
  <1>2. QED
    BY <1>1, CInvInit, CInvStep, PTL DEF Cli!Spec

\* At most one reader of a peer runs and none outlives the command, for any
\* number of peers, connections and losses (spawn_peer_reader and the abort
\* of its handle in commands/chat.rs and join.rs).
THEOREM OneReaderHolds == Cli!Spec => []OneReader
  <1>1. CInv => OneReader
    BY DEF CInv, HandlesComplete, OneReader, Done, Cli!Done
  <1>2. QED
    BY <1>1, CInvInit, CInvStep, PTL DEF Cli!Spec

\* ConnTracker refuses a dial only for the dial that runs, one that succeeded
\* or the retry limit, and counts a peer as connected only while the node has
\* it, its disconnect is still to be handled or the broadcast overwrote that
\* before the loop came to it, for every command, number of peers, retry limit
\* and capacity of the broadcast.
THEOREM SkipsHaveReason == Cli!Spec => []SkipHasReason
  <1>1. ASSUME CInv PROVE SkipHasReason
    <2>1. ASSUME NEW p \in Peers, should_skip_dial(Adv(p))
          PROVE  at = <<"dial", p>> \/ p \in held \/ attempts[p] = MaxRetries
      <3>1. Adv(p)[1] = p /\ Adv(p)[2] = 0
        BY DEF Adv
      <3>2. Adv(p) \notin inbound
        BY <3>1, <1>1 DEF CInv, IncomingAreNew
      <3>3. Adv(p) \in engaged \/ Adv(p) \in wire_to_app
                => at = <<"dial", p>> \/ p \in held
        BY <1>1 DEF CInv, DialsKnown, Adv, Cli!Adv
      <3>4. attempts[p] >= MaxRetries => attempts[p] = MaxRetries
        BY <1>1, CliAssumption DEF CInv, Cli!TypeOK
      <3>5. QED
        BY <2>1, <3>1, <3>2, <3>3, <3>4 DEF should_skip_dial
    <2>2. QED
      BY <2>1, <1>1 DEF CInv, ConnectedIsKnown, WaitsIn, SkipHasReason
  <1>2. QED
    BY <1>1, CInvInit, CInvStep, PTL DEF Cli!Spec
=============================================================================
