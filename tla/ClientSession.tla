---------------------------- MODULE ClientSession ----------------------------
(***************************************************************************)
(* One MlinkClient (packages/client/src/client.ts) and the sessions that   *)
(* it has with the daemon (mlink-daemon/src/session).                      *)
(*                                                                         *)
(* The client runs on one event loop: a handler with the promise callbacks *)
(* it triggers is one step.  Its requests go out through this.ws, the last *)
(* socket it opened, whichever socket's handler makes them.  A handler of  *)
(* the daemon is one step too; what several sessions do to each other is   *)
(* in DaemonRooms.                                                         *)
(*                                                                         *)
(* Delays, the attempt counter and pings carry no state the properties     *)
(* tell apart; the heartbeat is left out with them.                        *)
(***************************************************************************)
EXTENDS Integers, Sequences, SequencesExt, FiniteSets

CONSTANTS
    Rooms,
    MaxSockets,   \* bound: sockets the client opens
    MaxConnects,  \* bound: connect() calls
    MaxRequests,  \* bound: join, leave and send calls
    MaxEvents,    \* bound: peers that come or go
    MaxDrops      \* bound: refused and broken connections

ASSUME ClientAssumption ==
    /\ IsFiniteSet(Rooms) /\ MaxEvents \in Nat /\ MaxRequests \in Nat
    /\ MaxConnects \in Nat /\ MaxDrops \in Nat
    /\ MaxSockets >= MaxConnects + MaxDrops

Sockets   == 1..MaxSockets
None      == 0
Resolving == -1    \* connect() waits for its port

VARIABLES
    \* -- MlinkClient ---------------------------------------------------
    ws,           \* this.ws
    wired,        \* sockets whose handlers are set
    promise,      \* per socket, the promise that openSocket returned
    cached,       \* connectPromise: the socket it waits for
    armed,        \* reconnectTimer is set
    closedByUser, pending, nextId,
    joined,       \* joinedRooms
    \* -- sockets and daemon --------------------------------------------
    sock,         \* readyState
    sess,         \* the daemon's session of a socket
    subs,         \* SessionEntry::subs
    up, down,     \* frames on their way to and from the daemon
    \* -- bounds --------------------------------------------------------
    connects, requests, events, drops

client == <<ws, wired, promise, cached, armed, closedByUser, pending, nextId, joined>>
daemon == <<sess, subs>>
bounds == <<connects, requests, events, drops>>
vars   == <<client, sock, daemon, up, down, bounds>>

Kinds    == {"join", "leave", "send"}
Requests == [id : Nat, kind : Kinds, room : Rooms]
Replies  == [kind : {"ready"}] \cup [kind : {"ack", "error"}, id : Nat]
            \cup [kind : {"state"}, room : Rooms, in : BOOLEAN]

TypeOK ==
    /\ ws \in Sockets \cup {None} /\ wired \subseteq Sockets
    /\ promise \in [Sockets -> {"none", "pending", "resolved", "rejected"}]
    /\ cached \in Sockets \cup {None, Resolving}
    /\ armed \in BOOLEAN /\ closedByUser \in BOOLEAN
    /\ \A q \in pending : q \in [id : Nat, kind : Kinds, room : Rooms, on : Sockets]
    /\ nextId \in Nat /\ joined \subseteq Rooms
    /\ sock \in [Sockets -> {"new", "connecting", "open", "closing", "closed"}]
    /\ sess \in [Sockets -> {"none", "live", "gone"}]
    /\ subs \in [Sockets -> SUBSET Rooms]
    /\ \A s \in Sockets : sess[s] # "live" => subs[s] = {} /\ up[s] = <<>>
    /\ up \in [Sockets -> Seq(Requests \cup [kind : {"hello"}])]
    /\ down \in [Sockets -> Seq(Replies)]
    /\ connects \in 0..MaxConnects /\ requests \in 0..MaxRequests
    /\ events \in 0..MaxEvents /\ drops \in 0..MaxDrops

Init ==
    /\ ws = None /\ wired = {} /\ promise = [s \in Sockets |-> "none"]
    /\ cached = None /\ armed = FALSE /\ closedByUser = FALSE
    /\ pending = {} /\ nextId = 1 /\ joined = {}
    /\ sock = [s \in Sockets |-> "new"] /\ sess = [s \in Sockets |-> "none"]
    /\ subs = [s \in Sockets |-> {}]
    /\ up = [s \in Sockets |-> <<>>] /\ down = [s \in Sockets |-> <<>>]
    /\ connects = 0 /\ requests = 0 /\ events = 0 /\ drops = 0

-----------------------------------------------------------------------------
\* Opening

isConnected == ws # None /\ sock[ws] = "open"

\* A frame through sendRaw gets to the daemon if its session still lives.
Sent(frames) ==
    IF isConnected /\ sess[ws] = "live" THEN [up EXCEPT ![ws] = @ \o frames] ELSE up

\* The promise of socket s settles; connect()'s cache is cleared with it.
Settle(s, how) ==
    IF promise[s] = "pending"
    THEN /\ promise' = [promise EXCEPT ![s] = how]
         /\ cached' = IF cached = s THEN None ELSE cached
    ELSE UNCHANGED <<promise, cached>>

\* A call while connectPromise is set only returns that promise.
connect ==
    /\ connects < MaxConnects /\ connects' = connects + 1
    /\ cached = None
    /\ closedByUser' = FALSE /\ cached' = Resolving
    /\ UNCHANGED <<ws, wired, promise, armed, pending, nextId, joined, sock,
                   daemon, up, down, requests, events, drops>>

\* probeFreePort fails; once found, the port is kept.
ProbeFails ==
    /\ cached = Resolving /\ \A s \in Sockets : sock[s] = "new"
    /\ cached' = None
    /\ UNCHANGED <<ws, wired, promise, armed, closedByUser, pending, nextId,
                   joined, sock, daemon, up, down, bounds>>

\* A socket that this.ws held before keeps its handlers.
openSocket(s) ==
    /\ sock[s] = "new" /\ \A r \in Sockets : r < s => sock[r] # "new"
    /\ sock' = [sock EXCEPT ![s] = "connecting"]
    /\ promise' = [promise EXCEPT ![s] = "pending"]
    /\ wired' = wired \cup {s} /\ ws' = s

\* The port is there; disconnect() may have been called meanwhile.
PortResolved(s) ==
    /\ cached = Resolving /\ openSocket(s) /\ cached' = s
    /\ UNCHANGED <<armed, closedByUser, pending, nextId, joined, daemon, up,
                   down, bounds>>

\* Mutant: the callback leaves it to a connect() that has not settled.
TimerFires_Yields(s) ==
    /\ armed /\ ~closedByUser /\ armed' = FALSE
    /\ IF cached = None THEN openSocket(s) ELSE UNCHANGED <<sock, promise, wired, ws>>
    /\ UNCHANGED <<cached, closedByUser, pending, nextId, joined, daemon, up,
                   down, bounds>>

\* The reconnect timer.  disconnect() clears it, so closedByUser, which the
\* callback checks again, is never set here.
TimerFires(s) ==
    /\ armed /\ ~closedByUser /\ openSocket(s) /\ armed' = FALSE
    /\ UNCHANGED <<cached, closedByUser, pending, nextId, joined, daemon, up,
                   down, bounds>>

\* The daemon takes the connection, starts a session with `ready`, and onopen
\* says hello (through this.ws).
Opened(s) ==
    /\ sock[s] = "connecting"
    /\ sock' = [sock EXCEPT ![s] = "open"]
    /\ sess' = [sess EXCEPT ![s] = "live"]
    /\ down' = [down EXCEPT ![s] = <<[kind |-> "ready"]>>]
    /\ up' = IF s \notin wired THEN up
             ELSE IF ws = s THEN [up EXCEPT ![s] = <<[kind |-> "hello"]>>]
             ELSE Sent(<<[kind |-> "hello"]>>)
    /\ UNCHANGED <<client, subs, bounds>>

-----------------------------------------------------------------------------
\* Closing

\* Mutant: requests in flight are left for their timers, which are cleared.
cleanupSocket_Kept ==
    /\ ws' = None /\ UNCHANGED pending

\* Whatever socket this.ws is.  Handlers: see wired' in the callers.
cleanupSocket ==
    /\ ws' = None /\ pending' = {}

\* (autoReconnect is on unless the options say otherwise.)
scheduleReconnect == armed' = (armed \/ ~closedByUser)

\* onclose, before it onerror when the socket never opened.
Closed(s) ==
    /\ sock' = [sock EXCEPT ![s] = "closed"]
    /\ IF s \in wired
       THEN /\ cleanupSocket /\ wired' = wired \ {s, ws}
            /\ Settle(s, "rejected")
            /\ scheduleReconnect
       ELSE UNCHANGED <<ws, pending, wired, promise, cached, armed>>
    /\ UNCHANGED <<closedByUser, nextId, joined>>

Refused(s) ==
    /\ sock[s] = "connecting" /\ drops < MaxDrops /\ drops' = drops + 1
    /\ Closed(s)
    /\ UNCHANGED <<daemon, up, down, connects, requests, events>>

\* The socket breaks or the daemon goes: the session ends, and of what it
\* had sent some may arrive.
Drop(s) ==
    /\ sess[s] = "live" /\ drops < MaxDrops /\ drops' = drops + 1
    /\ sess' = [sess EXCEPT ![s] = "gone"] /\ subs' = [subs EXCEPT ![s] = {}]
    /\ up' = [up EXCEPT ![s] = <<>>]
    /\ down' \in {down, [down EXCEPT ![s] = <<>>]}
    /\ UNCHANGED <<client, sock, connects, requests, events>>

Noticed(s) ==
    /\ sock[s] = "open" /\ sess[s] = "gone" /\ down[s] = <<>>
    /\ Closed(s)
    /\ UNCHANGED <<daemon, up, down, bounds>>

\* The socket is closed after what was sent; with the handlers gone nobody
\* hears of it.  The promise of connect() is not settled.
disconnect ==
    /\ closedByUser' = TRUE /\ armed' = FALSE
    /\ cleanupSocket /\ wired' = wired \ {ws}
    /\ sock' = [s \in Sockets |->
                  IF s # ws THEN sock[s]
                  ELSE IF sock[s] = "connecting" THEN "closed" ELSE "closing"]
    /\ UNCHANGED <<promise, cached, nextId, joined, daemon, up, down, bounds>>

-----------------------------------------------------------------------------
\* Requests

\* request(): refused when not connected.
Request(qs) ==
    LET asked == [i \in 1..Len(qs) |-> [id |-> nextId + i - 1, kind |-> qs[i].kind,
                                        room |-> qs[i].room]] IN
    IF isConnected
    THEN /\ pending' = pending \cup {[id |-> a.id, kind |-> a.kind, room |-> a.room,
                                      on |-> ws] : a \in Range(asked)}
         /\ nextId' = nextId + Len(qs)
         /\ up' = Sent(asked)
    ELSE UNCHANGED <<pending, nextId, up>>

\* join, leave, send
Call(kind, r) ==
    /\ isConnected /\ requests < MaxRequests /\ requests' = requests + 1
    /\ Request(<<[kind |-> kind, room |-> r]>>)
    /\ UNCHANGED <<ws, wired, promise, cached, armed, closedByUser, joined, sock,
                   daemon, down, connects, events, drops>>

\* The request's timer: what the daemon did or will do stands.
Timeout(q) ==
    /\ pending' = pending \ {q}
    /\ UNCHANGED <<ws, wired, promise, cached, armed, closedByUser, nextId,
                   joined, sock, daemon, up, down, bounds>>

-----------------------------------------------------------------------------
\* The daemon: session::run, handle_text and the handlers

Reply(s, frames) == down' = [down EXCEPT ![s] = @ \o frames]
Ack(q)     == [kind |-> "ack", id |-> q.id]
Error(q)   == [kind |-> "error", id |-> q.id]
State(r, b) == [kind |-> "state", room |-> r, in |-> b]

\* hello has no id, so it is answered by `ready` alone.
handle_hello(s) == Reply(s, <<[kind |-> "ready"]>>) /\ UNCHANGED subs

handle_join(s, q) ==
    /\ subs' = [subs EXCEPT ![s] = @ \cup {q.room}]
    /\ Reply(s, <<Ack(q), State(q.room, TRUE)>>)

handle_leave(s, q) ==
    /\ subs' = [subs EXCEPT ![s] = @ \ {q.room}]
    /\ Reply(s, <<Ack(q), State(q.room, FALSE)>>)

\* not_joined; send_failed, when no peer got it; or an ack, when one did.  A
\* join or leave with a code that is no room's or a payload that does not parse
\* (bad_room, bad_payload) is such a request too: an error, and no more.
handle_send(s, q) ==
    /\ \/ q.room \in subs[s] /\ Reply(s, <<Ack(q)>>)
       \/ Reply(s, <<Error(q)>>)
    /\ UNCHANGED subs

handle_text(s, q) ==
    \/ q.kind = "hello" /\ handle_hello(s)
    \/ q.kind = "join"  /\ handle_join(s, q)
    \/ q.kind = "leave" /\ handle_leave(s, q)
    \/ q.kind = "send"  /\ handle_send(s, q)

DaemonHandles(s) ==
    /\ sess[s] = "live" /\ up[s] # <<>>
    /\ up' = [up EXCEPT ![s] = Tail(@)]
    /\ handle_text(s, Head(up[s]))
    /\ UNCHANGED <<client, sock, sess, bounds>>

\* forward_peer_event: fresh state of every subscribed room.
PeerEvent(s) ==
    /\ sess[s] = "live" /\ subs[s] # {}
    /\ events < MaxEvents /\ events' = events + 1
    /\ Reply(s, SetToSeq({State(r, TRUE) : r \in subs[s]}))
    /\ UNCHANGED <<client, sock, daemon, up, connects, requests, drops>>

\* The close frame comes after the last request.
DaemonEnds(s) ==
    /\ sock[s] = "closing" /\ up[s] = <<>>
    /\ sock' = [sock EXCEPT ![s] = "closed"]
    /\ sess' = [sess EXCEPT ![s] = "gone"]
    /\ subs' = [subs EXCEPT ![s] = {}]
    /\ down' = [down EXCEPT ![s] = <<>>]
    /\ UNCHANGED <<client, up, bounds>>

-----------------------------------------------------------------------------
\* handleFrame

\* Mutant: nothing is joined again.
Rejoin_Never == <<>>

\* The joins that the first `ready` of a socket sends.
Rejoin == SetToSeq({[kind |-> "join", room |-> r] : r \in joined})

Ready(s) ==
    /\ IF promise[s] = "pending" THEN Request(Rejoin) ELSE UNCHANGED <<pending, nextId, up>>
    /\ Settle(s, "resolved")
    /\ UNCHANGED joined

\* ack and error settle a request that still waits; a late one is ignored.
Answer(f) ==
    LET mine == {q \in pending : q.id = f.id}
        ok(kind) == {q.room : q \in {p \in mine : f.kind = "ack" /\ p.kind = kind}} IN
    /\ pending' = pending \ mine
    /\ joined' = (joined \cup ok("join")) \ ok("leave")
    /\ UNCHANGED <<promise, cached, nextId, up>>

RoomState(f) ==
    /\ joined' = IF f.in THEN joined \cup {f.room} ELSE joined \ {f.room}
    /\ UNCHANGED <<promise, cached, pending, nextId, up>>

handleFrame(s) ==
    LET f == Head(down[s]) IN
    /\ sock[s] = "open" /\ down[s] # <<>>
    /\ down' = [down EXCEPT ![s] = Tail(@)]
    /\ \/ s \notin wired /\ UNCHANGED <<promise, cached, pending, nextId, joined, up>>
       \/ s \in wired /\ f.kind = "ready" /\ Ready(s)
       \/ s \in wired /\ f.kind = "state" /\ RoomState(f)
       \/ s \in wired /\ f.kind \in {"ack", "error"} /\ Answer(f)
    /\ UNCHANGED <<ws, wired, armed, closedByUser, sock, daemon, bounds>>

-----------------------------------------------------------------------------
EventLoop(s) ==
    PortResolved(s) \/ TimerFires(s) \/ Noticed(s) \/ handleFrame(s)

Next ==
    \/ connect \/ ProbeFails \/ disconnect
    \/ \E s \in Sockets : EventLoop(s) \/ Opened(s) \/ Refused(s) \/ Drop(s)
    \/ \E s \in Sockets : DaemonHandles(s) \/ PeerEvent(s) \/ DaemonEnds(s)
    \/ \E kind \in Kinds, r \in Rooms : Call(kind, r)
    \/ \E q \in pending : Timeout(q)

Spec == Init /\ [][Next]_vars

\* The event loop runs its callbacks and timers; the daemon is there, takes
\* connections (refusals are bounded) and handles what it receives.
FairSpec ==
    Spec /\ \A s \in Sockets :
              /\ WF_vars(PortResolved(s)) /\ WF_vars(TimerFires(s))
              /\ WF_vars(Noticed(s)) /\ WF_vars(handleFrame(s))
              /\ WF_vars(Opened(s)) /\ WF_vars(DaemonHandles(s))

-----------------------------------------------------------------------------
Up == ws # None /\ promise[ws] = "resolved" /\ sess[ws] = "live"

\* When the client has one socket, that socket is ready and nothing is under
\* way, the rooms it shows are the rooms the daemon will route to it: after
\* any mix of calls that timed out, lost answers, drops and reconnects.
RoomsAgree ==
    wired = {ws} /\ Up /\ up[ws] = <<>> /\ down[ws] = <<>> => joined = subs[ws]

\* A request that waits has its own socket open and heard, so that its answer
\* or the socket's close reaches it: none is left to a socket that the
\* client no longer listens to.
NoOrphanRequest ==
    \A q \in pending : q.on \in wired /\ sock[q.on] = "open"

\* A connection that was lost or refused comes back, ready, unless the user
\* disconnects.
ComesBack == armed ~> Up \/ closedByUser
=============================================================================
