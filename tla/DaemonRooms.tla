----------------------------- MODULE DaemonRooms -----------------------------
(***************************************************************************)
(* Rooms, subscriptions and the message backlog of mlink-daemon:           *)
(*   bootstrap.rs       the fan-out worker and the restore at boot         *)
(*   session/lifecycle.rs, session/handlers.rs   one task per WS client    *)
(*   queue.rs, rooms.rs, subscription.rs         the shared state          *)
(*                                                                         *)
(* Every step below is one critical section (or one lock-free stretch) of  *)
(* a task, so the interleavings are those of a multi-threaded runtime.     *)
(* A room code stands for its hash; a message is its arrival number, since *)
(* the payload is passed on verbatim and carries no room.                  *)
(***************************************************************************)
EXTENDS Integers, Sequences

CONSTANTS
    Clients,        \* slots for WebSocket clients
    Rooms,          \* room codes
    MaxMsgs,        \* bound: messages received from peers
    MaxRestarts,    \* bound: crashes of the daemon
    MaxIoErrors,    \* bound: failed reads and writes of rooms.json
    QueueCap,       \* MAX_MESSAGES_PER_ROOM (500)
    OutCap,         \* OUTBOUND_CAPACITY of a client's channel (1024)
    BusCap          \* EVENT_CHANNEL_CAPACITY of the event broadcast (256)

ASSUME BoundsAssumption ==
    /\ Rooms # {}
    /\ MaxMsgs \in Nat /\ MaxRestarts \in Nat /\ MaxIoErrors \in Nat
    /\ QueueCap \in Nat \ {0} /\ OutCap \in Nat \ {0} /\ BusCap \in Nat \ {0}

Msgs == 1 .. MaxMsgs

\* A `message` frame: the room it is labelled with and the message.
Frames == Rooms \X Msgs

VARIABLES
    \* -- shared daemon state -------------------------------------------
    hashes,     \* Node::room_hashes, as room codes
    rooms,      \* RoomStore::rooms
    disk,       \* contents of rooms.json
    queue,      \* MessageQueue: room -> pending messages, oldest first
    live,       \* DaemonState::sessions, the registered clients
    subs,       \* SessionEntry::subs
    outq,       \* SessionEntry::tx, frames <<room, msg>> routed to the client
    bus,        \* NodeEvent broadcast as the fan-out worker sees it
    \* -- task state ----------------------------------------------------
    at,         \* where each client's task is
    arg,        \* the room its current request names
    batch,      \* backlog drained by a join and not yet written
    fan,        \* where the fan-out worker is
    fanMsg,     \* the message it holds
    fanRooms,   \* its copy of the room list, rooms still to be served
    \* -- history and bounds --------------------------------------------
    arrived,    \* messages received from peers so far
    log,        \* per room, every message pushed to the backlog
    got,        \* per client, frames written to its socket
    mark,       \* per client and room: position in log where its join drained
    missed,     \* per client, frames dropped because its channel was full
    raced,      \* rooms whose retirement overlapped another client's join
    restarts, ioErrors

shared  == <<hashes, rooms, disk, queue, live, subs, outq, bus>>
task    == <<at, arg, batch, fan, fanMsg, fanRooms>>
history == <<arrived, log, got, mark, missed, raced, restarts, ioErrors>>
vars    == <<shared, task, history>>

Joining  == {"join_hash", "join_room"}
Retiring == {"leave_hash", "leave_room", "leave_queue"}
Places   == {"closed", "idle", "join_flush", "leave_check"} \union Joining
                \union Retiring

Never == -1    \* mark of a room not joined over this socket
Again == -2    \* mark of a room joined more than once over this socket

TypeOK ==
    /\ hashes \in SUBSET Rooms /\ rooms \in SUBSET Rooms /\ disk \in SUBSET Rooms
    /\ queue \in [Rooms -> Seq(Msgs)]
    /\ live \in SUBSET Clients
    /\ subs \in [Clients -> SUBSET Rooms]
    /\ outq \in [Clients -> Seq(Frames)]
    /\ bus \in Seq(Msgs)
    /\ at \in [Clients -> Places]
    /\ arg \in [Clients -> Rooms]
    /\ batch \in [Clients -> Seq(Msgs)]
    /\ fan \in {"idle", "listed", "locked"}
    /\ fanMsg \in 0 .. MaxMsgs
    /\ fanRooms \in SUBSET Rooms
    /\ arrived \in 0 .. MaxMsgs
    /\ log \in [Rooms -> Seq(Msgs)]
    /\ got \in [Clients -> Seq(Frames)]
    /\ mark \in [Clients -> [Rooms -> Int]]
    /\ missed \in [Clients -> SUBSET Frames]
    /\ raced \in SUBSET Rooms
    /\ restarts \in 0 .. MaxRestarts
    /\ ioErrors \in 0 .. MaxIoErrors

\* State of a client slot without a socket.
NoSubs == [c \in Clients |-> {}]
Empty  == [c \in Clients |-> <<>>]

Init ==
    /\ hashes = {} /\ rooms = {} /\ disk = {}
    /\ queue = [r \in Rooms |-> <<>>]
    /\ live = {} /\ subs = NoSubs /\ outq = Empty /\ bus = <<>>
    /\ at = [c \in Clients |-> "closed"]
    /\ arg = [c \in Clients |-> CHOOSE r \in Rooms : TRUE]
    /\ batch = Empty
    /\ fan = "idle" /\ fanMsg = 0 /\ fanRooms = {}
    /\ arrived = 0
    /\ log = [r \in Rooms |-> <<>>]
    /\ got = Empty
    /\ mark = [c \in Clients |-> [r \in Rooms |-> Never]]
    /\ missed = NoSubs
    /\ raced = {}
    /\ restarts = 0 /\ ioErrors = 0

-----------------------------------------------------------------------------
(* Locks.  The worker holds the queue lock and the sessions lock from its  *)
(* first push to its last; every other critical section is one step.       *)

QueueFree    == fan # "locked"
SessionsFree == fan # "locked"

-----------------------------------------------------------------------------
(* RoomStore.                                                              *)

\* Mutant: the file is never written.
Save_Skipped(s) == UNCHANGED <<disk, ioErrors>>

\* RoomStore::save writes the whole set to a temporary file and renames it;
\* an error is logged and the old file stays.
Save(s) ==
    \/ disk' = s /\ UNCHANGED ioErrors
    \/ /\ ioErrors < MaxIoErrors
       /\ ioErrors' = ioErrors + 1
       /\ UNCHANGED disk

\* Mutant: a room once added is never removed.
Store_Grows(s) == Save(rooms \union s) /\ rooms' = rooms \union s

\* RoomStore::add and ::remove save only when the set changes.
Store(s) ==
    /\ rooms' = s
    /\ IF s # rooms THEN Save(s) ELSE UNCHANGED <<disk, ioErrors>>

\* MessageQueue::push: the oldest entry makes room for a new one.
Push(q, m) == Append(IF Len(q) >= QueueCap THEN Tail(q) ELSE q, m)

-----------------------------------------------------------------------------
(* The client task: run() and the handlers.                                *)

\* A client connects: `ready` is sent and the session registered.
Open(c) ==
    /\ at[c] = "closed" /\ SessionsFree
    /\ at' = [at EXCEPT ![c] = "idle"]
    /\ live' = live \union {c}
    /\ UNCHANGED <<hashes, rooms, disk, queue, subs, outq, bus, arg, batch,
                   fan, fanMsg, fanRooms, history>>

\* handle_join, first part: Node::add_room_hash.
JoinHash(c, r) ==
    /\ at[c] = "idle"
    /\ at' = [at EXCEPT ![c] = "join_hash"]
    /\ arg' = [arg EXCEPT ![c] = r]
    /\ hashes' = hashes \union {r}
    /\ raced' = IF \E d \in Clients : at[d] \in Retiring /\ arg[d] = r
                THEN raced \union {r} ELSE raced
    /\ UNCHANGED <<rooms, disk, queue, live, subs, outq, bus, batch, fan, fanMsg,
                   fanRooms, arrived, log, got, mark, missed, restarts, ioErrors>>

\* ... second part: RoomStore::add under the rooms lock.
JoinRoom(c) ==
    /\ at[c] = "join_hash"
    /\ at' = [at EXCEPT ![c] = "join_room"]
    /\ Store(rooms \union {arg[c]})
    /\ UNCHANGED <<hashes, queue, live, subs, outq, bus, arg, batch, fan, fanMsg,
                   fanRooms, arrived, log, got, mark, missed, raced, restarts>>

\* ... third part: subscribe and drain under the queue lock.
JoinDrain(c) ==
    LET r == arg[c] IN
    /\ at[c] = "join_room" /\ QueueFree
    /\ at' = [at EXCEPT ![c] = "join_flush"]
    /\ subs' = [subs EXCEPT ![c] = @ \union {r}]
    /\ batch' = [batch EXCEPT ![c] = queue[r]]
    /\ queue' = [queue EXCEPT ![r] = <<>>]
    /\ mark' = [mark EXCEPT ![c][r] = IF @ = Never
                                      THEN Len(log[r]) - Len(queue[r])
                                      ELSE Again]
    /\ UNCHANGED <<hashes, rooms, disk, live, outq, bus, arg, fan, fanMsg, fanRooms,
                   arrived, log, got, missed, raced, restarts, ioErrors>>

\* Frames of one room.
Framed(r, s) == [i \in 1 .. Len(s) |-> <<r, s[i]>>]

\* ... last part: ack, room_state and the backlog go straight to the socket.
JoinFlush(c) ==
    /\ at[c] = "join_flush"
    /\ at' = [at EXCEPT ![c] = "idle"]
    /\ got' = [got EXCEPT ![c] = @ \o Framed(arg[c], batch[c])]
    /\ batch' = [batch EXCEPT ![c] = <<>>]
    /\ UNCHANGED <<shared, arg, fan, fanMsg, fanRooms, arrived, log, mark, missed,
                   raced, restarts, ioErrors>>

\* handle_leave, first part: drop the subscription.  Leaving a room that is
\* not subscribed changes nothing and is not a step.
LeaveUnsub(c, r) ==
    /\ at[c] = "idle" /\ r \in subs[c]
    /\ at' = [at EXCEPT ![c] = "leave_check"]
    /\ arg' = [arg EXCEPT ![c] = r]
    /\ subs' = [subs EXCEPT ![c] = @ \ {r}]
    /\ UNCHANGED <<hashes, rooms, disk, queue, live, outq, bus, batch, fan, fanMsg,
                   fanRooms, history>>

\* Mutant: other subscribers are not looked for.
StillUsed_Unchecked(r) == FALSE

StillUsed(r) == \E d \in live : r \in subs[d]

\* ... second part: does a live session still use the room?
LeaveCheck(c) ==
    /\ at[c] = "leave_check" /\ SessionsFree
    /\ at' = [at EXCEPT ![c] = IF StillUsed(arg[c]) THEN "idle" ELSE "leave_hash"]
    /\ raced' = IF /\ ~StillUsed(arg[c])
                   /\ \E d \in Clients : at[d] \in Joining /\ arg[d] = arg[c]
                THEN raced \union {arg[c]} ELSE raced
    /\ UNCHANGED <<shared, arg, batch, fan, fanMsg, fanRooms, arrived, log, got,
                   mark, missed, restarts, ioErrors>>

\* ... third part: retire the room, one structure after the other.
LeaveHash(c) ==
    /\ at[c] = "leave_hash"
    /\ at' = [at EXCEPT ![c] = "leave_room"]
    /\ hashes' = hashes \ {arg[c]}
    /\ UNCHANGED <<rooms, disk, queue, live, subs, outq, bus, arg, batch, fan,
                   fanMsg, fanRooms, history>>

LeaveRoom(c) ==
    /\ at[c] = "leave_room"
    /\ at' = [at EXCEPT ![c] = "leave_queue"]
    /\ Store(rooms \ {arg[c]})
    /\ UNCHANGED <<hashes, queue, live, subs, outq, bus, arg, batch, fan, fanMsg,
                   fanRooms, arrived, log, got, mark, missed, raced, restarts>>

\* Mutant: the backlog outlives the room.
LeaveQueue_Kept(c) ==
    /\ at[c] = "leave_queue" /\ QueueFree
    /\ at' = [at EXCEPT ![c] = "idle"]
    /\ UNCHANGED <<shared, arg, batch, fan, fanMsg, fanRooms, history>>

LeaveQueue(c) ==
    /\ at[c] = "leave_queue" /\ QueueFree
    /\ at' = [at EXCEPT ![c] = "idle"]
    /\ queue' = [queue EXCEPT ![arg[c]] = <<>>]
    /\ UNCHANGED <<hashes, rooms, disk, live, subs, outq, bus, arg, batch, fan,
                   fanMsg, fanRooms, history>>

\* Mutant: a routed frame is taken and not written.
Pump_Lost(c) ==
    /\ at[c] = "idle" /\ outq[c] # <<>>
    /\ outq' = [outq EXCEPT ![c] = Tail(@)]
    /\ UNCHANGED <<hashes, rooms, disk, queue, live, subs, bus, task, history>>

\* The select loop takes a routed frame and writes it to the socket.
Pump(c) ==
    /\ at[c] = "idle" /\ outq[c] # <<>>
    /\ got' = [got EXCEPT ![c] = Append(@, Head(outq[c]))]
    /\ outq' = [outq EXCEPT ![c] = Tail(@)]
    /\ UNCHANGED <<hashes, rooms, disk, queue, live, subs, bus, task, arrived, log,
                   mark, missed, raced, restarts, ioErrors>>

\* The socket is gone: noticed at an await (in the loop or while a join is
\* flushing), the session deregisters.  Rooms are never retired here.
Close(c) ==
    /\ at[c] \in {"idle", "join_flush"} /\ SessionsFree
    /\ at' = [at EXCEPT ![c] = "closed"]
    /\ live' = live \ {c}
    /\ subs' = [subs EXCEPT ![c] = {}]
    /\ outq' = [outq EXCEPT ![c] = <<>>]
    /\ batch' = [batch EXCEPT ![c] = <<>>]
    /\ got' = [got EXCEPT ![c] = <<>>]
    /\ mark' = [mark EXCEPT ![c] = [r \in Rooms |-> Never]]
    /\ missed' = [missed EXCEPT ![c] = {}]
    /\ UNCHANGED <<hashes, rooms, disk, queue, bus, arg, fan, fanMsg, fanRooms,
                   arrived, log, raced, restarts, ioErrors>>

-----------------------------------------------------------------------------
(* The fan-out worker.                                                     *)

\* A peer's message enters the broadcast; a receiver that lags behind a full
\* channel skips the oldest event (RecvError::Lagged).
Arrive ==
    /\ arrived < MaxMsgs
    /\ arrived' = arrived + 1
    /\ bus' = Append(IF Len(bus) >= BusCap THEN Tail(bus) ELSE bus, arrived + 1)
    /\ UNCHANGED <<hashes, rooms, disk, queue, live, subs, outq, task, log, got,
                   mark, missed, raced, restarts, ioErrors>>

Hold == fan' = "listed" /\ fanMsg' = Head(bus) /\ fanRooms' = rooms

\* Take an event and copy the room list; without a room it is dropped.
FanList ==
    /\ fan = "idle" /\ bus # <<>>
    /\ bus' = Tail(bus)
    /\ IF rooms = {}
       THEN UNCHANGED <<fan, fanMsg, fanRooms>>
       ELSE Hold
    /\ UNCHANGED <<hashes, rooms, disk, queue, live, subs, outq, at, arg, batch,
                   history>>

\* Take the queue lock and the sessions lock.
FanLock ==
    /\ fan = "listed"
    /\ fan' = "locked"
    /\ UNCHANGED <<shared, at, arg, batch, fanMsg, fanRooms, history>>

\* Mutant: every client gets every room.
Targets_Everyone(r) == live

Targets(r) == {c \in live : r \in subs[c]}
Full(c)    == Len(outq[c]) >= OutCap

\* Mutant: the locks stay taken.
Release_Never(r) == UNCHANGED <<fan, fanMsg>>

\* The locks are released after the last room.
Release(r) == IF fanRooms = {r} THEN fan' = "idle" /\ fanMsg' = 0
                                ELSE UNCHANGED <<fan, fanMsg>>

\* One room of the list: push to its backlog, try_send to its subscribers.
FanRoom(r) ==
    /\ fan = "locked" /\ r \in fanRooms
    /\ queue' = [queue EXCEPT ![r] = Push(@, fanMsg)]
    /\ log' = [log EXCEPT ![r] = Append(@, fanMsg)]
    /\ outq' = [c \in Clients |-> IF c \in Targets(r) /\ ~Full(c)
                                  THEN Append(outq[c], <<r, fanMsg>>) ELSE outq[c]]
    /\ missed' = [c \in Clients |-> IF c \in Targets(r) /\ Full(c)
                                    THEN missed[c] \union {<<r, fanMsg>>}
                                    ELSE missed[c]]
    /\ fanRooms' = fanRooms \ {r}
    /\ Release(r)
    /\ UNCHANGED <<hashes, rooms, disk, live, subs, bus, at, arg, batch, arrived,
                   got, mark, raced, restarts, ioErrors>>

-----------------------------------------------------------------------------
(***************************************************************************)
(* The daemon dies at any point and boots again: everything in memory is   *)
(* gone, RoomStore::load reads the file (an unreadable one counts as       *)
(* empty) and build_state re-adds the hashes.                              *)
(***************************************************************************)
Restart ==
    /\ restarts < MaxRestarts
    /\ restarts' = restarts + 1
    /\ \/ rooms' = disk /\ UNCHANGED ioErrors
       \/ ioErrors < MaxIoErrors /\ rooms' = {} /\ ioErrors' = ioErrors + 1
    /\ hashes' = rooms'
    /\ queue' = [r \in Rooms |-> <<>>]
    /\ live' = {} /\ subs' = NoSubs /\ outq' = Empty /\ bus' = <<>>
    /\ at' = [c \in Clients |-> "closed"]
    /\ batch' = Empty
    /\ fan' = "idle" /\ fanMsg' = 0 /\ fanRooms' = {}
    /\ got' = Empty
    /\ mark' = [c \in Clients |-> [r \in Rooms |-> Never]]
    /\ missed' = NoSubs
    /\ raced' = {}
    /\ UNCHANGED <<disk, arg, arrived, log>>

ClientStep(c) ==
    \/ Open(c) \/ Close(c) \/ Pump(c)
    \/ \E r \in Rooms : JoinHash(c, r) \/ LeaveUnsub(c, r)
    \/ JoinRoom(c) \/ JoinDrain(c) \/ JoinFlush(c)
    \/ LeaveCheck(c) \/ LeaveHash(c) \/ LeaveRoom(c) \/ LeaveQueue(c)

FanStep == FanList \/ FanLock \/ \E r \in Rooms : FanRoom(r)

Next == (\E c \in Clients : ClientStep(c)) \/ Arrive \/ FanStep \/ Restart

Spec == Init /\ [][Next]_vars

(***************************************************************************)
(* Fairness: a spawned task that can run does run.  select! picks a ready  *)
(* branch at random, so a routed frame is not passed over forever (strong  *)
(* fairness of Pump) however many requests the client sends.  Nothing      *)
(* forces a client to connect, ask or leave, a peer to write or a crash.   *)
(***************************************************************************)
HandlerStep(c) ==
    \/ JoinRoom(c) \/ JoinDrain(c) \/ JoinFlush(c)
    \/ LeaveCheck(c) \/ LeaveHash(c) \/ LeaveRoom(c) \/ LeaveQueue(c)

Fairness ==
    /\ WF_vars(FanStep)
    /\ \A c \in Clients : WF_vars(HandlerStep(c)) /\ SF_vars(Pump(c))

FairSpec == Spec /\ Fairness

-----------------------------------------------------------------------------
(* Properties.                                                             *)

Range(s) == {s[i] : i \in 1 .. Len(s)}

\* The messages of room r among frames s,
MsgsOf(r, s) == {m \in Msgs : <<r, m>> \in Range(s)}

\* ... which follow each other in the order of their arrival, none twice.
InOrder(r, s) ==
    \A i, j \in 1 .. Len(s) : i < j /\ s[i][1] = r /\ s[j][1] = r => s[i][2] < s[j][2]

\* What client c has been sent or has coming, in order.
Stream(c) == got[c] \o Framed(arg[c], batch[c]) \o outq[c]

\* The backlog that c found when it joined r, and all that was pushed since.
Since(c, r) == {log[r][i] : i \in mark[c][r] + 1 .. Len(log[r])}

(***************************************************************************)
(* What handle_join's critical section buys: over a socket that joined a   *)
(* room once, the client's stream of that room is the backlog found at the *)
(* join followed by every message pushed since, in order, none twice and   *)
(* none left out but those its own full channel refused.                   *)
(***************************************************************************)
ExactlyOnceSinceJoin ==
    \A c \in live : \A r \in subs[c] :
        mark[c][r] >= 0 =>
            /\ InOrder(r, Stream(c))
            /\ MsgsOf(r, Stream(c)) = {m \in Since(c, r) : <<r, m>> \notin missed[c]}

(***************************************************************************)
(* A room somebody is subscribed to is a room of the daemon, on disk side  *)
(* (rooms) and towards the peers (hashes), unless a join overlapped the    *)
(* retirement of the same room by handle_leave.                            *)
(***************************************************************************)
SubscribedIsMember ==
    \A c \in live : \A r \in subs[c] \ raced : r \in rooms /\ r \in hashes

(***************************************************************************)
(* The two membership sets agree whenever no handler is between its update *)
(* of one and of the other (same exception).                               *)
(***************************************************************************)
HashesFollowRooms ==
    \A r \in Rooms \ raced :
        (\A c \in Clients : arg[c] = r => at[c] \notin {"join_hash", "leave_room"})
            => (r \in hashes <=> r \in rooms)

(***************************************************************************)
(* A retired room keeps no backlog, except the one message the fan-out     *)
(* worker had in its hands with a room list copied before the retirement.  *)
(***************************************************************************)
OrphanBacklogBounded ==
    \A r \in Rooms \ rooms :
        (\A c \in Clients : ~(at[c] = "leave_queue" /\ arg[c] = r))
            => Len(queue[r]) + (IF r \in fanRooms THEN 1 ELSE 0) <= 1

(***************************************************************************)
(* A crash between any two steps neither loses a joined room nor revives a *)
(* retired one, as long as rooms.json could be written and read.           *)
(***************************************************************************)
CrashKeepsRooms ==
    [][restarts' # restarts /\ ioErrors' = 0
          => rooms' = rooms /\ hashes' = rooms]_vars

(***************************************************************************)
(* A frame routed to a client reaches its socket, unless the socket closes *)
(* first (or the daemon dies, which closes it).                            *)
(***************************************************************************)
RoutedFramesArrive ==
    \A c \in Clients : \A r \in Rooms : \A m \in Msgs :
        <<r, m>> \in Range(outq[c])
            ~> <<r, m>> \in Range(got[c]) \/ at[c] = "closed"

(***************************************************************************)
(* Every message a peer delivers is taken off the broadcast and every      *)
(* request is answered: the locks of worker and handlers never block each  *)
(* other for good.                                                         *)
(***************************************************************************)
EverythingSettles ==
    /\ bus # <<>> ~> bus = <<>> /\ fan = "idle"
    /\ \A c \in Clients : at[c] \notin {"idle", "closed"}
                             ~> at[c] \in {"idle", "closed"}

=============================================================================
