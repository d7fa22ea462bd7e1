# mlink: specification, model checking and proofs

This directory is the verification project of mlink, a Rust library and daemon
that joins devices into rooms over BLE, TCP and IPC.  It holds TLA+ models
translated from the source, TLC configurations for small instances, and theorems
checked by TLAPS for every value of the constants.  `PROJECT.json` is the index:
components, runs, the map from definitions to source lines, mutants, findings,
hazards and theorems.

    tlasany M.tla                          parse a module
    tlc -workers 2 -config X.cfg M         run a configuration
    tlapm MProofs.tla                      check the proofs of a module

Paths below are relative to `src/`; `core/`, `protocol/` and `transport/` are in
`crates/mlink-core/src/`, `daemon/` stands for `crates/mlink-daemon/src/`, and
`commands/`, `conn_tracker.rs` and `role.rs` are in `crates/mlink-cli/src/`.

## 1. Inventory

| Component | State | Operations | Interacts with |
|---|---|---|---|
| Duplicate filter, `protocol/seq.rs` | `last`, 128-bit bitmap, `seen` | `SeqGen::next`, `observe`, `snapshot` | session reader and writer |
| Unacked ring, `core/session/types.rs` | frames written and not acknowledged | `push`, `ack_cum`, `sack` | `Session::send`, `on_ack` |
| Session traffic, `core/session/io.rs`, `reader.rs` | active link, window, pending acks | `send` (failover inline), `recv`, `flush_ack_now`, `on_ack` | links, node readers |
| Session manager, `core/session/manager.rs` | peer -> session, links of a session | `attach_link`, `detach_link`, `drop_peer` | node |
| Node, `core/node/` | connections, peers, states, readers, event broadcast | register after handshake, peer readers, disconnect, switch | transports, connect loops, daemon |
| Link health, `core/link.rs` | RTT and error averages | `score`, `is_healthy` | scheduler, `Session::send` |
| Daemon rooms, `daemon/rooms.rs`, `queue.rs`, `bootstrap.rs` | room set, `rooms.json`, backlog per room, client subscriptions and channels | restore, fan-out worker | node events, client tasks |
| Daemon client tasks, `daemon/session/` | one task per WebSocket | join, leave, send, ping, ... | room store, backlog, node |
| Discovery and connect loops, `daemon/discovery/` | seen, engaged, attempts, wire-to-app ids | scan, dial, accept, retry | node, transports |
| Single instance, `daemon/lifecycle.rs` | `daemon.json`, its temporary file | check, stale removal, bind, write, rename, release | operating system |
| TCP and IPC connections, `transport/tcp.rs`, `ipc.rs` | two halves of a stream, a lock each | `read`, `write`, `close`; `perform_handshake` on top | node |
| BLE, `transport/peripheral.rs`, `ble.rs` | subscribed centrals, a channel per central, the wake-up of writers | delegate callbacks, `wait_for_central`, `read`, `write`, `close` | CoreBluetooth, node |
| RPC, streams, publish/subscribe, `crates/mlink-core/src/api/` | waiters by request id, streams, topics | request, answer, timeout; chunk; subscribe, publish | node |
| CLI hosts, `crates/mlink-cli/src/` | connection tracker, reader handles, scanner | `serve`, `chat`, `join` | node, transports |
| TypeScript client, `packages/client/src/` | socket, pending requests, joined rooms, timer | connect, request, reconnect, re-join | daemon WebSocket |
| Reconnect policy, `core/reconnect.rs` | attempts, delays | next delay, reset | nobody |
| Security, codecs | bytes and keys | encode, encrypt | everything above |

**What is hard here.**  Everything runs as tasks of a multi-threaded runtime and
every structure has its own lock; nearly every operation is several critical
sections in a row, and other tasks run between them.

- *Two transports, one peer.*  A connect loop per transport registers connections
  of the same peer while older readers of it tear down.  Registration and teardown
  each touch four structures under four locks.
- *Cancellation.*  `CONNECT_TIMEOUT` drops a registration at any of its awaits.
- *Several readers.*  Each reader may read any link of the session; they share one
  window and one count of pending acknowledgements.
- *Failover.*  A write that failed may have been carried out; it is repeated over
  another link, so the same message arrives twice, over two links, out of order.
- *Numbers.*  32-bit numbers wrap and a 128-bit bitmap slides over them.
- *Subscribe while messages arrive.*  A client's join copies the backlog while the
  fan-out worker appends to it and routes to subscribers.
- *Bounded channels.*  Backlog, client channel and event broadcast overwrite or
  refuse when they are full.
- *Crashes.*  The daemon persists its rooms and `daemon.json`, each in several
  system calls.
- *One connection, many users.*  Calls, streams and messages of a peer take frames
  from one connection; request ids are 16 bits wide and wrap.
- *Callbacks of another thread.*  CoreBluetooth calls the BLE delegate between any two
  steps of the tasks that write, accept and read.
- *Cut short.*  Timers end a read or a write in the middle of a frame, a dial after the
  node has registered it, a request whose answer is on its way.
- *Sockets that overlap.*  The TypeScript client opens a socket while handlers of an
  older one can still run.

**What makes each part correct.**

- Filter: no frame twice, no fresh frame inside the window lost, across the wrap.
- Traffic: every accepted message is eventually acknowledged; only received
  messages count as acknowledged; failover neither repeats nor reorders.
- Node: session, active link, connection entry, peer entry and reported state agree
  once tasks are done; a lost peer is noticed; a live link has a reader.
- Daemon: a subscriber's stream of a room is complete and without repetition; room
  store, hashes and file agree; no lock blocks a task for good.
- Connect loops and CLI hosts: a visible peer is dialled again after it was lost or
  refused, and not ignored without a reason; one reader per peer.
- Streams of bytes: frames arrive whole and in order, writes return, no end stays
  connected alone; BLE bytes reach the connection of the central that wrote them.
- API: an answer reaches its own call, every call returns, a stream that ends is whole.
- Client: it and the daemon agree on the rooms; a lost connection comes back.
- Single instance: at most one daemon.

The full list, at source lines, is under `hazards` in `PROJECT.json`.

## 2. Modules

| Module | Models | Extends |
|---|---|---|
| `DedupWindow` | `SeqGen`, `DedupWindow` as operators over `M` numbers and `W` bits | |
| `AtMostOnceChannel` | the abstract promise: handed over only what was offered, and once | |
| `DedupDelivery` | one receiver behind the filter, a network that repeats, reorders, delays | `DedupWindow`, instantiates `AtMostOnceChannel` |
| `UnackedRing` | `UnackedRing` as operators on a sequence | `DedupWindow` |
| `TrafficState` | what the two nodes of a session keep, and what must hold of it | `UnackedRing`, instantiates `AtMostOnceChannel` |
| `SessionTraffic` | `Session::send`, `recv`, acks and failover between two nodes | `TrafficState` |
| `NodePeers` | sessions, connections, readers and teardown of one peer | |
| `ConnectLoop` | scanner and connect loop of one transport, their channels, the runtime switch | |
| `DaemonRooms` | rooms, subscriptions, backlog, fan-out, restart | |
| `FramedStream` | both ends of a TCP or IPC connection, the handshake over it, close | |
| `BleLink` | a BLE peripheral, its delegate, the centrals and their connections | |
| `ApiCalls` | RPC, streams and publish/subscribe of one node towards a peer | |
| `ClientSession` | the TypeScript client and its sessions with the daemon | |
| `CliState` | what a CLI process keeps, what peers may advertise, what must hold of it | |
| `CliHost` | the loops of `serve`, `chat` and `join` with tracker, scanner, readers | `CliState` |
| `SingleInstance` | daemons that start and stop around `daemon.json` | |
| `MC*` | instances for TLC | the module they name |
| `SessionProofs` | theorems | `DedupDelivery` and `TrafficState`, instantiates `SessionTraffic` |
| `DaemonProofs` | theorems | `DaemonRooms`, instantiates `SingleInstance` |
| `ClientProofs` | theorems | `ClientSession` and `CliState`, instantiates `CliHost` |
| other `*Proofs` | theorems | the module they name |

Where a proof module treats two components, the theorems about the one it instantiates are
about that module's own specification (`Traffic!Spec`, `Single!Spec`, `Cli!Spec`): no constant
and no variable is replaced, save that `Single` calls `at` `stage`.

A definition is translated from the lines `map` gives for it.  Three conventions
hold in all modules.

*Steps.*  A step is what a task does under one lock, or one lock-free stretch.  A
lock taken and released with nothing observable before the next one is merged with
it; the places where state read under one lock is used under the next (`at`, `lat`,
`sat`, `rat`, `fan`) are all kept.

*Mutants.*  A definition `X_Word` directly before `X` is a plausible wrong version
of `X`.  It is used nowhere; each property is known to fail when its mutant takes
the place of the definition, which shows that the property says something about it.

*History.*  Variables under "history" are never read by the model's guards, except
the counters that bound it; they let properties speak about the past.

### DedupWindow, DedupDelivery

`seq.rs` keeps `last_delivered: u32`, a `u128` bitmap and a flag.  The model keeps
the width as constants: numbers `0 .. M-1`, bits `0 .. W-1`, with `2 W <= M`
(2^32 and 128 in the code).  The bitmap is the set of its set bits; `wrapping_sub`
is `% M`; a shift by `W` or more clears the bitmap as the code's explicit test
does.  `DedupDelivery` numbers frames without wrap-around as history, so that
"the same frame" and "a fresh frame with the same number" can be told apart.
`LagBounded` is the source's own assumption: a frame is at most half the number
space away from the newest one.

`AtMostOnceChannel` is what the filter is for.  `DedupDelivery` implements it with
`offered` the frames that have a number and `returned` the count of deliveries;
`SessionTraffic` steps as it with the messages issued so far and what `recv` returned, save
for messages that have lapsed (below).

### SessionTraffic

A sends, B receives.  `SendBegin`, `CurrentOrPick`, `Adopt`, `Write`,
`PromoteOnFailure`, `Retry`, `RecordUnacked` are the stretches of `Session::send`
between its locks and awaits.  `RecvMessage`, `CountAccept`, `MaybeFlush`,
`TakePending`, `TakeSnapshot`, `SendAck` are those of `Session::recv` and
`flush_ack_now`.  `OnAck` is the sender's reader on an ack frame.  `LoseLink` takes
a link down and keeps a prefix of what was under way; a write to such a link fails
and may have been carried out all the same.  `content` is what the receiver reads
as the session number, the first four bytes: `Session::send` writes the payload as it is given,
so it is fixed by the application, and any of `Beginnings`, too few bytes included
(`Short`).  `SendBegin` may also return at once: an error before a link is chosen.  `lapsed`
records, as history, the accepted messages that the newest number seen has since moved past by
more than half the number space; a copy of such a message counts as new.
Health is a free consequence: an error may make a link unhealthy, a success may heal
it, and any healthy link may be the best one.

### NodePeers

One peer, one connect loop per transport, a reader task per registered connection,
and one task `Op` for calls from above (the daemon's `transport_switch` and
`disconnect_link` requests, `disconnect_peer`, and the two places in `Session::send`
that set the active link).  `Handshake` stands for a dial or accept that passed
handshake and `check_room`.  The loop then goes through `contains` (reads
`is_first_link`), `attach`, `add_conn`, `add_peer`, `set_state`, `spawn`; `Timeout`
cuts it off at any of them.  A reader decides at the head of each turn between the
session (`get`, `snapshot`, `select`) and the one connection (`shared`, `read`); on
error it goes through the teardown, which shares `detach_link` and `drop_peer` with
`Op`.  A session is named by the connection that created it.  `misread` records, as
history, the sessions of which a reader took the active link after another reader had
removed it and before it cleared it.

### ConnectLoop

One transport.  The scanner goes round: take the waiting unsee requests
(`ScanDrain`), scan and keep what is new (`ScanRound`), pass it on (`ScanSend`).
`connect_loop` takes a discovered peer (`TakePeer`), a connection of the listener
(`TakeConn`) or an event (`TakeUp`, `TakeDown`, `TakeLagged`); a dial or accept is
`Register` (the call into the node, whose insides are `NodePeers`) and then one of
`Settle`, `DialMismatch`, `DialFails`, `AcceptFails`, and `CONNECT_TIMEOUT` may cut it
off before or after the registration.  `TimerFires` is the task that waits two seconds
before it asks for a rescan.  `ScanEnds` and `LoopEnds` are the failures that end the
tasks for good, `Disable` and `Enable` the switch of `TransportControllers`.  The node
is the set `peers` and the loop's queue of its events; `Lose` is anything that removes
a peer and says so, `Elsewhere` a registration by the other transport's loop.  A wire
id always stands for the same peer (`AppOf`).  `tainted` records that this loop has
lagged behind the broadcast or had an unsee request refused.

### DaemonRooms

`JoinHash`, `JoinRoom`, `JoinDrain`, `JoinFlush` are the critical sections of
`handle_join`; `LeaveUnsub` to `LeaveQueue` those of `handle_leave`; `Close` is
`deregister`; `Pump` is the select loop writing a routed frame.  `FanList`,
`FanLock`, `FanRoom` are the worker, which holds queue lock and sessions lock from
the first room to the last.  `Restart` is a crash at any point followed by
`build_state`.  Backlog and broadcast overwrite their oldest entry when full, a
client's channel refuses.  A read or write of `rooms.json` may fail (`MaxIoErrors`).
Messages are arrival numbers, so `ExactlyOnceSinceJoin` can say "in order and none twice"
of a stream's frames of one room (`InOrder`) and "nothing missing" as an equality of sets.

### FramedStream

Both ends of one connection.  The pipes carry units, `HeaderLen` of length and
`BodyLen` of payload to a frame, so that a reader can be stopped between them.  `rq`
and `wq` are the queues of the two tokio mutexes, which are fair; whoever is at the
head holds the lock.  `read` and `write` keep theirs over the whole frame, `close`
takes first the one and then the other.  Frame 0 is the handshake: `perform_handshake`
writes, then reads, each under a timer that may cut it short
(`HandshakeWriteTimeout`, `ReadCancel`), and the node closes what did not pass.  `reader` is who
reads a registered end: nobody (CLI `serve` and plain `join` start no reader), a reader of the
connection (`recv_once`), which closes on an error, or one in `Session::recv` over several
links, which goes on after an error, closes nothing, and drops a read in progress when another
link or its timer is first (`ReadCancel`).  A reader decides anew at each turn between the last
two (`ReadBegin`).  `Exit` is the end of a process.  `torn` marks an end whose read was given up
half-way.

### BleLink

`DidReport`, `DidSubscribe`, `DidUnsubscribe`, `DidReceiveWrite` and `Drained` are the
delegate's callbacks, each taken with the event it reports.  `WaitForStep` and
`BringUpTimeout` are `MacPeripheral::start`, `WaitForCentral` is the accept loop, and
`WriteArm`, `WriteTry`, `WritePark`, `WriteTimeout` are `MacPeripheralConnection::write`
around its `Notify`: a callback between the refused `updateValue` and the first poll
finds the future already made.  `conns` keeps for each accepted connection its channel
and what it read, `chan` which of them a central's bytes go to.  Subscriptions are numbered as
history and a frame carries that of its writer, so that two connections of one central can be
told apart; `stale` are the connections whose subscription had ended, and `early` those whose
central had left, before `wait_for_central` came to the event.  A central may subscribe while
`start` still waits for the advertising report, and its event is then discarded
(`WaitForStep`).  The central's `BleConnection` is `CentralReadBegin` to `CentralCloseEnd`;
`close` waits for the lock that `read` holds up to its timeout.  Left out is `connect` to a
peripheral that is connected already (`transport/ble.rs:303`, after a dial that was cut
off), which makes a second `BleConnection` over the same link.

### ApiCalls

`CallId`, `CallRegister`, `CallSend`, `CallReturn`, `CallExpire`, `CallCancel` are the
stretches of `rpc_request` between its locks and awaits; `tx` is the oneshot channel of a call.
The peer answers in any order (`PeerAnswer`) and sends streams; frames wait in `inq`, and
`AppRecv`, `recv_message` and `StreamRecv` each take the next one (`recv_raw`), whatever
it is, which is why `StreamWhole` speaks of a reader that was the only consumer.  `Written`
is how many chunks the writer of a stream has written when it calls `finish`, which does not
compare them with the `total_chunks` announced.  A send succeeds while the link is up; a chunk
that `send_raw` refuses for another reason is one that was not written.
`PublishBegin` and `PublishSend` go over the list of a topic one peer at a time.

### ClientSession

The client runs on one event loop: a handler with the promise callbacks it triggers is a
step.  `connect` starts the probe for the port (`PortResolved`), opens a socket, waits for
`ready` and re-joins its rooms (`Rejoin`); `Noticed` is a socket's close handler,
`cleanupSocket` what it does, `TimerFires` the reconnect timer.  `up` and `down` are the
messages of each socket in both directions, so that an answer can be under way when its
request times out or its socket closes.  The daemon's side (`DaemonHandles`, `DaemonEnds`)
is one session per socket with the rooms it is subscribed to (`subs`).  A request the daemon
answers with an error before it changes anything (`bad_room`, `bad_payload`) is a `send` of the
model: an error and no more.

### CliHost

`command`, `ble` and `advert` are fixed at the start: which of `serve`, `chat`, `join` runs,
over which transport, and what the peers advertise.  `discover` and `browse_once` say what a
scan makes of it, `metadata_matches_any_room` what passes the scanner's filter.  The arms of
`select!` are `TakePeer` and `TakeAccepted` with the outcomes of their dial or accept
(`DialOk`, `DialErr`, `DialMismatch`, `AcceptOk`, `AcceptErr`), and `TakeEvent`; an arm runs
to its end before the next is chosen.  A typed line (`TypeLine`) holds the loop of `chat` and
`join --chat` until its sends return (`SendReturns`).  `RetryDue` is the task
`schedule_retry_unsee` spawns.  The node is one connection per peer (`link`); its insides are
`NodePeers`.  Its events wait in a broadcast of `EventCap` (128 in the code), which messages
share: one that is sent when it is full overwrites the oldest (`Publish`, `MessageReceived`), and
the loop ignores the `Lagged` that tells it.  `missed` records of whom a `PeerDisconnected` was
lost in this way.

### SingleInstance

A process goes through `Check`, `Decide`, `Remove`, `Bind`, `Write`, `Rename`, serves, and
goes through `Cleanup`; it may be killed at each of them (`Kill`), a system call may fail
(`IoError`), the removal of the file may fail, which is only logged (`remove_daemon_info`,
`kept`), and the pid of a dead daemon may come to belong to another program (`PidReused`).
`overlap` records that a process started while another was starting or cleaning up.

## 3. Runs

| Run | Instance | Shows |
|---|---|---|
| `dedup` | 8 numbers, 3 bits, 10 frames | the filter equals its reference definition while numbers wrap and the window slides; it implements `AtMostOnceChannel` |
| `traffic` | 2 links, 1 sender, 2 readers, 3 messages, 1 lost link | no acknowledgement is forgotten, all are sent in time; failover delivers a message once, until the newest number has moved more than half the space past it |
| `peers` | 2 transports; 3 connections, or 2 and a manual operation or a timeout | session, active link and entries stay consistent; a listed link keeps its reader |
| `rooms` | 2 clients, 1 room, 2 messages, 1 crash, 1 I/O error, capacities 2, 1, 1 | streams are exact, membership sets agree, a retired room keeps at most one message, crashes keep the rooms |
| `rooms_live` | 2 clients, 1 room, 1 message, 1 crash | routed frames arrive, locks never block for good |
| `connect` | 2 wire ids of a peer, 2 retries, 1 loss, 1 accepted connection, 1 fault, capacities 1, 2 | no wire id stays taken, none is forgotten, a visible peer that is not connected is dialled until its retries are used up |
| `stream` | 2 units of length, 1 of payload, a pipe of 3, 2 frames, 1 interruption | frames arrive whole and in order, writes to an end with a reader return, an end in the handshake or with a reader of its own does not stay connected alone |
| `ble` | 2 centrals, 3 subscriptions, 2 frames, a queue of 1 | a connection reads the frames of one subscription, the one it was accepted for unless that had ended, no wake-up is lost, a reader sees the end of its central, closes arrive |
| `api` | 2 request ids, 3 calls, 2 streams of 2 chunks, one finished after the first, 2 subscribers, 3 operations | answers reach their own calls, the table of waiters is exact, streams are whole, publications complete, calls return |
| `client` | 1 room, 3 sockets, 2 `connect()`, 2 requests, 1 event, 1 drop | client and daemon agree on rooms, no request is orphaned, a lost connection comes back |
| `cli` | 4 commands, 2 transports, 2 peers (of which `serve` dials one), 2 retries, a broadcast of 2, 1 incoming connection each, 1 loss | one reader per peer, no dial refused without reason, failed dials are repeated |

One more run states what a comment says and is violated by what the code does;
`findings` quotes the line.

| Run | Statement | What happens |
|---|---|---|
| `instance` | a daemon that `ensure_single_instance` lets pass can safely claim the slot | two daemons check before either has written `daemon.json`; both serve |

Departures that the models contain and no run states.  Sessions and traffic:

- `Session::send` puts the payload into the frame as it is, and the receiver takes its
  first four bytes for the session number, so that of two messages that begin alike the
  second is dropped (`core/session/io.rs:45`; "Wire 约定（与 W2-A 发送端对齐）",
  `core/session/reader.rs:3`); and messages that begin far apart take the newest number round
  the space, so that the filter takes a late copy for new and one message is returned twice
  (with `M = 8` messages that begin with 0, 3, 6 and a failover of the first, which is in the
  run `traffic`).  `OnceUnlessLapsed` names the messages to which it can happen (`lapsed`);
- an endpoint that only receives promotes no other link: with its active link down every
  acknowledgement fails and is counted again (`core/session/reader.rs:112`), the case
  `AcksFlow` leaves out;
- the newest number seen is sent as the cumulative acknowledgement and removes frames that
  have not arrived (`core/session/reader.rs:89`; "ack 之前（含）的 seq 全部收到",
  `docs/dual-transport-final/INTERFACE-CONTRACTS.md:39`);
- failed links stay listed, so that two of them keep each other listed and the reader goes
  round for good (`core/session/reader.rs:161`; "若所有 link 都丢了，返回 `NoHealthyLink`",
  `core/session/reader.rs:42`);
- `ConnectionManager::add` may replace an entry whose connection is still open;
- the reader's error path reads the active link, and `detach_link` removes and clears it
  under different locks: of two readers that end for the same link one was reading another,
  which stays open, listed and unread (`core/node/io.rs:200`).  It takes four connections over
  two transports; `LinksKeepReaders` names the exception (`misread`) and holds otherwise.

Daemon:

- `handle_leave` tests for other subscribers and retires the room under different locks; a
  join in between is subscribed to a room the daemon has left ("Only an explicit `leave`
  from the last subscriber retires the room", `README.md:75`);
- two daemons that start together also share `daemon.json.tmp`, so that one may publish the
  other's pid; a stale check may delete the file of a daemon that has just written it, and a
  shutdown removes the file whoever's it is; a reused pid keeps a daemon from starting;
- a stale `daemon.json` that cannot be removed is only logged, and a crash before
  `write_daemon_info` then leaves the old pid visible (`daemon/lifecycle.rs:125`; "a later crash
  between this check and `write_daemon_info` can't leave the old `{port,pid}` visible",
  `daemon/lifecycle.rs:73`);
- a second join of a subscribed room sends again what the worker has sent ("No
  duplication, no loss", `daemon/session/handlers.rs:79`); `ExactlyOnceSinceJoin`
  speaks of the first join only;
- a frame a slow client's channel refused is drained by another client's join (the
  fan-out worker counts on the backlog, `daemon/bootstrap.rs:117`);
- the single-link teardown removes and closes whatever connection is registered, so a
  standby attached meanwhile is closed ("isn't mass-killed", `core/node/io.rs:181`);
- after `Lagged` the loop empties `wire_to_app` but keeps `engaged` and
  `connected_inbound`, so a peer lost meanwhile stays ignored ("every future discovery
  gets a fresh dial attempt", `daemon/discovery/connect.rs:161`); an unsee request that
  finds its channel full is dropped; a failed `discover` or accept ends scanner, loop
  and listener while the transport still counts as running;
- a dial turned down for its room uses up the retries, so a later join of that room
  does not redial the peer until it connects by itself;
- `detach_link` tests and unregisters under different locks, so a link attached in
  between goes with the session;
- nothing calls `flush_unacked_over`, so a failover resends only the frame in hand
  (contract in `docs/dual-transport-final/INTERFACE-CONTRACTS.md:680`);
- a due acknowledgement is thrown away when no link is active (`ackDropped`).

Transports and API:

- `close()` takes the reader's lock first, so it waits behind a parked reader until the
  peer sends or goes ("Drop the read half so any parked reader observes EOF.",
  `transport/tcp.rs`);
- a read that is given up after the length was consumed leaves the stream out of step
  (`torn`).  The handshake's timer does so and closes the connection; `Session::recv` does so
  whenever another link or its ack timer is first (`core/session/reader.rs:146`), and reads on;
- an end without a reader (CLI `serve`, plain `join`) lets the writes of the other end wait for
  good once the socket's buffers are full, and does not notice that the other is gone; nor does a
  reader in `Session::recv` close a link that has failed (`core/session/reader.rs:153`);
- a BLE connection that `wait_for_central` makes of a subscription which has ended is given the
  frames of the central's next one, until that is accepted and takes its place;
- a stream that is finished early ends for its reader like a whole one: neither the announced
  number of chunks nor the checksum is compared;
- a BLE host that advertises its identity has it in the place of the room, and the scanner's
  filter drops it, although it claims no other room ("only avoid surfacing peers that
  *positively advertise a different* room", `core/scanner.rs`);
- a peripheral's write goes to every subscribed central, not only to the connection's own;
- a request that could not be sent leaves its waiter in the table;
- two consumers of one connection take each other's frames.

TypeScript client and CLI:

- `disconnect()` during `connect()` leaves the promise cached and the socket still opens;
  `connect()` while connected or while the timer is armed opens a second socket, and the
  close of the first tears down the second; requests and re-joins go through the newest
  socket, whoever makes them; a `leave()` between open and `ready` is undone by the re-join;
- a `send` is acknowledged when at least one peer was reached;
- `on_peer_disconnected` keeps the wire id engaged, so a lost peer is not dialled again
  until it dials in (`conn_tracker.rs:160`; "is free to redial", `conn_tracker.rs:159`);
- the loops ignore `Lagged`, so a `PeerDisconnected` that messages or other events have pushed out
  of the broadcast leaves its peer counted as connected (`commands/chat.rs:224`);
- a line typed in `chat` is sent without a timeout, and a peer that does not read holds the
  whole loop (`commands/chat.rs:93`);
- the handle of a reader that has ended keeps a
  reconnected peer without one; `serve` starts no readers although it is to "print incoming
  frames" (`commands/serve.rs:1`); a room mismatch uses up the attempts.

**Bounds, and why they are enough.**  Each bound is a constant named in its module
and enforced in a guard.  `dedup`: `MaxSent > M` makes numbers wrap, three bits are
the fewest with a first, an inner and a last bit, and `M > 2 W` leaves a gap between
stale and fresh.  `rooms`: two clients are what every race here needs (join against
leave, join against join); two messages distinguish order; an output capacity of one
makes it overflow, a backlog of two makes it hold more than the channel.  `peers`:
the races need one registration and one teardown, hence two connections; a third lets a
transport register twice, so that a duplicate is turned down and a reader of it outlives
its connection; the constraint `Budget` lets an operation or a timeout meet two
connections and three connections meet each other, and the two transports are
interchangeable.  `traffic`: two readers and a threshold of two make a count, a snapshot
and a write of different readers interleave; one lost link makes a failover; three
messages overflow a ring of two, and go round a space of eight in three steps or, in the other
choice of contents, begin alike or are short.  `connect`: two wire ids of one peer are what a duplicate
dial, a dial against an accept and a loss that releases several ids need; two retries are
one that is repeated and a last one; a channel of one blocks the scanner, an unsee channel
of two refuses; one fault is a failed task or a switch.  `stream`: two units of length can
be cut apart, two frames are two writers of an end or one of each, a pipe of one frame
makes a write wait.  `ble`: two centrals are what a routing error needs, a third
subscription lets one of them come back; a queue of one refuses the second notification.
`api`: three calls over two ids wrap; two streams interleave, of which one ends early.
`client`: one drop, a second `connect()` and a timer make three sockets that overlap.  `cli`: two peers compete for a
channel of one; an incoming connection meets a dial; a broadcast of two loses the loss of a
peer to the next event; `serve`, which starts no readers and types no lines, has one peer
to dial (`MCSpec`).  `instance` needs two processes; a third
lets a crashed one precede them.  The theorems lift these
bounds for what they cover.
Deadlock checking is off because every bounded instance may come to rest: no more
messages, connections or clients.

**Fairness, and why the code justifies it.**  A spawned task that can run does run
(the runtime polls ready tasks): weak fairness of the worker, of handlers, of each
connect loop's remaining steps, of each reader's own steps, of a send in progress.
`Pump` has strong fairness: `select!` picks among ready branches at random, so a
routed frame is not passed over forever while the client keeps sending requests.  A
read of a lost connection returns; a read of an open one may wait forever.  Scanner, connect
loop, CLI loop and unsee timers run, and a dial ends, by its timeout if not otherwise.  A reader
whose ack deadline has passed flushes (the timer is the first branch of `read_any`).
`stream`: a read, write or close that can take its next step takes it, and a reader that was
started reads on; nobody has to start one, or to send.
`ble`: timers fire, the radio transmits, tasks that can go on do.  `api`: a call's own task
runs and its timer fires; nobody has to answer.  `client`: the event loop runs callbacks and
timers, and the daemon is there, accepts (refusals are bounded) and handles what it receives.
`cli`: the loop goes on with an arm that is ready, and a discovered peer is not passed over for
good (strong fairness of `TakePeer`: `select!` picks at random); a line's sends return at the
latest when no connection is live.

Two assumptions are about the other side.  `Pump`, and the handlers that answer a request,
await a write to the client's socket: `RoutedFramesArrive` and `EverythingSettles` hold of
clients whose socket takes what is written.  `CallSend` awaits `send_raw`, which has no timeout of
its own (the one in `rpc_request` starts after it, `crates/mlink-core/src/api/rpc.rs:171`):
`EveryCallReturns` holds of peers that read.  A typed line may be held up by its peer for good;
`FailedDialIsRetried` says so.  Otherwise nothing is assumed of clients, peers, the network or
crashes.

## 4. Proofs

Assumptions are the named `ASSUME`s on constants: capacities and window sizes are
positive, bounds are natural numbers, sets of rooms and peers are finite, `2 W <= M`, `None`
is no link.  An instance brings no assumption along: what the theorems about `CliHost` and
`SessionTraffic` need is in `CliState` and `TrafficState`, and those about `SingleInstance` need
nothing.  All theorems
hold for any number of clients, rooms, connections, transports, links, readers, sockets,
peers and messages.

**`SessionProofs`**: `NeverTwice`, `WindowIsExact`, `FilterIsExact`,
`FilterImplementsChannel` (of `DedupDelivery`); `AcksAreNeverForgotten`,
`TrafficDeliversOnce` (of `SessionTraffic`).
`AtMostOnce` is not inductive, since nothing in it says that the bitmap remembers what
was delivered.  The strengthening is `WindowExact`: `last` is the newest frame modulo
`M` and bit `i` is set exactly when frame `newest - i` was delivered.  The lemmas
reduce wrapped distances to true ones under `LagBounded` and show that `Verdict` and
`Observe` compute the reference answer.  `FilterImplementsChannel` is the refinement: the
initial state maps to the channel's, numbering a frame is `Offer`, an accepted one is
`Return` (it was not delivered before, by exactness), and every other step leaves the
channel alone.

`AcksAreNeverForgotten` needs little besides itself: the count is a number and each reader has
a place, a message and a snapshot of its own (`ReadersShape`).

`TrafficDeliversOnce` says that a message handed to `Session::send` is returned by
`Session::recv` at most once, whatever failover repeats and whatever the payloads begin with,
unless it has lapsed.  Nothing bounds how late a copy arrives, and the number is whatever the
payload begins with, so exactness of the window is neither available nor needed: what carries
the proof is how the newest number moves.  A number is `Near` when it is at most half the space
behind the newest one and, if still inside the window, has its bit set; the filter turns down
what is near (`NearIsOld`), what it accepts is near from then on, and what was near stays so
unless the step takes it more than half the space behind (`NearStaysNear`), which is when the
message lapses.  The invariant `ChannelInv` ties this to the history: every message
accepted and not lapsed is near (`AcceptedIsNear`), one that was returned is in nobody's hand
(`ReturnedOnce`), a message accepted and not yet returned is in the hand of one reader
(`InHand`), both unless it has lapsed, and what is on the links was handed to `send`
(`SendShape`).

**`DaemonProofs`**: `TypeCorrect`, `SubscribedRoomsAreMembers`, `HashesAgree`,
`OrphanBacklogIsBounded`, `CrashSafe`, `ExactlyOnce` (of `DaemonRooms`); `AtMostOneDaemon`,
`NoStalePid` (of `SingleInstance`).  Added to the first five properties
are: what the worker holds at each place (`FanHolds`), that only registered clients
subscribe (`LiveOnly`), membership extended to joins in progress (`MemberInv`), and that the
file equals the room set while no access failed (`DiskFollows`).

`ExactlyOnce` needs a second invariant, `SInv`, proved relative to the first.  Its core,
`StreamsHold`, takes a client's stream apart into what was written, what a join has drained
and is about to write, and what is routed: each part is in order, the parts follow each
other, and together they are what was pushed since the join less the refused frames
(`Whole`).  A first join starts from nothing (`Unjoined`) and takes the backlog, which is the
end of the log (`QueueIsTail`) and in order (`LogInOrder`); a message that is routed is
newer than all that was pushed before it, because the broadcast keeps the order of arrival
(`BusInOrder`), overwritten or not; a refused frame is never one that was pushed later
(`MissedLogged`); and between requests no backlog is in hand (`BatchHolds`).  Six lemmas say
what each step does to `Whole` (`WholeJoin`, `WholeFlush`, `WholePump`, `WholeRoute`,
`WholeRefuse`, `WholeOther`), on top of lemmas about frames of one room in a sequence.

For `SingleInstance`, both theorems hold while no process starts during another's start or
clean-up (`~overlap`), which is the excluded case the run `instance` exhibits.  `Exclusive` is
the strengthening: at most one process starts (`AloneInStart`), the file is the published
process's (`FileIsOwn`), whoever is about to decide has read it (`ReadIsCurrent`), a process
that removes a stale file, or has gone on from there, meets nobody that serves or cleans up
(`RemoverIsAlone`), beyond the removal there is no file or one that could not be removed
(`NoFileYet`), whoever the file names has got as far as serving (`FileOfServer`), so that what
stays names nobody that runs, and what is renamed is one's own (`TmpIsOwn`).

**`NodePeersProofs`**: `TypeCorrect`, `EmptySessionsLeave`, `ActiveLinksAreAttached`,
`LastReaderLeavesNothing`, `LinksHaveReaders`.  Added are what a loop and a task hold at each
place (`LoopsHold`, `TasksHold`) and `EntriesAttended`: each entry of the node that says the
peer is there is covered by a loop or reader that has yet to pass the step that
removes it.  It is needed because every teardown removes whatever it finds, not what
it registered.  For `LinksHaveReaders` the invariant says at which places the reader of a
listed link can be and what it then knows (`ReadersHold`): a reader may go on to tear a link
down only if it counted the links when there was no other, or when the session's first link
had gone; with no operation the first link is the active one as long as it is listed
(`FirstIsActive`), a removed link does not come back (`RemovedForGood`), and a connection
not attached yet is known to nobody (`UnattachedUnknown`).  The earlier form of the property,
without `misread`, holds for three connections and fails for four: the attempt to prove it
led to the race described in section 3.

**`BleLinkProofs`**: `BleTypes`, `ReadersReadTheirOwn`, `WakeupsAreNotLost`,
`OpenChannelsAreSubscribed`.  `ReadsItsOwnCentral` is not inductive: the next frame continues
what a connection was given only if the map leads to the connection whose central wrote it
(`ChannelsOwned`) and the last frame given is the last one written (`ChannelsCurrent`).
`SubsCurrent` says the same of subscriptions: what a channel in the map was given, and will be
given next, is of the central's latest one, which is the connection's own unless it is stale; it
rests on the order of the waiting events (`Waiting`).
`EventsCounted` ties the subscriptions still to be accepted to the connections there can be,
and `WakeupsPending` extends the wake-up to a writer that was refused and has not parked yet,
which is where a callback could be missed.

**`ApiCallsProofs`**: `ApiTypes`, `AnswersAreTheirOwn`, `WaitersAreExact`, `StreamsAreWhole`,
`PublishesOnceToAll`.  Ids are given out in order, so that two calls fewer than `IdSpace`
apart never share one (`IdsInOrder`), an answer under way bears the id of its request
(`AnswersBearIds`), and a sender in the table has not been used (`WaitersHold`).  For streams:
frames of a stream wait in order and behind one of them is all that was sent since
(`FramesInOrder`), a reader exists from the start frame on (`ReadersFollow`), and what a sole
consumer has returned and what waits for it make up what was sent (`NothingMissed`), the end
frame coming after the chunks that were written.
`ListsOnce` says that a topic's list names each peer once, through subscription,
`remove_peer` and a publication in progress.

**`ConnectLoopProofs`**: `ConnectTypes`, `IgnoredOnlyWhileConnected`,
`NothingForgotten`.  Neither property is inductive: what is marked as taken has to be
tied to the map or to the dial in hand (`TakenIsMapped`), the map to peers that are
connected or whose loss is queued (`MappedIsHeld`), and the reason why a seen id needs
no rescan must not be a connection being accepted, since nobody tells the scanner when
that fails (`Reason`).  `HeldStep` is the central lemma: a peer stays connected or
queued until the loop takes up its loss.

**`FramedStreamProofs`**: `StreamTypes`, `FramesStayIntact`.  `FramesIntact` compares what was
read with what was written and knows nothing of what lies between.  The invariant follows the
bytes: what a read has consumed is the beginning of the next frame (`Consumed`), and what is in
the pipe is the rest of it and the frames after it, without a gap, up to the unit the other end
writes next (`Stream`: `Chain`, `Within`, `EndsAt`).  The last part holds while the writer can
still write (`Writes`), the rest while the reader can still read and has not been torn
(`Reads`).  That writers do not mix rests on the queue of the write lock: the frames that wait
there are the next ones, in order, and a close among them comes after the read half was given
up (`WriteLock`, `ReadLock`).  A read in `Session::recv` may fail and be tried again, which loses
what was in the pipe; no frame follows, because the end of the stream is only seen when the
other end writes no more (`EofMeansClosed`).

**`ClientProofs`**, of `ClientSession`: `ClientTypes`, `NoRequestOrphaned`, `RoomsAlwaysAgree`.
For the first two, `SInv` adds that the current socket has its handlers (`WsIsWired`) and that
one which has not opened has no session and a pending promise (`NewSockets`).  `RoomsAgree`
speaks of a client at rest, so that the invariant has to say what every message under way will
do.  `RoomsFollow` says, while the client has a single socket, that the last state frame about a
room is the daemon's own (`AgreesOn`), and that when none is under way the client shows the
rooms that are subscribed, or about to be by a join on its way.  The client also changes its
rooms on the answer to a join or leave; that is harmless because the state frame follows the
ack (`AckThenState`), and because ids are given once, so that an answer settles the request it
belongs to (`IdsUnique`).  The lemmas on sequences say what remains of such facts when a message
is appended, taken from the front, or when a list made from a set (`SetToSeq`: re-joins, the
rooms of `ready`) is appended.

**`ClientProofs`**, of `CliHost`: `CliTypes`, `OneReaderHolds`, `SkipsHaveReason`.  A reader that
runs has its handle (`HandlesComplete`), which is what keeps a second one from starting and
lets the end of the command stop it.  For the reasons of a refused dial, `DialsKnown` ties an
advertised wire id to the dial that runs or to one that succeeded; it needs that an incoming
connection never bears such an id (`IncomingAreNew`).  A peer counts as connected while the node
has it, its loss is queued or that was overwritten (`ConnectedIsKnown`), and this is preserved
when the loop takes up a late connect event because the loss is then queued behind it
(`EventsFollow`).  Overwriting takes events from the front only, so that what follows an event
that is left is still there (`FollowedIn`, `OverwriteStep`, `PublishStep`).

**Only model-checked.**  Liveness under fairness (`RoutedFramesArrive`,
`EverythingSettles`, `LostPeerIsDialled`, `AcksFlow`, `WritesEnd`, `HalfOpenEnds`,
`CloseReachesPeripheral`, `EveryCallReturns`, `ComesBack`, `FailedDialIsRetried`) is out of
the prover's reach.  So is the type of the unacked ring, which would need induction over
`SelectSeq`; no theorem rests on it.  Every safety invariant, the refinement and the step
property that the passing runs check are proved.

## 5. Not modelled

- *Bytes*: codecs, compression, encryption and trust storage.  A frame is its length and
  its payload, a message its number.
- *Code without a caller*: `flush_unacked_over`, `should_switchback`, `record_rtt`,
  `attach_secondary_link`, `mark_lost`, `mark_reconnecting`, and the reconnect policy, which
  every `PeerState` holds and nothing asks.
- *Role arbitration* (`role.rs`): hosts over BLE do not scan and `join` always dials, so it
  never decides anything.
- *Scores*: averages and weights of link health; any healthy link may be best.
- *Requests of the daemon that only read*: ping, transport lists, status pages.
- *One-shot commands* of the CLI and the `mlink` launcher: sequences of calls and output.
- *mDNS and the radio* below "a peer is reported with what it advertises".

## 6. Plan

Every safety property the passing runs check is proved; what remains to do is in the models: an
abstract exactly-once room stream implemented by `DaemonRooms`; `ClientSession` with two
clients over `DaemonRooms`' sessions; the daemon's send path over `SessionTraffic`.
