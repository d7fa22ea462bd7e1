------------------------------- MODULE CliHost -------------------------------
(***************************************************************************)
(* The select! loop of a CLI process, with its scanner and its readers:    *)
(*   mlink-cli/commands/serve.rs, chat.rs, join.rs                         *)
(*   mlink-cli/conn_tracker.rs        what not to dial                     *)
(*   mlink-cli/session/*.rs           scanner, listener, dial and accept   *)
(* chat does everything; serve runs no readers and join does not listen.   *)
(* Over BLE serve and chat do not scan: the joining side dials.            *)
(*                                                                         *)
(* An arm of the loop runs to its end before the next one is chosen, its   *)
(* dial or accept included, while scanner, listener and readers go on.     *)
(* A peer advertises one wire id, <<p, 0>>; an incoming connection has a   *)
(* wire id of its own, <<p, k>>.  What the node keeps of a peer is one     *)
(* connection here; its inner steps are in NodePeers.                      *)
(***************************************************************************)
EXTENDS CliState

setting == <<command, ble, advert>>
scanner == <<scanning, seen, found, waiting, unsee>>
tracker == <<engaged, inbound, connected, wire_to_app, attempts>>
node    == <<link, running, nodeEvents, missed>>
vars    == <<setting, scanner, accepted, at, tracker, readers, node, held, incoming, losses>>

\* What a command starts before its loop: a listener, a scanner (the
\* disabled_scanner for a host over BLE), readers of its peers.
cmd_serve      == [listens |-> TRUE, scans |-> ~ble, reads |-> FALSE]
cmd_chat       == [listens |-> TRUE, scans |-> ~ble, reads |-> TRUE]
cmd_join(chat) == [listens |-> FALSE, scans |-> TRUE, reads |-> chat]

Commands == {"serve", "chat", "join", "join_chat"}
Tasks == CASE command = "serve" -> cmd_serve
           [] command = "chat"  -> cmd_chat
           [] OTHER -> cmd_join(command = "join_chat")

Listens == Tasks.listens    \* spawn_listen_task
Reads   == Tasks.reads      \* spawn_peer_reader

TypeOK ==
    /\ command \in Commands /\ ble \in BOOLEAN
    /\ advert \in Adverts
    /\ scanning \in BOOLEAN /\ seen \subseteq Peers /\ found \in Seq(Peers)
    /\ Len(found) <= PeerCap
    /\ waiting \subseteq Peers /\ unsee \subseteq Peers
    /\ accepted \in Seq(Wires)
    /\ at \in {Idle, Sending, Done} \cup ({"dial"} \X Peers) \cup ({"accept"} \X Wires)
    /\ engaged \subseteq Wires /\ inbound \subseteq Wires
    /\ connected \subseteq Peers /\ wire_to_app \subseteq Wires
    /\ attempts \in [Peers -> 0..MaxRetries]
    /\ readers \subseteq Peers
    /\ link \in [Peers -> {"none", "live", "dead"}]
    /\ running \in [Peers -> 0..2]
    /\ nodeEvents \in Seq({"connected", "disconnected"} \X Peers)
    /\ Len(nodeEvents) <= EventCap
    /\ missed \subseteq Peers /\ held \subseteq Peers
    /\ incoming \in [Peers -> 0..MaxInbound] /\ losses \in 0..MaxLosses

Init ==
    /\ command \in Commands /\ ble \in BOOLEAN
    /\ advert \in Adverts
    /\ scanning = Tasks.scans /\ seen = {} /\ found = <<>> /\ waiting = {} /\ unsee = {}
    /\ accepted = <<>> /\ at = Idle
    /\ engaged = {} /\ inbound = {} /\ connected = {} /\ wire_to_app = {}
    /\ attempts = [p \in Peers |-> 0] /\ readers = {}
    /\ link = [p \in Peers |-> "none"] /\ running = [p \in Peers |-> 0]
    /\ nodeEvents = <<>> /\ missed = {} /\ held = {}
    /\ incoming = [p \in Peers |-> 0] /\ losses = 0

-----------------------------------------------------------------------------
\* Scanner and listener

\* TcpTransport::discover: one entry per uuid other than ours, with the room
\* as metadata; without an address to dial there is none.
browse_once(ad) == IF ad.loopback THEN {} ELSE {ad.room}

\* BleTransport::discover: the identity, if advertised, stands in the place
\* of the room.
discover(ad) == {IF ad.identity THEN "identity" ELSE ad.room}

\* A command that scans has one room (serve without one does not scan).  No
\* metadata passes; anything else that is not our room does not.
metadata_matches_any_room(m) == m \in {"ours", "none"}

Visible(p) ==
    \E m \in (IF ble THEN discover(advert[p]) ELSE browse_once(advert[p])) :
        metadata_matches_any_room(m)

\* A round reports a peer that is not in seen and waits for room.
ScanReports(p) ==
    /\ scanning /\ Visible(p) /\ p \notin seen \cup unsee /\ Len(found) < PeerCap
    /\ seen' = seen \cup {p} /\ found' = Append(found, p)
    /\ UNCHANGED <<setting, scanning, waiting, unsee, accepted, at, tracker, readers, node,
                   held, incoming, losses>>

\* Between two rounds the scanner takes what is in the unsee channel.
ScanForgets ==
    /\ scanning /\ unsee # {}
    /\ seen' = seen \ unsee /\ unsee' = {}
    /\ UNCHANGED <<setting, scanning, found, waiting, accepted, at, tracker, readers, node,
                   held, incoming, losses>>

\* One failed discover ends the scanner's task.
ScanFails ==
    /\ scanning /\ scanning' = FALSE
    /\ UNCHANGED <<setting, seen, found, waiting, unsee, accepted, at, tracker, readers,
                   node, held, incoming, losses>>

\* schedule_retry_unsee, after its delay.
RetryDue(p) ==
    /\ p \in waiting
    /\ waiting' = waiting \ {p} /\ unsee' = unsee \cup {p}
    /\ UNCHANGED <<setting, scanning, seen, found, accepted, at, tracker, readers, node,
                   held, incoming, losses>>

\* The listen task passes a connection on.
Incoming(p) ==
    /\ Listens /\ incoming[p] < MaxInbound
    /\ incoming' = [incoming EXCEPT ![p] = @ + 1]
    /\ accepted' = Append(accepted, <<p, incoming'[p]>>)
    /\ UNCHANGED <<setting, scanner, at, tracker, readers, node, held, losses>>

-----------------------------------------------------------------------------
\* ConnTracker, and the arms of the loop

bump_attempt(p) ==
    /\ engaged' = engaged \cup {Adv(p)}
    /\ attempts' = [attempts EXCEPT ![p] = @ + 1]

\* The peer_rx arm, up to the dial.
TakePeer ==
    LET p == Head(found) IN
    /\ at = Idle /\ found # <<>> /\ found' = Tail(found)
    /\ IF should_skip_dial(Adv(p))
       THEN UNCHANGED <<at, engaged, attempts>>
       ELSE at' = <<"dial", p>> /\ bump_attempt(p)
    /\ UNCHANGED <<setting, scanning, seen, waiting, unsee, accepted, inbound, connected,
                   wire_to_app, readers, node, held, incoming, losses>>

\* Mutant: a reader for every connection that is made.
SpawnReader_Always(p) ==
    /\ readers' = IF Reads THEN readers \cup {p} ELSE readers
    /\ running' = IF Reads /\ running[p] < 2 THEN [running EXCEPT ![p] = @ + 1] ELSE running

\* Unless there is a handle, be it of a reader that has ended.
SpawnReader(p) ==
    IF Reads /\ p \notin readers
    THEN readers' = readers \cup {p} /\ running' = [running EXCEPT ![p] = @ + 1]
    ELSE UNCHANGED <<readers, running>>

\* The oldest event of the broadcast is overwritten.
Overwritten ==
    IF Head(nodeEvents)[1] = "disconnected" THEN missed \cup {Head(nodeEvents)[2]} ELSE missed

\* events_tx.send: never waits.
Publish(e) ==
    IF Len(nodeEvents) < EventCap
    THEN nodeEvents' = Append(nodeEvents, e) /\ UNCHANGED missed
    ELSE nodeEvents' = Append(Tail(nodeEvents), e) /\ missed' = Overwritten

\* register_after_handshake: a second connection of a known peer is closed
\* and the call succeeds all the same.
Register(p) ==
    IF link[p] = "none"
    THEN /\ link' = [link EXCEPT ![p] = "live"]
         /\ Publish(<<"connected", p>>)
    ELSE UNCHANGED <<link, nodeEvents, missed>>

\* The connection of wire id w is made.
Succeeded(w) ==
    /\ Register(w[1]) /\ SpawnReader(w[1])
    /\ at' = Idle

\* on_accept_ok; a wire id of its own has no attempts to clear.
on_accept_ok(w) ==
    /\ wire_to_app' = wire_to_app \cup {w}
    /\ connected' = connected \cup {w[1]}

on_dial_ok(p) ==
    /\ attempts' = [attempts EXCEPT ![p] = 0]
    /\ wire_to_app' = wire_to_app \cup {Adv(p)}
    /\ connected' = connected \cup {p}

DialOk(p) ==
    /\ at = <<"dial", p>> /\ Succeeded(Adv(p)) /\ on_dial_ok(p)
    /\ held' = held \cup {p}
    /\ UNCHANGED <<setting, scanner, accepted, engaged, inbound, incoming, losses>>

\* A timeout may come when the node has the connection already.
Cancelled(p) ==
    \/ UNCHANGED <<link, nodeEvents, missed>>
    \/ Register(p)

\* Mutant: the slot stays taken.
on_dial_err_Engaged(p) == UNCHANGED engaged

on_dial_err(p) == engaged' = engaged \ {Adv(p)}

\* Mutant: nobody asks the scanner to report the peer again.
schedule_retry_unsee_Not(p) == UNCHANGED waiting

schedule_retry_unsee(p) == waiting' = waiting \cup {p}

DialErr(p) ==
    /\ at = <<"dial", p>> /\ at' = Idle
    /\ on_dial_err(p) /\ Cancelled(p) /\ schedule_retry_unsee(p)
    /\ UNCHANGED <<setting, scanning, seen, found, unsee, accepted, inbound, connected,
                   wire_to_app, attempts, readers, running, held, incoming, losses>>

\* mark_room_mismatch_dial: attempts pinned, no retry.
DialMismatch(p) ==
    /\ at = <<"dial", p>> /\ at' = Idle
    /\ attempts' = [attempts EXCEPT ![p] = MaxRetries]
    /\ engaged' = engaged \ {Adv(p)}
    /\ UNCHANGED <<setting, scanner, accepted, inbound, connected, wire_to_app, readers,
                   node, held, incoming, losses>>

\* The accepted_rx arm: on_accept_begin.
TakeAccepted ==
    LET w == Head(accepted) IN
    /\ at = Idle /\ accepted # <<>> /\ accepted' = Tail(accepted)
    /\ at' = <<"accept", w>>
    /\ engaged' = engaged \cup {w} /\ inbound' = inbound \cup {w}
    /\ UNCHANGED <<setting, scanner, connected, wire_to_app, attempts, readers, node, held,
                   incoming, losses>>

AcceptOk(w) ==
    /\ at = <<"accept", w>> /\ Succeeded(w) /\ on_accept_ok(w)
    /\ UNCHANGED <<setting, scanner, accepted, engaged, inbound, attempts, held, incoming,
                   losses>>

\* on_accept_err: another room, an error or a timeout.
AcceptErr(w) ==
    /\ at = <<"accept", w>> /\ at' = Idle
    /\ engaged' = engaged \ {w} /\ inbound' = inbound \ {w}
    /\ Cancelled(w[1])
    /\ UNCHANGED <<setting, scanner, accepted, connected, wire_to_app, attempts, readers,
                   running, held, incoming, losses>>

on_peer_connected(p) ==
    connected' = connected \cup {p} /\ UNCHANGED wire_to_app

\* engaged and inbound keep the wire id.
on_peer_disconnected(p) ==
    /\ connected' = connected \ {p}
    /\ wire_to_app' = {w \in wire_to_app : w[1] # p}

\* The events arm.  A peer's reader is stopped with the handle.  Lagged, for
\* events that were overwritten, changes nothing.
TakeEvent ==
    LET p == Head(nodeEvents)[2] IN
    /\ at = Idle /\ nodeEvents # <<>> /\ nodeEvents' = Tail(nodeEvents)
    /\ IF Head(nodeEvents)[1] = "connected"
       THEN on_peer_connected(p) /\ UNCHANGED <<readers, running, missed>>
       ELSE /\ on_peer_disconnected(p) /\ missed' = missed \ {p}
            /\ readers' = readers \ {p}
            /\ running' = IF p \in readers /\ running[p] > 0
                          THEN [running EXCEPT ![p] = @ - 1] ELSE running
    /\ UNCHANGED <<setting, scanner, accepted, at, engaged, inbound, attempts, link, held,
                   incoming, losses>>

\* The stdin arm of chat and join --chat: a line goes to the peers of the node,
\* one send_raw after the other, and the arm is held until the last returns.
TypeLine ==
    /\ Reads /\ at = Idle /\ \E p \in Peers : link[p] # "none"
    /\ at' = Sending
    /\ UNCHANGED <<setting, scanner, accepted, tracker, readers, node, held, incoming, losses>>

SendReturns ==
    /\ at = Sending /\ at' = Idle
    /\ UNCHANGED <<setting, scanner, accepted, tracker, readers, node, held, incoming, losses>>

\* ctrl-c: the readers that have a handle are stopped.
Quit ==
    /\ at = Idle /\ at' = Done
    /\ readers' = {}
    /\ running' = [p \in Peers |->
                     IF p \in readers /\ running[p] > 0 THEN running[p] - 1 ELSE running[p]]
    /\ UNCHANGED <<setting, scanner, accepted, tracker, link, nodeEvents, missed, held, incoming,
                   losses>>

-----------------------------------------------------------------------------
\* The node

Lose(p) ==
    /\ link[p] = "live" /\ losses < MaxLosses /\ losses' = losses + 1
    /\ link' = [link EXCEPT ![p] = "dead"]
    /\ UNCHANGED <<setting, scanner, accepted, at, tracker, readers, running, nodeEvents, missed,
                   held, incoming>>

\* spawn_peer_reader: the read fails, the peer goes, the task ends.
ReaderEnds(p) ==
    /\ running[p] > 0 /\ link[p] # "live"
    /\ running' = [running EXCEPT ![p] = @ - 1]
    /\ link' = [link EXCEPT ![p] = "none"]
    /\ Publish(<<"disconnected", p>>)
    /\ UNCHANGED <<setting, scanner, accepted, at, tracker, readers, held, incoming, losses>>

\* A reader publishes messages in the same broadcast, as many as it reads.
MessageReceived(p) ==
    /\ running[p] > 0 /\ nodeEvents # <<>>
    /\ nodeEvents' = Tail(nodeEvents) /\ missed' = Overwritten
    /\ UNCHANGED <<setting, scanner, accepted, at, tracker, readers, link, running, held,
                   incoming, losses>>

-----------------------------------------------------------------------------
Arm == \/ TakePeer \/ TakeAccepted \/ TakeEvent
       \/ \E p \in Peers : DialOk(p) \/ DialErr(p) \/ DialMismatch(p)
       \/ \E w \in Wires : AcceptOk(w) \/ AcceptErr(w)

Next ==
    \/ Arm \/ TypeLine \/ SendReturns \/ Quit \/ ScanForgets \/ ScanFails
    \/ \E p \in Peers : ScanReports(p) \/ RetryDue(p) \/ Incoming(p)
    \/ \E p \in Peers : Lose(p) \/ ReaderEnds(p) \/ MessageReceived(p)

Spec == Init /\ [][Next]_vars

\* The runtime runs every task; a dial and an accept end, by their timeout
\* if by nothing else.  The user may type at any moment, but select! chooses
\* among the arms that are ready at random.  A send has no timeout: only
\* without a live link does it return.
Fairness ==
    /\ WF_vars(Arm) /\ SF_vars(TakePeer) /\ WF_vars(ScanForgets)
    /\ WF_vars(SendReturns /\ \A p \in Peers : link[p] # "live")
    /\ \A p \in Peers : WF_vars(ScanReports(p)) /\ WF_vars(RetryDue(p))

FairSpec == Spec /\ Fairness

-----------------------------------------------------------------------------
\* A dial that failed is tried again, until it succeeds or the attempts are
\* used up; unless the scanner has failed, the user quits, or a typed line is
\* being sent for good to a peer that does not read.
FailedDialIsRetried ==
    \A p \in Peers :
        attempts[p] \in 1..(MaxRetries - 1) /\ at # <<"dial", p>>
            ~> at = <<"dial", p>> \/ ~scanning \/ at = Done \/ [](at = Sending)
=============================================================================
