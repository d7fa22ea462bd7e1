----------------------------- MODULE ConnectLoop -----------------------------
(***************************************************************************)
(* Discovery and dialling on one transport of the daemon:                  *)
(*   core/scanner.rs                       the scanner's `seen` set        *)
(*   daemon discovery/connect.rs           connect_loop                    *)
(*   daemon discovery/mod.rs, tcp_ctl.rs, ble_ctl.rs   tasks and channels, *)
(*                                         switched on and off at run time *)
(*                                                                         *)
(* The scanner surfaces a wire id once and then never again, until it is   *)
(* told to unsee it.  The loop ignores an id it believes to be taken care  *)
(* of.  Whether a lost peer is ever dialled again is decided between the   *)
(* two.  The node behind the loop is reduced to the set of its peers and   *)
(* the event broadcast; NodePeers has its insides.                         *)
(***************************************************************************)
EXTENDS Integers, Sequences, FiniteSets, Functions

CONSTANTS
    Wires,       \* wire ids: addresses a transport knows a device by
    Apps,        \* app uuids of the remote peers
    AppOf,       \* the peer behind a wire id
    MaxRetries,  \* MAX_RETRIES (3)
    FoundCap,    \* capacity of the channel of discovered peers (16)
    UnseeCap,    \* capacity of the unsee channel (16)
    MaxLosses,   \* bound: peers lost
    MaxInbound,  \* bound: connections accepted, here or on another transport
    MaxFaults    \* bound: overruns of the event broadcast, failures that end
                 \* the scanner or the listener, and switching off, together

ASSUME ConnectAssumption ==
    /\ Wires # {} /\ IsFiniteSet(Wires)
    /\ AppOf \in [Wires -> Apps]
    /\ MaxRetries \in Nat \ {0}
    /\ FoundCap \in Nat \ {0} /\ UnseeCap \in Nat \ {0}
    /\ MaxLosses \in Nat /\ MaxInbound \in Nat /\ MaxFaults \in Nat

VARIABLES
    \* -- the world and the transport's switch --------------------------
    visible,    \* wire ids a scan finds
    peers,      \* Node::peers()
    on,         \* TransportControllers holds the handles of the tasks
    \* -- the scanner ---------------------------------------------------
    scan,       \* where it is
    seen,       \* Scanner::seen
    fresh,      \* found in this round and not yet passed on
    \* -- channels and timers -------------------------------------------
    found,      \* scanner to loop
    unsee,      \* loop to scanner
    timers,     \* per wire id, tasks that wait before they send to unsee
    events,     \* the loop's receiver of the node's broadcast
    lagged,     \* its next recv returns Lagged
    \* -- connect_loop --------------------------------------------------
    at,         \* where it is
    hand,       \* wire ids being dialled or accepted (none or one)
    engaged, attempts, inbound,     \* its sets, keyed by wire id
    connected,  \* connected_peers
    mapped,     \* wire ids in wire_to_app, which maps them by AppOf
    \* -- history and bounds --------------------------------------------
    tainted,    \* this loop lost an event, or an unsee was refused
    losses, inbounds, faults

world    == <<visible, peers, on>>
scanner  == <<scan, seen, fresh>>
channels == <<found, unsee, timers, events, lagged>>
loop     == <<at, hand, engaged, attempts, inbound, connected, mapped>>
bounds   == <<losses, inbounds, faults>>
vars     == <<world, scanner, channels, loop, tainted, bounds>>

Events == [up : BOOLEAN, app : Apps]

TypeOK ==
    /\ visible \in SUBSET Wires /\ peers \in SUBSET Apps /\ on \in BOOLEAN
    /\ scan \in {"drain", "round", "send", "ended"}
    /\ seen \in SUBSET Wires /\ fresh \in SUBSET Wires
    /\ found \in Seq(Wires) /\ Len(found) <= FoundCap
    /\ unsee \in Seq(Wires) /\ Len(unsee) <= UnseeCap
    /\ timers \in [Wires -> Nat]
    /\ events \in Seq(Events) /\ lagged \in BOOLEAN
    /\ at \in {"idle", "dial", "dialled", "accept", "accepted", "ended"}
    /\ hand \in SUBSET Wires
    /\ engaged \in SUBSET Wires /\ inbound \in SUBSET Wires
    /\ attempts \in [Wires -> 0 .. MaxRetries]
    /\ connected \in SUBSET Apps /\ mapped \in SUBSET Wires
    /\ tainted \in BOOLEAN
    /\ losses \in 0 .. MaxLosses /\ inbounds \in 0 .. MaxInbound
    /\ faults \in 0 .. MaxFaults

\* The local state of a scanner that starts or is gone.
ScannerState(pc) == scan' = pc /\ seen' = {} /\ fresh' = {} /\ unsee' = <<>>

\* ... and of a loop, with the receivers it owns.
LoopState(pc) ==
    /\ at' = pc /\ hand' = {}
    /\ engaged' = {} /\ attempts' = [w \in Wires |-> 0] /\ inbound' = {}
    /\ connected' = {} /\ mapped' = {}
    /\ found' = <<>> /\ events' = <<>> /\ lagged' = FALSE /\ tainted' = FALSE

Init ==
    /\ visible = {} /\ peers = {} /\ on = TRUE
    /\ scan = "drain" /\ seen = {} /\ fresh = {}
    /\ found = <<>> /\ unsee = <<>> /\ timers = [w \in Wires |-> 0]
    /\ events = <<>> /\ lagged = FALSE
    /\ at = "idle" /\ hand = {}
    /\ engaged = {} /\ attempts = [w \in Wires |-> 0] /\ inbound = {}
    /\ connected = {} /\ mapped = {}
    /\ tainted = FALSE
    /\ losses = 0 /\ inbounds = 0 /\ faults = 0

Entries(q) == {q[i] : i \in 1 .. Len(q)}
Down(a)    == [up |-> FALSE, app |-> a]
Up(a)      == [up |-> TRUE, app |-> a]

-----------------------------------------------------------------------------
(* Scanner::discover_loop.                                                 *)

\* Mutant: requests that have piled up are discarded.
ScanDrain_Discards ==
    /\ scan = "drain"
    /\ scan' = "round"
    /\ unsee' = <<>>
    /\ UNCHANGED <<world, seen, fresh, found, timers, events, lagged, loop, tainted,
                   bounds>>

\* Take every waiting unsee request,
ScanDrain ==
    /\ scan = "drain"
    /\ scan' = "round"
    /\ seen' = seen \ Entries(unsee)
    /\ unsee' = <<>>
    /\ UNCHANGED <<world, fresh, found, timers, events, lagged, loop, tainted, bounds>>

\* ... wait for the tick, and scan: discover_once keeps what is new.  The
\* daemon sets no room filter.
ScanRound ==
    /\ scan = "round" /\ at # "ended"
    /\ fresh' = visible \ seen
    /\ seen' = seen \union visible
    /\ scan' = IF fresh' = {} THEN "drain" ELSE "send"
    /\ UNCHANGED <<world, channels, loop, tainted, bounds>>

\* ... and pass it on, waiting while the channel is full.
ScanSend(w) ==
    /\ scan = "send" /\ w \in fresh /\ at # "ended" /\ Len(found) < FoundCap
    /\ found' = Append(found, w)
    /\ fresh' = fresh \ {w}
    /\ scan' = IF fresh' = {} THEN "drain" ELSE "send"
    /\ UNCHANGED <<world, seen, unsee, timers, events, lagged, loop, tainted, bounds>>

\* An error of discover, or the end of the loop, ends the scanner for good.
ScanEnds ==
    /\ \/ /\ scan = "round" /\ faults < MaxFaults
          /\ faults' = faults + 1
       \/ /\ scan \in {"round", "send"} /\ at = "ended"
          /\ UNCHANGED faults
    /\ ScannerState("ended")
    /\ UNCHANGED <<world, found, timers, events, lagged, loop, tainted, losses, inbounds>>

\* A task that has waited two seconds sends its request, or finds the scanner
\* gone.
TimerFires(w) ==
    /\ timers[w] > 0
    /\ \/ scan = "ended" /\ UNCHANGED unsee
       \/ /\ scan # "ended" /\ Len(unsee) < UnseeCap
          /\ unsee' = Append(unsee, w)
    /\ timers' = [timers EXCEPT ![w] = @ - 1]
    /\ UNCHANGED <<world, scanner, found, events, lagged, loop, tainted, bounds>>

-----------------------------------------------------------------------------
(* connect_loop.                                                           *)

\* A discovery of w is ignored.
Deduped(w) == \/ w \in inbound \union engaged
              \/ w \in mapped /\ AppOf[w] \in connected

Spent(w) == attempts[w] >= MaxRetries

\* A discovered peer: ignore it, or dial it if its budget allows.
TakePeer ==
    LET w == Head(found) IN
    /\ at = "idle" /\ found # <<>>
    /\ found' = Tail(found)
    /\ IF Deduped(w) \/ Spent(w)
       THEN UNCHANGED <<at, hand, engaged, attempts>>
       ELSE /\ attempts' = [attempts EXCEPT ![w] = @ + 1]
            /\ engaged' = engaged \union {w}
            /\ at' = "dial" /\ hand' = {w}
    /\ UNCHANGED <<world, scanner, unsee, timers, events, lagged, inbound, connected,
                   mapped, tainted, bounds>>

\* The listener hands over a connection.
TakeConn(w) ==
    /\ at = "idle" /\ inbounds < MaxInbound
    /\ inbounds' = inbounds + 1
    /\ engaged' = engaged \union {w} /\ inbound' = inbound \union {w}
    /\ at' = "accept" /\ hand' = {w}
    /\ UNCHANGED <<world, scanner, channels, attempts, connected, mapped, tainted,
                   losses, faults>>

\* connect_peer or accept_incoming registers the peer with the node; the
\* first link is announced.  A duplicate is turned down with the same result.
Register(w) ==
    /\ at \in {"dial", "accept"} /\ w \in hand
    /\ at' = IF at = "dial" THEN "dialled" ELSE "accepted"
    /\ peers' = peers \union {AppOf[w]}
    /\ events' = IF AppOf[w] \in peers THEN events ELSE Append(events, Up(AppOf[w]))
    /\ UNCHANGED <<visible, on, scanner, found, unsee, timers, lagged, hand, engaged,
                   attempts, inbound, connected, mapped, tainted, bounds>>

Idle == at' = "idle" /\ hand' = {}

\* Ok: remember what the wire id stands for.
Settle(w) ==
    /\ at \in {"dialled", "accepted"} /\ w \in hand
    /\ attempts' = [attempts EXCEPT ![w] = 0]
    /\ mapped' = mapped \union {w}
    /\ connected' = connected \union {AppOf[w]}
    /\ Idle
    /\ UNCHANGED <<world, scanner, channels, engaged, inbound, tainted, bounds>>

\* RoomMismatch on a dial: the budget is used up.
DialMismatch(w) ==
    /\ at = "dial" /\ w \in hand
    /\ attempts' = [attempts EXCEPT ![w] = MaxRetries]
    /\ engaged' = engaged \ {w}
    /\ Idle
    /\ UNCHANGED <<world, scanner, channels, inbound, connected, mapped, tainted, bounds>>

\* Mutant: the scanner is not told.
DialFails_Silently(w) ==
    /\ at \in {"dial", "dialled"} /\ w \in hand
    /\ engaged' = engaged \ {w}
    /\ Idle
    /\ UNCHANGED <<world, scanner, channels, attempts, inbound, connected, mapped,
                   tainted, bounds>>

\* Any other error, or CONNECT_TIMEOUT (which may come after the
\* registration): the scanner is told in two seconds.
DialFails(w) ==
    /\ at \in {"dial", "dialled"} /\ w \in hand
    /\ engaged' = engaged \ {w}
    /\ timers' = [timers EXCEPT ![w] = @ + 1]
    /\ Idle
    /\ UNCHANGED <<world, scanner, found, unsee, events, lagged, attempts, inbound,
                   connected, mapped, tainted, bounds>>

AcceptFails(w) ==
    /\ at \in {"accept", "accepted"} /\ w \in hand
    /\ engaged' = engaged \ {w} /\ inbound' = inbound \ {w}
    /\ Idle
    /\ UNCHANGED <<world, scanner, channels, attempts, connected, mapped, tainted, bounds>>

\* PeerConnected.
TakeUp ==
    /\ at = "idle" /\ ~lagged /\ events # <<>> /\ Head(events).up
    /\ events' = Tail(events)
    /\ connected' = connected \union {Head(events).app}
    /\ UNCHANGED <<world, scanner, found, unsee, timers, lagged, at, hand, engaged,
                   attempts, inbound, mapped, tainted, bounds>>

\* The wire ids of peer a.
DeadWires(a) == {w \in mapped : AppOf[w] = a}

\* What try_send adds to the unsee channel for the ids of dead: those that
\* find room, in any order.
Unsent(dead) == Cardinality(dead) > UnseeCap - Len(unsee)
Sendable(dead) ==
    Injection(1 .. (IF Unsent(dead) THEN UnseeCap - Len(unsee) ELSE Cardinality(dead)), dead)

\* Mutant: ids of a lost peer stay taken.
Released_Kept(s, dead) == s

Released(s, dead) == s \ dead

\* PeerDisconnected: every wire id of the peer is released and the scanner
\* told to forget it.
TakeDown ==
    LET dead == DeadWires(Head(events).app) IN
    /\ at = "idle" /\ ~lagged /\ events # <<>> /\ ~Head(events).up
    /\ events' = Tail(events)
    /\ connected' = connected \ {Head(events).app}
    /\ mapped' = mapped \ dead
    /\ engaged' = Released(engaged, dead) /\ inbound' = Released(inbound, dead)
    /\ attempts' = [w \in Wires |-> IF w \in dead THEN 0 ELSE attempts[w]]
    /\ IF scan = "ended" THEN UNCHANGED <<unsee, tainted>>
       ELSE /\ \E s \in Sendable(dead) : unsee' = unsee \o s
            /\ tainted' = (tainted \/ Unsent(dead))
    /\ UNCHANGED <<world, scanner, found, timers, lagged, at, hand, bounds>>

\* Lagged: connected_peers is read from the node again, wire_to_app emptied;
\* engaged and connected_inbound stay as they are.
TakeLagged ==
    /\ at = "idle" /\ lagged
    /\ lagged' = FALSE
    /\ connected' = peers
    /\ mapped' = {}
    /\ UNCHANGED <<world, scanner, found, unsee, timers, events, at, hand, engaged,
                   attempts, inbound, tainted, bounds>>

\* The scanner is gone and its last peer taken, or the listener has failed:
\* the loop returns, and takes dialling, accepting and the listener with it.
LoopEnds ==
    /\ at = "idle"
    /\ \/ scan = "ended" /\ found = <<>> /\ UNCHANGED faults
       \/ faults < MaxFaults /\ faults' = faults + 1
    /\ LoopState("ended")
    /\ UNCHANGED <<world, scanner, unsee, timers, losses, inbounds>>

-----------------------------------------------------------------------------
(* The rest of the daemon and the world.                                   *)

\* A reader's teardown or disconnect_peer removes peer a and sends
\* PeerDisconnected, whether or not another has done so before.
Lose(a) ==
    /\ losses < MaxLosses
    /\ losses' = losses + 1
    /\ peers' = peers \ {a}
    /\ events' = IF at = "ended" THEN events ELSE Append(events, Down(a))
    /\ UNCHANGED <<visible, on, scanner, found, unsee, timers, lagged, loop, tainted,
                   inbounds, faults>>

\* Another transport's loop connects peer a: PeerConnected.
Elsewhere(a) ==
    /\ a \notin peers /\ inbounds < MaxInbound
    /\ inbounds' = inbounds + 1
    /\ peers' = peers \union {a}
    /\ events' = IF at = "ended" THEN events ELSE Append(events, Up(a))
    /\ UNCHANGED <<visible, on, scanner, found, unsee, timers, lagged, loop, tainted, losses,
                   faults>>

\* So many events arrive while the loop is busy that the oldest are lost.
Overrun ==
    /\ at # "ended" /\ faults < MaxFaults
    /\ faults' = faults + 1
    /\ lagged' = TRUE /\ tainted' = TRUE
    /\ \E i \in 0 .. Len(events) : events' = SubSeq(events, i + 1, Len(events))
    /\ UNCHANGED <<world, scanner, found, unsee, timers, loop, losses, inbounds>>

\* Devices come and go.
Appear(w) ==
    /\ visible' \in {visible \union {w}, visible \ {w}} /\ visible' # visible
    /\ UNCHANGED <<peers, on, scanner, channels, loop, tainted, bounds>>

\* TransportHandles::drop aborts the tasks; a timer that is left finds its
\* channel closed.
Aborted ==
    /\ ScannerState("ended") /\ LoopState("ended")
    /\ timers' = [w \in Wires |-> 0]

\* TransportControllers::disable drops the handles.  Connections stay up.
Disable ==
    /\ on /\ faults < MaxFaults
    /\ faults' = faults + 1
    /\ on' = FALSE
    /\ Aborted
    /\ UNCHANGED <<visible, peers, losses, inbounds>>

\* ... ::enable spawns new ones.  A transport whose tasks have ended by
\* themselves counts as running: it has to be disabled first.
Enable ==
    /\ ~on
    /\ on' = TRUE
    /\ ScannerState("drain") /\ LoopState("idle")
    /\ timers' = [w \in Wires |-> 0]
    /\ UNCHANGED <<visible, peers, bounds>>

\* The requests of a WebSocket client that name this transport; one that names
\* another or none leaves this one alone.
handle_disable_transport == Disable
handle_enable_transport  == Enable

ScanStep == ScanDrain \/ ScanRound \/ (\E w \in Wires : ScanSend(w)) \/ ScanEnds

DialStep == \E w \in Wires :
    \/ Register(w) \/ Settle(w) \/ DialMismatch(w) \/ DialFails(w) \/ AcceptFails(w)

LoopStep == TakePeer \/ DialStep \/ TakeUp \/ TakeDown \/ TakeLagged

Next ==
    \/ ScanStep \/ LoopStep \/ LoopEnds \/ Overrun
    \/ handle_disable_transport \/ handle_enable_transport
    \/ \E w \in Wires : TimerFires(w) \/ TakeConn(w) \/ Appear(w)
    \/ \E a \in Apps : Lose(a) \/ Elsewhere(a)

Spec == Init /\ [][Next]_vars

(***************************************************************************)
(* Fairness: the three tasks and the timers run, and a dial ends, by its   *)
(* timeout if not otherwise.  Nothing forces connections to come, peers to *)
(* go, events to pile up or tasks to fail.                                 *)
(***************************************************************************)
Fairness ==
    /\ WF_vars(ScanDrain \/ ScanRound \/ \E w \in Wires : ScanSend(w))
    /\ WF_vars(LoopStep)
    /\ \A w \in Wires : WF_vars(TimerFires(w))

FairSpec == Spec /\ Fairness

-----------------------------------------------------------------------------
(* Properties.                                                             *)

\* Peer a is connected, or the loop has yet to hear that it is not.
Held(a) == a \in peers \/ Down(a) \in Entries(events)

(***************************************************************************)
(* The loop ignores a discovery only while the peer is connected or its    *)
(* PeerDisconnected is waiting, in whatever order dials, accepts and       *)
(* events of several wire ids of the peer come: no id stays taken.         *)
(***************************************************************************)
IgnoredIsConnected ==
    at = "idle" /\ ~tainted => \A w \in Wires : Deduped(w) => Held(AppOf[w])

(***************************************************************************)
(* Scanner and loop together forget no wire id: one that will not be       *)
(* surfaced again is on its way to the loop, is being dialled, will be     *)
(* unseen by a timer or a waiting request, has used up its budget, or      *)
(* belongs to a connected peer whose loss will release it.                 *)
(***************************************************************************)
NoPeerForgotten ==
    at # "ended" /\ scan # "ended" /\ ~tainted =>
        \A w \in seen :
            \/ w \in fresh \union Entries(found) \union hand
            \/ timers[w] > 0 \/ w \in Entries(unsee)
            \/ attempts[w] >= MaxRetries
            \/ w \in mapped /\ Held(AppOf[w])

(***************************************************************************)
(* A visible peer that is not connected is dialled, until its budget is    *)
(* used up (connect_loop: "the peer never re-surfaces when it comes back   *)
(* online" is what the unsee requests are to prevent).                     *)
(***************************************************************************)
LostPeerIsDialled ==
    \A w \in Wires :
        []<>(\/ w \in hand \/ attempts[w] >= MaxRetries
             \/ w \notin visible \/ AppOf[w] \in peers
             \/ tainted \/ at = "ended" \/ scan = "ended")
=============================================================================
