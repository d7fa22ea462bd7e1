------------------------------ MODULE CliState -------------------------------
(***************************************************************************)
(* What a CLI process keeps (mlink-cli/conn_tracker.rs and the variables   *)
(* of the command's loop), the peers around it and what they may           *)
(* advertise, and what must hold of it.  Its steps are in CliHost.         *)
(***************************************************************************)
EXTENDS Integers, FiniteSets, Sequences

CONSTANTS
    Peers,       \* app uuids of the peers in the room
    Adverts,     \* what the peers may advertise: functions from Peers to Ads
    MaxRetries,  \* MAX_RETRIES (3)
    PeerCap,     \* capacity of the scanner's channel (16)
    EventCap,    \* events of peers that the node's broadcast holds (of 128)
    MaxInbound,  \* bound: incoming connections of a peer
    MaxLosses    \* bound: connections that break

AdRooms == {"ours", "other", "none"}

\* On TCP the TXT record has the room, if there is one; the address that the
\* service resolves to may be loopback.
register_service == [room : AdRooms, identity : {FALSE}, loopback : BOOLEAN]

\* Over BLE a host may add its identity.
build_advertisement_data == [room : AdRooms, identity : BOOLEAN, loopback : {FALSE}]

Ads == register_service \cup build_advertisement_data

ASSUME CliAssumption ==
    /\ IsFiniteSet(Peers) /\ Adverts \subseteq [Peers -> Ads]
    /\ MaxRetries \in Nat \ {0} /\ PeerCap \in Nat \ {0}
    /\ EventCap \in Nat \ {0} /\ MaxInbound \in Nat /\ MaxLosses \in Nat

Wires   == Peers \X (0..MaxInbound)
Adv(p)  == <<p, 0>>
Idle    == <<"select">>
Sending == <<"send">>
Done    == <<"done">>

VARIABLES
    \* -- fixed for the run of the process ------------------------------
    command, ble,   \* what runs, and whether over BLE
    advert,         \* what each peer advertises
    \* -- scanner and listener ------------------------------------------
    scanning,   \* discover_loop has not failed
    seen,       \* Scanner::seen
    found,      \* peer_rx
    waiting,    \* wire ids whose retry waits for its delay
    unsee,      \* the unsee channel
    accepted,   \* accepted_rx
    \* -- main loop -----------------------------------------------------
    at,         \* the arm that runs
    engaged, inbound, connected, wire_to_app, attempts,    \* ConnTracker
    readers,    \* peers whose reader's handle is kept
    \* -- node ----------------------------------------------------------
    link,       \* the node's connection to a peer
    running,    \* how many readers a peer has
    nodeEvents, \* PeerConnected and PeerDisconnected not yet handled
    \* -- history and bounds --------------------------------------------
    missed,     \* peers of whom a PeerDisconnected was overwritten
    held,       \* peers that were dialled with success
    incoming, losses

-----------------------------------------------------------------------------
\* ConnTracker::should_skip_dial.
should_skip_dial(w) ==
    \/ w \in inbound \/ w \in engaged
    \/ w \in wire_to_app /\ w[1] \in connected
    \/ attempts[w[1]] >= MaxRetries

\* At most one reader of a peer runs, whatever connections of it come and go,
\* and none is left when the command returns: the handles are complete.
OneReader ==
    \A p \in Peers : running[p] <= 1 /\ (at = Done => running[p] = 0)

\* A peer is refused a dial only for the dial that runs, the retry limit or a
\* dial that once succeeded, and counts as connected only while the node has
\* it, its disconnect is still to be handled or the broadcast dropped that.
\* The third reason is for good: on_peer_disconnected leaves the wire id in
\* engaged, where its comment has it "free to redial".  A dropped event is
\* not made up for either: the loop ignores Lagged.
SkipHasReason ==
    /\ \A p \in Peers : should_skip_dial(Adv(p)) =>
          \/ at = <<"dial", p>> \/ p \in held \/ attempts[p] = MaxRetries
    /\ \A p \in connected \ missed : link[p] # "none"
          \/ \E i \in DOMAIN nodeEvents : nodeEvents[i] = <<"disconnected", p>>
=============================================================================
