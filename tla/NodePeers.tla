------------------------------ MODULE NodePeers ------------------------------
(***************************************************************************)
(* One remote peer as a Node sees it while connections come and go:        *)
(*   core/node/connect.rs      register_after_handshake                    *)
(*   core/node/io.rs           spawn_peer_reader and its teardown          *)
(*   core/node/lifecycle.rs    disconnect_link, disconnect_peer,           *)
(*                             switch_active_link                          *)
(*   core/session/manager.rs   attach_link, detach_link, drop_peer         *)
(*   core/session/reader.rs    the read loop of a multi-link session       *)
(*                                                                         *)
(* The daemon runs one connect loop per transport; each loop registers one *)
(* connection at a time and then spawns a reader task, also when the       *)
(* connection was turned down as a duplicate.  A step is what a task does  *)
(* under one lock.  A link is named by its connection, a number.           *)
(***************************************************************************)
EXTENDS Integers, FiniteSets

CONSTANTS
    Kinds,        \* transports, one connect loop each
    MaxConns,     \* bound: connections that pass the handshake
    MaxOps,       \* bound: manual link operations
    MaxTimeouts,  \* bound: registrations cut off by CONNECT_TIMEOUT
    MaxLinks      \* MAX_LINKS_PER_PEER (4)

ASSUME ConstantsAssumption ==
    /\ IsFiniteSet(Kinds) /\ Kinds # {}
    /\ MaxConns \in Nat /\ MaxOps \in Nat /\ MaxTimeouts \in Nat
    /\ MaxLinks \in Nat \ {0}

Conns    == 1 .. MaxConns
None     == 0              \* no connection, no link, no session
Sessions == Conns          \* a session is named by its first connection

Op    == 0                 \* the task of a manual operation
Tasks == Conns \union {Op} \* readers are named by their connection

VARIABLES
    \* -- shared state of the node, for this peer ------------------------
    reg,        \* SessionManager::peers: the registered session or None
    links,      \* Session::links, per session
    active,     \* Session::active, per session
    conn,       \* ConnectionManager::conns: the connection or None
    known,      \* PeerManager holds the peer
    state,      \* PeerState::state
    open,       \* connections neither closed here nor lost
    \* -- connections so far ---------------------------------------------
    opened,     \* number of connections so far
    kind,       \* transport of each connection
    \* -- connect loops: at, the connection in hand, is_first_link -------
    lat, lconn, lfirst,
    \* -- readers and the manual operation -------------------------------
    at,         \* where the task is
    session,    \* the session it has cloned
    link,       \* the link or connection it works on
    multi,      \* use_session
    snap,       \* links it reads from
    \* -- history and bounds ---------------------------------------------
    up,         \* peer's last lifecycle event was PeerConnected
    overlapped, \* sessions whose active link was chosen from links that changed
    misread,    \* sessions whose active link was read when it was already removed
    ops, timeouts

nodeVars == <<reg, links, active, conn, known, state, open>>
born     == <<opened, kind>>
loopVars == <<lat, lconn, lfirst>>
taskVars == <<at, session, link, multi, snap>>
history  == <<up, overlapped, misread, ops, timeouts>>
vars     == <<nodeVars, born, loopVars, taskVars, history>>

LoopPlaces == {"idle", "contains", "attach", "add_conn", "add_peer", "set_state", "spawn"}
Reading    == {"top", "count", "shared", "read", "get", "snapshot", "select"}
Detaching  == {"remove_link", "clear_active", "is_empty", "remove_peer"}
Teardown   == {"failed", "which", "detach", "drop", "close_all", "evict", "forget", "mark"}
                  \union Detaching
Switching  == {"set_active", "adopt"}
Places     == {"off", "done"} \union Reading \union Teardown \union Switching

TypeOK ==
    /\ reg \in Sessions \union {None}
    /\ links \in [Sessions -> SUBSET Conns]
    /\ active \in [Sessions -> Conns \union {None}]
    /\ conn \in Conns \union {None}
    /\ known \in BOOLEAN
    /\ state \in {"absent", "connected", "disconnected"}
    /\ open \in SUBSET Conns
    /\ opened \in 0 .. MaxConns
    /\ kind \in [Conns -> Kinds]
    /\ lat \in [Kinds -> LoopPlaces]
    /\ lconn \in [Kinds -> Conns \union {None}]
    /\ lfirst \in [Kinds -> BOOLEAN]
    /\ at \in [Tasks -> Places]
    /\ session \in [Tasks -> Sessions \union {None}]
    /\ link \in [Tasks -> Conns \union {None}]
    /\ multi \in [Tasks -> BOOLEAN]
    /\ snap \in [Tasks -> SUBSET Conns]
    /\ up \in BOOLEAN
    /\ overlapped \in SUBSET Sessions /\ misread \in SUBSET Sessions
    /\ ops \in 0 .. MaxOps /\ timeouts \in 0 .. MaxTimeouts

Init ==
    /\ reg = None
    /\ links = [s \in Sessions |-> {}] /\ active = [s \in Sessions |-> None]
    /\ conn = None /\ known = FALSE /\ state = "absent" /\ open = {}
    /\ opened = 0
    /\ kind \in [Conns -> Kinds]
    /\ lat = [k \in Kinds |-> "idle"] /\ lconn = [k \in Kinds |-> None]
    /\ lfirst = [k \in Kinds |-> FALSE]
    /\ at = [t \in Tasks |-> "off"]
    /\ session = [t \in Tasks |-> None] /\ link = [t \in Tasks |-> None]
    /\ multi = [t \in Tasks |-> FALSE] /\ snap = [t \in Tasks |-> {}]
    /\ up = FALSE /\ overlapped = {} /\ misread = {} /\ ops = 0 /\ timeouts = 0

-----------------------------------------------------------------------------
(* Helpers.                                                                *)

\* Task t goes to place p and nothing else of it changes.
Goto(t, p) ==
    /\ at' = [at EXCEPT ![t] = p]
    /\ UNCHANGED <<session, link, multi, snap>>

\* The task ends and drops what it holds.
End(t) ==
    /\ at' = [at EXCEPT ![t] = IF t = Op THEN "off" ELSE "done"]
    /\ session' = [session EXCEPT ![t] = None]
    /\ link' = [link EXCEPT ![t] = None]
    /\ multi' = [multi EXCEPT ![t] = FALSE]
    /\ snap' = [snap EXCEPT ![t] = {}]

LoopGoto(k, p) ==
    /\ lat' = [lat EXCEPT ![k] = p]
    /\ UNCHANGED <<lconn, lfirst>>

\* s.links.len() >= 2 for the registered session
Multilink == reg # None /\ Cardinality(links[reg]) >= 2

-----------------------------------------------------------------------------
(* register_after_handshake, run by the connect loop of transport k.       *)

\* A connection of transport k has passed the handshake and check_room; one
\* that fails either is closed and leaves no trace.
Handshake(k) ==
    /\ lat[k] = "idle" /\ opened < MaxConns /\ kind[opened + 1] = k
    /\ opened' = opened + 1
    /\ open' = open \union {opened + 1}
    /\ lconn' = [lconn EXCEPT ![k] = opened + 1]
    /\ lat' = [lat EXCEPT ![k] = "contains"]
    /\ UNCHANGED <<reg, links, active, conn, known, state, kind, lfirst,
                   taskVars, history>>

\* is_first_link = !sessions.contains(peer)
Contains(k) ==
    /\ lat[k] = "contains"
    /\ lfirst' = [lfirst EXCEPT ![k] = (reg = None)]
    /\ lat' = [lat EXCEPT ![k] = "attach"]
    /\ UNCHANGED <<nodeVars, born, lconn, taskVars, history>>

\* The cases of SessionManager::attach_link.  Neither side of the handshake
\* ever names a session id, so that a mismatch cannot occur.
Turned(k) == /\ reg # None
             /\ \/ Cardinality(links[reg]) >= MaxLinks
                \/ \E l \in links[reg] : kind[l] = k

AttachLink(k) ==
    LET c == lconn[k] IN
    /\ lat[k] = "attach"
    /\ \/ /\ Turned(k)
          /\ open' = open \ {c}
          /\ LoopGoto(k, "spawn")
          /\ UNCHANGED <<reg, links, active>>
       \/ /\ reg # None /\ ~Turned(k)
          /\ links' = [links EXCEPT ![reg] = @ \union {c}]
          /\ LoopGoto(k, "add_conn")
          /\ UNCHANGED <<reg, active, open>>
       \/ /\ reg = None
          /\ reg' = c
          /\ links' = [links EXCEPT ![c] = {c}]
          /\ active' = [active EXCEPT ![c] = c]
          /\ LoopGoto(k, "add_conn")
          /\ UNCHANGED open
    /\ UNCHANGED <<conn, known, state, opened, kind, taskVars, history>>

\* ConnectionManager::add replaces the entry.
AddConn(k) ==
    /\ lat[k] = "add_conn"
    /\ conn' = lconn[k]
    /\ LoopGoto(k, "add_peer")
    /\ UNCHANGED <<reg, links, active, known, state, open, born, taskVars, history>>

\* PeerManager::add.
AddPeer(k) ==
    /\ lat[k] = "add_peer"
    /\ known' = TRUE
    /\ LoopGoto(k, "set_state")
    /\ UNCHANGED <<reg, links, active, conn, state, open, born, taskVars, history>>

\* The state, then LinkAdded and, for the first link, PeerConnected.
SetState(k) ==
    /\ lat[k] = "set_state"
    /\ state' = "connected"
    /\ up' = (up \/ lfirst[k])
    /\ LoopGoto(k, "spawn")
    /\ UNCHANGED <<reg, links, active, conn, known, open, born, taskVars,
                   overlapped, misread, ops, timeouts>>

\* Mutant: only the first link of a peer gets a reader.
SpawnReader_First(k) ==
    /\ lat[k] = "spawn"
    /\ at' = [at EXCEPT ![lconn[k]] = IF lfirst[k] THEN "top" ELSE "done"]
    /\ lat' = [lat EXCEPT ![k] = "idle"]
    /\ lconn' = [lconn EXCEPT ![k] = None]
    /\ lfirst' = [lfirst EXCEPT ![k] = FALSE]
    /\ UNCHANGED <<nodeVars, born, session, link, multi, snap, history>>

\* connect_loop spawns a reader for every Ok, a turned down duplicate too.
SpawnReader(k) ==
    /\ lat[k] = "spawn"
    /\ at' = [at EXCEPT ![lconn[k]] = "top"]
    /\ lat' = [lat EXCEPT ![k] = "idle"]
    /\ lconn' = [lconn EXCEPT ![k] = None]
    /\ lfirst' = [lfirst EXCEPT ![k] = FALSE]
    /\ UNCHANGED <<nodeVars, born, session, link, multi, snap, history>>

\* CONNECT_TIMEOUT drops the future at one of its awaits: nothing is undone
\* and no reader is spawned.  A connection not yet attached closes when its
\* last handle goes.
Timeout(k) ==
    /\ timeouts < MaxTimeouts
    /\ timeouts' = timeouts + 1
    /\ lat[k] \notin {"idle", "spawn"}
    /\ open' = IF lat[k] \in {"contains", "attach"} THEN open \ {lconn[k]} ELSE open
    /\ lat' = [lat EXCEPT ![k] = "idle"]
    /\ lconn' = [lconn EXCEPT ![k] = None]
    /\ lfirst' = [lfirst EXCEPT ![k] = FALSE]
    /\ UNCHANGED <<reg, links, active, conn, known, state, born, taskVars, up,
                   overlapped, misread, ops>>

-----------------------------------------------------------------------------
(* spawn_peer_reader.                                                      *)

\* The head of the loop clones the session, if there is one,
ReaderTop(t) ==
    /\ at[t] = "top"
    /\ session' = [session EXCEPT ![t] = reg]
    /\ multi' = [multi EXCEPT ![t] = FALSE]
    /\ at' = [at EXCEPT ![t] = IF reg = None THEN "shared" ELSE "count"]
    /\ UNCHANGED <<nodeVars, born, loopVars, link, snap, history>>

\* ... and counts its links: read from the session or from the connection.
ReaderCount(t) ==
    LET use == Cardinality(links[session[t]]) >= 2 IN
    /\ at[t] = "count"
    /\ multi' = [multi EXCEPT ![t] = use]
    /\ at' = [at EXCEPT ![t] = IF use THEN "get" ELSE "shared"]
    /\ session' = [session EXCEPT ![t] = None]
    /\ UNCHANGED <<nodeVars, born, loopVars, link, snap, history>>

\* recv_once: clone the connection; PeerGone without one.
RecvShared(t) ==
    /\ at[t] = "shared"
    /\ link' = [link EXCEPT ![t] = conn]
    /\ at' = [at EXCEPT ![t] = IF conn = None THEN "failed" ELSE "read"]
    /\ UNCHANGED <<nodeVars, born, loopVars, session, multi, snap, history>>

\* ... a frame is read, or the read fails; so does a frame that cannot be
\* decoded, decrypted or decompressed.
RecvOnce(t) ==
    /\ at[t] = "read"
    /\ \/ link[t] \in open /\ at' = [at EXCEPT ![t] = "top"]
       \/ at' = [at EXCEPT ![t] = "failed"]
    /\ link' = [link EXCEPT ![t] = None]
    /\ UNCHANGED <<nodeVars, born, loopVars, session, multi, snap, history>>

\* recv_once_session: clone the session; PeerGone without one.
RecvGet(t) ==
    /\ at[t] = "get"
    /\ session' = [session EXCEPT ![t] = reg]
    /\ at' = [at EXCEPT ![t] = IF reg = None THEN "failed" ELSE "snapshot"]
    /\ UNCHANGED <<nodeVars, born, loopVars, link, multi, snap, history>>

\* Session::recv: clone the links; NoHealthyLink without any.
RecvSnapshot(t) ==
    /\ at[t] = "snapshot"
    /\ snap' = [snap EXCEPT ![t] = links[session[t]]]
    /\ at' = [at EXCEPT ![t] = IF links[session[t]] = {} THEN "failed" ELSE "select"]
    /\ UNCHANGED <<nodeVars, born, loopVars, session, link, multi, history>>

\* read_any over the snapshot: a message of an open link is returned; a
\* control frame or the ack timer goes round; a failed link goes round too
\* as long as the session lists another one.
ReadAny(t) ==
    /\ at[t] = "select"
    /\ \/ /\ snap[t] \intersect open # {}
          /\ \E p \in {"top", "snapshot"} : at' = [at EXCEPT ![t] = p]
       \/ \E l \in snap[t] \ open :
             at' = [at EXCEPT ![t] = IF links[session[t]] \ {l} # {}
                                     THEN "snapshot" ELSE "failed"]
    /\ snap' = [snap EXCEPT ![t] = {}]
    /\ UNCHANGED <<nodeVars, born, loopVars, session, link, multi, history>>

-----------------------------------------------------------------------------
(* Teardown: the reader's error branch, disconnect_link, disconnect_peer.  *)

\* Session clean-up by mode: the whole peer after a session read ...
ReaderFailed(t) ==
    LET gone == multi[t] \/ reg = None IN
    /\ at[t] = "failed"
    /\ at' = [at EXCEPT ![t] = IF gone THEN "drop" ELSE "which"]
    /\ session' = [session EXCEPT ![t] = IF gone THEN None ELSE reg]
    /\ UNCHANGED <<nodeVars, born, loopVars, link, multi, snap, history>>

\* ... or the link that is active now.
ReaderActive(t) ==
    LET lid == active[session[t]] IN
    /\ at[t] = "which"
    /\ at' = [at EXCEPT ![t] = IF lid = None THEN "drop" ELSE "detach"]
    /\ link' = [link EXCEPT ![t] = lid]
    /\ session' = [session EXCEPT ![t] = None]
    /\ misread' = IF lid \in links[session[t]] \union {None}
                  THEN misread ELSE misread \union {session[t]}
    /\ UNCHANGED <<nodeVars, born, loopVars, multi, snap, up, overlapped, ops, timeouts>>

\* Where a task goes when detach_link or drop_peer returns.
Returned(t, gone) ==
    IF t = Op /\ ~gone THEN End(t)
    ELSE at' = [at EXCEPT ![t] = "evict"] /\ UNCHANGED <<session, link, multi, snap>>

\* detach_link looks the session up.
Detach(t) ==
    /\ at[t] = "detach"
    /\ IF reg = None
       THEN Returned(t, FALSE)
       ELSE /\ at' = [at EXCEPT ![t] = "remove_link"]
            /\ session' = [session EXCEPT ![t] = reg]
            /\ UNCHANGED <<link, multi, snap>>
    /\ UNCHANGED <<nodeVars, born, loopVars, history>>

\* ... removes the link from its list and closes it,
RemoveLink(t) ==
    LET s == session[t] IN
    /\ at[t] = "remove_link"
    /\ IF link[t] \in links[s]
       THEN /\ links' = [links EXCEPT ![s] = @ \ {link[t]}]
            /\ open' = open \ {link[t]}
            /\ Goto(t, "clear_active")
       ELSE /\ Returned(t, FALSE)
            /\ UNCHANGED <<links, open>>
    /\ UNCHANGED <<reg, active, conn, known, state, born, loopVars, history>>

\* Mutant: the removed link stays active.
Cleared_Kept(a, l) == a

Cleared(a, l) == IF a = l THEN None ELSE a

\* ... clears active if it names the link,
ClearActive(t) ==
    LET s == session[t] IN
    /\ at[t] = "clear_active"
    /\ active' = [active EXCEPT ![s] = Cleared(@, link[t])]
    /\ Goto(t, "is_empty")
    /\ UNCHANGED <<reg, links, conn, known, state, open, born, loopVars, history>>

\* Mutant: a session without links stays registered.
Emptied_Ignored(s) == FALSE

Emptied(s) == links[s] = {}

\* ... and if the list is empty
IsEmpty(t) ==
    /\ at[t] = "is_empty"
    /\ IF Emptied(session[t]) THEN Goto(t, "remove_peer") ELSE Returned(t, FALSE)
    /\ UNCHANGED <<nodeVars, born, loopVars, history>>

\* ... removes whatever session is registered by now.
RemovePeer(t) ==
    /\ at[t] = "remove_peer"
    /\ reg' = None
    /\ Returned(t, TRUE)
    /\ UNCHANGED <<links, active, conn, known, state, open, born, loopVars, history>>

\* disconnect_peer has evicted the connection before.
AfterDrop(t) == IF t = Op THEN "forget" ELSE "evict"

\* drop_peer unregisters the session
Drop(t) ==
    /\ at[t] = "drop"
    /\ reg' = None
    /\ session' = [session EXCEPT ![t] = reg]
    /\ at' = [at EXCEPT ![t] = IF reg = None THEN AfterDrop(t) ELSE "close_all"]
    /\ UNCHANGED <<links, active, conn, known, state, open, born, loopVars, link,
                   multi, snap, history>>

\* ... and closes its links.
CloseAll(t) ==
    /\ at[t] = "close_all"
    /\ open' = open \ links[session[t]]
    /\ Goto(t, AfterDrop(t))
    /\ UNCHANGED <<reg, links, active, conn, known, state, born, loopVars, history>>

\* The connection entry, whatever it is by now, is removed and closed.
Evict(t) ==
    /\ at[t] = "evict"
    /\ conn' = None
    /\ open' = open \ {conn}
    /\ Goto(t, "forget")
    /\ UNCHANGED <<reg, links, active, known, state, born, loopVars, history>>

\* Mutant: PeerManager keeps the peer.
Forget_Skipped(t) ==
    /\ at[t] = "forget"
    /\ Goto(t, "mark")
    /\ UNCHANGED <<nodeVars, born, loopVars, history>>

\* PeerManager::remove.
Forget(t) ==
    /\ at[t] = "forget"
    /\ known' = FALSE
    /\ Goto(t, "mark")
    /\ UNCHANGED <<reg, links, active, conn, state, open, born, loopVars, history>>

\* PeerState and PeerDisconnected.
Mark(t) ==
    /\ at[t] = "mark"
    /\ state' = IF state = "absent" THEN "absent" ELSE "disconnected"
    /\ up' = FALSE
    /\ End(t)
    /\ UNCHANGED <<reg, links, active, conn, known, open, born, loopVars,
                   overlapped, misread, ops, timeouts>>

-----------------------------------------------------------------------------
(* Choosing the active link, and other operations from above.              *)

NewOp == at[Op] = "off" /\ ops < MaxOps /\ ops' = ops + 1

\* switch_active_link finds the link in the session's list ... (The table of
\* manual overrides that it fills has no reader.)
SwitchActiveLink(l) ==
    /\ NewOp /\ reg # None /\ l \in links[reg]
    /\ at' = [at EXCEPT ![Op] = "set_active"]
    /\ session' = [session EXCEPT ![Op] = reg]
    /\ link' = [link EXCEPT ![Op] = l]
    /\ UNCHANGED <<nodeVars, born, loopVars, multi, snap, up, overlapped, misread,
                   timeouts>>

\* The links of kind k that peer_link_status lists.
peer_link_status(k) == {l \in Conns : reg # None /\ l \in links[reg] /\ kind[l] = k}

\* The daemon's transport_switch names a kind: without a link of it the
\* request is refused.
handle_transport_switch(k) == \E l \in peer_link_status(k) : SwitchActiveLink(l)

\* Session::send over a multi-link session fails on link f: another link is
\* picked by promote_on_failure ...
PromoteOnFailure(f, l) ==
    /\ NewOp /\ Multilink
    /\ f \in links[reg] \ open /\ l \in links[reg] \ {f}
    /\ at' = [at EXCEPT ![Op] = "set_active"]
    /\ session' = [session EXCEPT ![Op] = reg]
    /\ link' = [link EXCEPT ![Op] = l]
    /\ UNCHANGED <<nodeVars, born, loopVars, multi, snap, up, overlapped, misread,
                   timeouts>>

\* ... and becomes active.
SetActive ==
    LET s == session[Op] IN
    /\ at[Op] = "set_active"
    /\ active' = [active EXCEPT ![s] = link[Op]]
    /\ overlapped' = IF link[Op] \in links[s] THEN overlapped ELSE overlapped \union {s}
    /\ End(Op)
    /\ UNCHANGED <<reg, links, conn, known, state, open, born, loopVars, up, misread,
                   ops, timeouts>>

\* current_or_pick: the active link is missing or unhealthy, the best one is
\* picked ...
CurrentOrPick(l) ==
    /\ NewOp /\ Multilink /\ l \in links[reg]
    /\ at' = [at EXCEPT ![Op] = "adopt"]
    /\ session' = [session EXCEPT ![Op] = reg]
    /\ link' = [link EXCEPT ![Op] = l]
    /\ UNCHANGED <<nodeVars, born, loopVars, multi, snap, up, overlapped, misread,
                   timeouts>>

\* ... and becomes active if none is.
Adopt ==
    LET s == session[Op] IN
    /\ at[Op] = "adopt"
    /\ active' = [active EXCEPT ![s] = IF @ = None THEN link[Op] ELSE @]
    /\ overlapped' = IF active[s] # None \/ link[Op] \in links[s]
                     THEN overlapped ELSE overlapped \union {s}
    /\ End(Op)
    /\ UNCHANGED <<reg, links, conn, known, state, open, born, loopVars, up, misread,
                   ops, timeouts>>

\* disconnect_link: detach, and the rest of the teardown if it was the last.
DisconnectLink(l) ==
    /\ NewOp /\ reg # None /\ l \in links[reg]
    /\ at' = [at EXCEPT ![Op] = "detach"]
    /\ link' = [link EXCEPT ![Op] = l]
    /\ UNCHANGED <<nodeVars, born, loopVars, session, multi, snap, up, overlapped,
                   misread, timeouts>>

\* The daemon's disconnect_link, for developers: any link id may be named.
handle_disconnect_link == \E l \in Conns : DisconnectLink(l)

\* disconnect_peer evicts and closes the connection first.
DisconnectPeer ==
    /\ NewOp
    /\ conn' = None
    /\ open' = open \ {conn}
    /\ Goto(Op, "drop")
    /\ UNCHANGED <<reg, links, active, known, state, born, loopVars, up, overlapped,
                   misread, timeouts>>

\* The network takes a connection down.
Lose(c) ==
    /\ c \in open
    /\ open' = open \ {c}
    /\ UNCHANGED <<reg, links, active, conn, known, state, born, loopVars, taskVars,
                   history>>

LoopStep(k) ==
    \/ Contains(k) \/ AttachLink(k) \/ AddConn(k) \/ AddPeer(k) \/ SetState(k)
    \/ SpawnReader(k)

ReadStep(t) ==
    \/ ReaderTop(t) \/ ReaderCount(t) \/ RecvShared(t) \/ RecvOnce(t)
    \/ RecvGet(t) \/ RecvSnapshot(t) \/ ReadAny(t)

TeardownStep(t) ==
    \/ ReaderFailed(t) \/ ReaderActive(t)
    \/ Detach(t) \/ RemoveLink(t) \/ ClearActive(t) \/ IsEmpty(t) \/ RemovePeer(t)
    \/ Drop(t) \/ CloseAll(t) \/ Evict(t) \/ Forget(t) \/ Mark(t)

Next ==
    \/ \E k \in Kinds : \/ Handshake(k) \/ Timeout(k) \/ LoopStep(k)
                        \/ handle_transport_switch(k)
    \/ \E t \in Tasks : ReadStep(t) \/ TeardownStep(t)
    \/ \E l \in Conns : \/ CurrentOrPick(l) \/ Lose(l)
                        \/ \E f \in Conns : PromoteOnFailure(f, l)
    \/ SetActive \/ Adopt \/ handle_disconnect_link \/ DisconnectPeer

Spec == Init /\ [][Next]_vars

-----------------------------------------------------------------------------
(* Properties.                                                             *)

(***************************************************************************)
(* A registered session without a link is on its way out: the detach_link  *)
(* that took the last link has yet to unregister it.                       *)
(***************************************************************************)
EmptySessionIsLeaving ==
    reg # None /\ links[reg] = {} =>
        \E t \in Tasks : session[t] = reg /\ at[t] \in Detaching \ {"remove_link"}

(***************************************************************************)
(* active names a link of the session, except while the detach_link that   *)
(* removed it is about to clear it, or when a link was chosen and removed  *)
(* before it became active.                                                *)
(***************************************************************************)
ActiveIsAttached ==
    \A s \in Sessions \ overlapped :
        active[s] \notin links[s] \union {None} =>
            \E t \in Tasks : session[t] = s /\ link[t] = active[s]
                                /\ at[t] = "clear_active"

\* A reader is at work, or a loop is going to spawn one.
Attended == \/ \E c \in Conns : at[c] \notin {"off", "done"}
            \/ \E k \in Kinds : lat[k] \notin {"idle", "contains", "attach"}

(***************************************************************************)
(* When the last reader has ended, nothing in the node claims that the     *)
(* peer is there, in whatever order readers, loops and operations cleaned  *)
(* up after each other.  (A registration cut off by its timeout leaves     *)
(* entries without a reader.)                                              *)
(***************************************************************************)
LastReaderCleansUp ==
    timeouts = 0 /\ ~Attended =>
        conn = None /\ ~known /\ ~up /\ state # "connected"

(***************************************************************************)
(* No link goes unread: every link of the registered session has its own   *)
(* reader at work or a loop that is about to spawn it, in whatever order   *)
(* the readers clean up after each other's connections.  The exception: a  *)
(* reader that reads active between another one's removal of that link and *)
(* its clearing detaches nothing, and ends while its own link is listed.   *)
(* (So it does when an operation made another link active, and a           *)
(* registration cut off by its timeout spawns no reader at all.)           *)
(***************************************************************************)
LinksKeepReaders ==
    ops = 0 /\ timeouts = 0 /\ reg \notin misread \union {None} =>
        \A l \in links[reg] :
            \/ at[l] \notin {"off", "done"}
            \/ \E k \in Kinds : lconn[k] = l /\ lat[k] \notin {"contains", "attach"}

=============================================================================
