--------------------------- MODULE NodePeersProofs ---------------------------
(***************************************************************************)
(* What the registration and teardown of a peer's connections keep true,   *)
(* for any number of transports, connections, operations and timeouts.     *)
(***************************************************************************)
EXTENDS NodePeers, FiniteSetTheorems, TLAPS

-----------------------------------------------------------------------------
(* The inductive invariant.                                                *)

\* A loop at work has a connection of its own transport in hand, and that
\* connection has no reader yet; connections to come have none either.
LoopsHold ==
    /\ \A k \in Kinds : lat[k] # "idle" =>
          /\ lconn[k] \in 1 .. opened
          /\ kind[lconn[k]] = k
          /\ at[lconn[k]] = "off"
    /\ \A c \in Conns : c > opened => at[c] = "off"

\* A task has a session in hand where it is about to use one.
UsesSession == {"count", "which", "snapshot", "select", "close_all"}
                   \union Detaching \union Switching

TasksHold == \A t \in Tasks : at[t] \in UsesSession => session[t] \in Sessions

BeforeEvict  == Reading \union {"failed", "which", "detach", "drop", "close_all", "evict"}
                    \union Detaching
BeforeForget == BeforeEvict \union {"forget"}
BeforeMark   == BeforeForget \union {"mark"}

\* Each entry of the node has somebody who is going to remove it: a reader
\* that has not come to it yet, or a loop that will spawn one.
EntriesAttended ==
    timeouts = 0 =>
        /\ conn # None =>
              \/ \E k \in Kinds : lat[k] \in {"add_peer", "set_state", "spawn"}
              \/ \E c \in Conns : at[c] \in BeforeEvict
        /\ known =>
              \/ \E k \in Kinds : lat[k] \in {"set_state", "spawn"}
              \/ \E c \in Conns : at[c] \in BeforeForget
        /\ up \/ state = "connected" =>
              \/ \E k \in Kinds : lat[k] = "spawn"
              \/ \E c \in Conns : at[c] \in BeforeMark

\* The connections no loop has attached yet, and no one else has heard of.
Unattached == {c \in Conns : \/ c > opened
                             \/ \E k \in Kinds : lconn[k] = c /\ lat[k] \in {"contains", "attach"}}

UnattachedUnknown ==
    \A c \in Unattached :
        /\ reg # c /\ conn # c
        /\ \A s \in Sessions : c \notin links[s] /\ active[s] # c
        /\ \A t \in Tasks : session[t] # c /\ link[t] # c

\* A link that detach_link has removed does not come back.
RemovedForGood ==
    \A t \in Tasks : at[t] = "clear_active" => link[t] \notin links[session[t]]

\* Without operations the active link is the one that made the session, for
\* as long as it is listed.
FirstIsActive ==
    ops = 0 =>
        /\ at[Op] = "off"
        /\ \A s \in Sessions : /\ active[s] \in {s, None}
                               /\ s \in links[s] => active[s] = s

\* What the reader of link l may be doing while l is listed: if it read from
\* the connection, it counted the links when there was no other than l, or
\* when the session's first link had gone.
AloneOrFirstGone(l) == l = reg \/ reg \notin links[reg]

ReaderHolds(l) ==
    \/ at[l] = "off" /\ \E k \in Kinds : /\ lconn[k] = l
                                         /\ lat[k] \notin {"idle", "contains", "attach"}
    \/ at[l] \in {"top", "drop"}
    \/ at[l] = "count" /\ session[l] = reg
    \/ at[l] \in {"get", "snapshot", "select"} /\ multi[l]
    \/ at[l] \in {"shared", "read", "failed"} /\ (multi[l] \/ AloneOrFirstGone(l))
    \/ at[l] = "which" /\ session[l] = reg /\ AloneOrFirstGone(l)
    \/ at[l] = "detach" /\ link[l] = l /\ l = reg
    \/ at[l] = "remove_link" /\ link[l] = l /\ l = reg /\ session[l] = reg

ReadersHold ==
    ops = 0 /\ timeouts = 0 /\ reg \notin misread \union {None} =>
        \A l \in links[reg] : ReaderHolds(l)

IInv == /\ TypeOK /\ LoopsHold /\ TasksHold
        /\ EmptySessionIsLeaving /\ ActiveIsAttached /\ EntriesAttended
        /\ UnattachedUnknown /\ RemovedForGood /\ FirstIsActive /\ ReadersHold

\* The initial states satisfy the invariant.
LEMMA IInvInit == Init => IInv
  <1> SUFFICES ASSUME Init PROVE IInv
    OBVIOUS
  <1> USE ConstantsAssumption DEF Init, None, Conns, Sessions, Tasks, Op, Places, Reading, Teardown, Detaching, Switching, LoopPlaces
  <1>1. TypeOK
    <2>1. /\ links \in [Sessions -> SUBSET Conns]
          /\ active \in [Sessions -> Conns \union {None}]
      OBVIOUS
    <2>2. /\ reg \in Sessions \union {None} /\ conn \in Conns \union {None}
          /\ open \in SUBSET Conns /\ opened \in 0 .. MaxConns
          /\ kind \in [Conns -> Kinds]
          /\ overlapped \in SUBSET Sessions /\ misread \in SUBSET Sessions
          /\ ops \in 0 .. MaxOps /\ timeouts \in 0 .. MaxTimeouts
      OBVIOUS
    <2>3. /\ lat \in [Kinds -> LoopPlaces] /\ lconn \in [Kinds -> Conns \union {None}]
          /\ lfirst \in [Kinds -> BOOLEAN]
      OBVIOUS
    <2>4. /\ at \in [Tasks -> Places] /\ session \in [Tasks -> Sessions \union {None}]
          /\ link \in [Tasks -> Conns \union {None}]
          /\ multi \in [Tasks -> BOOLEAN] /\ snap \in [Tasks -> SUBSET Conns]
      OBVIOUS
    <2>5. /\ up \in BOOLEAN /\ known \in BOOLEAN
          /\ state \in {"absent", "connected", "disconnected"}
      BY Zenon
    <2>6. QED
      BY <2>1, <2>2, <2>3, <2>4, <2>5 DEF TypeOK
  <1>2. LoopsHold /\ TasksHold
    BY DEF LoopsHold, TasksHold, UsesSession
  <1>3. EmptySessionIsLeaving /\ ActiveIsAttached /\ EntriesAttended
    BY DEF EmptySessionIsLeaving, ActiveIsAttached, EntriesAttended
  <1>4. UnattachedUnknown /\ RemovedForGood
    BY DEF UnattachedUnknown, Unattached, RemovedForGood
  <1>5. FirstIsActive /\ ReadersHold
    BY DEF FirstIsActive, ReadersHold
  <1>6. QED
    BY <1>1, <1>2, <1>3, <1>4, <1>5 DEF IInv

-----------------------------------------------------------------------------
(* What the steps of a task have in common.                                *)

\* A set within S stays within S when a member of S is added.
LEMMA SubsetWith ==
    ASSUME NEW S, NEW A, NEW x \in S, NEW B, A \subseteq S, B \subseteq A \union {x}
    PROVE  B \in SUBSET S
  OBVIOUS

TaskTypes == /\ at \in [Tasks -> Places]
             /\ session \in [Tasks -> Sessions \union {None}]
             /\ link \in [Tasks -> Conns \union {None}]
             /\ multi \in [Tasks -> BOOLEAN]
             /\ snap \in [Tasks -> SUBSET Conns]

\* No task but t does anything.
SameOthers(t) ==
    \A u \in Tasks : u # t =>
        /\ at'[u] = at[u] /\ session'[u] = session[u]
        /\ link'[u] = link[u] /\ multi'[u] = multi[u]

\* A task that ends keeps its type and leaves the others alone.
LEMMA EndMoves ==
    ASSUME TypeOK, NEW t \in Tasks, End(t)
    PROVE  TaskTypes' /\ SameOthers(t) /\ at'[t] \in {"off", "done"}
  BY DEF TypeOK, TaskTypes, SameOthers, End, None, Conns, Sessions, Tasks, Op, Places, Reading, Teardown, Detaching, Switching, LoopPlaces

\* So does one that returns from detach_link; a reader goes on to evict.
LEMMA ReturnedMoves ==
    ASSUME TypeOK, NEW t \in Tasks, NEW gone \in BOOLEAN, Returned(t, gone)
    PROVE  /\ TaskTypes' /\ SameOthers(t)
           /\ at'[t] \in {"off", "done", "evict"}
           /\ t \in Conns => at'[t] = "evict"
  <1>1. CASE t = Op /\ ~gone
    BY <1>1, EndMoves DEF Returned, Op, Conns
  <1>2. CASE ~(t = Op /\ ~gone)
    BY <1>2 DEF TypeOK, TaskTypes, SameOthers, Returned, None, Conns, Sessions, Tasks, Op, Places, Reading, Teardown, Detaching, Switching, LoopPlaces
  <1>3. QED
    BY <1>1, <1>2

\* The steps of a task that reads or detaches.
LEMMA TaskMoves ==
    ASSUME TypeOK, TasksHold, NEW t \in Tasks,
           \/ RecvOnce(t) \/ ReadAny(t) \/ Detach(t)
           \/ RemoveLink(t) \/ IsEmpty(t) \/ RemovePeer(t)
    PROVE  /\ TaskTypes' /\ SameOthers(t)
           /\ at[t] # "off"
           /\ t \in Conns => at'[t] \in BeforeEvict
           /\ at'[t] \in UsesSession => session'[t] \in Sessions
           /\ UNCHANGED <<conn, known, state, born, loopVars, history>>
  <1> USE DEF TypeOK, TasksHold, UsesSession, BeforeEvict, None, Conns, Sessions, Tasks, Op, Places, Reading, Teardown, Detaching, Switching, LoopPlaces
  <1>1. CASE RecvOnce(t)
    <2>1. PICK p \in {"top", "failed"} : at' = [at EXCEPT ![t] = p]
      BY <1>1 DEF RecvOnce
    <2>2. QED
      BY <1>1, <2>1 DEF RecvOnce, TaskTypes, SameOthers, nodeVars
  <1>2. CASE ReadAny(t)
    <2>1. PICK p \in {"top", "snapshot", "failed"} : at' = [at EXCEPT ![t] = p]
      BY <1>2 DEF ReadAny
    <2>2. QED
      BY <1>2, <2>1 DEF ReadAny, TaskTypes, SameOthers, nodeVars
  <1>3. CASE Detach(t)
    <2>1. CASE reg = None
      BY <1>3, <2>1, ReturnedMoves DEF Detach, nodeVars
    <2>2. CASE reg # None
      <3>1. /\ at' = [at EXCEPT ![t] = "remove_link"]
            /\ session' = [session EXCEPT ![t] = reg]
            /\ at[t] = "detach"
            /\ UNCHANGED <<link, multi, snap, conn, known, state, born, loopVars, history>>
        BY <1>3, <2>2 DEF Detach, nodeVars
      <3>2. TaskTypes' /\ SameOthers(t)
        BY <3>1 DEF TaskTypes, SameOthers
      <3>3. QED
        BY <2>2, <3>1, <3>2
    <2>3. QED
      BY <2>1, <2>2
  <1>4. CASE RemoveLink(t)
    <2>1. CASE link[t] \in links[session[t]]
      BY <1>4, <2>1 DEF RemoveLink, Goto, TaskTypes, SameOthers
    <2>2. CASE link[t] \notin links[session[t]]
      BY <1>4, <2>2, ReturnedMoves DEF RemoveLink
    <2>3. QED
      BY <2>1, <2>2
  <1>5. CASE IsEmpty(t)
    <2>1. CASE Emptied(session[t])
      BY <1>5, <2>1 DEF IsEmpty, Goto, TaskTypes, SameOthers, nodeVars
    <2>2. CASE ~Emptied(session[t])
      BY <1>5, <2>2, ReturnedMoves DEF IsEmpty, nodeVars
    <2>3. QED
      BY <2>1, <2>2
  <1>6. CASE RemovePeer(t)
    BY <1>6, ReturnedMoves DEF RemovePeer
  <1>7. QED
    BY <1>1, <1>2, <1>3, <1>4, <1>5, <1>6

-----------------------------------------------------------------------------
(* One lemma per conjunct of the invariant.                                *)

\* Every step keeps the types.
LEMMA TypeStep == IInv /\ [Next]_vars => TypeOK'
  <1> SUFFICES ASSUME TypeOK, LoopsHold, TasksHold, [Next]_vars PROVE TypeOK'
    BY DEF IInv
  <1> USE ConstantsAssumption DEF TypeOK, LoopsHold, TasksHold, UsesSession, None, Conns, Sessions, Tasks, Op, Places, Reading, Teardown, Detaching, Switching, LoopPlaces,
          nodeVars, born, loopVars, taskVars, history
  <1>1. ASSUME NEW k \in Kinds, Handshake(k) PROVE TypeOK'
    BY <1>1 DEF Handshake
  <1>2. ASSUME NEW k \in Kinds, Contains(k) PROVE TypeOK'
    BY <1>2 DEF Contains
  <1>3. ASSUME NEW k \in Kinds, AttachLink(k) PROVE TypeOK'
    <2>1. lconn[k] \in Conns
      BY <1>3 DEF AttachLink
    <2>2. lat' \in [Kinds -> LoopPlaces] /\ UNCHANGED <<lconn, lfirst>>
      <3>1. /\ \/ lat' = [lat EXCEPT ![k] = "spawn"]
               \/ lat' = [lat EXCEPT ![k] = "add_conn"]
            /\ UNCHANGED <<lconn, lfirst>>
        BY <1>3 DEF AttachLink, LoopGoto
      <3>2. QED
        BY <3>1
    <2>3. CASE Turned(k) /\ UNCHANGED <<reg, links, active>> /\ open' = open \ {lconn[k]}
      BY <1>3, <2>2, <2>3 DEF AttachLink
    <2>4. CASE /\ reg # None
               /\ links' = [links EXCEPT ![reg] = @ \union {lconn[k]}]
               /\ UNCHANGED <<reg, active, open>>
      BY <1>3, <2>1, <2>2, <2>4 DEF AttachLink
    <2>5. CASE /\ reg' = lconn[k]
               /\ links' = [links EXCEPT ![lconn[k]] = {lconn[k]}]
               /\ active' = [active EXCEPT ![lconn[k]] = lconn[k]]
               /\ UNCHANGED open
      BY <1>3, <2>1, <2>2, <2>5 DEF AttachLink
    <2>6. QED
      BY <1>3, <2>3, <2>4, <2>5 DEF AttachLink
  <1>4. ASSUME NEW k \in Kinds, AddConn(k) PROVE TypeOK'
    BY <1>4 DEF AddConn, LoopGoto
  <1>5. ASSUME NEW k \in Kinds, AddPeer(k) PROVE TypeOK'
    BY <1>5 DEF AddPeer, LoopGoto
  <1>6. ASSUME NEW k \in Kinds, SetState(k) PROVE TypeOK'
    BY <1>6 DEF SetState, LoopGoto
  <1>7. ASSUME NEW k \in Kinds, SpawnReader(k) PROVE TypeOK'
    BY <1>7 DEF SpawnReader
  <1>8. ASSUME NEW k \in Kinds, Timeout(k) PROVE TypeOK'
    <2>1. open' \in SUBSET Conns
      BY <1>8 DEF Timeout
    <2>2. timeouts' \in 0 .. MaxTimeouts
      BY <1>8 DEF Timeout
    <2>3. /\ lat' \in [Kinds -> LoopPlaces] /\ lconn' \in [Kinds -> Conns \union {None}]
          /\ lfirst' \in [Kinds -> BOOLEAN]
      BY <1>8 DEF Timeout
    <2>4. QED
      BY <1>8, <2>1, <2>2, <2>3 DEF Timeout
  <1>9. ASSUME NEW t \in Tasks, ReaderTop(t) PROVE TypeOK'
    BY <1>9 DEF ReaderTop
  <1>10. ASSUME NEW t \in Tasks, ReaderCount(t) PROVE TypeOK'
    BY <1>10 DEF ReaderCount
  <1>11. ASSUME NEW t \in Tasks, RecvShared(t) PROVE TypeOK'
    BY <1>11 DEF RecvShared
  <1>12. ASSUME NEW t \in Tasks, RecvOnce(t) PROVE TypeOK'
    BY <1>12, TaskMoves DEF TaskTypes, RecvOnce, Goto
  <1>13. ASSUME NEW t \in Tasks, RecvGet(t) PROVE TypeOK'
    BY <1>13 DEF RecvGet
  <1>14. ASSUME NEW t \in Tasks, RecvSnapshot(t) PROVE TypeOK'
    BY <1>14 DEF RecvSnapshot
  <1>15. ASSUME NEW t \in Tasks, ReadAny(t) PROVE TypeOK'
    BY <1>15, TaskMoves DEF TaskTypes, ReadAny, Goto
  <1>16. ASSUME NEW t \in Tasks, ReaderFailed(t) PROVE TypeOK'
    BY <1>16 DEF ReaderFailed
  <1>17. ASSUME NEW t \in Tasks, ReaderActive(t) PROVE TypeOK'
    <2>1. session[t] \in Sessions
      BY <1>17 DEF ReaderActive
    <2>2. misread' \in SUBSET Sessions
      <3>1. misread' \subseteq misread \union {session[t]} /\ misread \subseteq Sessions
        BY <1>17 DEF ReaderActive
      <3>2. QED
        BY <2>1, <3>1, SubsetWith
    <2>3. TaskTypes'
      BY <1>17, <2>1 DEF ReaderActive, TaskTypes
    <2>4. QED
      BY <1>17, <2>2, <2>3 DEF ReaderActive, TaskTypes
  <1>18. ASSUME NEW t \in Tasks, Detach(t) PROVE TypeOK'
    BY <1>18, TaskMoves DEF TaskTypes, Detach, Goto
  <1>19. ASSUME NEW t \in Tasks, RemoveLink(t) PROVE TypeOK'
    <2>1. links' \in [Sessions -> SUBSET Conns] /\ open' \in SUBSET Conns
      <3>1. \/ UNCHANGED <<links, open>>
            \/ /\ links' = [links EXCEPT ![session[t]] = @ \ {link[t]}]
               /\ open' = open \ {link[t]}
        BY <1>19 DEF RemoveLink
      <3>2. session[t] \in Sessions
        BY <1>19 DEF RemoveLink
      <3>3. CASE UNCHANGED <<links, open>>
        BY <3>3
      <3>4. CASE /\ links' = [links EXCEPT ![session[t]] = @ \ {link[t]}]
                 /\ open' = open \ {link[t]}
        BY <3>2, <3>4
      <3>5. QED
        BY <3>1, <3>3, <3>4
    <2>2. QED
      BY <1>19, <2>1, TaskMoves DEF RemoveLink, TaskTypes
  <1>20. ASSUME NEW t \in Tasks, ClearActive(t) PROVE TypeOK'
    BY <1>20 DEF ClearActive, Goto, Cleared
  <1>21. ASSUME NEW t \in Tasks, IsEmpty(t) PROVE TypeOK'
    BY <1>21, TaskMoves DEF TaskTypes, IsEmpty, Goto
  <1>22. ASSUME NEW t \in Tasks, RemovePeer(t) PROVE TypeOK'
    BY <1>22 DEF RemovePeer, Returned, End
  <1>23. ASSUME NEW t \in Tasks, Drop(t) PROVE TypeOK'
    BY <1>23 DEF Drop, AfterDrop
  <1>24. ASSUME NEW t \in Tasks, CloseAll(t) PROVE TypeOK'
    BY <1>24 DEF CloseAll, Goto, AfterDrop
  <1>25. ASSUME NEW t \in Tasks, Evict(t) PROVE TypeOK'
    BY <1>25 DEF Evict, Goto
  <1>26. ASSUME NEW t \in Tasks, Forget(t) PROVE TypeOK'
    BY <1>26 DEF Forget, Goto
  <1>27. ASSUME NEW t \in Tasks, Mark(t) PROVE TypeOK'
    BY <1>27 DEF Mark, End
  <1>28. ASSUME NEW l \in Conns, SwitchActiveLink(l) PROVE TypeOK'
    BY <1>28 DEF SwitchActiveLink, NewOp
  <1>29. ASSUME NEW l \in Conns, CurrentOrPick(l) PROVE TypeOK'
    BY <1>29 DEF CurrentOrPick, NewOp
  <1>30. ASSUME NEW l \in Conns, DisconnectLink(l) PROVE TypeOK'
    BY <1>30 DEF DisconnectLink, NewOp
  <1>31. ASSUME NEW l \in Conns, Lose(l) PROVE TypeOK'
    BY <1>31 DEF Lose
  <1>32. ASSUME NEW f \in Conns, NEW l \in Conns, PromoteOnFailure(f, l) PROVE TypeOK'
    BY <1>32 DEF PromoteOnFailure, NewOp
  <1>33. CASE SetActive
    <2>1. session[Op] \in Sessions /\ TaskTypes'
      BY <1>33, EndMoves DEF SetActive
    <2>2. active' \in [Sessions -> Conns \union {None}] /\ overlapped' \in SUBSET Sessions
      <3>1. /\ active' = [active EXCEPT ![session[Op]] = link[Op]]
            /\ overlapped' \subseteq overlapped \union {session[Op]}
        BY <1>33 DEF SetActive
      <3>2. link[Op] \in Conns \union {None}
        OBVIOUS
      <3>3. active' \in [Sessions -> Conns \union {None}]
        BY <2>1, <3>1, <3>2
      <3>4. overlapped' \in SUBSET Sessions
        <4>1. overlapped \subseteq Sessions
          OBVIOUS
        <4>2. QED
          BY <2>1, <3>1, <4>1, SubsetWith
      <3>5. QED
        BY <3>3, <3>4
    <2>3. QED
      BY <1>33, <2>1, <2>2 DEF SetActive, TaskTypes
  <1>34. CASE Adopt
    <2>1. session[Op] \in Sessions /\ TaskTypes'
      BY <1>34, EndMoves DEF Adopt
    <2>2. active' \in [Sessions -> Conns \union {None}] /\ overlapped' \in SUBSET Sessions
      <3>1. /\ active' = [active EXCEPT ![session[Op]] = IF @ = None THEN link[Op] ELSE @]
            /\ overlapped' \subseteq overlapped \union {session[Op]}
        BY <1>34 DEF Adopt
      <3>2. link[Op] \in Conns \union {None}
        OBVIOUS
      <3>3. active' \in [Sessions -> Conns \union {None}]
        BY <2>1, <3>1, <3>2
      <3>4. overlapped' \in SUBSET Sessions
        <4>1. overlapped \subseteq Sessions
          OBVIOUS
        <4>2. QED
          BY <2>1, <3>1, <4>1, SubsetWith
      <3>5. QED
        BY <3>3, <3>4
    <2>3. QED
      BY <1>34, <2>1, <2>2 DEF Adopt, TaskTypes
  <1>35. CASE DisconnectPeer
    BY <1>35 DEF DisconnectPeer, NewOp, Goto
  <1>36. CASE UNCHANGED vars
    BY <1>36 DEF vars
  <1>37. QED
    BY <1>1, <1>2, <1>3, <1>4, <1>5, <1>6, <1>7, <1>8, <1>9, <1>10, <1>11, <1>12, <1>13, <1>14, <1>15, <1>16, <1>17, <1>18, <1>19, <1>20, <1>21, <1>22, <1>23, <1>24, <1>25, <1>26, <1>27, <1>28, <1>29, <1>30, <1>31, <1>32, <1>33, <1>34, <1>35, <1>36
       DEF Next, LoopStep, ReadStep, TeardownStep, handle_transport_switch,
           handle_disconnect_link,
           peer_link_status

\* Every step keeps what the loops hold.
LEMMA LoopsStep == IInv /\ [Next]_vars => LoopsHold'
  <1> SUFFICES ASSUME TypeOK, LoopsHold, TasksHold, [Next]_vars PROVE LoopsHold'
    BY DEF IInv
  <1> USE ConstantsAssumption DEF TypeOK, LoopsHold, None, Conns, Sessions, Tasks, Op, Places, Reading, Teardown, Detaching, Switching, LoopPlaces,
          nodeVars, born, loopVars, taskVars, history
  <1>1. ASSUME NEW k \in Kinds, Handshake(k) PROVE LoopsHold'
    BY <1>1 DEF Handshake
  <1>2. ASSUME NEW k \in Kinds, Contains(k) PROVE LoopsHold'
    BY <1>2 DEF Contains
  <1>3. ASSUME NEW k \in Kinds, AttachLink(k) PROVE LoopsHold'
    BY <1>3 DEF AttachLink, LoopGoto, Turned
  <1>4. ASSUME NEW k \in Kinds, AddConn(k) PROVE LoopsHold'
    BY <1>4 DEF AddConn, LoopGoto
  <1>5. ASSUME NEW k \in Kinds, AddPeer(k) PROVE LoopsHold'
    BY <1>5 DEF AddPeer, LoopGoto
  <1>6. ASSUME NEW k \in Kinds, SetState(k) PROVE LoopsHold'
    BY <1>6 DEF SetState, LoopGoto
  <1>7. ASSUME NEW k \in Kinds, SpawnReader(k) PROVE LoopsHold'
    BY <1>7 DEF SpawnReader
  <1>8. ASSUME NEW k \in Kinds, Timeout(k) PROVE LoopsHold'
    BY <1>8 DEF Timeout
  <1>9. ASSUME NEW t \in Tasks, ReaderTop(t) PROVE LoopsHold'
    BY <1>9 DEF ReaderTop
  <1>10. ASSUME NEW t \in Tasks, ReaderCount(t) PROVE LoopsHold'
    BY <1>10 DEF ReaderCount
  <1>11. ASSUME NEW t \in Tasks, RecvShared(t) PROVE LoopsHold'
    BY <1>11 DEF RecvShared
  <1>12. ASSUME NEW t \in Tasks, RecvOnce(t) PROVE LoopsHold'
    <2>1. SameOthers(t) /\ at[t] # "off" /\ UNCHANGED <<born, loopVars>>
      BY <1>12, TaskMoves
    <2>2. QED
      BY <2>1 DEF SameOthers
  <1>13. ASSUME NEW t \in Tasks, RecvGet(t) PROVE LoopsHold'
    BY <1>13 DEF RecvGet
  <1>14. ASSUME NEW t \in Tasks, RecvSnapshot(t) PROVE LoopsHold'
    BY <1>14 DEF RecvSnapshot
  <1>15. ASSUME NEW t \in Tasks, ReadAny(t) PROVE LoopsHold'
    <2>1. SameOthers(t) /\ at[t] # "off" /\ UNCHANGED <<born, loopVars>>
      BY <1>15, TaskMoves
    <2>2. QED
      BY <2>1 DEF SameOthers
  <1>16. ASSUME NEW t \in Tasks, ReaderFailed(t) PROVE LoopsHold'
    BY <1>16 DEF ReaderFailed
  <1>17. ASSUME NEW t \in Tasks, ReaderActive(t) PROVE LoopsHold'
    BY <1>17 DEF ReaderActive
  <1>18. ASSUME NEW t \in Tasks, Detach(t) PROVE LoopsHold'
    <2>1. SameOthers(t) /\ at[t] # "off" /\ UNCHANGED <<born, loopVars>>
      BY <1>18, TaskMoves
    <2>2. QED
      BY <2>1 DEF SameOthers
  <1>19. ASSUME NEW t \in Tasks, RemoveLink(t) PROVE LoopsHold'
    <2>1. SameOthers(t) /\ at[t] # "off" /\ UNCHANGED <<born, loopVars>>
      BY <1>19, TaskMoves
    <2>2. QED
      BY <2>1 DEF SameOthers
  <1>20. ASSUME NEW t \in Tasks, ClearActive(t) PROVE LoopsHold'
    BY <1>20 DEF ClearActive, Goto, Cleared
  <1>21. ASSUME NEW t \in Tasks, IsEmpty(t) PROVE LoopsHold'
    <2>1. SameOthers(t) /\ at[t] # "off" /\ UNCHANGED <<born, loopVars>>
      BY <1>21, TaskMoves
    <2>2. QED
      BY <2>1 DEF SameOthers
  <1>22. ASSUME NEW t \in Tasks, RemovePeer(t) PROVE LoopsHold'
    <2>1. SameOthers(t) /\ at[t] # "off" /\ UNCHANGED <<born, loopVars>>
      BY <1>22, TaskMoves
    <2>2. QED
      BY <2>1 DEF SameOthers
  <1>23. ASSUME NEW t \in Tasks, Drop(t) PROVE LoopsHold'
    BY <1>23 DEF Drop, AfterDrop
  <1>24. ASSUME NEW t \in Tasks, CloseAll(t) PROVE LoopsHold'
    BY <1>24 DEF CloseAll, Goto, AfterDrop
  <1>25. ASSUME NEW t \in Tasks, Evict(t) PROVE LoopsHold'
    BY <1>25 DEF Evict, Goto
  <1>26. ASSUME NEW t \in Tasks, Forget(t) PROVE LoopsHold'
    BY <1>26 DEF Forget, Goto
  <1>27. ASSUME NEW t \in Tasks, Mark(t) PROVE LoopsHold'
    BY <1>27 DEF Mark, End
  <1>28. ASSUME NEW l \in Conns, SwitchActiveLink(l) PROVE LoopsHold'
    BY <1>28 DEF SwitchActiveLink, NewOp
  <1>29. ASSUME NEW l \in Conns, CurrentOrPick(l) PROVE LoopsHold'
    BY <1>29 DEF CurrentOrPick, NewOp
  <1>30. ASSUME NEW l \in Conns, DisconnectLink(l) PROVE LoopsHold'
    BY <1>30 DEF DisconnectLink, NewOp
  <1>31. ASSUME NEW l \in Conns, Lose(l) PROVE LoopsHold'
    BY <1>31 DEF Lose
  <1>32. ASSUME NEW f \in Conns, NEW l \in Conns, PromoteOnFailure(f, l) PROVE LoopsHold'
    BY <1>32 DEF PromoteOnFailure, NewOp
  <1>33. CASE SetActive
    BY <1>33 DEF SetActive, End
  <1>34. CASE Adopt
    BY <1>34 DEF Adopt, End
  <1>35. CASE DisconnectPeer
    BY <1>35 DEF DisconnectPeer, NewOp, Goto
  <1>36. CASE UNCHANGED vars
    BY <1>36 DEF vars
  <1>37. QED
    BY <1>1, <1>2, <1>3, <1>4, <1>5, <1>6, <1>7, <1>8, <1>9, <1>10, <1>11, <1>12, <1>13, <1>14, <1>15, <1>16, <1>17, <1>18, <1>19, <1>20, <1>21, <1>22, <1>23, <1>24, <1>25, <1>26, <1>27, <1>28, <1>29, <1>30, <1>31, <1>32, <1>33, <1>34, <1>35, <1>36
       DEF Next, LoopStep, ReadStep, TeardownStep, handle_transport_switch,
           handle_disconnect_link,
           peer_link_status

\* Every step keeps what the tasks hold.
LEMMA TasksStep == IInv /\ [Next]_vars => TasksHold'
  <1> SUFFICES ASSUME TypeOK, TasksHold, [Next]_vars PROVE TasksHold'
    BY DEF IInv
  <1> USE ConstantsAssumption DEF TypeOK, TasksHold, UsesSession, None, Conns, Sessions, Tasks, Op, Places, Reading, Teardown, Detaching, Switching, LoopPlaces,
          nodeVars, born, loopVars, taskVars, history
  <1>1. ASSUME NEW k \in Kinds, Handshake(k) PROVE TasksHold'
    BY <1>1 DEF Handshake
  <1>2. ASSUME NEW k \in Kinds, Contains(k) PROVE TasksHold'
    BY <1>2 DEF Contains
  <1>3. ASSUME NEW k \in Kinds, AttachLink(k) PROVE TasksHold'
    BY <1>3 DEF AttachLink, LoopGoto, Turned
  <1>4. ASSUME NEW k \in Kinds, AddConn(k) PROVE TasksHold'
    BY <1>4 DEF AddConn, LoopGoto
  <1>5. ASSUME NEW k \in Kinds, AddPeer(k) PROVE TasksHold'
    BY <1>5 DEF AddPeer, LoopGoto
  <1>6. ASSUME NEW k \in Kinds, SetState(k) PROVE TasksHold'
    BY <1>6 DEF SetState, LoopGoto
  <1>7. ASSUME NEW k \in Kinds, SpawnReader(k) PROVE TasksHold'
    BY <1>7 DEF SpawnReader
  <1>8. ASSUME NEW k \in Kinds, Timeout(k) PROVE TasksHold'
    BY <1>8 DEF Timeout
  <1>9. ASSUME NEW t \in Tasks, ReaderTop(t) PROVE TasksHold'
    BY <1>9 DEF ReaderTop
  <1>10. ASSUME NEW t \in Tasks, ReaderCount(t) PROVE TasksHold'
    BY <1>10 DEF ReaderCount
  <1>11. ASSUME NEW t \in Tasks, RecvShared(t) PROVE TasksHold'
    BY <1>11 DEF RecvShared
  <1>12. ASSUME NEW t \in Tasks, RecvOnce(t) PROVE TasksHold'
    <2>1. SameOthers(t) /\ (at'[t] \in UsesSession => session'[t] \in Sessions)
      BY <1>12, TaskMoves
    <2>2. QED
      BY <2>1 DEF SameOthers
  <1>13. ASSUME NEW t \in Tasks, RecvGet(t) PROVE TasksHold'
    BY <1>13 DEF RecvGet
  <1>14. ASSUME NEW t \in Tasks, RecvSnapshot(t) PROVE TasksHold'
    BY <1>14 DEF RecvSnapshot
  <1>15. ASSUME NEW t \in Tasks, ReadAny(t) PROVE TasksHold'
    <2>1. SameOthers(t) /\ (at'[t] \in UsesSession => session'[t] \in Sessions)
      BY <1>15, TaskMoves
    <2>2. QED
      BY <2>1 DEF SameOthers
  <1>16. ASSUME NEW t \in Tasks, ReaderFailed(t) PROVE TasksHold'
    BY <1>16 DEF ReaderFailed
  <1>17. ASSUME NEW t \in Tasks, ReaderActive(t) PROVE TasksHold'
    BY <1>17 DEF ReaderActive
  <1>18. ASSUME NEW t \in Tasks, Detach(t) PROVE TasksHold'
    <2>1. SameOthers(t) /\ (at'[t] \in UsesSession => session'[t] \in Sessions)
      BY <1>18, TaskMoves
    <2>2. QED
      BY <2>1 DEF SameOthers
  <1>19. ASSUME NEW t \in Tasks, RemoveLink(t) PROVE TasksHold'
    <2>1. SameOthers(t) /\ (at'[t] \in UsesSession => session'[t] \in Sessions)
      BY <1>19, TaskMoves
    <2>2. QED
      BY <2>1 DEF SameOthers
  <1>20. ASSUME NEW t \in Tasks, ClearActive(t) PROVE TasksHold'
    BY <1>20 DEF ClearActive, Goto, Cleared
  <1>21. ASSUME NEW t \in Tasks, IsEmpty(t) PROVE TasksHold'
    <2>1. SameOthers(t) /\ (at'[t] \in UsesSession => session'[t] \in Sessions)
      BY <1>21, TaskMoves
    <2>2. QED
      BY <2>1 DEF SameOthers
  <1>22. ASSUME NEW t \in Tasks, RemovePeer(t) PROVE TasksHold'
    <2>1. SameOthers(t) /\ (at'[t] \in UsesSession => session'[t] \in Sessions)
      BY <1>22, TaskMoves
    <2>2. QED
      BY <2>1 DEF SameOthers
  <1>23. ASSUME NEW t \in Tasks, Drop(t) PROVE TasksHold'
    BY <1>23 DEF Drop, AfterDrop
  <1>24. ASSUME NEW t \in Tasks, CloseAll(t) PROVE TasksHold'
    BY <1>24 DEF CloseAll, Goto, AfterDrop
  <1>25. ASSUME NEW t \in Tasks, Evict(t) PROVE TasksHold'
    BY <1>25 DEF Evict, Goto
  <1>26. ASSUME NEW t \in Tasks, Forget(t) PROVE TasksHold'
    BY <1>26 DEF Forget, Goto
  <1>27. ASSUME NEW t \in Tasks, Mark(t) PROVE TasksHold'
    BY <1>27 DEF Mark, End
  <1>28. ASSUME NEW l \in Conns, SwitchActiveLink(l) PROVE TasksHold'
    BY <1>28 DEF SwitchActiveLink, NewOp
  <1>29. ASSUME NEW l \in Conns, CurrentOrPick(l) PROVE TasksHold'
    <2>1. reg \in Sessions
      BY <1>29 DEF CurrentOrPick, Multilink
    <2>2. QED
      BY <1>29, <2>1 DEF CurrentOrPick
  <1>30. ASSUME NEW l \in Conns, DisconnectLink(l) PROVE TasksHold'
    BY <1>30 DEF DisconnectLink, NewOp
  <1>31. ASSUME NEW l \in Conns, Lose(l) PROVE TasksHold'
    BY <1>31 DEF Lose
  <1>32. ASSUME NEW f \in Conns, NEW l \in Conns, PromoteOnFailure(f, l) PROVE TasksHold'
    <2>1. reg \in Sessions
      BY <1>32 DEF PromoteOnFailure, Multilink
    <2>2. QED
      BY <1>32, <2>1 DEF PromoteOnFailure
  <1>33. CASE SetActive
    BY <1>33 DEF SetActive, End
  <1>34. CASE Adopt
    BY <1>34 DEF Adopt, End
  <1>35. CASE DisconnectPeer
    BY <1>35 DEF DisconnectPeer, NewOp, Goto
  <1>36. CASE UNCHANGED vars
    BY <1>36 DEF vars
  <1>37. QED
    BY <1>1, <1>2, <1>3, <1>4, <1>5, <1>6, <1>7, <1>8, <1>9, <1>10, <1>11, <1>12, <1>13, <1>14, <1>15, <1>16, <1>17, <1>18, <1>19, <1>20, <1>21, <1>22, <1>23, <1>24, <1>25, <1>26, <1>27, <1>28, <1>29, <1>30, <1>31, <1>32, <1>33, <1>34, <1>35, <1>36
       DEF Next, LoopStep, ReadStep, TeardownStep, handle_transport_switch,
           handle_disconnect_link,
           peer_link_status

\* Every step keeps EmptySessionIsLeaving.
LEMMA EmptyStep == IInv /\ [Next]_vars => EmptySessionIsLeaving'
  <1> SUFFICES ASSUME TypeOK, LoopsHold, TasksHold, EmptySessionIsLeaving, [Next]_vars PROVE EmptySessionIsLeaving'
    BY DEF IInv
  <1> USE ConstantsAssumption DEF TypeOK, LoopsHold, TasksHold, UsesSession, EmptySessionIsLeaving,
          None, Conns, Sessions, Tasks, Op, Places, Reading, Teardown, Detaching, Switching, LoopPlaces,
          nodeVars, born, loopVars, taskVars, history
  <1>1. ASSUME NEW k \in Kinds, Handshake(k) PROVE EmptySessionIsLeaving'
    BY <1>1 DEF Handshake
  <1>2. ASSUME NEW k \in Kinds, Contains(k) PROVE EmptySessionIsLeaving'
    BY <1>2 DEF Contains
  <1>3. ASSUME NEW k \in Kinds, AttachLink(k) PROVE EmptySessionIsLeaving'
    <2>1. lconn[k] \in Conns
      BY <1>3 DEF AttachLink
    <2>2. UNCHANGED <<at, session>>
      BY <1>3 DEF AttachLink
    <2>3. CASE Turned(k) /\ UNCHANGED <<reg, links, active>> /\ open' = open \ {lconn[k]}
      BY <1>3, <2>2, <2>3 DEF AttachLink
    <2>4. CASE /\ reg # None
               /\ links' = [links EXCEPT ![reg] = @ \union {lconn[k]}]
               /\ UNCHANGED <<reg, active, open>>
      BY <1>3, <2>1, <2>2, <2>4 DEF AttachLink
    <2>5. CASE /\ reg' = lconn[k]
               /\ links' = [links EXCEPT ![lconn[k]] = {lconn[k]}]
               /\ active' = [active EXCEPT ![lconn[k]] = lconn[k]]
               /\ UNCHANGED open
      BY <1>3, <2>1, <2>2, <2>5 DEF AttachLink
    <2>6. QED
      BY <1>3, <2>3, <2>4, <2>5 DEF AttachLink
  <1>4. ASSUME NEW k \in Kinds, AddConn(k) PROVE EmptySessionIsLeaving'
    BY <1>4 DEF AddConn, LoopGoto
  <1>5. ASSUME NEW k \in Kinds, AddPeer(k) PROVE EmptySessionIsLeaving'
    BY <1>5 DEF AddPeer, LoopGoto
  <1>6. ASSUME NEW k \in Kinds, SetState(k) PROVE EmptySessionIsLeaving'
    BY <1>6 DEF SetState, LoopGoto
  <1>7. ASSUME NEW k \in Kinds, SpawnReader(k) PROVE EmptySessionIsLeaving'
    BY <1>7 DEF SpawnReader
  <1>8. ASSUME NEW k \in Kinds, Timeout(k) PROVE EmptySessionIsLeaving'
    BY <1>8 DEF Timeout
  <1>9. ASSUME NEW t \in Tasks, ReaderTop(t) PROVE EmptySessionIsLeaving'
    BY <1>9 DEF ReaderTop
  <1>10. ASSUME NEW t \in Tasks, ReaderCount(t) PROVE EmptySessionIsLeaving'
    BY <1>10 DEF ReaderCount
  <1>11. ASSUME NEW t \in Tasks, RecvShared(t) PROVE EmptySessionIsLeaving'
    BY <1>11 DEF RecvShared
  <1>12. ASSUME NEW t \in Tasks, RecvOnce(t) PROVE EmptySessionIsLeaving'
    <2>1. UNCHANGED <<reg, links>> /\ at[t] \notin {"clear_active", "is_empty", "remove_peer"}
      BY <1>12 DEF RecvOnce
    <2>2. SameOthers(t)
      BY <1>12, TaskMoves
    <2>3. QED
      BY <2>1, <2>2 DEF SameOthers
  <1>13. ASSUME NEW t \in Tasks, RecvGet(t) PROVE EmptySessionIsLeaving'
    BY <1>13 DEF RecvGet
  <1>14. ASSUME NEW t \in Tasks, RecvSnapshot(t) PROVE EmptySessionIsLeaving'
    BY <1>14 DEF RecvSnapshot
  <1>15. ASSUME NEW t \in Tasks, ReadAny(t) PROVE EmptySessionIsLeaving'
    <2>1. UNCHANGED <<reg, links>> /\ at[t] \notin {"clear_active", "is_empty", "remove_peer"}
      BY <1>15 DEF ReadAny
    <2>2. SameOthers(t)
      BY <1>15, TaskMoves
    <2>3. QED
      BY <2>1, <2>2 DEF SameOthers
  <1>16. ASSUME NEW t \in Tasks, ReaderFailed(t) PROVE EmptySessionIsLeaving'
    BY <1>16 DEF ReaderFailed
  <1>17. ASSUME NEW t \in Tasks, ReaderActive(t) PROVE EmptySessionIsLeaving'
    BY <1>17 DEF ReaderActive
  <1>18. ASSUME NEW t \in Tasks, Detach(t) PROVE EmptySessionIsLeaving'
    <2>1. UNCHANGED <<reg, links>> /\ at[t] \notin {"clear_active", "is_empty", "remove_peer"}
      BY <1>18 DEF Detach
    <2>2. SameOthers(t)
      BY <1>18, TaskMoves
    <2>3. QED
      BY <2>1, <2>2 DEF SameOthers
  <1>19. ASSUME NEW t \in Tasks, RemoveLink(t) PROVE EmptySessionIsLeaving'
    <2>1. CASE link[t] \in links[session[t]]
      <3>1. /\ links' = [links EXCEPT ![session[t]] = @ \ {link[t]}]
            /\ at' = [at EXCEPT ![t] = "clear_active"]
            /\ UNCHANGED <<reg, session>>
        BY <1>19, <2>1 DEF RemoveLink, Goto
      <3>2. QED
        BY <1>19, <3>1 DEF RemoveLink
    <2>2. CASE link[t] \notin links[session[t]]
      <3>1. UNCHANGED <<reg, links>> /\ at[t] = "remove_link" /\ SameOthers(t)
        BY <1>19, <2>2, TaskMoves DEF RemoveLink
      <3>2. QED
        BY <3>1 DEF SameOthers
    <2>3. QED
      BY <2>1, <2>2
  <1>20. ASSUME NEW t \in Tasks, ClearActive(t) PROVE EmptySessionIsLeaving'
    BY <1>20 DEF ClearActive, Goto, Cleared
  <1>21. ASSUME NEW t \in Tasks, IsEmpty(t) PROVE EmptySessionIsLeaving'
    <2>1. UNCHANGED <<reg, links>> /\ SameOthers(t)
      BY <1>21, TaskMoves DEF IsEmpty
    <2>2. CASE Emptied(session[t])
      <3>1. at' = [at EXCEPT ![t] = "remove_peer"] /\ UNCHANGED session
        BY <1>21, <2>2 DEF IsEmpty, Goto
      <3>2. QED
        BY <1>21, <2>1, <3>1 DEF IsEmpty
    <2>3. CASE ~Emptied(session[t])
      BY <2>1, <2>3 DEF Emptied, SameOthers
    <2>4. QED
      BY <2>2, <2>3
  <1>22. ASSUME NEW t \in Tasks, RemovePeer(t) PROVE EmptySessionIsLeaving'
    BY <1>22 DEF RemovePeer, Returned, End
  <1>23. ASSUME NEW t \in Tasks, Drop(t) PROVE EmptySessionIsLeaving'
    BY <1>23 DEF Drop, AfterDrop
  <1>24. ASSUME NEW t \in Tasks, CloseAll(t) PROVE EmptySessionIsLeaving'
    BY <1>24 DEF CloseAll, Goto, AfterDrop
  <1>25. ASSUME NEW t \in Tasks, Evict(t) PROVE EmptySessionIsLeaving'
    BY <1>25 DEF Evict, Goto
  <1>26. ASSUME NEW t \in Tasks, Forget(t) PROVE EmptySessionIsLeaving'
    BY <1>26 DEF Forget, Goto
  <1>27. ASSUME NEW t \in Tasks, Mark(t) PROVE EmptySessionIsLeaving'
    BY <1>27 DEF Mark, End
  <1>28. ASSUME NEW l \in Conns, SwitchActiveLink(l) PROVE EmptySessionIsLeaving'
    BY <1>28 DEF SwitchActiveLink, NewOp
  <1>29. ASSUME NEW l \in Conns, CurrentOrPick(l) PROVE EmptySessionIsLeaving'
    BY <1>29 DEF CurrentOrPick, NewOp
  <1>30. ASSUME NEW l \in Conns, DisconnectLink(l) PROVE EmptySessionIsLeaving'
    BY <1>30 DEF DisconnectLink, NewOp
  <1>31. ASSUME NEW l \in Conns, Lose(l) PROVE EmptySessionIsLeaving'
    BY <1>31 DEF Lose
  <1>32. ASSUME NEW f \in Conns, NEW l \in Conns, PromoteOnFailure(f, l) PROVE EmptySessionIsLeaving'
    BY <1>32 DEF PromoteOnFailure, NewOp
  <1>33. CASE SetActive
    BY <1>33 DEF SetActive, End
  <1>34. CASE Adopt
    BY <1>34 DEF Adopt, End
  <1>35. CASE DisconnectPeer
    BY <1>35 DEF DisconnectPeer, NewOp, Goto
  <1>36. CASE UNCHANGED vars
    BY <1>36 DEF vars
  <1>37. QED
    BY <1>1, <1>2, <1>3, <1>4, <1>5, <1>6, <1>7, <1>8, <1>9, <1>10, <1>11, <1>12, <1>13, <1>14, <1>15, <1>16, <1>17, <1>18, <1>19, <1>20, <1>21, <1>22, <1>23, <1>24, <1>25, <1>26, <1>27, <1>28, <1>29, <1>30, <1>31, <1>32, <1>33, <1>34, <1>35, <1>36
       DEF Next, LoopStep, ReadStep, TeardownStep, handle_transport_switch,
           handle_disconnect_link,
           peer_link_status

\* A step of a task that has no active link to clear, and changes no session.
LEMMA ActiveMove ==
    ASSUME ActiveIsAttached, NEW t \in Tasks, SameOthers(t), at[t] # "clear_active",
           UNCHANGED <<links, active, overlapped>>
    PROVE  ActiveIsAttached'
  BY DEF ActiveIsAttached, SameOthers

\* Every step keeps ActiveIsAttached.
LEMMA ActiveStep == IInv /\ [Next]_vars => ActiveIsAttached'
  <1> SUFFICES ASSUME TypeOK, LoopsHold, TasksHold, ActiveIsAttached, [Next]_vars PROVE ActiveIsAttached'
    BY DEF IInv
  <1> USE ConstantsAssumption DEF TypeOK, LoopsHold, TasksHold, UsesSession, ActiveIsAttached,
          None, Conns, Sessions, Tasks, Op, Places, Reading, Teardown, Detaching, Switching, LoopPlaces,
          nodeVars, born, loopVars, taskVars, history
  <1>1. ASSUME NEW k \in Kinds, Handshake(k) PROVE ActiveIsAttached'
    BY <1>1 DEF Handshake
  <1>2. ASSUME NEW k \in Kinds, Contains(k) PROVE ActiveIsAttached'
    BY <1>2 DEF Contains
  <1>3. ASSUME NEW k \in Kinds, AttachLink(k) PROVE ActiveIsAttached'
    BY <1>3 DEF AttachLink, LoopGoto, Turned
  <1>4. ASSUME NEW k \in Kinds, AddConn(k) PROVE ActiveIsAttached'
    BY <1>4 DEF AddConn, LoopGoto
  <1>5. ASSUME NEW k \in Kinds, AddPeer(k) PROVE ActiveIsAttached'
    BY <1>5 DEF AddPeer, LoopGoto
  <1>6. ASSUME NEW k \in Kinds, SetState(k) PROVE ActiveIsAttached'
    BY <1>6 DEF SetState, LoopGoto
  <1>7. ASSUME NEW k \in Kinds, SpawnReader(k) PROVE ActiveIsAttached'
    BY <1>7 DEF SpawnReader
  <1>8. ASSUME NEW k \in Kinds, Timeout(k) PROVE ActiveIsAttached'
    BY <1>8 DEF Timeout
  <1>9. ASSUME NEW t \in Tasks, ReaderTop(t) PROVE ActiveIsAttached'
    BY <1>9 DEF ReaderTop
  <1>10. ASSUME NEW t \in Tasks, ReaderCount(t) PROVE ActiveIsAttached'
    BY <1>10 DEF ReaderCount
  <1>11. ASSUME NEW t \in Tasks, RecvShared(t) PROVE ActiveIsAttached'
    BY <1>11 DEF RecvShared
  <1>12. ASSUME NEW t \in Tasks, RecvOnce(t) PROVE ActiveIsAttached'
    <2>1. UNCHANGED <<links, active, overlapped>> /\ at[t] # "clear_active"
      BY <1>12 DEF RecvOnce
    <2>2. SameOthers(t)
      BY <1>12, TaskMoves
    <2>3. QED
      BY <2>1, <2>2, ActiveMove
  <1>13. ASSUME NEW t \in Tasks, RecvGet(t) PROVE ActiveIsAttached'
    BY <1>13 DEF RecvGet
  <1>14. ASSUME NEW t \in Tasks, RecvSnapshot(t) PROVE ActiveIsAttached'
    BY <1>14 DEF RecvSnapshot
  <1>15. ASSUME NEW t \in Tasks, ReadAny(t) PROVE ActiveIsAttached'
    <2>1. UNCHANGED <<links, active, overlapped>> /\ at[t] # "clear_active"
      BY <1>15 DEF ReadAny
    <2>2. SameOthers(t)
      BY <1>15, TaskMoves
    <2>3. QED
      BY <2>1, <2>2, ActiveMove
  <1>16. ASSUME NEW t \in Tasks, ReaderFailed(t) PROVE ActiveIsAttached'
    BY <1>16 DEF ReaderFailed
  <1>17. ASSUME NEW t \in Tasks, ReaderActive(t) PROVE ActiveIsAttached'
    BY <1>17 DEF ReaderActive
  <1>18. ASSUME NEW t \in Tasks, Detach(t) PROVE ActiveIsAttached'
    <2>1. UNCHANGED <<links, active, overlapped>> /\ at[t] # "clear_active"
      BY <1>18 DEF Detach
    <2>2. SameOthers(t)
      BY <1>18, TaskMoves
    <2>3. QED
      BY <2>1, <2>2, ActiveMove
  <1>19. ASSUME NEW t \in Tasks, RemoveLink(t) PROVE ActiveIsAttached'
    <2>1. CASE link[t] \in links[session[t]]
      <3>1. /\ links' = [links EXCEPT ![session[t]] = @ \ {link[t]}]
            /\ at' = [at EXCEPT ![t] = "clear_active"]
            /\ UNCHANGED <<active, overlapped, session, link>>
        BY <1>19, <2>1 DEF RemoveLink, Goto
      <3>2. QED
        BY <1>19, <3>1 DEF RemoveLink
    <2>2. CASE link[t] \notin links[session[t]]
      <3>1. UNCHANGED <<active, links, overlapped>> /\ at[t] # "clear_active" /\ SameOthers(t)
        BY <1>19, <2>2, TaskMoves DEF RemoveLink
      <3>2. QED
        BY <3>1, ActiveMove
    <2>3. QED
      BY <2>1, <2>2
  <1>20. ASSUME NEW t \in Tasks, ClearActive(t) PROVE ActiveIsAttached'
    <2>1. /\ at[t] = "clear_active" /\ at' = [at EXCEPT ![t] = "is_empty"]
          /\ active' = [active EXCEPT ![session[t]] = IF @ = link[t] THEN None ELSE @]
          /\ UNCHANGED <<links, overlapped, session, link>>
          /\ session[t] \in Sessions
      BY <1>20 DEF ClearActive, Goto, Cleared
    <2>2. SUFFICES ASSUME NEW s \in Sessions, s \notin overlapped,
                          active'[s] \notin links[s] \union {None}
                   PROVE  \E u \in Tasks : /\ session[u] = s /\ link[u] = active'[s]
                                           /\ at'[u] = "clear_active"
      BY <2>1
    <2>3. active'[s] = active[s] /\ (s = session[t] => link[t] # active[s])
      BY <2>1, <2>2
    <2>4. PICK u \in Tasks : session[u] = s /\ link[u] = active[s] /\ at[u] = "clear_active"
      BY <2>2, <2>3
    <2>5. QED
      BY <2>1, <2>3, <2>4
  <1>21. ASSUME NEW t \in Tasks, IsEmpty(t) PROVE ActiveIsAttached'
    <2>1. UNCHANGED <<links, active, overlapped>> /\ at[t] # "clear_active"
      BY <1>21 DEF IsEmpty
    <2>2. SameOthers(t)
      BY <1>21, TaskMoves
    <2>3. QED
      BY <2>1, <2>2, ActiveMove
  <1>22. ASSUME NEW t \in Tasks, RemovePeer(t) PROVE ActiveIsAttached'
    <2>1. UNCHANGED <<links, active, overlapped>> /\ at[t] # "clear_active"
      BY <1>22 DEF RemovePeer
    <2>2. SameOthers(t)
      BY <1>22, TaskMoves
    <2>3. QED
      BY <2>1, <2>2, ActiveMove
  <1>23. ASSUME NEW t \in Tasks, Drop(t) PROVE ActiveIsAttached'
    BY <1>23 DEF Drop, AfterDrop
  <1>24. ASSUME NEW t \in Tasks, CloseAll(t) PROVE ActiveIsAttached'
    BY <1>24 DEF CloseAll, Goto, AfterDrop
  <1>25. ASSUME NEW t \in Tasks, Evict(t) PROVE ActiveIsAttached'
    BY <1>25 DEF Evict, Goto
  <1>26. ASSUME NEW t \in Tasks, Forget(t) PROVE ActiveIsAttached'
    BY <1>26 DEF Forget, Goto
  <1>27. ASSUME NEW t \in Tasks, Mark(t) PROVE ActiveIsAttached'
    BY <1>27 DEF Mark, End
  <1>28. ASSUME NEW l \in Conns, SwitchActiveLink(l) PROVE ActiveIsAttached'
    BY <1>28 DEF SwitchActiveLink, NewOp
  <1>29. ASSUME NEW l \in Conns, CurrentOrPick(l) PROVE ActiveIsAttached'
    BY <1>29 DEF CurrentOrPick, NewOp
  <1>30. ASSUME NEW l \in Conns, DisconnectLink(l) PROVE ActiveIsAttached'
    BY <1>30 DEF DisconnectLink, NewOp
  <1>31. ASSUME NEW l \in Conns, Lose(l) PROVE ActiveIsAttached'
    BY <1>31 DEF Lose
  <1>32. ASSUME NEW f \in Conns, NEW l \in Conns, PromoteOnFailure(f, l) PROVE ActiveIsAttached'
    BY <1>32 DEF PromoteOnFailure, NewOp
  <1>33. CASE SetActive
    <2>1. /\ active' = [active EXCEPT ![session[Op]] = link[Op]]
          /\ link[Op] \in links[session[Op]] \/ session[Op] \in overlapped'
          /\ overlapped \subseteq overlapped'
          /\ UNCHANGED links /\ at[Op] = "set_active"
      BY <1>33 DEF SetActive
    <2>2. SameOthers(Op)
      BY <1>33, EndMoves DEF SetActive
    <2>3. SUFFICES ASSUME NEW s \in Sessions, s \notin overlapped',
                          active'[s] \notin links[s] \union {None}
                   PROVE  \E u \in Tasks : /\ session'[u] = s /\ link'[u] = active'[s]
                                           /\ at'[u] = "clear_active"
      BY <2>1
    <2>4. s # session[Op] /\ active'[s] = active[s]
      BY <2>1, <2>3
    <2>5. PICK u \in Tasks : session[u] = s /\ link[u] = active[s] /\ at[u] = "clear_active"
      BY <2>1, <2>3, <2>4
    <2>6. session'[u] = session[u] /\ link'[u] = link[u] /\ at'[u] = at[u]
      BY <2>1, <2>2, <2>5 DEF SameOthers
    <2>7. QED
      BY <2>4, <2>5, <2>6
  <1>34. CASE Adopt
    BY <1>34 DEF Adopt, End
  <1>35. CASE DisconnectPeer
    BY <1>35 DEF DisconnectPeer, NewOp, Goto
  <1>36. CASE UNCHANGED vars
    BY <1>36 DEF vars
  <1>37. QED
    BY <1>1, <1>2, <1>3, <1>4, <1>5, <1>6, <1>7, <1>8, <1>9, <1>10, <1>11, <1>12, <1>13, <1>14, <1>15, <1>16, <1>17, <1>18, <1>19, <1>20, <1>21, <1>22, <1>23, <1>24, <1>25, <1>26, <1>27, <1>28, <1>29, <1>30, <1>31, <1>32, <1>33, <1>34, <1>35, <1>36
       DEF Next, LoopStep, ReadStep, TeardownStep, handle_transport_switch,
           handle_disconnect_link,
           peer_link_status

\* A step that keeps the entries and leaves its reader before the eviction.
LEMMA EntriesMove ==
    ASSUME TypeOK, EntriesAttended, NEW t \in Tasks, SameOthers(t),
           t \in Conns => at'[t] \in BeforeEvict,
           UNCHANGED <<conn, known, state, lat, up, timeouts>>
    PROVE  EntriesAttended'
  <1>1. \A c \in Conns : c # t => at'[c] = at[c]
    BY DEF SameOthers, Tasks
  <1>2. QED
    BY <1>1 DEF EntriesAttended, BeforeForget, BeforeMark

\* Every step keeps EntriesAttended.
LEMMA EntriesStep == IInv /\ [Next]_vars => EntriesAttended'
  <1> SUFFICES ASSUME TypeOK, LoopsHold, TasksHold, EntriesAttended, [Next]_vars PROVE EntriesAttended'
    BY DEF IInv
  <1> USE ConstantsAssumption DEF TypeOK, LoopsHold, EntriesAttended, BeforeEvict, BeforeForget,
          BeforeMark, None, Conns, Sessions, Tasks, Op, Places, Reading, Teardown, Detaching, Switching, LoopPlaces,
          nodeVars, born, loopVars, taskVars, history
  <1>1. ASSUME NEW k \in Kinds, Handshake(k) PROVE EntriesAttended'
    BY <1>1 DEF Handshake
  <1>2. ASSUME NEW k \in Kinds, Contains(k) PROVE EntriesAttended'
    BY <1>2 DEF Contains
  <1>3. ASSUME NEW k \in Kinds, AttachLink(k) PROVE EntriesAttended'
    BY <1>3 DEF AttachLink, LoopGoto, Turned
  <1>4. ASSUME NEW k \in Kinds, AddConn(k) PROVE EntriesAttended'
    BY <1>4 DEF AddConn, LoopGoto
  <1>5. ASSUME NEW k \in Kinds, AddPeer(k) PROVE EntriesAttended'
    BY <1>5 DEF AddPeer, LoopGoto
  <1>6. ASSUME NEW k \in Kinds, SetState(k) PROVE EntriesAttended'
    BY <1>6 DEF SetState, LoopGoto
  <1>7. ASSUME NEW k \in Kinds, SpawnReader(k) PROVE EntriesAttended'
    BY <1>7 DEF SpawnReader
  <1>8. ASSUME NEW k \in Kinds, Timeout(k) PROVE EntriesAttended'
    BY <1>8 DEF Timeout
  <1>9. ASSUME NEW t \in Tasks, ReaderTop(t) PROVE EntriesAttended'
    BY <1>9 DEF ReaderTop
  <1>10. ASSUME NEW t \in Tasks, ReaderCount(t) PROVE EntriesAttended'
    BY <1>10 DEF ReaderCount
  <1>11. ASSUME NEW t \in Tasks, RecvShared(t) PROVE EntriesAttended'
    BY <1>11 DEF RecvShared
  <1>12. ASSUME NEW t \in Tasks, RecvOnce(t) PROVE EntriesAttended'
    BY <1>12, TaskMoves, EntriesMove
  <1>13. ASSUME NEW t \in Tasks, RecvGet(t) PROVE EntriesAttended'
    BY <1>13 DEF RecvGet
  <1>14. ASSUME NEW t \in Tasks, RecvSnapshot(t) PROVE EntriesAttended'
    BY <1>14 DEF RecvSnapshot
  <1>15. ASSUME NEW t \in Tasks, ReadAny(t) PROVE EntriesAttended'
    BY <1>15, TaskMoves, EntriesMove
  <1>16. ASSUME NEW t \in Tasks, ReaderFailed(t) PROVE EntriesAttended'
    BY <1>16 DEF ReaderFailed
  <1>17. ASSUME NEW t \in Tasks, ReaderActive(t) PROVE EntriesAttended'
    BY <1>17 DEF ReaderActive
  <1>18. ASSUME NEW t \in Tasks, Detach(t) PROVE EntriesAttended'
    BY <1>18, TaskMoves, EntriesMove
  <1>19. ASSUME NEW t \in Tasks, RemoveLink(t) PROVE EntriesAttended'
    BY <1>19, TaskMoves, EntriesMove
  <1>20. ASSUME NEW t \in Tasks, ClearActive(t) PROVE EntriesAttended'
    BY <1>20 DEF ClearActive, Goto, Cleared
  <1>21. ASSUME NEW t \in Tasks, IsEmpty(t) PROVE EntriesAttended'
    BY <1>21, TaskMoves, EntriesMove
  <1>22. ASSUME NEW t \in Tasks, RemovePeer(t) PROVE EntriesAttended'
    BY <1>22, TaskMoves, EntriesMove
  <1>23. ASSUME NEW t \in Tasks, Drop(t) PROVE EntriesAttended'
    BY <1>23 DEF Drop, AfterDrop
  <1>24. ASSUME NEW t \in Tasks, CloseAll(t) PROVE EntriesAttended'
    BY <1>24 DEF CloseAll, Goto, AfterDrop
  <1>25. ASSUME NEW t \in Tasks, Evict(t) PROVE EntriesAttended'
    BY <1>25 DEF Evict, Goto
  <1>26. ASSUME NEW t \in Tasks, Forget(t) PROVE EntriesAttended'
    BY <1>26 DEF Forget, Goto
  <1>27. ASSUME NEW t \in Tasks, Mark(t) PROVE EntriesAttended'
    BY <1>27 DEF Mark, End
  <1>28. ASSUME NEW l \in Conns, SwitchActiveLink(l) PROVE EntriesAttended'
    BY <1>28 DEF SwitchActiveLink, NewOp
  <1>29. ASSUME NEW l \in Conns, CurrentOrPick(l) PROVE EntriesAttended'
    BY <1>29 DEF CurrentOrPick, NewOp
  <1>30. ASSUME NEW l \in Conns, DisconnectLink(l) PROVE EntriesAttended'
    BY <1>30 DEF DisconnectLink, NewOp
  <1>31. ASSUME NEW l \in Conns, Lose(l) PROVE EntriesAttended'
    BY <1>31 DEF Lose
  <1>32. ASSUME NEW f \in Conns, NEW l \in Conns, PromoteOnFailure(f, l) PROVE EntriesAttended'
    BY <1>32 DEF PromoteOnFailure, NewOp
  <1>33. CASE SetActive
    BY <1>33 DEF SetActive, End
  <1>34. CASE Adopt
    BY <1>34 DEF Adopt, End
  <1>35. CASE DisconnectPeer
    BY <1>35 DEF DisconnectPeer, NewOp, Goto
  <1>36. CASE UNCHANGED vars
    BY <1>36 DEF vars
  <1>37. QED
    BY <1>1, <1>2, <1>3, <1>4, <1>5, <1>6, <1>7, <1>8, <1>9, <1>10, <1>11, <1>12, <1>13, <1>14, <1>15, <1>16, <1>17, <1>18, <1>19, <1>20, <1>21, <1>22, <1>23, <1>24, <1>25, <1>26, <1>27, <1>28, <1>29, <1>30, <1>31, <1>32, <1>33, <1>34, <1>35, <1>36
       DEF Next, LoopStep, ReadStep, TeardownStep, handle_transport_switch,
           handle_disconnect_link,
           peer_link_status

-----------------------------------------------------------------------------
(* What a step does to the sessions and to what the tasks hold.            *)

\* Task t takes up nothing but what the node or the task itself knew.
Takes(t) ==
    /\ SameOthers(t)
    /\ reg' \in {reg, None} /\ conn' \in {conn, None}
    /\ \A s \in Sessions : links'[s] \subseteq links[s]
    /\ session'[t] \in {session[t], reg, None}
    /\ \/ link'[t] \in {link[t], conn, None}
       \/ \E s \in Sessions : link'[t] = active[s] \/ link'[t] \in links[s]

\* A task that returns from detach_link keeps what it held or forgets it.
LEMMA ReturnedKeeps ==
    ASSUME TypeOK, NEW t \in Tasks, NEW gone \in BOOLEAN, Returned(t, gone)
    PROVE  session'[t] \in {session[t], None} /\ link'[t] \in {link[t], None}
  BY DEF TypeOK, Returned, End

\* The steps of a reader, and of an operation's teardown.
LEMMA TaskTakes ==
    ASSUME TypeOK, TasksHold, NEW t \in Tasks, ReadStep(t) \/ TeardownStep(t)
    PROVE  /\ Takes(t) /\ at[t] # "off"
           /\ UNCHANGED <<born, loopVars, ops, timeouts>> /\ misread \subseteq misread'
           /\ \/ UNCHANGED active
              \/ /\ at[t] = "clear_active" /\ session[t] \in Sessions
                 /\ active' = [active EXCEPT ![session[t]] = Cleared(@, link[t])]
           /\ \/ at'[t] # "clear_active"
              \/ /\ link'[t] \notin links'[session'[t]]
                 /\ session'[t] = session[t] /\ link'[t] = link[t]
  <1>1. /\ at \in [Tasks -> Places] /\ session \in [Tasks -> Sessions \union {None}]
        /\ link \in [Tasks -> Conns \union {None}] /\ multi \in [Tasks -> BOOLEAN]
        /\ links \in [Sessions -> SUBSET Conns] /\ active \in [Sessions -> Conns \union {None}]
    BY DEF TypeOK
  <1>2. at[t] \in UsesSession => session[t] \in Sessions
    BY DEF TasksHold
  <1> USE DEF Takes, SameOthers, born, loopVars, history, nodeVars
  <1>3. CASE ReaderTop(t) \/ ReaderCount(t) \/ RecvShared(t) \/ RecvGet(t) \/ RecvSnapshot(t)
    BY <1>1, <1>3 DEF ReaderTop, ReaderCount, RecvShared, RecvGet, RecvSnapshot
  <1>4. CASE RecvOnce(t)
    <2>1. PICK p \in {"top", "failed"} : at' = [at EXCEPT ![t] = p]
      BY <1>4 DEF RecvOnce
    <2>2. QED
      BY <1>1, <1>4, <2>1 DEF RecvOnce
  <1>5. CASE ReadAny(t)
    <2>1. PICK p \in {"top", "snapshot", "failed"} : at' = [at EXCEPT ![t] = p]
      BY <1>5 DEF ReadAny
    <2>2. QED
      BY <1>1, <1>5, <2>1 DEF ReadAny
  <1>6. CASE ReaderFailed(t)
    BY <1>1, <1>6 DEF ReaderFailed
  <1>7. CASE ReaderActive(t)
    <2>1. session[t] \in Sessions
      BY <1>2, <1>7 DEF ReaderActive, UsesSession
    <2>2. QED
      BY <1>1, <1>7, <2>1 DEF ReaderActive
  <1>8. CASE Detach(t)
    <2>1. CASE reg = None
      <3>1. /\ SameOthers(t) /\ at'[t] # "clear_active"
            /\ session'[t] \in {session[t], None} /\ link'[t] \in {link[t], None}
        BY <1>8, <2>1, ReturnedMoves, ReturnedKeeps DEF Detach
      <3>2. QED
        BY <1>8, <3>1 DEF Detach
    <2>2. CASE reg # None
      BY <1>1, <1>8, <2>2 DEF Detach
    <2>3. QED
      BY <2>1, <2>2
  <1>9. CASE RemoveLink(t)
    <2>1. CASE link[t] \in links[session[t]]
      <3>1. session[t] \in Sessions
        BY <1>2, <1>9 DEF RemoveLink, UsesSession, Detaching
      <3>2. QED
        BY <1>1, <1>9, <2>1, <3>1 DEF RemoveLink, Goto
    <2>2. CASE link[t] \notin links[session[t]]
      <3>1. /\ SameOthers(t) /\ at'[t] # "clear_active"
            /\ session'[t] \in {session[t], None} /\ link'[t] \in {link[t], None}
        BY <1>9, <2>2, ReturnedMoves, ReturnedKeeps DEF RemoveLink
      <3>2. QED
        BY <1>9, <2>2, <3>1 DEF RemoveLink
    <2>3. QED
      BY <2>1, <2>2
  <1>10. CASE ClearActive(t)
    <2>1. session[t] \in Sessions
      BY <1>2, <1>10 DEF ClearActive, UsesSession, Detaching
    <2>2. QED
      BY <1>1, <1>10, <2>1 DEF ClearActive, Goto
  <1>11. CASE IsEmpty(t)
    <2>1. CASE Emptied(session[t])
      BY <1>1, <1>11, <2>1 DEF IsEmpty, Goto
    <2>2. CASE ~Emptied(session[t])
      <3>1. /\ SameOthers(t) /\ at'[t] # "clear_active"
            /\ session'[t] \in {session[t], None} /\ link'[t] \in {link[t], None}
        BY <1>11, <2>2, ReturnedMoves, ReturnedKeeps DEF IsEmpty
      <3>2. QED
        BY <1>11, <3>1 DEF IsEmpty
    <2>3. QED
      BY <2>1, <2>2
  <1>12. CASE RemovePeer(t)
    <2>1. /\ SameOthers(t) /\ at'[t] # "clear_active"
          /\ session'[t] \in {session[t], None} /\ link'[t] \in {link[t], None}
      BY <1>12, ReturnedMoves, ReturnedKeeps DEF RemovePeer
    <2>2. QED
      BY <1>12, <2>1 DEF RemovePeer
  <1>13. CASE Drop(t)
    BY <1>1, <1>13 DEF Drop, AfterDrop
  <1>14. CASE CloseAll(t)
    BY <1>1, <1>14 DEF CloseAll, Goto, AfterDrop
  <1>15. CASE Evict(t) \/ Forget(t)
    BY <1>1, <1>15 DEF Evict, Forget, Goto
  <1>16. CASE Mark(t)
    BY <1>1, <1>16 DEF Mark, End
  <1>17. QED
    BY <1>3, <1>4, <1>5, <1>6, <1>7, <1>8, <1>9, <1>10, <1>11, <1>12, <1>13, <1>14, <1>15, <1>16
       DEF ReadStep, TeardownStep

\* An operation begins: the steps that count it.
Starts ==
    \/ \E k \in Kinds : handle_transport_switch(k)
    \/ \E l \in Conns : CurrentOrPick(l) \/ \E f \in Conns : PromoteOnFailure(f, l)
    \/ handle_disconnect_link \/ DisconnectPeer

\* It takes up a link of the registered session, or none.
LEMMA OpTakes ==
    ASSUME TypeOK, Starts
    PROVE  /\ Takes(Op) /\ at'[Op] # "clear_active"
           /\ UNCHANGED <<active, born, loopVars>> /\ ops' # 0
  <1>1. /\ at \in [Tasks -> Places] /\ session \in [Tasks -> Sessions \union {None}]
        /\ link \in [Tasks -> Conns \union {None}] /\ multi \in [Tasks -> BOOLEAN]
        /\ reg \in Sessions \union {None}
        /\ ops \in Nat /\ Op \in Tasks
    BY ConstantsAssumption DEF TypeOK, Tasks
  <1> USE <1>1 DEF Takes, SameOthers, born, loopVars, nodeVars, NewOp
  <1>2. ASSUME NEW l \in Conns, SwitchActiveLink(l) \/ CurrentOrPick(l) \/ DisconnectLink(l)
        PROVE  /\ Takes(Op) /\ at'[Op] # "clear_active"
               /\ UNCHANGED <<active, born, loopVars>> /\ ops' # 0
    BY <1>2 DEF SwitchActiveLink, CurrentOrPick, DisconnectLink, Multilink
  <1>3. ASSUME NEW f \in Conns, NEW l \in Conns, PromoteOnFailure(f, l)
        PROVE  /\ Takes(Op) /\ at'[Op] # "clear_active"
               /\ UNCHANGED <<active, born, loopVars>> /\ ops' # 0
    BY <1>3 DEF PromoteOnFailure, Multilink
  <1>4. CASE DisconnectPeer
    BY <1>4 DEF DisconnectPeer, Goto
  <1>5. QED
    BY <1>2, <1>3, <1>4 DEF Starts, handle_transport_switch, peer_link_status, handle_disconnect_link

\* A choice of the active link ends the operation that made it.
LEMMA ChoiceTakes ==
    ASSUME TypeOK, TasksHold, SetActive \/ Adopt
    PROVE  /\ Takes(Op) /\ at[Op] # "off" /\ at'[Op] = "off"
           /\ UNCHANGED <<links, born, loopVars, ops>>
           /\ \A s \in Sessions : active'[s] \in {active[s], link[Op]}
  <1>1. /\ at \in [Tasks -> Places] /\ session \in [Tasks -> Sessions \union {None}]
        /\ link \in [Tasks -> Conns \union {None}] /\ multi \in [Tasks -> BOOLEAN]
        /\ active \in [Sessions -> Conns \union {None}]
        /\ Op \in Tasks
    BY DEF TypeOK, Tasks
  <1>2. QED
    BY <1>1 DEF SetActive, Adopt, End, Takes, SameOthers, born, loopVars

\* The steps there are.
LEMMA NextSteps ==
    ASSUME [Next]_vars
    PROVE  \/ \E k \in Kinds : Handshake(k) \/ Timeout(k) \/ LoopStep(k)
           \/ \E t \in Tasks : ReadStep(t) \/ TeardownStep(t)
           \/ Starts \/ SetActive \/ Adopt
           \/ (\E l \in Conns : Lose(l)) \/ UNCHANGED vars
  BY DEF Next, Starts

\* The loops' steps other than attach_link.
LEMMA LoopTakes ==
    ASSUME TypeOK, LoopsHold, NEW k \in Kinds,
           Handshake(k) \/ Timeout(k) \/ (LoopStep(k) /\ ~AttachLink(k))
    PROVE  /\ UNCHANGED <<reg, links, active, session, link, multi, misread, ops>>
           /\ Unattached' \subseteq Unattached
           /\ conn' \in {conn} \union (Conns \ Unattached)
           /\ \A c \in Conns : at'[c] = at[c] \/ at'[c] = "top"
           /\ at'[Op] = at[Op]
  <1>1. /\ at \in [Tasks -> Places] /\ lat \in [Kinds -> LoopPlaces]
        /\ lconn \in [Kinds -> Conns \union {None}] /\ opened \in Nat
        /\ Conns \subseteq Nat \ {0} /\ Op \in Tasks /\ Op \notin Conns
    BY ConstantsAssumption DEF TypeOK, Tasks, Conns, Op
  <1>2. lat[k] # "idle" => /\ lconn[k] \in Conns /\ lconn[k] <= opened
                           /\ \A j \in Kinds : lconn[j] = lconn[k] /\ lat[j] # "idle" => j = k
    <2>1. ASSUME lat[k] # "idle"
          PROVE  lconn[k] \in 1 .. opened /\ kind[lconn[k]] = k
      BY <2>1 DEF LoopsHold
    <2>2. \A j \in Kinds : lat[j] # "idle" => kind[lconn[j]] = j
      BY DEF LoopsHold
    <2>3. QED
      BY <1>1, <2>1, <2>2 DEF None
  <1> USE <1>1 DEF nodeVars, born, loopVars, taskVars, history
  <1>3. CASE Handshake(k)
    <2>1. /\ opened' = opened + 1
          /\ lconn' = [lconn EXCEPT ![k] = opened + 1]
          /\ lat' = [lat EXCEPT ![k] = "contains"]
      BY <1>3 DEF Handshake
    <2>2. ASSUME NEW c \in Unattached' PROVE c \in Unattached
      <3>1. CASE c > opened'
        BY <2>1, <2>2, <3>1 DEF Unattached
      <3>2. ASSUME NEW j \in Kinds, lconn'[j] = c, lat'[j] \in {"contains", "attach"}
            PROVE  c \in Unattached
        BY <2>1, <2>2, <3>2 DEF Unattached
      <3>3. QED
        BY <2>2, <3>1, <3>2 DEF Unattached
    <2>3. QED
      BY <1>3, <2>2 DEF Handshake
  <1>4. CASE Timeout(k)
    BY <1>4 DEF Timeout, Unattached
  <1>5. CASE Contains(k)
    BY <1>5 DEF Contains, Unattached
  <1>6. CASE AddConn(k)
    <2>1. lconn[k] \in Conns \ Unattached
      BY <1>2, <1>6 DEF AddConn, Unattached
    <2>2. QED
      BY <1>6, <2>1 DEF AddConn, LoopGoto, Unattached
  <1>7. CASE AddPeer(k) \/ SetState(k)
    BY <1>7 DEF AddPeer, SetState, LoopGoto, Unattached
  <1>8. CASE SpawnReader(k)
    BY <1>2, <1>8 DEF SpawnReader, Unattached
  <1>9. QED
    BY <1>3, <1>4, <1>5, <1>6, <1>7, <1>8 DEF LoopStep

\* attach_link puts a connection in a session that was unattached before and
\* is no more.
LEMMA AttachTakes ==
    ASSUME TypeOK, LoopsHold, NEW k \in Kinds, AttachLink(k)
    PROVE  /\ lconn[k] \in Unattached /\ Unattached' \subseteq Unattached \ {lconn[k]}
           /\ UNCHANGED <<conn, at, session, link, multi, opened, lconn, misread, ops, timeouts>>
           /\ \/ UNCHANGED <<reg, links, active>>
              \/ /\ reg # None /\ lat' = [lat EXCEPT ![k] = "add_conn"]
                 /\ links' = [links EXCEPT ![reg] = @ \union {lconn[k]}]
                 /\ UNCHANGED <<reg, active>>
              \/ /\ reg' = lconn[k] /\ lat' = [lat EXCEPT ![k] = "add_conn"]
                 /\ links' = [links EXCEPT ![lconn[k]] = {lconn[k]}]
                 /\ active' = [active EXCEPT ![lconn[k]] = lconn[k]]
  <1>1. /\ lat \in [Kinds -> LoopPlaces] /\ lconn[k] \in Conns /\ lconn[k] <= opened
        /\ opened \in Nat /\ Conns \subseteq Nat \ {0}
    BY ConstantsAssumption DEF TypeOK, Conns, LoopsHold, AttachLink
  <1>2. /\ lat[k] = "attach" /\ UNCHANGED <<opened, lconn>>
        /\ lat' = [lat EXCEPT ![k] = "add_conn"] \/ lat' = [lat EXCEPT ![k] = "spawn"]
    BY DEF AttachLink, LoopGoto
  <1>3. lconn[k] \in Unattached /\ Unattached' \subseteq Unattached \ {lconn[k]}
    <2>1. \A j \in Kinds : lconn[j] = lconn[k] /\ lat[j] # "idle" => j = k
      BY <1>2 DEF LoopsHold
    <2>2. lconn[k] \in Unattached
      BY <1>1, <1>2 DEF Unattached
    <2>3. \A j \in Kinds : lat'[j] \in {"contains", "attach"} => j # k /\ lat'[j] = lat[j]
      BY <1>1, <1>2
    <2>4. ASSUME NEW c \in Unattached' PROVE c \in Unattached /\ c # lconn[k]
      <3>1. CASE c > opened
        BY <1>1, <2>4, <3>1 DEF Unattached
      <3>2. ASSUME NEW j \in Kinds, lconn[j] = c, lat'[j] \in {"contains", "attach"}
            PROVE  c \in Unattached /\ c # lconn[k]
        BY <2>1, <2>3, <2>4, <3>2 DEF Unattached
      <3>3. QED
        BY <1>2, <2>4, <3>1, <3>2 DEF Unattached
    <2>5. QED
      BY <2>2, <2>4
  <1>4. QED
    BY <1>3 DEF AttachLink, LoopGoto, taskVars, history

\* Every step keeps unattached connections unknown.
LEMMA UnknownStep == IInv /\ [Next]_vars => UnattachedUnknown'
  <1> SUFFICES ASSUME TypeOK, LoopsHold, TasksHold, UnattachedUnknown, [Next]_vars
               PROVE  UnattachedUnknown'
    BY DEF IInv
  <1> SUFFICES ASSUME NEW c \in Unattached'
               PROVE  /\ reg' # c /\ conn' # c
                      /\ \A s \in Sessions : c \notin links'[s] /\ active'[s] # c
                      /\ \A u \in Tasks : session'[u] # c /\ link'[u] # c
    BY DEF UnattachedUnknown
  <1> DEFINE Unknown == /\ reg # c /\ conn # c
                        /\ \A s \in Sessions : c \notin links[s] /\ active[s] # c
                        /\ \A u \in Tasks : session[u] # c /\ link[u] # c
  <1>1. c \in Conns /\ c # None /\ Op \in Tasks
    BY DEF Unattached, Conns, None, Tasks
  <1>2. c \in Unattached => Unknown
    BY DEF UnattachedUnknown
  <1>3. ASSUME NEW k \in Kinds, Handshake(k) \/ Timeout(k) \/ (LoopStep(k) /\ ~AttachLink(k))
        PROVE  Unknown'
    <2>1. /\ UNCHANGED <<reg, links, active, session, link>>
          /\ Unattached' \subseteq Unattached /\ conn' \in {conn} \union (Conns \ Unattached)
      BY <1>3, LoopTakes
    <2>2. QED
      BY <1>2, <2>1
  <1>4. ASSUME NEW k \in Kinds, AttachLink(k) PROVE Unknown'
    <2>1. c \in Unattached /\ c # lconn[k] /\ UNCHANGED <<conn, session, link>>
      BY <1>4, AttachTakes
    <2>2. /\ reg' \in {reg, lconn[k]}
          /\ \A s \in Sessions : links'[s] \subseteq links[s] \union {lconn[k]}
          /\ \A s \in Sessions : active'[s] \in {active[s], lconn[k]}
      BY <1>4, AttachTakes DEF TypeOK
    <2>3. QED
      BY <1>2, <2>1, <2>2
  <1>5. ASSUME NEW t \in Tasks, Takes(t), UNCHANGED <<born, loopVars>>,
               \A s \in Sessions : active'[s] \in {active[s], link[t], None}
        PROVE  Unknown'
    <2>1. Unattached' = Unattached
      BY <1>5 DEF Unattached, born, loopVars
    <2>2. \A u \in Tasks : session'[u] # c /\ link'[u] # c
      BY <1>1, <1>2, <1>5, <2>1 DEF Takes, SameOthers
    <2>3. QED
      BY <1>1, <1>2, <1>5, <2>1, <2>2 DEF Takes
  <1>6. ASSUME NEW t \in Tasks, ReadStep(t) \/ TeardownStep(t) PROVE Unknown'
    <2>1. \A s \in Sessions : active'[s] \in {active[s], link[t], None}
      BY <1>6, TaskTakes DEF TypeOK, Cleared
    <2>2. QED
      BY <1>5, <1>6, <2>1, TaskTakes
  <1>7. CASE Starts
    BY <1>1, <1>5, <1>7, OpTakes
  <1>8. CASE SetActive \/ Adopt
    BY <1>1, <1>5, <1>8, ChoiceTakes
  <1>9. ASSUME NEW l \in Conns, Lose(l) PROVE Unknown'
    BY <1>2, <1>9 DEF Lose, vars, nodeVars, born, loopVars, taskVars, Unattached
  <1>10. CASE UNCHANGED vars
    BY <1>2, <1>10 DEF vars, nodeVars, born, loopVars, taskVars, Unattached
  <1>11. QED
    BY <1>3, <1>4, <1>6, <1>7, <1>8, <1>9, <1>10, NextSteps DEF LoopStep

\* Every step keeps RemovedForGood.
LEMMA RemovedStep == IInv /\ [Next]_vars => RemovedForGood'
  <1> SUFFICES ASSUME TypeOK, LoopsHold, TasksHold, UnattachedUnknown, RemovedForGood,
                      [Next]_vars,
                      NEW u \in Tasks, at'[u] = "clear_active"
               PROVE  link'[u] \notin links'[session'[u]]
    BY DEF IInv, RemovedForGood
  <1> DEFINE Removed == link[u] \notin links[session[u]]
  <1>1. at[u] = "clear_active" => Removed /\ session[u] \in Sessions
    BY DEF RemovedForGood, TasksHold, UsesSession, Detaching
  <1>2. Op \in Tasks /\ Tasks = Conns \union {Op}
    BY DEF Tasks
  <1>3. ASSUME NEW k \in Kinds, Handshake(k) \/ Timeout(k) \/ (LoopStep(k) /\ ~AttachLink(k))
        PROVE  Removed'
    <2>1. at[u] = "clear_active" /\ UNCHANGED <<links, session, link>>
      BY <1>2, <1>3, LoopTakes
    <2>2. QED
      BY <1>1, <2>1
  <1>4. ASSUME NEW k \in Kinds, AttachLink(k) PROVE Removed'
    <2>1. lconn[k] \in Unattached /\ UNCHANGED <<at, session, link>>
      BY <1>4, AttachTakes
    <2>2. link[u] # lconn[k]
      BY <2>1 DEF UnattachedUnknown
    <2>3. \A s \in Sessions : links'[s] \subseteq links[s] \union {lconn[k]}
      BY <1>4, AttachTakes DEF TypeOK
    <2>4. QED
      BY <1>1, <2>1, <2>2, <2>3
  <1>5. ASSUME NEW t \in Tasks, t # u \/ at'[t] # "clear_active", Takes(t) PROVE Removed'
    BY <1>1, <1>5 DEF Takes, SameOthers
  <1>6. ASSUME NEW t \in Tasks, ReadStep(t) \/ TeardownStep(t) PROVE Removed'
    <2>1. CASE t # u
      BY <1>5, <1>6, <2>1, TaskTakes
    <2>2. CASE t = u
      BY <1>6, <2>2, TaskTakes
    <2>3. QED
      BY <2>1, <2>2
  <1>7. CASE Starts \/ SetActive \/ Adopt
    <2>1. at'[Op] # "clear_active" /\ Takes(Op)
      BY <1>7, OpTakes, ChoiceTakes
    <2>2. QED
      BY <1>2, <1>5, <2>1
  <1>8. CASE (\E l \in Conns : Lose(l)) \/ UNCHANGED vars
    BY <1>1, <1>8 DEF Lose, vars, nodeVars, taskVars
  <1>9. QED
    BY <1>3, <1>4, <1>6, <1>7, <1>8, NextSteps DEF LoopStep

\* Every step keeps FirstIsActive.
LEMMA FirstStep == IInv /\ [Next]_vars => FirstIsActive'
  <1> SUFFICES ASSUME TypeOK, LoopsHold, TasksHold, UnattachedUnknown, RemovedForGood,
                      FirstIsActive, [Next]_vars, ops' = 0
               PROVE  /\ at'[Op] = "off"
                      /\ \A s \in Sessions : /\ active'[s] \in {s, None}
                                             /\ s \in links'[s] => active'[s] = s
    BY DEF IInv, FirstIsActive
  <1> DEFINE First == /\ at[Op] = "off"
                      /\ \A s \in Sessions : /\ active[s] \in {s, None}
                                             /\ s \in links[s] => active[s] = s
  <1>1. ops = 0 => First
    BY DEF FirstIsActive
  <1>2. Op \in Tasks /\ Op \notin Conns
    BY DEF Tasks, Op, Conns
  <1>3. ASSUME NEW k \in Kinds, Handshake(k) \/ Timeout(k) \/ (LoopStep(k) /\ ~AttachLink(k))
        PROVE  First'
    <2>1. UNCHANGED <<links, active, ops>> /\ at'[Op] = at[Op]
      BY <1>3, LoopTakes
    <2>2. QED
      BY <1>1, <2>1
  <1>4. ASSUME NEW k \in Kinds, AttachLink(k) PROVE First'
    <2>1. lconn[k] \in Unattached /\ UNCHANGED <<at, ops>>
      BY <1>4, AttachTakes
    <2>2. First
      BY <1>1, <2>1
    <2>3. \A s \in Sessions : reg # lconn[k] /\ lconn[k] \notin links[s]
      BY <2>1 DEF UnattachedUnknown
    <2>4. links \in [Sessions -> SUBSET Conns] /\ active \in [Sessions -> Conns \union {None}]
      BY DEF TypeOK
    <2>5. CASE UNCHANGED <<links, active>>
      BY <2>1, <2>2, <2>5
    <2>6. CASE links' = [links EXCEPT ![reg] = @ \union {lconn[k]}] /\ UNCHANGED active
      BY <2>1, <2>2, <2>3, <2>4, <2>6
    <2>7. CASE /\ links' = [links EXCEPT ![lconn[k]] = {lconn[k]}]
               /\ active' = [active EXCEPT ![lconn[k]] = lconn[k]]
      BY <2>1, <2>2, <2>4, <2>7
    <2>8. QED
      BY <1>4, <2>5, <2>6, <2>7, AttachTakes
  <1>5. ASSUME NEW t \in Tasks, ReadStep(t) \/ TeardownStep(t) PROVE First'
    <2>1. /\ SameOthers(t) /\ at[t] # "off" /\ ops' = ops
          /\ \A s \in Sessions : links'[s] \subseteq links[s]
      BY <1>5, TaskTakes DEF Takes
    <2>2. First /\ at'[Op] = "off"
      BY <1>1, <1>2, <2>1 DEF SameOthers
    <2>3. CASE UNCHANGED active
      BY <2>1, <2>2, <2>3
    <2>4. CASE /\ at[t] = "clear_active" /\ session[t] \in Sessions
               /\ active' = [active EXCEPT ![session[t]] = Cleared(@, link[t])]
      <3>1. link[t] \notin links[session[t]]
        BY <2>4 DEF RemovedForGood
      <3>2. active \in [Sessions -> Conns \union {None}]
        BY DEF TypeOK
      <3>3. ASSUME NEW s \in Sessions
            PROVE  active'[s] \in {s, None} /\ (s \in links[s] => active'[s] = s)
        BY <2>2, <2>4, <3>1, <3>2 DEF Cleared
      <3>4. QED
        BY <2>1, <2>2, <3>3
    <2>5. QED
      BY <1>5, <2>3, <2>4, TaskTakes
  <1>6. CASE Starts \/ SetActive \/ Adopt
    BY <1>1, <1>6, OpTakes, ChoiceTakes
  <1>7. CASE (\E l \in Conns : Lose(l)) \/ UNCHANGED vars
    BY <1>1, <1>7 DEF Lose, vars, nodeVars, taskVars, history
  <1>8. QED
    BY <1>3, <1>4, <1>5, <1>6, <1>7, NextSteps DEF LoopStep

\* Two members make a cardinality of two.
LEMMA TwoLinks ==
    ASSUME NEW S \in SUBSET Conns, NEW a \in S, NEW b \in S, a # b
    PROVE  Cardinality(S) >= 2
  <1>1. IsFiniteSet(S)
    <2>1. IsFiniteSet(Conns)
      BY ConstantsAssumption, FS_Interval DEF Conns
    <2>2. QED
      BY <2>1, FS_Subset
  <1>2. {a, b} \subseteq S
    OBVIOUS
  <1>3. IsFiniteSet({a, b}) /\ Cardinality({a, b}) = 2
    <2>1. IsFiniteSet({a}) /\ Cardinality({a}) = 1
      BY FS_Singleton
    <2>2. {a, b} = {a} \union {b}
      OBVIOUS
    <2>3. QED
      BY <2>1, <2>2, FS_AddElement
  <1>4. QED
    BY <1>1, <1>2, <1>3, FS_Subset, FS_CardinalityType

\* The reader of a listed link takes a step of its own.
LEMMA OwnStep ==
    ASSUME TypeOK, TasksHold, FirstIsActive, ops = 0,
           NEW l \in Conns, ReadStep(l) \/ TeardownStep(l),
           reg \in Sessions, reg' = reg, reg \notin misread',
           l \in links[reg], l \in links'[reg], ReaderHolds(l)
    PROVE  ReaderHolds(l)'
  <1>1. /\ at \in [Tasks -> Places] /\ session \in [Tasks -> Sessions \union {None}]
        /\ link \in [Tasks -> Conns \union {None}] /\ multi \in [Tasks -> BOOLEAN]
        /\ links \in [Sessions -> SUBSET Conns] /\ active \in [Sessions -> Conns \union {None}]
        /\ l \in Tasks /\ l # Op /\ reg # None
    BY DEF TypeOK, Tasks, Op, Conns, Sessions, None
  <1> USE <1>1 DEF ReaderHolds, AloneOrFirstGone, nodeVars
  <1>2. CASE ReaderTop(l)
    BY <1>2 DEF ReaderTop
  <1>3. CASE ReaderCount(l)
    <2>1. at[l] = "count" /\ session[l] = reg
      BY <1>3 DEF ReaderCount
    <2>2. reg \in links[reg] /\ l # reg => Cardinality(links[reg]) >= 2
      BY TwoLinks
    <2>3. QED
      BY <1>3, <2>1, <2>2 DEF ReaderCount
  <1>4. CASE RecvShared(l)
    BY <1>4 DEF RecvShared
  <1>5. CASE RecvOnce(l)
    <2>1. at[l] = "read" /\ (at' = [at EXCEPT ![l] = "top"] \/ at' = [at EXCEPT ![l] = "failed"])
      BY <1>5 DEF RecvOnce
    <2>2. QED
      BY <1>5, <2>1 DEF RecvOnce
  <1>6. CASE RecvGet(l)
    BY <1>6 DEF RecvGet
  <1>7. CASE RecvSnapshot(l)
    BY <1>7 DEF RecvSnapshot
  <1>8. CASE ReadAny(l)
    <2>1. PICK p \in {"top", "snapshot", "failed"} : at' = [at EXCEPT ![l] = p]
      BY <1>8 DEF ReadAny
    <2>2. QED
      BY <1>8, <2>1 DEF ReadAny
  <1>9. CASE ReaderFailed(l)
    BY <1>9 DEF ReaderFailed
  <1>10. CASE ReaderActive(l)
    <2>1. /\ at[l] = "which" /\ session[l] = reg /\ AloneOrFirstGone(l)
          /\ active[reg] \in {reg, None}
      BY <1>10 DEF ReaderActive, FirstIsActive
    <2>2. CASE active[reg] = None
      BY <1>10, <2>1, <2>2 DEF ReaderActive
    <2>3. CASE active[reg] = reg
      <3>1. reg \in links[reg]
        BY <1>10, <2>1, <2>3 DEF ReaderActive
      <3>2. QED
        BY <1>10, <2>1, <2>3, <3>1 DEF ReaderActive
    <2>4. QED
      BY <2>1, <2>2, <2>3
  <1>11. CASE Detach(l)
    BY <1>11 DEF Detach
  <1>12. CASE RemoveLink(l)
    <2>1. link[l] = l /\ session[l] = reg
      BY <1>12 DEF RemoveLink
    <2>2. QED
      BY <1>12, <2>1 DEF RemoveLink
  <1>13. CASE Drop(l)
    BY <1>13 DEF Drop
  <1>14. CASE ClearActive(l) \/ IsEmpty(l) \/ RemovePeer(l) \/ CloseAll(l) \/ Evict(l)
                 \/ Forget(l) \/ Mark(l)
    BY <1>14 DEF ClearActive, IsEmpty, RemovePeer, CloseAll, Evict, Forget, Mark
  <1>15. QED
    BY <1>2, <1>3, <1>4, <1>5, <1>6, <1>7, <1>8, <1>9, <1>10, <1>11, <1>12, <1>13, <1>14
       DEF ReadStep, TeardownStep

\* Every step keeps what the readers of listed links hold.
LEMMA ReadersStep == IInv /\ [Next]_vars => ReadersHold'
  <1> SUFFICES ASSUME TypeOK, LoopsHold, TasksHold, UnattachedUnknown, FirstIsActive,
                      ReadersHold, [Next]_vars,
                      ops' = 0, timeouts' = 0, reg' \notin misread' \union {None},
                      NEW l \in links'[reg']
               PROVE  ReaderHolds(l)'
    BY DEF IInv, ReadersHold
  <1>1. /\ ops \in Nat /\ timeouts \in Nat /\ reg \in Sessions \union {None}
        /\ links \in [Sessions -> SUBSET Conns] /\ lat \in [Kinds -> LoopPlaces]
        /\ lconn \in [Kinds -> Conns \union {None}] /\ at \in [Tasks -> Places]
    BY ConstantsAssumption DEF TypeOK
  <1>2. Op \in Tasks /\ Op \notin Conns /\ Tasks = Conns \union {Op} /\ None \notin Conns
    BY DEF Tasks, Op, Conns, None
  <1>3. ASSUME reg' = reg, misread \subseteq misread', links'[reg] \subseteq links[reg],
               ops = 0, timeouts = 0
        PROVE  /\ reg \in Sessions /\ l \in Conns /\ l \in links[reg] /\ l \in links'[reg]
               /\ ReaderHolds(l)
    BY <1>1, <1>3 DEF ReadersHold, Sessions
  <1>4. ASSUME NEW k \in Kinds, Handshake(k) \/ Timeout(k) \/ (LoopStep(k) /\ ~AttachLink(k))
        PROVE  ReaderHolds(l)'
    <2>1. /\ UNCHANGED <<reg, links, session, link, multi, misread, ops>>
          /\ \A c \in Conns : at'[c] = at[c] \/ at'[c] = "top"
      BY <1>4, LoopTakes
    <2>2. timeouts = 0 /\ ~Timeout(k)
      BY <1>1, <1>4 DEF Timeout, Handshake, LoopStep, Contains, AddConn, AddPeer, SetState,
                   SpawnReader, history
    <2>3. l \in Conns /\ ReaderHolds(l)
      BY <1>3, <2>1, <2>2
    <2>4. CASE at'[l] = "top"
      BY <2>4 DEF ReaderHolds
    <2>5. CASE at[l] # "off" /\ at'[l] = at[l]
      BY <2>1, <2>3, <2>5 DEF ReaderHolds, AloneOrFirstGone
    <2>6. CASE at[l] = "off" /\ at'[l] = at[l]
      <3>1. PICK j \in Kinds : lconn[j] = l /\ lat[j] \notin {"idle", "contains", "attach"}
        BY <2>3, <2>6 DEF ReaderHolds
      <3>2. lconn'[j] = l /\ lat'[j] \notin {"idle", "contains", "attach"}
        <4>1. CASE j # k
          BY <1>1, <1>4, <2>2, <3>1, <4>1 DEF Handshake, LoopStep, Contains, AddConn, AddPeer,
             SetState, SpawnReader, LoopGoto
        <4>2. CASE j = k
          <5>1. AddConn(k) \/ AddPeer(k) \/ SetState(k) \/ SpawnReader(k)
            BY <1>4, <2>2, <3>1, <4>2 DEF Handshake, LoopStep, Contains
          <5>2. ~SpawnReader(k)
            BY <1>1, <1>2, <2>3, <2>6, <3>1, <4>2 DEF SpawnReader
          <5>3. QED
            BY <1>1, <3>1, <4>2, <5>1, <5>2 DEF AddConn, AddPeer, SetState, LoopGoto
        <4>3. QED
          BY <4>1, <4>2
      <3>3. QED
        BY <2>6, <3>2 DEF ReaderHolds
    <2>7. QED
      BY <2>1, <2>3, <2>4, <2>5, <2>6
  <1>5. ASSUME NEW k \in Kinds, AttachLink(k) PROVE ReaderHolds(l)'
    <2>1. /\ UNCHANGED <<at, session, link, multi, lconn, misread, ops, timeouts>>
          /\ lconn[k] \in Unattached /\ lconn[k] \in Conns
      BY <1>5, AttachTakes DEF Unattached
    <2>2. reg # lconn[k] /\ (reg # None => lconn[k] \notin links[reg])
      BY <1>1, <2>1 DEF UnattachedUnknown
    <2>3. /\ lat[k] = "attach" /\ at[lconn[k]] = "off"
          /\ lat' = [lat EXCEPT ![k] = "add_conn"] \/ lat' = [lat EXCEPT ![k] = "spawn"]
      BY <1>5 DEF AttachLink, LoopGoto, LoopsHold
    <2>4. ASSUME ReaderHolds(l), reg' = reg, reg \in links'[reg] => reg \in links[reg]
          PROVE  ReaderHolds(l)'
      BY <1>1, <2>1, <2>3, <2>4 DEF ReaderHolds, AloneOrFirstGone
    <2>5. ASSUME l = lconn[k], lat' = [lat EXCEPT ![k] = "add_conn"] PROVE ReaderHolds(l)'
      BY <1>1, <2>1, <2>3, <2>5 DEF ReaderHolds
    <2>6. CASE UNCHANGED <<reg, links, active>>
      BY <1>3, <2>1, <2>4, <2>6
    <2>7. CASE /\ reg # None /\ lat' = [lat EXCEPT ![k] = "add_conn"]
               /\ links' = [links EXCEPT ![reg] = @ \union {lconn[k]}]
               /\ UNCHANGED <<reg, active>>
      <3>1. l \in links[reg] \/ l = lconn[k]
        BY <1>1, <2>7
      <3>2. l \in links[reg] => ReaderHolds(l)
        BY <2>1, <2>7 DEF ReadersHold
      <3>3. reg \in links'[reg] => reg \in links[reg]
        BY <1>1, <2>2, <2>7
      <3>4. QED
        BY <2>4, <2>5, <2>7, <3>1, <3>2, <3>3
    <2>8. CASE /\ reg' = lconn[k] /\ lat' = [lat EXCEPT ![k] = "add_conn"]
               /\ links' = [links EXCEPT ![lconn[k]] = {lconn[k]}]
      BY <1>1, <2>1, <2>5, <2>8 DEF Sessions
    <2>9. QED
      BY <1>5, <2>6, <2>7, <2>8, AttachTakes
  <1>6. ASSUME NEW t \in Tasks, ReadStep(t) \/ TeardownStep(t) PROVE ReaderHolds(l)'
    <2>1. /\ Takes(t) /\ at[t] # "off" /\ UNCHANGED <<loopVars, ops, timeouts>>
          /\ misread \subseteq misread'
      BY <1>6, TaskTakes
    <2>2. /\ reg \in Sessions /\ l \in Conns /\ l \in links[reg] /\ l \in links'[reg]
          /\ ReaderHolds(l) /\ reg' = reg /\ links'[reg] \subseteq links[reg]
      <3>1. reg' = reg /\ reg \in Sessions
        BY <1>1, <2>1 DEF Takes
      <3>2. links'[reg] \subseteq links[reg]
        BY <2>1, <3>1 DEF Takes
      <3>3. QED
        BY <1>3, <2>1, <3>1, <3>2
    <2>3. CASE t = l
      BY <1>6, <2>1, <2>2, <2>3, OwnStep
    <2>4. CASE t # l
      <3>1. /\ at'[l] = at[l] /\ session'[l] = session[l]
            /\ link'[l] = link[l] /\ multi'[l] = multi[l]
        BY <1>2, <2>1, <2>2, <2>4 DEF Takes, SameOthers
      <3>2. QED
        BY <2>1, <2>2, <3>1 DEF ReaderHolds, AloneOrFirstGone, loopVars
    <2>5. QED
      BY <2>3, <2>4
  <1>7. CASE Starts \/ SetActive \/ Adopt
    BY <1>7, OpTakes, ChoiceTakes DEF FirstIsActive
  <1>8. CASE (\E c \in Conns : Lose(c)) \/ UNCHANGED vars
    <2>1. UNCHANGED <<reg, links, at, session, link, multi, lat, lconn, misread, ops, timeouts>>
      BY <1>8 DEF Lose, vars, nodeVars, loopVars, taskVars, history
    <2>2. QED
      BY <1>3, <2>1 DEF ReaderHolds, AloneOrFirstGone
  <1>9. QED
    BY <1>4, <1>5, <1>6, <1>7, <1>8, NextSteps DEF LoopStep

\* The invariant holds in every reachable state.
LEMMA IInvHolds == Spec => []IInv
  <1>1. IInv /\ [Next]_vars => IInv'
    BY TypeStep, LoopsStep, TasksStep, EmptyStep, ActiveStep, EntriesStep,
       UnknownStep, RemovedStep, FirstStep, ReadersStep DEF IInv
  <1>2. QED
    BY <1>1, IInvInit, PTL DEF Spec

-----------------------------------------------------------------------------
(* The theorems.                                                           *)

\* Every component of the state keeps its type.
THEOREM TypeCorrect == Spec => []TypeOK
  <1>1. IInv => TypeOK
    BY DEF IInv
  <1>2. QED
    BY <1>1, IInvHolds, PTL

\* detach_link's emptiness test leaves no registered session without links
\* behind, although it tests and unregisters under different locks.
THEOREM EmptySessionsLeave == Spec => []EmptySessionIsLeaving
  <1>1. IInv => EmptySessionIsLeaving
    BY DEF IInv
  <1>2. QED
    BY <1>1, IInvHolds, PTL

\* Session::active names a link of the session, or the detach_link that took
\* the link away clears it next, unless a choice overlapped the removal.
THEOREM ActiveLinksAreAttached == Spec => []ActiveIsAttached
  <1>1. IInv => ActiveIsAttached
    BY DEF IInv
  <1>2. QED
    BY <1>1, IInvHolds, PTL

\* The connection entry, the peer, its state and its last event outlive no
\* reader: whoever tears down last finds them, whatever came in between.
THEOREM LastReaderLeavesNothing == Spec => []LastReaderCleansUp
  <1>1. IInv => LastReaderCleansUp
    BY DEF IInv, EntriesAttended, LastReaderCleansUp, Attended, BeforeEvict, BeforeForget,
           BeforeMark, Reading, Detaching
  <1>2. QED
    BY <1>1, IInvHolds, PTL

\* While a link is listed its own reader has not ended: a reader ends without
\* dropping the session only after detach_link took its own link, unless it
\* read an active link that another one had just removed.
THEOREM LinksHaveReaders == Spec => []LinksKeepReaders
  <1>1. IInv => LinksKeepReaders
    BY DEF IInv, ReadersHold, ReaderHolds, LinksKeepReaders
  <1>2. QED
    BY <1>1, IInvHolds, PTL
=============================================================================
