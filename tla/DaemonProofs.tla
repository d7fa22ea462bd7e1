---------------------------- MODULE DaemonProofs ----------------------------
(***************************************************************************)
(* The daemon: rooms, hashes and backlogs stay consistent, a crash keeps   *)
(* the rooms, and a client that joined a room gets each of its messages    *)
(* once, for any number of clients, rooms and messages; and at most one    *)
(* daemon serves, for any number of processes that start and stop.         *)
(***************************************************************************)
EXTENDS DaemonRooms, TLAPS

-----------------------------------------------------------------------------
(* The inductive invariant.                                                *)

\* The worker holds a message and a room list exactly while it is not idle.
FanHolds == /\ fan # "idle" => fanMsg \in Msgs
            /\ fan = "idle" => fanRooms = {}

\* A slot without a registered session has no task and no subscription.
LiveOnly == \A c \in Clients : c \notin live => at[c] = "closed" /\ subs[c] = {}

Joins(c, r)   == at[c] \in Joining /\ arg[c] = r
Retires(c, r) == at[c] \in Retiring /\ arg[c] = r

\* What holds of room r as long as no join overlapped its retirement:
\* while it is being retired nobody uses it or is about to, a join has put
\* it where the next step of the join expects it, and the hash goes first.
Member(r) ==
    /\ \A c \in Clients : r \in subs[c] => r \in rooms /\ r \in hashes
    /\ \A c, d \in Clients : Retires(c, r) => r \notin subs[d] /\ ~Joins(d, r)
    /\ \A c \in Clients : Joins(c, r) => r \in hashes
    /\ \A c \in Clients : Joins(c, r) /\ at[c] = "join_room" => r \in rooms
    /\ \A c \in Clients : Retires(c, r) /\ at[c] # "leave_hash" => r \notin hashes

MemberInv == \A r \in Rooms \ raced : Member(r)

\* rooms.json follows the set in memory until an access to it fails.
DiskFollows == ioErrors = 0 => disk = rooms

IInv == /\ TypeOK /\ FanHolds /\ LiveOnly /\ MemberInv
        /\ HashesFollowRooms /\ OrphanBacklogBounded /\ DiskFollows

\* The initial state is well typed.
LEMMA TypeInit == Init => TypeOK
  BY BoundsAssumption DEF Init, TypeOK, NoSubs, Empty, Places, Joining, Retiring, Msgs, Never

\* A push keeps a backlog a sequence of messages, at most one longer.
LEMMA PushType ==
    ASSUME NEW q \in Seq(Msgs), NEW m \in Msgs
    PROVE  /\ Push(q, m) \in Seq(Msgs)
           /\ Len(Push(q, m)) <= Len(q) + 1
  <1>1. CASE Len(q) >= QueueCap
    <2>1. q # <<>>
      BY <1>1, BoundsAssumption
    <2>2. Tail(q) \in Seq(Msgs) /\ Len(Tail(q)) = Len(q) - 1
      BY <2>1
    <2>3. QED
      BY <1>1, <2>2 DEF Push
  <1>2. CASE ~(Len(q) >= QueueCap)
    BY <1>2 DEF Push
  <1>3. QED
    BY <1>1, <1>2

\* Every step keeps the types; FanHolds gives the worker's message its type.
LEMMA TypeStep == TypeOK /\ FanHolds /\ [Next]_vars => TypeOK'
  <1> SUFFICES ASSUME TypeOK, FanHolds, [Next]_vars PROVE TypeOK'
    OBVIOUS
  <1> USE BoundsAssumption DEF TypeOK, shared, task, history, Places, Joining, Retiring, Msgs
  <1>1. ASSUME NEW c \in Clients, Open(c) PROVE TypeOK'
    BY <1>1 DEF Open
  <1>2. ASSUME NEW c \in Clients, Close(c) PROVE TypeOK'
    <2>1. /\ outq' \in [Clients -> Seq(Frames)] /\ got' \in [Clients -> Seq(Frames)]
          /\ batch' \in [Clients -> Seq(Msgs)]
      BY <1>2 DEF Close
    <2>2. /\ at' \in [Clients -> Places] /\ live' \in SUBSET Clients
          /\ subs' \in [Clients -> SUBSET Rooms]
      BY <1>2 DEF Close
    <2>3. /\ mark' \in [Clients -> [Rooms -> Int]]
          /\ missed' \in [Clients -> SUBSET Frames]
      <3>1. [r \in Rooms |-> Never] \in [Rooms -> Int]
        BY DEF Never
      <3>2. QED
        BY <1>2, <3>1 DEF Close
    <2>4. QED
      BY <1>2, <2>1, <2>2, <2>3 DEF Close
  <1>3. ASSUME NEW c \in Clients, Pump(c) PROVE TypeOK'
    <2>1. Head(outq[c]) \in Frames /\ Tail(outq[c]) \in Seq(Frames)
      BY <1>3 DEF Pump
    <2>2. got' \in [Clients -> Seq(Frames)] /\ outq' \in [Clients -> Seq(Frames)]
      BY <1>3, <2>1 DEF Pump
    <2>3. QED
      BY <1>3, <2>2 DEF Pump
  <1>4. ASSUME NEW c \in Clients, NEW r \in Rooms, JoinHash(c, r) PROVE TypeOK'
    BY <1>4 DEF JoinHash
  <1>5. ASSUME NEW c \in Clients, NEW r \in Rooms, LeaveUnsub(c, r) PROVE TypeOK'
    BY <1>5 DEF LeaveUnsub
  <1>6. ASSUME NEW c \in Clients, JoinRoom(c) PROVE TypeOK'
    <2>1. rooms' \in SUBSET Rooms
      BY <1>6 DEF JoinRoom, Store
    <2>2. disk' \in SUBSET Rooms /\ ioErrors' \in 0 .. MaxIoErrors
      BY SMTT(30), <1>6 DEF JoinRoom, Store, Save
    <2>3. at' \in [Clients -> Places]
      BY <1>6 DEF JoinRoom
    <2>4. QED
      BY <1>6, <2>1, <2>2, <2>3 DEF JoinRoom
  <1>7. ASSUME NEW c \in Clients, JoinDrain(c) PROVE TypeOK'
    <2>1. /\ subs' \in [Clients -> SUBSET Rooms]
          /\ batch' \in [Clients -> Seq(Msgs)]
          /\ queue' \in [Rooms -> Seq(Msgs)]
          /\ at' \in [Clients -> Places]
      BY <1>7 DEF JoinDrain
    <2>2. mark' \in [Clients -> [Rooms -> Int]]
      <3>1. Len(log[arg[c]]) \in Int /\ Len(queue[arg[c]]) \in Int
        OBVIOUS
      <3>2. QED
        BY <1>7, <3>1 DEF JoinDrain, Never, Again
    <2>3. QED
      BY <1>7, <2>1, <2>2 DEF JoinDrain
  <1>8. ASSUME NEW c \in Clients, JoinFlush(c) PROVE TypeOK'
    <2>1. Framed(arg[c], batch[c]) \in Seq(Frames)
      BY SMTT(30) DEF Framed, Frames
    <2>2. got[c] \o Framed(arg[c], batch[c]) \in Seq(Frames)
      BY <2>1
    <2>3. /\ got' \in [Clients -> Seq(Frames)]
          /\ batch' \in [Clients -> Seq(Msgs)]
          /\ at' \in [Clients -> Places]
      BY <1>8, <2>2 DEF JoinFlush
    <2>4. QED
      BY <1>8, <2>3 DEF JoinFlush
  <1>9. ASSUME NEW c \in Clients, LeaveCheck(c) PROVE TypeOK'
    BY <1>9 DEF LeaveCheck
  <1>10. ASSUME NEW c \in Clients, LeaveHash(c) PROVE TypeOK'
    BY <1>10 DEF LeaveHash
  <1>11. ASSUME NEW c \in Clients, LeaveRoom(c) PROVE TypeOK'
    <2>1. rooms' \in SUBSET Rooms
      BY <1>11 DEF LeaveRoom, Store
    <2>2. disk' \in SUBSET Rooms /\ ioErrors' \in 0 .. MaxIoErrors
      BY SMTT(30), <1>11 DEF LeaveRoom, Store, Save
    <2>3. at' \in [Clients -> Places]
      BY <1>11 DEF LeaveRoom
    <2>4. QED
      BY <1>11, <2>1, <2>2, <2>3 DEF LeaveRoom
  <1>12. ASSUME NEW c \in Clients, LeaveQueue(c) PROVE TypeOK'
    BY <1>12 DEF LeaveQueue
  <1>13. CASE Arrive
    <2>1. arrived + 1 \in Msgs /\ arrived' \in 0 .. MaxMsgs
      BY <1>13 DEF Arrive
    <2>2. bus' \in Seq(Msgs)
      <3>1. CASE Len(bus) >= BusCap
        <4>1. Tail(bus) \in Seq(Msgs)
          BY <3>1
        <4>2. QED
          BY <1>13, <2>1, <3>1, <4>1 DEF Arrive
      <3>2. CASE ~(Len(bus) >= BusCap)
        BY <1>13, <2>1, <3>2 DEF Arrive
      <3>3. QED
        BY <3>1, <3>2
    <2>3. QED
      BY <1>13, <2>1, <2>2 DEF Arrive
  <1>14. CASE FanList
    BY <1>14 DEF FanList, Hold
  <1>15. CASE FanLock
    BY <1>15 DEF FanLock
  <1>16. ASSUME NEW r \in Rooms, FanRoom(r) PROVE TypeOK'
    <2>1. fanMsg \in Msgs
      BY <1>16 DEF FanRoom, Release, FanHolds
    <2>2. Push(queue[r], fanMsg) \in Seq(Msgs)
      BY <2>1, PushType
    <2>3. queue' \in [Rooms -> Seq(Msgs)] /\ log' \in [Rooms -> Seq(Msgs)]
      BY <1>16, <2>1, <2>2 DEF FanRoom, Release
    <2>4. /\ outq' \in [Clients -> Seq(Frames)]
          /\ missed' \in [Clients -> SUBSET Frames]
      <3>1. <<r, fanMsg>> \in Frames
        BY <2>1 DEF Frames
      <3>2. ASSUME NEW c \in Clients
            PROVE  /\ Append(outq[c], <<r, fanMsg>>) \in Seq(Frames)
                   /\ missed[c] \union {<<r, fanMsg>>} \in SUBSET Frames
        <4>1. outq[c] \in Seq(Frames) /\ missed[c] \in SUBSET Frames
          OBVIOUS
        <4> DEFINE f == <<r, fanMsg>>
        <4>2. f \in Frames
          BY <3>1
        <4> HIDE DEF f
        <4>3. Append(outq[c], f) \in Seq(Frames) /\ missed[c] \union {f} \in SUBSET Frames
          BY <4>1, <4>2
        <4>4. QED
          BY <4>3 DEF f
      <3> DEFINE out(c) == IF c \in Targets(r) /\ ~Full(c)
                           THEN Append(outq[c], <<r, fanMsg>>) ELSE outq[c]
                 mis(c) == IF c \in Targets(r) /\ Full(c)
                           THEN missed[c] \union {<<r, fanMsg>>} ELSE missed[c]
      <3>3. \A c \in Clients : out(c) \in Seq(Frames) /\ mis(c) \in SUBSET Frames
        BY <3>2
      <3>4. outq' = [c \in Clients |-> out(c)] /\ missed' = [c \in Clients |-> mis(c)]
        BY <1>16 DEF FanRoom, Release
      <3> HIDE DEF out, mis
      <3>5. QED
        BY <3>3, <3>4
    <2>5. fanRooms' \in SUBSET Rooms /\ fan' \in {"idle", "listed", "locked"}
            /\ fanMsg' \in 0 .. MaxMsgs
      BY <1>16 DEF FanRoom, Release
    <2>6. QED
      BY <1>16, <2>3, <2>4, <2>5 DEF FanRoom, Release
  <1>17. CASE Restart
    BY <1>17 DEF Restart, NoSubs, Empty, Never
  <1>18. CASE UNCHANGED vars
    BY <1>18 DEF vars
  <1>19. QED
    BY <1>1, <1>2, <1>3, <1>4, <1>5, <1>6, <1>7, <1>8, <1>9, <1>10, <1>11, <1>12,
       <1>13, <1>14, <1>15, <1>16, <1>17, <1>18 DEF Next, ClientStep, FanStep

\* Nothing is joined at the first boot.
LEMMA IInvInit == Init => IInv
  <1> SUFFICES ASSUME Init PROVE IInv
    OBVIOUS
  <1>1. TypeOK
    BY TypeInit
  <1>2. FanHolds /\ LiveOnly /\ DiskFollows
    BY DEF Init, FanHolds, LiveOnly, DiskFollows, NoSubs
  <1>3. MemberInv /\ HashesFollowRooms
    BY DEF Init, MemberInv, Member, Joins, Retires, Joining, Retiring, NoSubs,
           HashesFollowRooms
  <1>4. OrphanBacklogBounded
    BY DEF Init, OrphanBacklogBounded
  <1>5. QED
    BY <1>1, <1>2, <1>3, <1>4 DEF IInv

\* The worker's hands, the registration list and the file.
LEMMA SmallStep ==
    IInv /\ [Next]_vars => FanHolds' /\ LiveOnly' /\ DiskFollows'
  <1> SUFFICES ASSUME IInv, [Next]_vars
               PROVE  FanHolds' /\ LiveOnly' /\ DiskFollows'
    OBVIOUS
  <1> USE DEF IInv, TypeOK, FanHolds, LiveOnly, DiskFollows, shared, task, history
  <1>1. ASSUME NEW c \in Clients, Open(c) PROVE FanHolds' /\ LiveOnly' /\ DiskFollows'
    BY <1>1 DEF Open
  <1>2. ASSUME NEW c \in Clients, Close(c) PROVE FanHolds' /\ LiveOnly' /\ DiskFollows'
    BY <1>2 DEF Close
  <1>3. ASSUME NEW c \in Clients, Pump(c) PROVE FanHolds' /\ LiveOnly' /\ DiskFollows'
    BY <1>3 DEF Pump
  <1>4. ASSUME NEW c \in Clients, NEW r \in Rooms, JoinHash(c, r)
        PROVE FanHolds' /\ LiveOnly' /\ DiskFollows'
    BY <1>4 DEF JoinHash
  <1>5. ASSUME NEW c \in Clients, NEW r \in Rooms, LeaveUnsub(c, r)
        PROVE FanHolds' /\ LiveOnly' /\ DiskFollows'
    BY <1>5 DEF LeaveUnsub
  <1>6. ASSUME NEW c \in Clients, JoinRoom(c) PROVE FanHolds' /\ LiveOnly' /\ DiskFollows'
    <2>1. FanHolds' /\ LiveOnly'
      BY <1>6 DEF JoinRoom
    <2>2. DiskFollows'
      BY <1>6 DEF JoinRoom, Store, Save
    <2>3. QED
      BY <2>1, <2>2
  <1>7. ASSUME NEW c \in Clients, JoinDrain(c) PROVE FanHolds' /\ LiveOnly' /\ DiskFollows'
    BY <1>7 DEF JoinDrain
  <1>8. ASSUME NEW c \in Clients, JoinFlush(c) PROVE FanHolds' /\ LiveOnly' /\ DiskFollows'
    BY <1>8 DEF JoinFlush
  <1>9. ASSUME NEW c \in Clients, LeaveCheck(c) PROVE FanHolds' /\ LiveOnly' /\ DiskFollows'
    BY <1>9 DEF LeaveCheck
  <1>10. ASSUME NEW c \in Clients, LeaveHash(c) PROVE FanHolds' /\ LiveOnly' /\ DiskFollows'
    BY <1>10 DEF LeaveHash
  <1>11. ASSUME NEW c \in Clients, LeaveRoom(c) PROVE FanHolds' /\ LiveOnly' /\ DiskFollows'
    <2>1. FanHolds' /\ LiveOnly'
      BY <1>11 DEF LeaveRoom
    <2>2. DiskFollows'
      BY <1>11 DEF LeaveRoom, Store, Save
    <2>3. QED
      BY <2>1, <2>2
  <1>12. ASSUME NEW c \in Clients, LeaveQueue(c) PROVE FanHolds' /\ LiveOnly' /\ DiskFollows'
    BY <1>12 DEF LeaveQueue
  <1>13. CASE Arrive
    BY <1>13 DEF Arrive
  <1>14. CASE FanList
    BY <1>14 DEF FanList, Hold
  <1>15. CASE FanLock
    BY <1>15 DEF FanLock
  <1>16. ASSUME NEW r \in Rooms, FanRoom(r) PROVE FanHolds' /\ LiveOnly' /\ DiskFollows'
    BY <1>16 DEF FanRoom, Release
  <1>17. CASE Restart
    BY <1>17 DEF Restart, NoSubs
  <1>18. CASE UNCHANGED vars
    BY <1>18 DEF vars
  <1>19. QED
    BY <1>1, <1>2, <1>3, <1>4, <1>5, <1>6, <1>7, <1>8, <1>9, <1>10, <1>11, <1>12,
       <1>13, <1>14, <1>15, <1>16, <1>17, <1>18 DEF Next, ClientStep, FanStep

\* A room that was not raced stays coherent.
LEMMA MemberStep == IInv /\ [Next]_vars => MemberInv' /\ HashesFollowRooms'
  <1> SUFFICES ASSUME IInv, [Next]_vars, NEW q \in Rooms \ raced'
               PROVE  /\ Member(q)'
                      /\ (\A c \in Clients : arg'[c] = q
                             => at'[c] \notin {"join_hash", "leave_room"})
                            => (q \in hashes' <=> q \in rooms')
    BY DEF MemberInv, HashesFollowRooms
  <1> DEFINE Goal == /\ Member(q)'
                     /\ (\A c \in Clients : arg'[c] = q
                            => at'[c] \notin {"join_hash", "leave_room"})
                           => (q \in hashes' <=> q \in rooms')
  <1>0. /\ at \in [Clients -> Places] /\ arg \in [Clients -> Rooms]
        /\ subs \in [Clients -> SUBSET Rooms]
        /\ q \notin raced => /\ Member(q)
                             /\ (\A c \in Clients : arg[c] = q
                                   => at[c] \notin {"join_hash", "leave_room"})
                                  => (q \in hashes <=> q \in rooms)
    BY DEF IInv, TypeOK, MemberInv, HashesFollowRooms
  <1> USE <1>0 DEF Member, Joins, Retires, Joining, Retiring, shared, task, history
  <1>1. ASSUME NEW c \in Clients, Open(c) PROVE Goal
    BY <1>1 DEF Open
  <1>2. ASSUME NEW c \in Clients, Close(c) PROVE Goal
    BY <1>2 DEF Close
  <1>3. ASSUME NEW c \in Clients, Pump(c) PROVE Goal
    BY <1>3 DEF Pump
  <1>4. ASSUME NEW c \in Clients, NEW r \in Rooms, JoinHash(c, r) PROVE Goal
    BY <1>4 DEF JoinHash
  <1>5. ASSUME NEW c \in Clients, NEW r \in Rooms, LeaveUnsub(c, r) PROVE Goal
    BY <1>5 DEF LeaveUnsub
  <1>6. ASSUME NEW c \in Clients, JoinRoom(c) PROVE Goal
    BY <1>6 DEF JoinRoom, Store
  <1>7. ASSUME NEW c \in Clients, JoinDrain(c) PROVE Goal
    BY <1>7 DEF JoinDrain
  <1>8. ASSUME NEW c \in Clients, JoinFlush(c) PROVE Goal
    BY <1>8 DEF JoinFlush
  <1>9. ASSUME NEW c \in Clients, LeaveCheck(c) PROVE Goal
    BY <1>9 DEF LeaveCheck, StillUsed, IInv, LiveOnly
  <1>10. ASSUME NEW c \in Clients, LeaveHash(c) PROVE Goal
    BY <1>10 DEF LeaveHash
  <1>11. ASSUME NEW c \in Clients, LeaveRoom(c) PROVE Goal
    BY <1>11 DEF LeaveRoom, Store
  <1>12. ASSUME NEW c \in Clients, LeaveQueue(c) PROVE Goal
    BY <1>12 DEF LeaveQueue
  <1>13. CASE Arrive
    BY <1>13 DEF Arrive
  <1>14. CASE FanList
    BY <1>14 DEF FanList, Hold
  <1>15. CASE FanLock
    BY <1>15 DEF FanLock
  <1>16. ASSUME NEW r \in Rooms, FanRoom(r) PROVE Goal
    BY <1>16 DEF FanRoom, Release
  <1>17. CASE Restart
    BY <1>17 DEF Restart, NoSubs
  <1>18. CASE UNCHANGED vars
    BY <1>18 DEF vars
  <1>19. QED
    BY <1>1, <1>2, <1>3, <1>4, <1>5, <1>6, <1>7, <1>8, <1>9, <1>10, <1>11, <1>12,
       <1>13, <1>14, <1>15, <1>16, <1>17, <1>18 DEF Next, ClientStep, FanStep

\* A retired room keeps at most the worker's message.
LEMMA OrphanStep == IInv /\ [Next]_vars => OrphanBacklogBounded'
  <1> SUFFICES ASSUME IInv, [Next]_vars, NEW q \in Rooms \ rooms',
                      \A c \in Clients : ~(at'[c] = "leave_queue" /\ arg'[c] = q)
               PROVE  Len(queue'[q]) + (IF q \in fanRooms' THEN 1 ELSE 0) <= 1
    BY DEF OrphanBacklogBounded
  <1> DEFINE Goal == Len(queue'[q]) + (IF q \in fanRooms' THEN 1 ELSE 0) <= 1
  <1>0. /\ at \in [Clients -> Places] /\ arg \in [Clients -> Rooms]
        /\ queue \in [Rooms -> Seq(Msgs)] /\ fanRooms \in SUBSET Rooms
        /\ q \notin rooms /\ (\A c \in Clients : ~(at[c] = "leave_queue" /\ arg[c] = q))
              => Len(queue[q]) + (IF q \in fanRooms THEN 1 ELSE 0) <= 1
    BY DEF IInv, TypeOK, OrphanBacklogBounded
  <1> USE <1>0 DEF shared, task, history
  <1>1. ASSUME NEW c \in Clients, Open(c) PROVE Goal
    BY <1>1 DEF Open
  <1>2. ASSUME NEW c \in Clients, Close(c) PROVE Goal
    BY <1>2 DEF Close
  <1>3. ASSUME NEW c \in Clients, Pump(c) PROVE Goal
    BY <1>3 DEF Pump
  <1>4. ASSUME NEW c \in Clients, NEW r \in Rooms, JoinHash(c, r) PROVE Goal
    BY <1>4 DEF JoinHash
  <1>5. ASSUME NEW c \in Clients, NEW r \in Rooms, LeaveUnsub(c, r) PROVE Goal
    BY <1>5 DEF LeaveUnsub
  <1>6. ASSUME NEW c \in Clients, JoinRoom(c) PROVE Goal
    BY <1>6 DEF JoinRoom, Store
  <1>7. ASSUME NEW c \in Clients, JoinDrain(c) PROVE Goal
    <2>1. CASE arg[c] = q
      BY <1>7, <2>1 DEF JoinDrain
    <2>2. CASE arg[c] # q
      <3>1. queue'[q] = queue[q] /\ UNCHANGED <<rooms, fanRooms, arg>>
        BY <1>7, <2>2 DEF JoinDrain
      <3>2. \A d \in Clients : ~(at[d] = "leave_queue" /\ arg[d] = q)
        BY <1>7, <2>2 DEF JoinDrain
      <3>3. QED
        BY <3>1, <3>2
    <2>3. QED
      BY <2>1, <2>2
  <1>8. ASSUME NEW c \in Clients, JoinFlush(c) PROVE Goal
    BY <1>8 DEF JoinFlush
  <1>9. ASSUME NEW c \in Clients, LeaveCheck(c) PROVE Goal
    BY <1>9 DEF LeaveCheck
  <1>10. ASSUME NEW c \in Clients, LeaveHash(c) PROVE Goal
    BY <1>10 DEF LeaveHash
  <1>11. ASSUME NEW c \in Clients, LeaveRoom(c) PROVE Goal
    BY <1>11 DEF LeaveRoom, Store
  <1>12. ASSUME NEW c \in Clients, LeaveQueue(c) PROVE Goal
    <2>1. CASE arg[c] = q
      <3>1. queue'[q] = <<>>
        BY <1>12, <2>1 DEF LeaveQueue
      <3>2. QED
        BY <3>1
    <2>2. CASE arg[c] # q
      <3>1. queue'[q] = queue[q] /\ UNCHANGED <<rooms, fanRooms, arg>>
        BY <1>12, <2>2 DEF LeaveQueue
      <3>2. \A d \in Clients : ~(at[d] = "leave_queue" /\ arg[d] = q)
        BY <1>12, <2>2 DEF LeaveQueue
      <3>3. QED
        BY <3>1, <3>2
    <2>3. QED
      BY <2>1, <2>2
  <1>13. CASE Arrive
    BY <1>13 DEF Arrive
  <1>14. CASE FanList
    BY <1>14 DEF FanList, Hold, IInv, FanHolds
  <1>15. CASE FanLock
    BY <1>15 DEF FanLock
  <1>16. ASSUME NEW r \in Rooms, FanRoom(r) PROVE Goal
    <2>1. fanMsg \in Msgs
      BY <1>16 DEF FanRoom, Release, IInv, FanHolds
    <2>2. Len(Push(queue[r], fanMsg)) <= Len(queue[r]) + 1 /\ Push(queue[r], fanMsg) \in Seq(Msgs)
      BY <2>1, PushType
    <2>3. Len(queue[q]) + (IF q \in fanRooms THEN 1 ELSE 0) <= 1
      BY <1>16 DEF FanRoom, Release
    <2>4. CASE r = q
      <3>1. q \in fanRooms /\ q \notin fanRooms' /\ queue'[q] = Push(queue[r], fanMsg)
        BY <1>16, <2>4 DEF FanRoom, Release
      <3>2. QED
        BY <2>2, <2>3, <2>4, <3>1
    <2>5. CASE r # q
      <3>1. queue'[q] = queue[q] /\ (q \in fanRooms' <=> q \in fanRooms)
        BY <1>16, <2>5 DEF FanRoom, Release
      <3>2. QED
        BY <2>3, <3>1
    <2>6. QED
      BY <2>4, <2>5
  <1>17. CASE Restart
    BY <1>17 DEF Restart
  <1>18. CASE UNCHANGED vars
    BY <1>18 DEF vars
  <1>19. QED
    BY <1>1, <1>2, <1>3, <1>4, <1>5, <1>6, <1>7, <1>8, <1>9, <1>10, <1>11, <1>12,
       <1>13, <1>14, <1>15, <1>16, <1>17, <1>18 DEF Next, ClientStep, FanStep

\* The invariant holds in every reachable state.
LEMMA IInvHolds == Spec => []IInv
  <1>1. Init => IInv
    BY IInvInit
  <1>2. IInv /\ [Next]_vars => IInv'
    BY TypeStep, SmallStep, MemberStep, OrphanStep DEF IInv
  <1>3. QED
    BY <1>1, <1>2, PTL DEF Spec

-----------------------------------------------------------------------------
(* The second invariant: what a client gets of a room.                     *)

\* Messages are handled in the order of their arrival: what is in the
\* backlogs' logs came before what the worker holds, that before what waits.
Sorted(s) == \A i, j \in 1 .. Len(s) : i < j => s[i] < s[j]

BusInOrder ==
    /\ Sorted(bus)
    /\ \A j \in 1 .. Len(bus) : bus[j] <= arrived
    /\ fan # "idle" => /\ fanMsg <= arrived
                       /\ \A j \in 1 .. Len(bus) : fanMsg < bus[j]

LogInOrder ==
    \A r \in Rooms :
        /\ Sorted(log[r])
        /\ \A i \in 1 .. Len(log[r]) :
              /\ log[r][i] <= arrived
              /\ \A j \in 1 .. Len(bus) : log[r][i] < bus[j]
              /\ r \in fanRooms => log[r][i] < fanMsg

\* A backlog is the end of what was pushed to it.
QueueIsTail ==
    \A r \in Rooms :
        /\ Len(queue[r]) <= Len(log[r])
        /\ \A i \in 1 .. Len(queue[r]) :
              queue[r][i] = log[r][Len(log[r]) - Len(queue[r]) + i]

\* A task holds a drained backlog only until it has written it.
BatchHolds == \A c \in Clients : at[c] # "join_flush" => batch[c] = <<>>

\* A refused frame had been pushed.
MissedLogged ==
    \A c \in Clients : \A r \in Rooms : \A m \in Msgs :
        <<r, m>> \in missed[c] => m \in Range(log[r])

\* A socket knows nothing of a room it has not joined.
Unjoined ==
    \A c \in Clients : \A r \in Rooms :
        mark[c][r] = Never =>
            /\ r \notin subs[c] /\ \A m \in Msgs : <<r, m>> \notin missed[c]
            /\ MsgsOf(r, got[c]) = {} /\ MsgsOf(r, outq[c]) = {}
            /\ MsgsOf(r, Framed(arg[c], batch[c])) = {}

Before(A, B) == \A m \in A : \A n \in B : m < n

\* Of room r: what was written (g), what a join is about to write (b) and what
\* is routed (o) are in order, one after another, and make up S less the
\* refused frames X.
Whole(r, g, b, o, S, X) ==
    /\ InOrder(r, g) /\ InOrder(r, b) /\ InOrder(r, o)
    /\ Before(MsgsOf(r, g), MsgsOf(r, b))
    /\ Before(MsgsOf(r, g), MsgsOf(r, o))
    /\ Before(MsgsOf(r, b), MsgsOf(r, o))
    /\ MsgsOf(r, g) \union MsgsOf(r, b) \union MsgsOf(r, o) = {m \in S : <<r, m>> \notin X}

StreamsHold ==
    \A c \in live : \A r \in subs[c] :
        mark[c][r] >= 0 =>
            /\ mark[c][r] <= Len(log[r])
            /\ Whole(r, got[c], Framed(arg[c], batch[c]), outq[c], Since(c, r), missed[c])

SInv == /\ BusInOrder /\ LogInOrder /\ QueueIsTail /\ BatchHolds /\ MissedLogged
        /\ Unjoined /\ StreamsHold

-----------------------------------------------------------------------------
(* Streams: frames of one room in a sequence of frames.                    *)

\* A frame is its room and its message.
LEMMA FrameParts ==
    ASSUME NEW f \in Frames
    PROVE  f = <<f[1], f[2]>> /\ f[1] \in Rooms /\ f[2] \in Msgs
  BY DEF Frames

\* The messages of room r sit at the positions of its frames.
LEMMA MsgsAt ==
    ASSUME NEW s \in Seq(Frames), NEW r \in Rooms, NEW m
    PROVE  m \in MsgsOf(r, s) <=> \E i \in 1 .. Len(s) : s[i][1] = r /\ s[i][2] = m
  <1>1. ASSUME NEW i \in 1 .. Len(s)
        PROVE  s[i] = <<s[i][1], s[i][2]>> /\ s[i][2] \in Msgs
    <2>1. s[i] \in Frames
      OBVIOUS
    <2>2. QED
      BY <2>1, FrameParts
  <1>2. QED
    BY <1>1 DEF MsgsOf, Range

\* What a concatenation holds of a room,
LEMMA MsgsConcat ==
    ASSUME NEW s \in Seq(Frames), NEW t \in Seq(Frames), NEW r \in Rooms
    PROVE  /\ s \o t \in Seq(Frames)
           /\ MsgsOf(r, s \o t) = MsgsOf(r, s) \union MsgsOf(r, t)
  <1>1. PICK u : u = s \o t
    OBVIOUS
  <1>2. /\ u \in Seq(Frames) /\ Len(u) = Len(s) + Len(t)
        /\ Len(s) \in Nat /\ Len(t) \in Nat
        /\ \A i \in 1 .. Len(s) : u[i] = s[i]
        /\ \A i \in 1 .. Len(t) : u[Len(s) + i] = t[i]
    BY <1>1
  <1>3. ASSUME NEW m \in MsgsOf(r, u) PROVE m \in MsgsOf(r, s) \union MsgsOf(r, t)
    <2>1. PICK i \in 1 .. Len(u) : u[i][1] = r /\ u[i][2] = m
      BY <1>2, <1>3, MsgsAt
    <2>2. CASE i <= Len(s)
      BY <1>2, <2>1, <2>2, MsgsAt
    <2>3. CASE i > Len(s)
      <3>1. i - Len(s) \in 1 .. Len(t) /\ u[i] = t[i - Len(s)]
        BY <1>2, <2>3
      <3>2. QED
        BY <2>1, <3>1, MsgsAt
    <2>4. QED
      BY <1>2, <2>2, <2>3
  <1>4. ASSUME NEW m \in MsgsOf(r, s) PROVE m \in MsgsOf(r, u)
    <2>1. PICK i \in 1 .. Len(s) : s[i][1] = r /\ s[i][2] = m
      BY <1>4, MsgsAt
    <2>2. i \in 1 .. Len(u) /\ u[i] = s[i]
      BY <1>2
    <2>3. QED
      BY <1>2, <2>1, <2>2, MsgsAt
  <1>5. ASSUME NEW m \in MsgsOf(r, t) PROVE m \in MsgsOf(r, u)
    <2>1. PICK i \in 1 .. Len(t) : t[i][1] = r /\ t[i][2] = m
      BY <1>5, MsgsAt
    <2>2. Len(s) + i \in 1 .. Len(u) /\ u[Len(s) + i] = t[i]
      BY <1>2
    <2>3. QED
      BY SMTT(30), <1>2, <2>1, <2>2, MsgsAt
  <1>6. QED
    BY <1>1, <1>2, <1>3, <1>4, <1>5

\* ... and that it is in order when its parts are and follow each other.
LEMMA OrderConcat ==
    ASSUME NEW s \in Seq(Frames), NEW t \in Seq(Frames), NEW r \in Rooms,
           InOrder(r, s), InOrder(r, t), Before(MsgsOf(r, s), MsgsOf(r, t))
    PROVE  InOrder(r, s \o t)
  <1>1. /\ Len(s \o t) = Len(s) + Len(t) /\ Len(s) \in Nat /\ Len(t) \in Nat
        /\ \A i \in 1 .. Len(s) : (s \o t)[i] = s[i]
        /\ \A i \in 1 .. Len(s) + Len(t) : i > Len(s) =>
              i - Len(s) \in 1 .. Len(t) /\ (s \o t)[i] = t[i - Len(s)]
    OBVIOUS
  <1>2. SUFFICES ASSUME NEW i \in 1 .. Len(s \o t), NEW j \in 1 .. Len(s \o t), i < j,
                        (s \o t)[i][1] = r, (s \o t)[j][1] = r
                 PROVE  (s \o t)[i][2] < (s \o t)[j][2]
    BY DEF InOrder
  <1>3. CASE j <= Len(s)
    <2>1. i \in 1 .. Len(s) /\ j \in 1 .. Len(s)
      BY <1>1, <1>2, <1>3
    <2>2. QED
      BY <1>1, <1>2, <2>1 DEF InOrder
  <1>4. CASE i > Len(s)
    <2>1. /\ i - Len(s) \in 1 .. Len(t) /\ j - Len(s) \in 1 .. Len(t)
          /\ i - Len(s) < j - Len(s)
          /\ (s \o t)[i] = t[i - Len(s)] /\ (s \o t)[j] = t[j - Len(s)]
      BY <1>1, <1>2, <1>4
    <2>2. QED
      BY <1>2, <2>1 DEF InOrder
  <1>5. CASE i <= Len(s) /\ j > Len(s)
    <2>1. (s \o t)[i][2] \in MsgsOf(r, s)
      BY <1>1, <1>2, <1>5, MsgsAt
    <2>2. (s \o t)[j][2] \in MsgsOf(r, t)
      BY <1>1, <1>2, <1>5, MsgsAt
    <2>3. QED
      BY <2>1, <2>2 DEF Before
  <1>6. QED
    BY <1>1, <1>2, <1>3, <1>4, <1>5

\* One frame, and one frame more.
LEMMA OneFrame ==
    ASSUME NEW f \in Frames, NEW r \in Rooms
    PROVE  /\ <<f>> \in Seq(Frames) /\ InOrder(r, <<f>>)
           /\ MsgsOf(r, <<f>>) = IF f[1] = r THEN {f[2]} ELSE {}
  <1>1. PICK u : u = <<f>>
    OBVIOUS
  <1>2. u \in Seq(Frames) /\ Len(u) = 1 /\ u[1] = f
    BY <1>1
  <1>3. InOrder(r, u)
    BY <1>2 DEF InOrder
  <1>4. \A m : m \in MsgsOf(r, u) <=> f[1] = r /\ f[2] = m
    BY <1>2, MsgsAt
  <1>5. QED
    BY <1>1, <1>2, <1>3, <1>4

\* An append is a concatenation.
LEMMA AppendIsConcat ==
    ASSUME NEW s \in Seq(Frames), NEW f \in Frames
    PROVE  Append(s, f) = s \o <<f>>
  OBVIOUS

\* The first frame and the rest.
LEMMA HeadAndTail ==
    ASSUME NEW s \in Seq(Frames), s # <<>>, NEW r \in Rooms
    PROVE  /\ Head(s) \in Frames /\ Tail(s) \in Seq(Frames)
           /\ MsgsOf(r, s) = MsgsOf(r, <<Head(s)>>) \union MsgsOf(r, Tail(s))
           /\ InOrder(r, s) => /\ InOrder(r, Tail(s))
                               /\ Before(MsgsOf(r, <<Head(s)>>), MsgsOf(r, Tail(s)))
  <1>1. PICK f, u, t : f = Head(s) /\ u = <<f>> /\ t = Tail(s)
    OBVIOUS
  <1>2. /\ f \in Frames /\ t \in Seq(Frames) /\ Len(s) \in Nat /\ Len(s) > 0
        /\ Len(t) = Len(s) - 1 /\ f = s[1]
        /\ \A i \in 1 .. Len(t) : t[i] = s[i + 1]
    BY <1>1
  <1>3. s = u \o t
    BY <1>1
  <1>4. /\ u \in Seq(Frames)
        /\ MsgsOf(r, u) = IF f[1] = r THEN {f[2]} ELSE {}
    BY <1>1, <1>2, OneFrame
  <1>5. MsgsOf(r, s) = MsgsOf(r, u) \union MsgsOf(r, t)
    BY <1>2, <1>3, <1>4, MsgsConcat
  <1>6. ASSUME InOrder(r, s)
        PROVE  InOrder(r, t) /\ Before(MsgsOf(r, u), MsgsOf(r, t))
    <2>1. InOrder(r, t)
      <3>1. SUFFICES ASSUME NEW i \in 1 .. Len(t), NEW j \in 1 .. Len(t), i < j,
                            t[i][1] = r, t[j][1] = r
                     PROVE  t[i][2] < t[j][2]
        BY DEF InOrder
      <3>2. /\ i + 1 \in 1 .. Len(s) /\ j + 1 \in 1 .. Len(s) /\ i + 1 < j + 1
            /\ t[i] = s[i + 1] /\ t[j] = s[j + 1]
        BY <1>2, <3>1
      <3>3. QED
        BY <1>6, <3>1, <3>2 DEF InOrder
    <2>2. ASSUME NEW m \in MsgsOf(r, u), NEW n \in MsgsOf(r, t) PROVE m < n
      <3>1. f[1] = r /\ f[2] = m
        BY <1>4, <2>2
      <3>2. PICK i \in 1 .. Len(t) : t[i][1] = r /\ t[i][2] = n
        BY <1>2, <2>2, MsgsAt
      <3>3. 1 \in 1 .. Len(s) /\ i + 1 \in 1 .. Len(s) /\ 1 < i + 1 /\ t[i] = s[i + 1]
        BY <1>2
      <3>4. QED
        BY <1>2, <1>6, <3>1, <3>2, <3>3 DEF InOrder
    <2>3. QED
      BY <2>1, <2>2 DEF Before
  <1>7. QED
    BY <1>1, <1>2, <1>5, <1>6

\* A drained backlog as frames.
LEMMA FramedParts ==
    ASSUME NEW q \in Rooms, NEW s \in Seq(Msgs), NEW r \in Rooms
    PROVE  /\ Framed(q, s) \in Seq(Frames)
           /\ MsgsOf(r, Framed(q, s)) = IF q = r THEN Range(s) ELSE {}
           /\ Sorted(s) => InOrder(r, Framed(q, s))
  <1>1. /\ Framed(q, s) \in Seq(Frames) /\ Len(Framed(q, s)) = Len(s)
        /\ \A i \in 1 .. Len(s) : Framed(q, s)[i] = <<q, s[i]>>
    BY SMTT(30) DEF Framed, Frames
  <1>2. \A m : m \in MsgsOf(r, Framed(q, s)) <=> q = r /\ m \in Range(s)
    <2>1. PICK u : u = Framed(q, s)
      OBVIOUS
    <2>2. u \in Seq(Frames) /\ \A m : m \in MsgsOf(r, u)
                                  <=> \E i \in 1 .. Len(u) : u[i][1] = r /\ u[i][2] = m
      BY <1>1, <2>1, MsgsAt
    <2>3. Len(u) = Len(s) /\ \A i \in 1 .. Len(s) : u[i][1] = q /\ u[i][2] = s[i]
      BY <1>1, <2>1
    <2>4. \A m : m \in MsgsOf(r, u) <=> q = r /\ \E i \in 1 .. Len(s) : s[i] = m
      BY <2>2, <2>3
    <2>5. QED
      BY <2>1, <2>4 DEF Range
  <1>3. Sorted(s) => InOrder(r, Framed(q, s))
    BY <1>1 DEF Sorted, InOrder
  <1>4. QED
    BY <1>1, <1>2, <1>3

\* An empty backlog.
LEMMA NoFrames ==
    ASSUME NEW q \in Rooms, NEW r \in Rooms
    PROVE  /\ Framed(q, <<>>) = <<>> /\ <<>> \in Seq(Frames)
           /\ MsgsOf(r, <<>>) = {} /\ InOrder(r, <<>>)
  <1>1. Framed(q, <<>>) = <<>>
    BY DEF Framed
  <1>2. QED
    BY <1>1 DEF MsgsOf, Range, InOrder

-----------------------------------------------------------------------------
(* One lemma per conjunct of the second invariant.                         *)

\* No client touches the worker's state or the history of the backlogs.
LEMMA ClientLeaves ==
    ASSUME NEW c \in Clients, ClientStep(c)
    PROVE  UNCHANGED <<bus, fan, fanMsg, fanRooms, arrived, log>>
  BY DEF ClientStep, Open, Close, Pump, JoinHash, LeaveUnsub, JoinRoom, JoinDrain, JoinFlush,
         LeaveCheck, LeaveHash, LeaveRoom, LeaveQueue, shared, task, history

\* Messages are numbers.
LEMMA MsgsAreNumbers ==
    ASSUME NEW s \in Seq(Msgs), NEW i \in 1 .. Len(s)
    PROVE  s[i] \in Msgs /\ s[i] \in Nat
  <1>1. s[i] \in Msgs
    OBVIOUS
  <1>2. QED
    BY <1>1, BoundsAssumption DEF Msgs

\* A sorted sequence stays sorted when something greater is appended.
LEMMA SortedAppend ==
    ASSUME NEW s \in Seq(Msgs), NEW x \in Msgs, Sorted(s), \A i \in 1 .. Len(s) : s[i] < x
    PROVE  Sorted(Append(s, x))
  <1>1. PICK u : u = Append(s, x)
    OBVIOUS
  <1>2. /\ Len(u) = Len(s) + 1 /\ Len(s) \in Nat
        /\ \A i \in 1 .. Len(s) : u[i] = s[i]
        /\ u[Len(s) + 1] = x
    BY <1>1
  <1>3. ASSUME NEW i \in 1 .. Len(u), NEW j \in 1 .. Len(u), i < j PROVE u[i] < u[j]
    <2>1. i \in 1 .. Len(s)
      BY <1>2, <1>3
    <2>2. CASE j \in 1 .. Len(s)
      BY <1>2, <1>3, <2>1, <2>2 DEF Sorted
    <2>3. CASE j = Len(s) + 1
      BY <1>2, <2>1, <2>3
    <2>4. QED
      BY <1>2, <2>2, <2>3
  <1>4. QED
    BY <1>1, <1>3 DEF Sorted

\* Messages stay in the order of their arrival.
LEMMA OrderStep == IInv /\ BusInOrder /\ LogInOrder /\ [Next]_vars => BusInOrder' /\ LogInOrder'
  <1> SUFFICES ASSUME IInv, BusInOrder, LogInOrder, [Next]_vars PROVE BusInOrder' /\ LogInOrder'
    OBVIOUS
  <1>0. /\ bus \in Seq(Msgs) /\ log \in [Rooms -> Seq(Msgs)] /\ arrived \in Nat
        /\ Msgs \subseteq Nat /\ fanMsg \in Nat
    BY BoundsAssumption DEF IInv, TypeOK, Msgs
  <1>1. ASSUME UNCHANGED <<bus, fan, fanMsg, fanRooms, arrived, log>>
        PROVE  BusInOrder' /\ LogInOrder'
    BY <1>1 DEF BusInOrder, LogInOrder
  <1>2. CASE Arrive
    <2>1. UNCHANGED <<fan, fanMsg, fanRooms, log>> /\ arrived' = arrived + 1
      BY <1>2 DEF Arrive, task
    <2>2. /\ bus' \in Seq(Msgs)
          /\ \A i \in 1 .. Len(bus') : \/ bus'[i] = arrived + 1
                                       \/ \E k \in 1 .. Len(bus) : bus'[i] = bus[k]
          /\ Sorted(bus')
      <3>1. PICK b \in Seq(Msgs) : /\ bus' = Append(b, arrived + 1)
                                   /\ b = bus \/ (b = Tail(bus) /\ bus # <<>>)
        <4>1. CASE Len(bus) >= BusCap
          <5>1. bus # <<>> /\ Tail(bus) \in Seq(Msgs)
            BY <1>0, <4>1, BoundsAssumption
          <5>2. QED
            BY <1>2, <4>1, <5>1 DEF Arrive
        <4>2. CASE ~(Len(bus) >= BusCap)
          BY <1>0, <1>2, <4>2 DEF Arrive
        <4>3. QED
          BY <4>1, <4>2
      <3>2. arrived + 1 \in Msgs
        BY <1>0, <1>2, BoundsAssumption DEF Arrive, Msgs
      <3>3. /\ \A i \in 1 .. Len(b) : \E k \in 1 .. Len(bus) : b[i] = bus[k]
            /\ Sorted(b)
        <4>1. CASE b = bus
          BY <4>1 DEF BusInOrder
        <4>2. CASE b = Tail(bus) /\ bus # <<>>
          <5>1. \A i \in 1 .. Len(b) : i + 1 \in 1 .. Len(bus) /\ b[i] = bus[i + 1]
            BY <1>0, <4>2
          <5>2. QED
            BY <1>0, <5>1 DEF BusInOrder, Sorted
        <4>3. QED
          BY <3>1, <4>1, <4>2
      <3>4. \A i \in 1 .. Len(b) : b[i] < arrived + 1
        <4>1. \A k \in 1 .. Len(bus) : bus[k] \in Nat /\ bus[k] <= arrived
          BY <1>0, MsgsAreNumbers DEF BusInOrder
        <4>2. QED
          BY <1>0, <3>3, <4>1
      <3>5. Sorted(bus')
        BY <3>1, <3>2, <3>3, <3>4, SortedAppend
      <3>6. /\ bus' \in Seq(Msgs) /\ Len(bus') = Len(b) + 1 /\ Len(b) \in Nat
            /\ \A i \in 1 .. Len(b) : bus'[i] = b[i]
            /\ bus'[Len(b) + 1] = arrived + 1
        BY <3>1, <3>2
      <3>7. \A i \in 1 .. Len(bus') : i \in 1 .. Len(b) \/ i = Len(b) + 1
        BY <3>6
      <3>8. QED
        BY <3>3, <3>5, <3>6, <3>7
    <2>3. \A i \in 1 .. Len(bus') : bus'[i] <= arrived'
      <3>1. \A k \in 1 .. Len(bus) : bus[k] \in Nat /\ bus[k] <= arrived + 1
        <4>1. \A k \in 1 .. Len(bus) : bus[k] \in Nat
          BY <1>0, MsgsAreNumbers
        <4>2. QED
          BY <1>0, <4>1 DEF BusInOrder
      <3>2. QED
        BY <1>0, <2>1, <2>2, <3>1
    <2>4. ASSUME NEW m \in Nat, m <= arrived, \A j \in 1 .. Len(bus) : m < bus[j]
          PROVE  m <= arrived' /\ \A j \in 1 .. Len(bus') : m < bus'[j]
      BY <1>0, <2>1, <2>2, <2>4
    <2>5. BusInOrder'
      BY <1>0, <2>1, <2>2, <2>3, <2>4 DEF BusInOrder
    <2>6. LogInOrder'
      <3>1. ASSUME NEW r \in Rooms, NEW i \in 1 .. Len(log[r])
            PROVE  log[r][i] <= arrived' /\ \A j \in 1 .. Len(bus') : log[r][i] < bus'[j]
        <4>1. log[r][i] \in Nat
          <5>1. log[r] \in Seq(Msgs)
            BY <1>0
          <5>2. QED
            BY <5>1, MsgsAreNumbers
        <4>2. QED
          BY <2>4, <4>1 DEF LogInOrder
      <3>2. QED
        BY <2>1, <3>1 DEF LogInOrder
    <2>7. QED
      BY <2>5, <2>6
  <1>3. CASE FanList
    <2>1. /\ bus # <<>> /\ bus' = Tail(bus) /\ UNCHANGED <<arrived, log>>
          /\ \/ UNCHANGED <<fan, fanMsg, fanRooms>> /\ fan = "idle"
             \/ fanMsg' = Head(bus)
      BY <1>3 DEF FanList, Hold, history
    <2>2. /\ Len(bus) \in Nat /\ 1 \in 1 .. Len(bus) /\ Head(bus) = bus[1]
          /\ \A j \in 1 .. Len(bus') : j + 1 \in 1 .. Len(bus) /\ bus'[j] = bus[j + 1]
      BY <1>0, <2>1
    <2>3. Sorted(bus') /\ (\A j \in 1 .. Len(bus') : bus'[j] <= arrived /\ Head(bus) < bus'[j])
      BY SMTT(30), <1>0, <2>2 DEF BusInOrder, Sorted
    <2>4. BusInOrder'
      BY <2>1, <2>2, <2>3 DEF BusInOrder
    <2>5. ASSUME NEW r \in Rooms, NEW i \in 1 .. Len(log[r])
          PROVE  /\ \A j \in 1 .. Len(bus') : log[r][i] < bus'[j]
                 /\ r \in fanRooms' => log[r][i] < fanMsg'
      <3>1. log[r][i] < Head(bus) /\ \A j \in 1 .. Len(bus') : log[r][i] < bus'[j]
        BY <2>2 DEF LogInOrder
      <3>2. QED
        BY <2>1, <3>1 DEF LogInOrder
    <2>6. LogInOrder'
      BY <2>1, <2>5 DEF LogInOrder
    <2>7. QED
      BY <2>4, <2>6
  <1>4. CASE FanLock
    BY <1>4 DEF FanLock, shared, history, BusInOrder, LogInOrder
  <1>5. ASSUME NEW q \in Rooms, FanRoom(q) PROVE BusInOrder' /\ LogInOrder'
    <2>1. /\ fan = "locked" /\ q \in fanRooms /\ fanRooms' = fanRooms \ {q}
          /\ UNCHANGED <<bus, arrived>> /\ log' = [log EXCEPT ![q] = Append(@, fanMsg)]
          /\ fan' = "idle" \/ (fan' = fan /\ fanMsg' = fanMsg)
          /\ fanMsg' = fanMsg \/ fanRooms' = {}
      BY <1>5 DEF FanRoom, Release
    <2>2. BusInOrder'
      BY <2>1 DEF BusInOrder
    <2>3. fanMsg \in Msgs /\ fanMsg <= arrived /\ \A j \in 1 .. Len(bus) : fanMsg < bus[j]
      BY <2>1 DEF BusInOrder, IInv, FanHolds
    <2>4. ASSUME NEW r \in Rooms, r # q
          PROVE  /\ Sorted(log'[r])
                 /\ \A i \in 1 .. Len(log'[r]) :
                       /\ log'[r][i] <= arrived
                       /\ \A j \in 1 .. Len(bus) : log'[r][i] < bus[j]
                       /\ r \in fanRooms' => log'[r][i] < fanMsg'
      BY <1>0, <2>1, <2>4 DEF LogInOrder
    <2>5. /\ Sorted(log'[q])
          /\ \A i \in 1 .. Len(log'[q]) :
                log'[q][i] <= arrived /\ \A j \in 1 .. Len(bus) : log'[q][i] < bus[j]
      <3>1. PICK s \in Seq(Msgs) : s = log[q]
        BY <1>0
      <3>2. /\ Len(log'[q]) = Len(s) + 1 /\ Len(s) \in Nat
            /\ \A i \in 1 .. Len(s) : log'[q][i] = s[i]
            /\ log'[q][Len(s) + 1] = fanMsg
        BY <1>0, <2>1, <2>3, <3>1
      <3>3. \A i \in 1 .. Len(s) : /\ s[i] <= arrived /\ s[i] < fanMsg
                                   /\ \A j \in 1 .. Len(bus) : s[i] < bus[j]
        BY <2>1, <3>1 DEF LogInOrder
      <3>4. Sorted(log'[q])
        <4>1. log'[q] = Append(s, fanMsg) /\ Sorted(s)
          BY <1>0, <2>1, <3>1 DEF LogInOrder
        <4>2. QED
          BY <2>3, <3>3, <4>1, SortedAppend
      <3>5. \A i \in 1 .. Len(log'[q]) : i \in 1 .. Len(s) \/ i = Len(s) + 1
        BY <3>2
      <3>6. QED
        BY <2>3, <3>2, <3>3, <3>4, <3>5
    <2>6. LogInOrder'
      <3>1. q \notin fanRooms'
        BY <2>1
      <3>2. QED
        BY <2>1, <2>4, <2>5, <3>1 DEF LogInOrder
    <2>7. QED
      BY <2>2, <2>6
  <1>6. CASE Restart
    BY <1>6 DEF Restart, BusInOrder, LogInOrder, Sorted
  <1>7. CASE UNCHANGED vars
    BY <1>1, <1>7 DEF vars, shared, task, history
  <1>8. QED
    BY <1>1, <1>2, <1>3, <1>4, <1>5, <1>6, <1>7, ClientLeaves DEF Next, FanStep

\* A backlog stays the end of its log.
LEMMA QueueStep == IInv /\ QueueIsTail /\ [Next]_vars => QueueIsTail'
  <1> SUFFICES ASSUME IInv, QueueIsTail, [Next]_vars, NEW r \in Rooms
               PROVE  /\ Len(queue'[r]) <= Len(log'[r])
                      /\ \A i \in 1 .. Len(queue'[r]) :
                            queue'[r][i] = log'[r][Len(log'[r]) - Len(queue'[r]) + i]
    BY DEF QueueIsTail
  <1> DEFINE Goal == /\ Len(queue'[r]) <= Len(log'[r])
                     /\ \A i \in 1 .. Len(queue'[r]) :
                           queue'[r][i] = log'[r][Len(log'[r]) - Len(queue'[r]) + i]
  <1>0. /\ queue \in [Rooms -> Seq(Msgs)] /\ log \in [Rooms -> Seq(Msgs)]
        /\ Len(queue[r]) \in Nat /\ Len(log[r]) \in Nat
    BY DEF IInv, TypeOK
  <1>1. ASSUME log' = log, queue'[r] = queue[r] \/ queue'[r] = <<>> PROVE Goal
    <2>1. CASE queue'[r] = queue[r]
      BY <1>1, <2>1 DEF QueueIsTail
    <2>2. CASE queue'[r] = <<>>
      BY <1>0, <1>1, <2>2
    <2>3. QED
      BY <1>1, <2>1, <2>2
  <1>2. ASSUME NEW c \in Clients, ClientStep(c) PROVE Goal
    <2>1. queue'[r] = queue[r] \/ queue'[r] = <<>>
      <3>1. \/ queue' = queue
            \/ \E q \in Rooms : queue' = [queue EXCEPT ![q] = <<>>]
        BY <1>2 DEF IInv, TypeOK, ClientStep, Open, Close, Pump, JoinHash, LeaveUnsub, JoinRoom,
                    JoinDrain, JoinFlush, LeaveCheck, LeaveHash, LeaveRoom, LeaveQueue, shared
      <3>2. QED
        BY <1>0, <3>1
    <2>2. QED
      BY <1>1, <1>2, <2>1, ClientLeaves
  <1>3. CASE Arrive \/ FanList \/ FanLock \/ UNCHANGED vars
    BY <1>1, <1>3 DEF Arrive, FanList, FanLock, vars, shared, history
  <1>4. ASSUME NEW q \in Rooms, FanRoom(q) PROVE Goal
    <2>1. /\ queue' = [queue EXCEPT ![q] = Push(@, fanMsg)]
          /\ log' = [log EXCEPT ![q] = Append(@, fanMsg)]
      BY <1>4 DEF FanRoom
    <2>2. CASE r # q
      BY <1>0, <2>1, <2>2 DEF QueueIsTail
    <2>3. CASE r = q
      <3>1. PICK s \in Seq(Msgs), u \in Seq(Msgs) : s = queue[r] /\ u = log[r]
        BY <1>0
      <3>2. fanMsg \in Msgs
        BY <1>4 DEF IInv, FanHolds, FanRoom
      <3>3. PICK t \in Seq(Msgs) : /\ queue'[r] = Append(t, fanMsg)
                                   /\ \/ t = s
                                      \/ s # <<>> /\ t = Tail(s)
        <4>1. queue'[r] = Push(s, fanMsg)
          BY <1>0, <2>1, <2>3, <3>1
        <4>2. CASE Len(s) >= QueueCap
          <5>1. s # <<>> /\ Tail(s) \in Seq(Msgs)
            BY <4>2, BoundsAssumption
          <5>2. QED
            BY <4>1, <4>2, <5>1 DEF Push
        <4>3. CASE ~(Len(s) >= QueueCap)
          BY <4>1, <4>3 DEF Push
        <4>4. QED
          BY <4>2, <4>3
      <3>4. log'[r] = Append(u, fanMsg)
        BY <1>0, <2>1, <2>3, <3>1
      <3>5. /\ Len(s) <= Len(u) /\ Len(s) \in Nat /\ Len(u) \in Nat
            /\ \A i \in 1 .. Len(s) : s[i] = u[Len(u) - Len(s) + i]
        BY <1>0, <3>1 DEF QueueIsTail
      <3>6. Len(t) <= Len(u) /\ \A i \in 1 .. Len(t) : t[i] = u[Len(u) - Len(t) + i]
        <4>1. CASE t = s
          BY <3>5, <4>1
        <4>2. CASE s # <<>> /\ t = Tail(s)
          <5>1. /\ Len(t) = Len(s) - 1 /\ Len(t) \in Nat
                /\ \A i \in 1 .. Len(t) : i + 1 \in 1 .. Len(s) /\ t[i] = s[i + 1]
            BY <3>5, <4>2
          <5>2. \A i \in 1 .. Len(t) : Len(u) - Len(s) + (i + 1) = Len(u) - Len(t) + i
            BY <3>5, <5>1
          <5>3. QED
            BY <3>5, <5>1, <5>2
        <4>3. QED
          BY <3>3, <4>1, <4>2
      <3>7. /\ Len(queue'[r]) = Len(t) + 1 /\ Len(log'[r]) = Len(u) + 1
            /\ Len(t) \in Nat /\ Len(u) \in Nat
            /\ \A i \in 1 .. Len(t) : queue'[r][i] = t[i]
            /\ queue'[r][Len(t) + 1] = fanMsg
            /\ \A i \in 1 .. Len(u) : log'[r][i] = u[i]
            /\ log'[r][Len(u) + 1] = fanMsg
        BY <3>2, <3>3, <3>4
      <3>8. ASSUME NEW i \in 1 .. Len(queue'[r])
            PROVE  queue'[r][i] = log'[r][Len(log'[r]) - Len(queue'[r]) + i]
        <4>1. Len(log'[r]) - Len(queue'[r]) + i = Len(u) - Len(t) + i
          BY <3>7
        <4>2. CASE i \in 1 .. Len(t)
          BY <3>6, <3>7, <4>1, <4>2
        <4>3. CASE i = Len(t) + 1
          BY <3>7, <4>1, <4>3
        <4>4. QED
          BY <3>7, <4>2, <4>3
      <3>9. QED
        BY <3>6, <3>7, <3>8
    <2>4. QED
      BY <2>2, <2>3
  <1>5. CASE Restart
    BY <1>1, <1>5 DEF Restart
  <1>6. QED
    BY <1>2, <1>3, <1>4, <1>5 DEF Next, FanStep

\* What an appended message adds.
LEMMA RangeAppend ==
    ASSUME NEW s \in Seq(Msgs), NEW x \in Msgs
    PROVE  Range(Append(s, x)) = Range(s) \union {x}
  <1>1. PICK u : u = Append(s, x)
    OBVIOUS
  <1>2. /\ Len(u) = Len(s) + 1 /\ Len(s) \in Nat
        /\ \A i \in 1 .. Len(s) : u[i] = s[i]
        /\ u[Len(s) + 1] = x
    BY <1>1
  <1>3. \A i \in 1 .. Len(u) : i \in 1 .. Len(s) \/ i = Len(s) + 1
    BY <1>2
  <1>4. \A i \in 1 .. Len(s) + 1 : i \in 1 .. Len(u)
    BY <1>2
  <1>5. Range(u) \subseteq Range(s) \union {x}
    BY <1>2, <1>3 DEF Range
  <1>6. \A i \in 1 .. Len(s) : s[i] \in Range(u)
    <2>1. ASSUME NEW i \in 1 .. Len(s) PROVE s[i] \in Range(u)
      <3>1. i \in 1 .. Len(u) /\ s[i] = u[i]
        BY <1>2
      <3>2. QED
        BY <3>1 DEF Range
    <2>2. QED
      BY <2>1
  <1>7. x \in Range(u)
    <2>1. Len(s) + 1 \in 1 .. Len(u)
      BY <1>2
    <2>2. QED
      BY <1>2, <2>1 DEF Range
  <1>8. QED
    BY <1>1, <1>5, <1>6, <1>7 DEF Range

\* A drained backlog is held by a flushing join only.
LEMMA BatchStep == IInv /\ BatchHolds /\ [Next]_vars => BatchHolds'
  <1> SUFFICES ASSUME IInv, BatchHolds, [Next]_vars PROVE BatchHolds'
    OBVIOUS
  <1>0. /\ at \in [Clients -> Places] /\ batch \in [Clients -> Seq(Msgs)]
    BY DEF IInv, TypeOK
  <1> USE <1>0 DEF BatchHolds, shared, task, history
  <1>1. ASSUME NEW c \in Clients, Open(c) \/ Pump(c) \/ LeaveHash(c) \/ LeaveQueue(c)
        PROVE  BatchHolds'
    BY <1>1 DEF Open, Pump, LeaveHash, LeaveQueue
  <1>2. ASSUME NEW c \in Clients, NEW r \in Rooms, JoinHash(c, r) \/ LeaveUnsub(c, r)
        PROVE  BatchHolds'
    BY <1>2 DEF JoinHash, LeaveUnsub
  <1>3. ASSUME NEW c \in Clients, JoinRoom(c) \/ LeaveRoom(c) PROVE BatchHolds'
    <2>1. /\ at[c] # "join_flush" /\ batch' = batch
          /\ at' = [at EXCEPT ![c] = "join_room"] \/ at' = [at EXCEPT ![c] = "leave_queue"]
      BY <1>3 DEF JoinRoom, LeaveRoom
    <2>2. QED
      BY <2>1
  <1>4. ASSUME NEW c \in Clients, LeaveCheck(c) PROVE BatchHolds'
    <2>1. /\ at[c] # "join_flush" /\ batch' = batch
          /\ at' = [at EXCEPT ![c] = "idle"] \/ at' = [at EXCEPT ![c] = "leave_hash"]
      BY <1>4 DEF LeaveCheck
    <2>2. QED
      BY <2>1
  <1>5. ASSUME NEW c \in Clients, JoinDrain(c) \/ JoinFlush(c) \/ Close(c) PROVE BatchHolds'
    BY <1>5 DEF JoinDrain, JoinFlush, Close
  <1>6. CASE Arrive \/ FanLock \/ FanList \/ (\E r \in Rooms : FanRoom(r)) \/ UNCHANGED vars
    BY <1>6 DEF Arrive, FanLock, FanList, FanRoom, vars
  <1>7. CASE Restart
    BY <1>7 DEF Restart, Empty
  <1>8. QED
    BY <1>1, <1>2, <1>3, <1>4, <1>5, <1>6, <1>7 DEF Next, ClientStep, FanStep

\* A refused frame stays in the log.
LEMMA MissedStep == IInv /\ MissedLogged /\ [Next]_vars => MissedLogged'
  <1> SUFFICES ASSUME IInv, MissedLogged, [Next]_vars,
                      NEW c \in Clients, NEW r \in Rooms, NEW m \in Msgs,
                      <<r, m>> \in missed'[c]
               PROVE  m \in Range(log'[r])
    BY DEF MissedLogged
  <1>0. missed \in [Clients -> SUBSET Frames] /\ log \in [Rooms -> Seq(Msgs)]
    BY DEF IInv, TypeOK
  <1>1. <<r, m>> \in missed[c] => m \in Range(log[r])
    BY DEF MissedLogged
  <1>2. ASSUME NEW d \in Clients, ClientStep(d) PROVE m \in Range(log'[r])
    <2>1. missed' = missed \/ missed' = [missed EXCEPT ![d] = {}]
      BY <1>2 DEF ClientStep, Open, Close, Pump, JoinHash, LeaveUnsub, JoinRoom, JoinDrain,
                  JoinFlush, LeaveCheck, LeaveHash, LeaveRoom, LeaveQueue, shared, task, history
    <2>2. <<r, m>> \in missed[c]
      BY <1>0, <2>1
    <2>3. QED
      BY <1>1, <1>2, <2>2, ClientLeaves
  <1>3. CASE Arrive \/ FanList \/ FanLock \/ UNCHANGED vars
    BY <1>1, <1>3 DEF Arrive, FanList, FanLock, vars, history
  <1>4. ASSUME NEW q \in Rooms, FanRoom(q) PROVE m \in Range(log'[r])
    <2>1. /\ log' = [log EXCEPT ![q] = Append(@, fanMsg)]
          /\ <<r, m>> \in missed[c] \/ (r = q /\ m = fanMsg)
          /\ fanMsg \in Msgs
      BY <1>4 DEF FanRoom, IInv, FanHolds
    <2>2. PICK s \in Seq(Msgs) : s = log[r]
      BY <1>0
    <2>3. CASE r # q
      BY <1>0, <1>1, <2>1, <2>3
    <2>4. CASE r = q
      <3>1. log'[r] = Append(s, fanMsg)
        BY <1>0, <2>1, <2>2, <2>4
      <3>2. Range(log'[r]) = Range(s) \union {fanMsg}
        BY <2>1, <3>1, RangeAppend
      <3>3. QED
        BY <1>1, <2>1, <2>2, <3>2
    <2>5. QED
      BY <2>3, <2>4
  <1>5. CASE Restart
    BY <1>5 DEF Restart, NoSubs
  <1>6. QED
    BY <1>2, <1>3, <1>4, <1>5 DEF Next, FanStep

\* A client's step is about its own session.
LEMMA ClientOwn ==
    ASSUME TypeOK, NEW d \in Clients, ClientStep(d), NEW c \in Clients, c # d
    PROVE  /\ subs'[c] = subs[c] /\ outq'[c] = outq[c] /\ arg'[c] = arg[c]
           /\ batch'[c] = batch[c] /\ got'[c] = got[c] /\ mark'[c] = mark[c]
           /\ missed'[c] = missed[c] /\ (c \in live' <=> c \in live)
  <1> USE DEF TypeOK, shared, task, history
  <1>1. CASE Open(d) \/ JoinRoom(d) \/ LeaveCheck(d) \/ LeaveHash(d) \/ LeaveRoom(d)
                \/ LeaveQueue(d)
    BY <1>1 DEF Open, JoinRoom, LeaveCheck, LeaveHash, LeaveRoom, LeaveQueue
  <1>2. CASE Pump(d) \/ JoinFlush(d)
    BY <1>2 DEF Pump, JoinFlush
  <1>3. ASSUME NEW r \in Rooms, JoinHash(d, r) \/ LeaveUnsub(d, r)
        PROVE  /\ subs'[c] = subs[c] /\ outq'[c] = outq[c] /\ arg'[c] = arg[c]
               /\ batch'[c] = batch[c] /\ got'[c] = got[c] /\ mark'[c] = mark[c]
               /\ missed'[c] = missed[c] /\ (c \in live' <=> c \in live)
    BY <1>3 DEF JoinHash, LeaveUnsub
  <1>4. CASE JoinDrain(d)
    BY <1>4 DEF JoinDrain
  <1>5. CASE Close(d)
    BY <1>5 DEF Close
  <1>6. QED
    BY <1>1, <1>2, <1>3, <1>4, <1>5 DEF ClientStep

\* These steps change no session's stream.
Silent(c) == /\ UNCHANGED <<queue, log, live>> /\ subs'[c] = subs[c] /\ outq'[c] = outq[c]
             /\ got'[c] = got[c] /\ mark'[c] = mark[c] /\ missed'[c] = missed[c]
             /\ arg'[c] = arg[c] /\ batch'[c] = batch[c]

\* What an event, a listing or a lock changes of a session: nothing.
LEMMA WorkerSilent ==
    ASSUME NEW c \in Clients, Arrive \/ FanList \/ FanLock \/ UNCHANGED vars
    PROVE  Silent(c)
  BY DEF Arrive, FanList, FanLock, vars, shared, task, history, Silent

\* A socket learns of a room only by joining it.
LEMMA UnjoinedStep ==
    IInv /\ QueueIsTail /\ BatchHolds /\ Unjoined /\ [Next]_vars => Unjoined'
  <1> SUFFICES ASSUME IInv, QueueIsTail, BatchHolds, Unjoined, [Next]_vars,
                      NEW c \in Clients, NEW r \in Rooms, mark'[c][r] = Never
               PROVE  /\ r \notin subs'[c] /\ \A m \in Msgs : <<r, m>> \notin missed'[c]
                      /\ MsgsOf(r, got'[c]) = {} /\ MsgsOf(r, outq'[c]) = {}
                      /\ MsgsOf(r, Framed(arg'[c], batch'[c])) = {}
    BY DEF Unjoined, MsgsOf, Framed, Msgs, Range
  <1> DEFINE Goal == /\ r \notin subs'[c] /\ \A m \in Msgs : <<r, m>> \notin missed'[c]
                     /\ MsgsOf(r, got'[c]) = {} /\ MsgsOf(r, outq'[c]) = {}
                     /\ MsgsOf(r, Framed(arg'[c], batch'[c])) = {}
             Flow == <<subs[c], outq[c], got[c], missed[c], mark[c]>>
  <1>0. /\ TypeOK /\ got[c] \in Seq(Frames) /\ outq[c] \in Seq(Frames)
        /\ arg[c] \in Rooms /\ batch[c] \in Seq(Msgs) /\ queue[arg[c]] \in Seq(Msgs)
        /\ arg' \in [Clients -> Rooms]
    BY TypeStep DEF IInv, TypeOK
  <1>1. mark[c][r] = Never =>
            /\ r \notin subs[c] /\ \A m \in Msgs : <<r, m>> \notin missed[c]
            /\ MsgsOf(r, got[c]) = {} /\ MsgsOf(r, outq[c]) = {}
            /\ MsgsOf(r, Framed(arg[c], batch[c])) = {}
    BY DEF Unjoined
  <1>2. ASSUME UNCHANGED Flow, arg'[c] = arg[c] /\ batch'[c] = batch[c] PROVE Goal
    BY <1>1, <1>2
  <1>3. ASSUME subs'[c] \subseteq subs[c], UNCHANGED <<outq[c], got[c], missed[c], mark[c]>>,
               batch'[c] = <<>>
        PROVE  Goal
    <2>1. MsgsOf(r, Framed(arg'[c], batch'[c])) = {}
      BY <1>0, <1>3, NoFrames
    <2>2. QED
      BY <1>1, <1>3, <2>1
  <1>4. ASSUME NEW d \in Clients, d # c, ClientStep(d) PROVE Goal
    BY <1>0, <1>2, <1>4, ClientOwn
  <1>5. CASE Open(c) \/ JoinRoom(c) \/ LeaveCheck(c) \/ LeaveHash(c) \/ LeaveRoom(c)
                \/ LeaveQueue(c)
    BY <1>2, <1>5 DEF Open, JoinRoom, LeaveCheck, LeaveHash, LeaveRoom, LeaveQueue, shared,
                      task, history
  <1>6. ASSUME NEW q \in Rooms, JoinHash(c, q) \/ LeaveUnsub(c, q) PROVE Goal
    <2>1. /\ subs'[c] \subseteq subs[c] /\ UNCHANGED <<outq[c], got[c], missed[c], mark[c]>>
          /\ at[c] = "idle" /\ batch' = batch
      BY <1>0, <1>6 DEF JoinHash, LeaveUnsub, history, TypeOK
    <2>2. batch'[c] = <<>>
      BY <2>1 DEF BatchHolds
    <2>3. QED
      BY <1>3, <2>1, <2>2
  <1>7. CASE JoinDrain(c)
    <2>1. /\ mark' = [mark EXCEPT ![c][arg[c]] = IF @ = Never
                         THEN Len(log[arg[c]]) - Len(queue[arg[c]]) ELSE Again]
          /\ subs'[c] = subs[c] \union {arg[c]} /\ batch'[c] = queue[arg[c]]
          /\ UNCHANGED <<outq, got, missed, arg>>
      BY <1>0, <1>7 DEF JoinDrain, TypeOK
    <2>2. r # arg[c]
      <3>1. Len(log[arg[c]]) - Len(queue[arg[c]]) # Never /\ Again # Never
        BY <1>0 DEF QueueIsTail, Never, Again, TypeOK
      <3>2. mark'[c][arg[c]] # Never
        BY <1>0, <2>1, <3>1 DEF TypeOK
      <3>3. QED
        BY <3>2
    <2>3. mark[c][r] = Never
      BY <1>0, <2>1, <2>2 DEF TypeOK
    <2>4. MsgsOf(r, Framed(arg'[c], batch'[c])) = {}
      BY <1>0, <2>1, <2>2, FramedParts
    <2>5. QED
      BY <1>1, <2>1, <2>2, <2>3, <2>4
  <1>8. CASE JoinFlush(c)
    <2>1. /\ got'[c] = got[c] \o Framed(arg[c], batch[c]) /\ batch'[c] = <<>>
          /\ UNCHANGED <<subs, outq, missed, mark>>
      BY <1>0, <1>8 DEF JoinFlush, shared, TypeOK
    <2>2. MsgsOf(r, got'[c]) = MsgsOf(r, got[c]) \union MsgsOf(r, Framed(arg[c], batch[c]))
      BY <1>0, <2>1, FramedParts, MsgsConcat
    <2>3. MsgsOf(r, Framed(arg'[c], batch'[c])) = {}
      BY <1>0, <2>1, NoFrames
    <2>4. QED
      BY <1>1, <2>1, <2>2, <2>3
  <1>9. CASE Pump(c)
    <2>1. /\ got'[c] = Append(got[c], Head(outq[c])) /\ outq'[c] = Tail(outq[c])
          /\ outq[c] # <<>> /\ UNCHANGED <<subs, missed, mark, arg, batch>>
      BY <1>0, <1>9 DEF Pump, task, TypeOK
    <2>2. /\ Head(outq[c]) \in Frames
          /\ MsgsOf(r, outq[c]) = MsgsOf(r, <<Head(outq[c])>>) \union MsgsOf(r, outq'[c])
      BY <1>0, <2>1, HeadAndTail
    <2>3. PICK f, u : f \in Frames /\ f = Head(outq[c]) /\ u = <<f>>
      BY <2>2
    <2>4. u \in Seq(Frames) /\ got'[c] = got[c] \o u
      <3>1. u \in Seq(Frames)
        BY <1>0, <2>3, OneFrame
      <3>2. Append(got[c], f) = got[c] \o <<f>>
        BY <1>0, <2>3, AppendIsConcat
      <3>3. QED
        BY <2>1, <2>3, <3>1, <3>2
    <2>5. MsgsOf(r, got'[c]) = MsgsOf(r, got[c]) \union MsgsOf(r, u)
      BY <1>0, <2>4, MsgsConcat
    <2>6. QED
      BY <1>1, <2>1, <2>2, <2>3, <2>5
  <1>10. CASE Close(c)
    <2>1. /\ subs'[c] = {} /\ missed'[c] = {} /\ got'[c] = <<>> /\ outq'[c] = <<>>
          /\ batch'[c] = <<>>
      BY <1>0, <1>10 DEF Close, TypeOK
    <2>2. QED
      BY <1>0, <2>1, NoFrames
  <1>11. CASE Arrive \/ FanList \/ FanLock \/ UNCHANGED vars
    BY <1>2, <1>11, WorkerSilent DEF Silent
  <1>12. ASSUME NEW q \in Rooms, FanRoom(q) PROVE Goal
    <2>1. UNCHANGED <<subs, got, mark, arg, batch>>
      BY <1>12 DEF FanRoom
    <2>2. /\ q \notin subs[c] => outq'[c] = outq[c] /\ missed'[c] = missed[c]
          /\ outq'[c] = outq[c] \/ outq'[c] = Append(outq[c], <<q, fanMsg>>)
          /\ missed'[c] = missed[c] \/ missed'[c] = missed[c] \union {<<q, fanMsg>>}
          /\ <<q, fanMsg>> \in Frames
      BY <1>12 DEF FanRoom, Targets, Frames, IInv, FanHolds
    <2>3. CASE q \notin subs[c]
      BY <1>2, <2>1, <2>2, <2>3
    <2>4. CASE q \in subs[c]
      <3>1. q # r /\ mark[c][r] = Never
        BY <1>1, <2>1, <2>4
      <3>2. \A m \in Msgs : <<r, m>> \notin missed'[c]
        BY <1>1, <2>2, <3>1
      <3>3. MsgsOf(r, outq'[c]) = {}
        <4>1. PICK f, u : f \in Frames /\ f = <<q, fanMsg>> /\ u = <<f>>
          BY <2>2
        <4>2. u \in Seq(Frames) /\ MsgsOf(r, u) = {}
          BY <3>1, <4>1, OneFrame
        <4>3. MsgsOf(r, outq[c] \o u) = {} /\ Append(outq[c], f) = outq[c] \o u
          <5>1. MsgsOf(r, outq[c] \o u) = {}
            BY <1>0, <1>1, <3>1, <4>2, MsgsConcat
          <5>2. Append(outq[c], f) = outq[c] \o <<f>>
            BY <1>0, <4>1, AppendIsConcat
          <5>3. QED
            BY <4>1, <5>1, <5>2
        <4>4. QED
          BY <1>1, <2>2, <3>1, <4>1, <4>3
      <3>4. QED
        BY <1>1, <2>1, <3>1, <3>2, <3>3
    <2>5. QED
      BY <2>3, <2>4
  <1>13. CASE Restart
    <2>1. /\ subs'[c] = {} /\ missed'[c] = {} /\ got'[c] = <<>> /\ outq'[c] = <<>>
          /\ batch'[c] = <<>>
      BY <1>13 DEF Restart, NoSubs, Empty
    <2>2. QED
      BY <1>0, <2>1, NoFrames
  <1>14. QED
    BY <1>4, <1>5, <1>6, <1>7, <1>8, <1>9, <1>10, <1>11, <1>12, <1>13
       DEF Next, ClientStep, FanStep

\* How the steps change a stream.  A join's backlog is written,
LEMMA WholeFlush ==
    ASSUME NEW r \in Rooms, NEW g \in Seq(Frames), NEW b \in Seq(Frames), NEW o, NEW S, NEW X,
           Whole(r, g, b, o, S, X)
    PROVE  Whole(r, g \o b, <<>>, o, S, X)
  <1>1. /\ MsgsOf(r, g \o b) = MsgsOf(r, g) \union MsgsOf(r, b)
        /\ InOrder(r, g \o b) /\ MsgsOf(r, <<>>) = {} /\ InOrder(r, <<>>)
    BY MsgsConcat, OrderConcat, NoFrames DEF Whole
  <1>2. QED
    BY <1>1 DEF Whole, Before

\* ... a routed frame is written,
LEMMA WholePump ==
    ASSUME NEW r \in Rooms, NEW g \in Seq(Frames), NEW o \in Seq(Frames), o # <<>>,
           NEW S, NEW X, Whole(r, g, <<>>, o, S, X)
    PROVE  Whole(r, Append(g, Head(o)), <<>>, Tail(o), S, X)
  <1>1. /\ Head(o) \in Frames /\ Tail(o) \in Seq(Frames)
        /\ MsgsOf(r, o) = MsgsOf(r, <<Head(o)>>) \union MsgsOf(r, Tail(o))
        /\ InOrder(r, Tail(o))
        /\ Before(MsgsOf(r, <<Head(o)>>), MsgsOf(r, Tail(o)))
    BY HeadAndTail DEF Whole
  <1>2. PICK f, u : f \in Frames /\ f = Head(o) /\ u = <<f>>
    BY <1>1
  <1>3. u \in Seq(Frames) /\ InOrder(r, u) /\ Append(g, f) = g \o u
    <2>1. u \in Seq(Frames) /\ InOrder(r, u)
      BY <1>2, OneFrame
    <2>2. Append(g, f) = g \o <<f>>
      BY <1>2, AppendIsConcat
    <2>3. QED
      BY <1>2, <2>1, <2>2
  <1>4. Before(MsgsOf(r, g), MsgsOf(r, u))
    BY <1>1, <1>2 DEF Whole, Before
  <1>5. MsgsOf(r, g \o u) = MsgsOf(r, g) \union MsgsOf(r, u) /\ InOrder(r, g \o u)
    BY <1>3, <1>4, MsgsConcat, OrderConcat DEF Whole
  <1>6. MsgsOf(r, <<>>) = {}
    BY NoFrames
  <1>7. Whole(r, g \o u, <<>>, Tail(o), S, X)
    BY <1>1, <1>2, <1>5, <1>6 DEF Whole, Before
  <1>8. QED
    BY <1>2, <1>3, <1>7

\* ... a frame of the room is routed,
LEMMA WholeRoute ==
    ASSUME NEW r \in Rooms, NEW m \in Msgs, NEW g, NEW b, NEW o \in Seq(Frames), NEW S, NEW X,
           Whole(r, g, b, o, S, X), \A n \in S : n < m, <<r, m>> \notin X
    PROVE  Whole(r, g, b, Append(o, <<r, m>>), S \union {m}, X)
  <1>1. PICK f, u : f \in Frames /\ f = <<r, m>> /\ u = <<f>>
    <2>1. <<r, m>> \in Frames
      BY DEF Frames
    <2>2. QED
      BY <2>1
  <1>2. u \in Seq(Frames) /\ InOrder(r, u) /\ MsgsOf(r, u) = {m}
    BY <1>1, OneFrame
  <1>3. Append(o, f) = o \o u
    <2>1. Append(o, f) = o \o <<f>>
      BY <1>1, AppendIsConcat
    <2>2. QED
      BY <1>1, <2>1
  <1>4. /\ MsgsOf(r, g) \subseteq S /\ MsgsOf(r, b) \subseteq S /\ MsgsOf(r, o) \subseteq S
        /\ Before(S, {m})
    BY DEF Whole, Before
  <1>5. MsgsOf(r, o \o u) = MsgsOf(r, o) \union {m} /\ InOrder(r, o \o u)
    <2>1. Before(MsgsOf(r, o), MsgsOf(r, u))
      BY <1>2, <1>4 DEF Before
    <2>2. InOrder(r, o)
      BY DEF Whole
    <2>3. InOrder(r, o \o u)
      BY <1>2, <2>1, <2>2, OrderConcat
    <2>4. QED
      BY <1>2, <2>3, MsgsConcat
  <1>6. Whole(r, g, b, o \o u, S \union {m}, X)
    <2>1. MsgsOf(r, g) \union MsgsOf(r, b) \union MsgsOf(r, o \o u)
             = {n \in S \union {m} : <<r, n>> \notin X}
      BY <1>5 DEF Whole
    <2>2. QED
      BY <1>4, <1>5, <2>1 DEF Whole, Before
  <1>7. QED
    BY <1>1, <1>3, <1>6

\* ... or refused,
LEMMA WholeRefuse ==
    ASSUME NEW r, NEW m, NEW g, NEW b, NEW o, NEW S, NEW X,
           Whole(r, g, b, o, S, X), m \notin S
    PROVE  Whole(r, g, b, o, S \union {m}, X \union {<<r, m>>})
  <1>1. {n \in S \union {m} : <<r, n>> \notin X \union {<<r, m>>}}
           = {n \in S : <<r, n>> \notin X}
    OBVIOUS
  <1>2. QED
    BY <1>1 DEF Whole

\* ... and frames of another room change nothing.
LEMMA WholeOther ==
    ASSUME NEW r \in Rooms, NEW q \in Rooms, q # r, NEW m \in Msgs,
           NEW g, NEW b, NEW o \in Seq(Frames), NEW S, NEW X, Whole(r, g, b, o, S, X)
    PROVE  /\ Whole(r, g, b, Append(o, <<q, m>>), S, X)
           /\ Whole(r, g, b, o, S, X \union {<<q, m>>})
  <1>1. PICK f, u : f \in Frames /\ f = <<q, m>> /\ u = <<f>>
    <2>1. <<q, m>> \in Frames
      BY DEF Frames
    <2>2. QED
      BY <2>1
  <1>2. u \in Seq(Frames) /\ InOrder(r, u) /\ MsgsOf(r, u) = {}
    BY <1>1, OneFrame
  <1>3. Append(o, f) = o \o u
    <2>1. Append(o, f) = o \o <<f>>
      BY <1>1, AppendIsConcat
    <2>2. QED
      BY <1>1, <2>1
  <1>4. MsgsOf(r, o \o u) = MsgsOf(r, o) /\ InOrder(r, o \o u)
    <2>1. Before(MsgsOf(r, o), MsgsOf(r, u))
      BY <1>2 DEF Before
    <2>2. InOrder(r, o)
      BY DEF Whole
    <2>3. InOrder(r, o \o u)
      BY <1>2, <2>1, <2>2, OrderConcat
    <2>4. MsgsOf(r, o \o u) = MsgsOf(r, o) \union MsgsOf(r, u)
      BY <1>2, MsgsConcat
    <2>5. QED
      BY <1>2, <2>3, <2>4
  <1>5. Whole(r, g, b, o \o u, S, X)
    BY <1>4 DEF Whole
  <1>6. Whole(r, g, b, o, S, X \union {<<q, m>>})
    <2>1. {n \in S : <<r, n>> \notin X \union {<<q, m>>}} = {n \in S : <<r, n>> \notin X}
      OBVIOUS
    <2>2. QED
      BY <2>1 DEF Whole
  <1>7. QED
    BY <1>1, <1>3, <1>5, <1>6

\* A first join: the backlog found is all there is of the room.
LEMMA WholeJoin ==
    ASSUME NEW r \in Rooms, NEW s \in Seq(Msgs), Sorted(s), NEW g, NEW o, NEW X,
           MsgsOf(r, g) = {}, MsgsOf(r, o) = {}, InOrder(r, g), InOrder(r, o),
           \A m \in Msgs : <<r, m>> \notin X
    PROVE  Whole(r, g, Framed(r, s), o, Range(s), X)
  <1>1. MsgsOf(r, Framed(r, s)) = Range(s) /\ InOrder(r, Framed(r, s))
    BY FramedParts
  <1>2. Range(s) = {m \in Range(s) : <<r, m>> \notin X}
    <2>1. Range(s) \subseteq Msgs
      BY DEF Range
    <2>2. QED
      BY <2>1
  <1>3. QED
    BY <1>1, <1>2 DEF Whole, Before

\* Without a frame of r there is nothing to order.
LEMMA NoneInOrder ==
    ASSUME NEW r \in Rooms, NEW s \in Seq(Frames), MsgsOf(r, s) = {}
    PROVE  InOrder(r, s)
  <1>1. \A i \in 1 .. Len(s) : s[i][1] # r
    BY MsgsAt
  <1>2. QED
    BY <1>1 DEF InOrder

\* What was pushed after position k of a log that gets m at its end.
LEMMA SinceAppend ==
    ASSUME NEW s \in Seq(Msgs), NEW m \in Msgs, NEW k \in Nat, k <= Len(s), NEW u,
           u = Append(s, m)
    PROVE  {u[i] : i \in k + 1 .. Len(u)} = {s[i] : i \in k + 1 .. Len(s)} \union {m}
  <1>1. /\ Len(u) = Len(s) + 1 /\ Len(s) \in Nat
        /\ \A i \in 1 .. Len(s) : u[i] = s[i]
        /\ u[Len(s) + 1] = m
    OBVIOUS
  <1>2. \A i : i \in k + 1 .. Len(u) <=> i \in k + 1 .. Len(s) \/ i = Len(s) + 1
    BY <1>1
  <1>3. \A i \in k + 1 .. Len(s) : u[i] = s[i]
    BY <1>1
  <1>4. ASSUME NEW x \in {u[i] : i \in k + 1 .. Len(u)}
        PROVE  x \in {s[i] : i \in k + 1 .. Len(s)} \union {m}
    BY <1>1, <1>2, <1>3
  <1>5. ASSUME NEW x \in {s[i] : i \in k + 1 .. Len(s)}
        PROVE  x \in {u[i] : i \in k + 1 .. Len(u)}
    BY <1>2, <1>3
  <1>6. m \in {u[i] : i \in k + 1 .. Len(u)}
    BY <1>1, <1>2
  <1>7. QED
    BY <1>4, <1>5, <1>6

\* The end of a log that a backlog is, as a set and in order.
LEMMA TailOfLog ==
    ASSUME NEW s \in Seq(Msgs), NEW u \in Seq(Msgs), Len(s) <= Len(u), Sorted(u),
           \A i \in 1 .. Len(s) : s[i] = u[Len(u) - Len(s) + i]
    PROVE  /\ Sorted(s)
           /\ {u[i] : i \in (Len(u) - Len(s)) + 1 .. Len(u)} = Range(s)
  <1>1. Len(s) \in Nat /\ Len(u) \in Nat
    OBVIOUS
  <1>2. Sorted(s)
    <2>1. SUFFICES ASSUME NEW i \in 1 .. Len(s), NEW j \in 1 .. Len(s), i < j PROVE s[i] < s[j]
      BY DEF Sorted
    <2>2. PICK x, y : x = Len(u) - Len(s) + i /\ y = Len(u) - Len(s) + j
      OBVIOUS
    <2>3. s[i] = u[x] /\ s[j] = u[y]
      BY <2>2
    <2>4. x \in 1 .. Len(u) /\ y \in 1 .. Len(u) /\ x < y
      BY <1>1, <2>1, <2>2
    <2>5. QED
      BY <2>3, <2>4 DEF Sorted
  <1>3. ASSUME NEW i \in (Len(u) - Len(s)) + 1 .. Len(u) PROVE u[i] \in Range(s)
    <2>1. PICK j : j = i - (Len(u) - Len(s))
      OBVIOUS
    <2>2. j \in 1 .. Len(s) /\ Len(u) - Len(s) + j = i
      BY <1>1, <2>1
    <2>3. QED
      BY <2>2 DEF Range
  <1>4. ASSUME NEW j \in 1 .. Len(s)
        PROVE  \E i \in (Len(u) - Len(s)) + 1 .. Len(u) : s[j] = u[i]
    <2>1. PICK i : i = Len(u) - Len(s) + j
      OBVIOUS
    <2>2. i \in (Len(u) - Len(s)) + 1 .. Len(u) /\ s[j] = u[i]
      BY <1>1, <2>1
    <2>3. QED
      BY <2>2
  <1>5. QED
    BY <1>2, <1>3, <1>4 DEF Range

\* Every step keeps the stream of a room joined once whole.
LEMMA StreamsStep == IInv /\ SInv /\ [Next]_vars => StreamsHold'
  <1> SUFFICES ASSUME IInv, SInv, [Next]_vars,
                      NEW c \in live', NEW r \in subs'[c], mark'[c][r] >= 0
               PROVE  /\ mark'[c][r] <= Len(log'[r])
                      /\ Whole(r, got'[c], Framed(arg'[c], batch'[c]), outq'[c],
                               {log'[r][i] : i \in mark'[c][r] + 1 .. Len(log'[r])}, missed'[c])
    BY DEF StreamsHold, Since, Whole, InOrder, Before, MsgsOf, Framed, Msgs, Range
  <1> DEFINE k == mark[c][r]
             S == {log[r][i] : i \in k + 1 .. Len(log[r])}
             b == Framed(arg[c], batch[c])
             Goal == /\ mark'[c][r] <= Len(log'[r])
                     /\ Whole(r, got'[c], Framed(arg'[c], batch'[c]), outq'[c],
                              {log'[r][i] : i \in mark'[c][r] + 1 .. Len(log'[r])}, missed'[c])
  <1>0. /\ TypeOK /\ TypeOK' /\ c \in Clients /\ r \in Rooms
    BY TypeStep DEF IInv, TypeOK
  <1>1. /\ got[c] \in Seq(Frames) /\ outq[c] \in Seq(Frames) /\ b \in Seq(Frames)
        /\ arg[c] \in Rooms /\ arg'[c] \in Rooms /\ batch[c] \in Seq(Msgs)
        /\ log[r] \in Seq(Msgs) /\ queue[r] \in Seq(Msgs) /\ k \in Int /\ Len(log[r]) \in Nat
    <2>1. /\ got[c] \in Seq(Frames) /\ outq[c] \in Seq(Frames)
          /\ arg[c] \in Rooms /\ arg'[c] \in Rooms /\ batch[c] \in Seq(Msgs)
          /\ log[r] \in Seq(Msgs) /\ queue[r] \in Seq(Msgs) /\ k \in Int
      BY <1>0 DEF TypeOK
    <2>2. QED
      BY SMTT(30), <1>0, <2>1, FramedParts
  <1>2. c \in live /\ r \in subs[c] /\ k >= 0
            => k <= Len(log[r]) /\ Whole(r, got[c], b, outq[c], S, missed[c])
    BY DEF SInv, StreamsHold, Since
  <1> DEFINE Was == c \in live /\ r \in subs[c] /\ mark'[c][r] = k
                       /\ log'[r] = log[r] /\ missed'[c] = missed[c]
  <1>3. ASSUME Was, got'[c] = got[c] /\ outq'[c] = outq[c],
               Framed(arg'[c], batch'[c]) = b
        PROVE  Goal
    BY <1>2, <1>3
  <1>4. ASSUME NEW d \in Clients, d # c, ClientStep(d) PROVE Goal
    <2>1. log' = log
      BY <1>4, ClientLeaves
    <2>2. QED
      BY <1>0, <1>3, <1>4, <2>1, ClientOwn
  <1>5. CASE JoinRoom(c) \/ LeaveCheck(c) \/ LeaveHash(c) \/ LeaveRoom(c) \/ LeaveQueue(c)
    BY <1>3, <1>5 DEF JoinRoom, LeaveCheck, LeaveHash, LeaveRoom, LeaveQueue, shared, task,
                      history
  <1>6. CASE Open(c)
    <2>1. c \in live
      BY <1>0, <1>6 DEF Open, IInv, LiveOnly
    <2>2. QED
      BY <1>3, <1>6, <2>1 DEF Open, history
  <1>7. ASSUME NEW q \in Rooms, JoinHash(c, q) \/ LeaveUnsub(c, q) PROVE Goal
    <2>1. Was /\ got'[c] = got[c] /\ outq'[c] = outq[c] /\ at[c] = "idle" /\ batch' = batch
      BY SMTT(30), <1>0, <1>7 DEF JoinHash, LeaveUnsub, history, TypeOK
    <2>2. batch[c] = <<>>
      BY <1>0, <2>1 DEF SInv, BatchHolds
    <2>3. Framed(arg'[c], batch'[c]) = b
      BY <1>1, <2>1, <2>2, NoFrames
    <2>4. QED
      BY <1>3, <2>1, <2>3
  <1>8. CASE JoinDrain(c)
    <2>1. /\ mark' = [mark EXCEPT ![c][arg[c]] = IF @ = Never
                         THEN Len(log[arg[c]]) - Len(queue[arg[c]]) ELSE Again]
          /\ subs'[c] = subs[c] \union {arg[c]} /\ batch'[c] = queue[arg[c]]
          /\ UNCHANGED <<outq, got, missed, arg, log, live>> /\ at[c] = "join_room"
      BY <1>0, <1>8 DEF JoinDrain, TypeOK
    <2>2. CASE r = arg[c]
      <3>1. k = Never /\ mark'[c][r] = Len(log[r]) - Len(queue[r])
        BY <1>0, <2>1, <2>2 DEF TypeOK, Again
      <3>2. /\ MsgsOf(r, got[c]) = {} /\ MsgsOf(r, outq[c]) = {}
            /\ \A m \in Msgs : <<r, m>> \notin missed[c]
        BY <1>0, <3>1 DEF SInv, Unjoined
      <3>3. InOrder(r, got[c]) /\ InOrder(r, outq[c])
        BY <1>0, <1>1, <3>2, NoneInOrder
      <3>4. /\ Sorted(queue[r]) /\ Len(queue[r]) <= Len(log[r]) /\ Len(queue[r]) \in Nat
            /\ {log[r][i] : i \in (Len(log[r]) - Len(queue[r])) + 1 .. Len(log[r])}
                  = Range(queue[r])
        <4>1. /\ Sorted(log[r]) /\ Len(queue[r]) <= Len(log[r])
              /\ \A i \in 1 .. Len(queue[r]) :
                    queue[r][i] = log[r][Len(log[r]) - Len(queue[r]) + i]
          BY <1>0 DEF SInv, LogInOrder, QueueIsTail
        <4>2. PICK s \in Seq(Msgs), u \in Seq(Msgs) : s = queue[r] /\ u = log[r]
          BY <1>1
        <4>3. /\ Sorted(u) /\ Len(s) <= Len(u) /\ Len(s) \in Nat
              /\ \A i \in 1 .. Len(s) : s[i] = u[Len(u) - Len(s) + i]
          <5>1. Sorted(u) /\ Len(s) <= Len(u)
            BY <4>1, <4>2
          <5>2. \A i \in 1 .. Len(s) : s[i] = u[Len(u) - Len(s) + i]
            BY <4>1, <4>2, Zenon
          <5>3. Len(s) \in Nat
            BY <4>2
          <5>4. QED
            BY <5>1, <5>2, <5>3
        <4>4. /\ Sorted(s)
              /\ {u[i] : i \in (Len(u) - Len(s)) + 1 .. Len(u)} = Range(s)
          BY <4>3, TailOfLog
        <4>5. QED
          BY <4>1, <4>2, <4>3, <4>4
      <3>5. Whole(r, got[c], Framed(r, queue[r]), outq[c], Range(queue[r]), missed[c])
        BY <1>0, <1>1, <3>2, <3>3, <3>4, WholeJoin
      <3>6. mark'[c][r] <= Len(log'[r])
        <4>1. PICK x \in Nat, y \in Nat : x = Len(log[r]) /\ y = Len(queue[r])
          BY <1>1, <3>4
        <4>2. mark'[c][r] = x - y /\ Len(log'[r]) = x
          BY <2>1, <3>1, <4>1
        <4>3. QED
          BY <4>2
      <3>7. {log'[r][i] : i \in mark'[c][r] + 1 .. Len(log'[r])} = Range(queue[r])
        BY <2>1, <3>1, <3>4
      <3>8. QED
        BY <2>1, <2>2, <3>5, <3>6, <3>7
    <2>3. CASE r # arg[c]
      <3>1. Was /\ got'[c] = got[c] /\ outq'[c] = outq[c]
        BY <1>0, <2>1, <2>3 DEF TypeOK
      <3>2. k <= Len(log[r]) /\ Whole(r, got[c], b, outq[c], S, missed[c])
        BY <1>2, <3>1
      <3>3. batch[c] = <<>>
        BY <1>0, <2>1 DEF SInv, BatchHolds
      <3>4. MsgsOf(r, b) = {}
        BY <1>0, <1>1, <3>3, NoFrames
      <3>5. PICK n \in Seq(Frames) : n = Framed(arg'[c], batch'[c]) /\ MsgsOf(r, n) = {}
        <4>1. queue[arg[c]] \in Seq(Msgs)
          BY <1>0, <1>1 DEF TypeOK
        <4>2. QED
          BY <1>0, <1>1, <2>1, <2>3, <4>1, FramedParts
      <3>6. InOrder(r, n)
        BY <1>0, <3>5, NoneInOrder
      <3>7. Whole(r, got[c], n, outq[c], S, missed[c])
        BY <3>2, <3>4, <3>5, <3>6 DEF Whole, Before
      <3>8. QED
        BY <3>1, <3>2, <3>5, <3>7
    <2>4. QED
      BY <2>2, <2>3
  <1>9. CASE JoinFlush(c)
    <2>1. /\ got'[c] = got[c] \o b /\ batch'[c] = <<>> /\ Was /\ outq'[c] = outq[c]
      BY <1>0, <1>9 DEF JoinFlush, shared, TypeOK
    <2>2. Whole(r, got[c] \o b, <<>>, outq[c], S, missed[c]) /\ k <= Len(log[r])
      <3>1. k <= Len(log[r]) /\ Whole(r, got[c], b, outq[c], S, missed[c])
        BY <1>2, <2>1
      <3> HIDE DEF b, S, k
      <3>2. QED
        BY <1>0, <1>1, <3>1, WholeFlush
    <2>3. Framed(arg'[c], batch'[c]) = <<>>
      BY <1>0, <1>1, <2>1, NoFrames
    <2>4. QED
      BY <2>1, <2>2, <2>3
  <1>10. CASE Pump(c)
    <2>1. /\ got'[c] = Append(got[c], Head(outq[c])) /\ outq'[c] = Tail(outq[c])
          /\ outq[c] # <<>> /\ Was /\ arg'[c] = arg[c] /\ batch'[c] = batch[c]
          /\ at[c] = "idle"
      BY <1>0, <1>10 DEF Pump, task, TypeOK
    <2>2. batch[c] = <<>> /\ b = <<>> /\ Framed(arg'[c], batch'[c]) = <<>>
      <3>1. batch[c] = <<>>
        BY <1>0, <2>1 DEF SInv, BatchHolds
      <3>2. QED
        BY <1>0, <1>1, <2>1, <3>1, NoFrames
    <2>3. k <= Len(log[r]) /\ Whole(r, got[c], <<>>, outq[c], S, missed[c])
      BY <1>2, <2>1, <2>2
    <2>4. Whole(r, Append(got[c], Head(outq[c])), <<>>, Tail(outq[c]), S, missed[c])
      <3> HIDE DEF S
      <3>1. QED
        BY <1>0, <1>1, <2>1, <2>3, WholePump
    <2>5. QED
      BY <2>1, <2>2, <2>3, <2>4
  <1>11. CASE Close(c)
    BY <1>0, <1>11 DEF Close
  <1>12. CASE Arrive \/ FanList \/ FanLock \/ UNCHANGED vars
    BY <1>0, <1>3, <1>12, WorkerSilent DEF Silent
  <1>13. ASSUME NEW q \in Rooms, FanRoom(q) PROVE Goal
    <2>1. /\ UNCHANGED <<live, subs, got, mark, arg, batch>> /\ q \in fanRooms
          /\ log' = [log EXCEPT ![q] = Append(@, fanMsg)]
          /\ fanMsg \in Msgs
      BY <1>13 DEF FanRoom, IInv, FanHolds
    <2>2. k >= 0 /\ k <= Len(log[r]) /\ Whole(r, got[c], b, outq[c], S, missed[c])
      BY <1>2, <2>1
    <2>3. \/ outq'[c] = Append(outq[c], <<q, fanMsg>>) /\ missed'[c] = missed[c]
          \/ outq'[c] = outq[c] /\ missed'[c] = missed[c] \union {<<q, fanMsg>>}
          \/ q # r /\ outq'[c] = outq[c] /\ missed'[c] = missed[c]
      BY <1>0, <1>13, <2>1 DEF FanRoom, Targets
    <2>4. CASE q # r
      <3>1. log'[r] = log[r]
        BY <1>0, <2>1, <2>4 DEF TypeOK
      <3>2. Whole(r, got[c], b, outq'[c], S, missed'[c])
        <4> HIDE DEF b, S
        <4>1. /\ Whole(r, got[c], b, Append(outq[c], <<q, fanMsg>>), S, missed[c])
              /\ Whole(r, got[c], b, outq[c], S, missed[c] \union {<<q, fanMsg>>})
          BY <1>0, <1>1, <2>1, <2>2, <2>4, WholeOther
        <4>2. QED
          BY <2>2, <2>3, <4>1
      <3>3. QED
        BY <2>1, <2>2, <3>1, <3>2
    <2>5. CASE q = r
      <3>1. log'[r] = Append(log[r], fanMsg) /\ Len(log'[r]) = Len(log[r]) + 1
        BY <1>0, <1>1, <2>1, <2>5 DEF TypeOK
      <3>2. {log'[r][i] : i \in k + 1 .. Len(log'[r])} = S \union {fanMsg}
        <4>1. k \in Nat
          BY <1>1, <2>2
        <4>2. PICK s, u : s \in Seq(Msgs) /\ s = log[r] /\ u = log'[r]
          BY <1>1
        <4>3. u = Append(s, fanMsg) /\ k <= Len(s)
          BY <2>2, <3>1, <4>2
        <4> HIDE DEF k
        <4>4. {u[i] : i \in k + 1 .. Len(u)} = {s[i] : i \in k + 1 .. Len(s)} \union {fanMsg}
          BY <2>1, <4>1, <4>3, SinceAppend
        <4>5. QED
          BY <4>2, <4>4
      <3>3. \A i \in 1 .. Len(log[r]) : log[r][i] < fanMsg /\ log[r][i] \in Nat
        BY <1>0, <1>1, <2>1, <2>5, MsgsAreNumbers DEF SInv, LogInOrder
      <3>4. \A n \in S : n < fanMsg /\ n \in Nat
        <4>1. \A i \in k + 1 .. Len(log[r]) : i \in 1 .. Len(log[r])
          BY <1>1, <2>2
        <4>2. QED
          BY <3>3, <4>1
      <3>5. fanMsg \in Nat /\ fanMsg \notin S
        <4>1. fanMsg \in Nat
          BY <2>1, BoundsAssumption DEF Msgs
        <4>2. ~(fanMsg < fanMsg)
          BY <4>1
        <4> HIDE DEF S
        <4>3. QED
          BY <3>4, <4>1, <4>2
      <3>6. <<r, fanMsg>> \notin missed[c]
        <4>1. fanMsg \notin Range(log[r])
          BY <3>3, <3>5 DEF Range
        <4>2. QED
          BY <1>0, <2>1, <4>1 DEF SInv, MissedLogged
      <3>7. Whole(r, got[c], b, outq'[c], S \union {fanMsg}, missed'[c])
        <4> HIDE DEF b, S
        <4>1. CASE outq'[c] = Append(outq[c], <<q, fanMsg>>) /\ missed'[c] = missed[c]
          <5>1. \A n \in S : n < fanMsg
            BY <3>4
          <5>2. Whole(r, got[c], b, Append(outq[c], <<r, fanMsg>>), S \union {fanMsg}, missed[c])
            BY <1>0, <1>1, <2>1, <2>2, <3>6, <5>1, WholeRoute
          <5>3. QED
            BY <2>5, <4>1, <5>2
        <4>2. CASE outq'[c] = outq[c] /\ missed'[c] = missed[c] \union {<<q, fanMsg>>}
          BY <2>2, <2>5, <3>5, <4>2, WholeRefuse
        <4>3. QED
          BY <2>3, <2>5, <4>1, <4>2
      <3>8. mark'[c][r] <= Len(log'[r])
        BY <1>1, <2>1, <2>2, <3>1
      <3>9. QED
        BY <2>1, <3>2, <3>7, <3>8
    <2>6. QED
      BY <2>4, <2>5
  <1>14. CASE Restart
    BY <1>14 DEF Restart
  <1>15. QED
    BY <1>0, <1>4, <1>5, <1>6, <1>7, <1>8, <1>9, <1>10, <1>11, <1>12, <1>13, <1>14
       DEF Next, ClientStep, FanStep

\* Nothing has been written at the first boot.
LEMMA SInvInit == Init => SInv
  <1> SUFFICES ASSUME Init PROVE SInv
    OBVIOUS
  <1>1. BusInOrder /\ LogInOrder /\ QueueIsTail
    BY DEF Init, BusInOrder, LogInOrder, QueueIsTail, Sorted
  <1>2. BatchHolds /\ MissedLogged /\ StreamsHold
    BY DEF Init, BatchHolds, MissedLogged, StreamsHold, Empty, NoSubs
  <1>3. Unjoined
    <2>1. \A c \in Clients : arg[c] \in Rooms
      BY TypeInit DEF TypeOK
    <2>2. QED
      BY <2>1, NoFrames DEF Init, Unjoined, Empty, NoSubs
  <1>4. QED
    BY <1>1, <1>2, <1>3 DEF SInv

\* The second invariant holds in every reachable state.
LEMMA SInvHolds == Spec => []SInv
  <1>1. Init => SInv
    BY SInvInit
  <1>2. IInv /\ SInv /\ [Next]_vars => SInv'
    BY OrderStep, QueueStep, BatchStep, MissedStep, UnjoinedStep, StreamsStep DEF SInv
  <1>3. QED
    BY <1>1, <1>2, IInvHolds, PTL DEF Spec

-----------------------------------------------------------------------------
(* The theorems.                                                           *)

\* Every component of the state keeps its type, whatever the tasks do.
THEOREM TypeCorrect == Spec => []TypeOK
  <1>1. IInv => TypeOK
    BY DEF IInv
  <1>2. QED
    BY <1>1, IInvHolds, PTL

\* A client's subscription implies membership, on disk side and towards the
\* peers, for any number of clients and rooms: what handle_join's order of
\* updates and handle_leave's test are for.  Only rooms for which a join
\* overlapped the retirement are exempt.
THEOREM SubscribedRoomsAreMembers == Spec => []SubscribedIsMember
  <1>1. IInv => SubscribedIsMember
    BY DEF IInv, TypeOK, MemberInv, Member, SubscribedIsMember
  <1>2. QED
    BY <1>1, IInvHolds, PTL

\* Node::room_hashes and RoomStore agree between requests.
THEOREM HashesAgree == Spec => []HashesFollowRooms
  <1>1. IInv => HashesFollowRooms
    BY DEF IInv
  <1>2. QED
    BY <1>1, IInvHolds, PTL

\* handle_leave's remove_room leaves at most the worker's one message.
THEOREM OrphanBacklogIsBounded == Spec => []OrphanBacklogBounded
  <1>1. IInv => OrphanBacklogBounded
    BY DEF IInv
  <1>2. QED
    BY <1>1, IInvHolds, PTL

\* A crash at any point keeps the set of rooms, since RoomStore saves under
\* the rooms lock before any other task can see the new set.
THEOREM CrashSafe == Spec => CrashKeepsRooms
  <1> DEFINE Kept == restarts' # restarts /\ ioErrors' = 0
                        => rooms' = rooms /\ hashes' = rooms
  <1>1. IInv /\ [Next]_vars => [Kept]_vars
    <2> SUFFICES ASSUME IInv, Next, restarts' # restarts, ioErrors' = 0
                 PROVE  rooms' = rooms /\ hashes' = rooms
      OBVIOUS
    <2> USE DEF history
    <2>1. Restart
      <3>1. ASSUME NEW c \in Clients, ClientStep(c) PROVE FALSE
        BY <3>1 DEF ClientStep, Open, Close, Pump, JoinHash, LeaveUnsub, JoinRoom,
                    JoinDrain, JoinFlush, LeaveCheck, LeaveHash, LeaveRoom, LeaveQueue
      <3>2. ~Arrive
        BY DEF Arrive
      <3>3. ~FanStep
        BY DEF FanStep, FanList, Hold, FanLock, FanRoom, Release
      <3>4. QED
        BY <3>1, <3>2, <3>3 DEF Next
    <2>2. ioErrors = 0 /\ rooms' = disk /\ hashes' = rooms'
      BY <2>1 DEF Restart, IInv, TypeOK
    <2>3. QED
      BY <2>2 DEF IInv, DiskFollows
  <1>2. QED
    BY <1>1, IInvHolds, PTL DEF Spec, CrashKeepsRooms

\* Over a socket that joined a room once the client gets the backlog found at
\* the join and every message pushed since, in order and none twice, except
\* the frames its full channel refused: handle_join subscribes and drains in
\* one critical section, and the fan-out worker pushes and routes in one.
THEOREM ExactlyOnce == Spec => []ExactlyOnceSinceJoin
  <1>1. IInv /\ SInv => ExactlyOnceSinceJoin
    <2> SUFFICES ASSUME IInv, SInv, NEW c \in live, NEW r \in subs[c], mark[c][r] >= 0
                 PROVE  /\ InOrder(r, Stream(c))
                        /\ MsgsOf(r, Stream(c))
                              = {m \in Since(c, r) : <<r, m>> \notin missed[c]}
      BY DEF ExactlyOnceSinceJoin
    <2>1. /\ c \in Clients /\ r \in Rooms /\ got[c] \in Seq(Frames) /\ outq[c] \in Seq(Frames)
          /\ arg[c] \in Rooms /\ batch[c] \in Seq(Msgs)
      BY DEF IInv, TypeOK
    <2>2. PICK b : b = Framed(arg[c], batch[c])
      OBVIOUS
    <2>3. b \in Seq(Frames)
      BY <2>1, <2>2, FramedParts
    <2>4. Whole(r, got[c], b, outq[c], Since(c, r), missed[c])
      BY <2>2 DEF SInv, StreamsHold
    <2>5. Whole(r, got[c] \o b, <<>>, outq[c], Since(c, r), missed[c])
      BY <2>1, <2>3, <2>4, WholeFlush
    <2>6. PICK u \in Seq(Frames) : u = got[c] \o b
      BY <2>1, <2>3, MsgsConcat
    <2>7. Whole(r, u, <<>>, outq[c], Since(c, r), missed[c]) /\ MsgsOf(r, <<>>) = {}
      BY <2>1, <2>5, <2>6, NoFrames
    <2>8. /\ InOrder(r, u) /\ InOrder(r, outq[c])
          /\ Before(MsgsOf(r, u), MsgsOf(r, outq[c]))
          /\ MsgsOf(r, u) \union MsgsOf(r, outq[c])
                = {m \in Since(c, r) : <<r, m>> \notin missed[c]}
      BY <2>7 DEF Whole
    <2>9. /\ InOrder(r, u \o outq[c])
          /\ MsgsOf(r, u \o outq[c]) = MsgsOf(r, u) \union MsgsOf(r, outq[c])
      BY <2>1, <2>8, MsgsConcat, OrderConcat
    <2>10. Stream(c) = u \o outq[c]
      BY <2>2, <2>6 DEF Stream
    <2>11. QED
      BY <2>8, <2>9, <2>10
  <1>2. QED
    BY <1>1, IInvHolds, SInvHolds, PTL

-----------------------------------------------------------------------------
(***************************************************************************)
(* Starting and stopping daemons, for any set of processes: the file       *)
(* daemon.json and at most one daemon that serves.                         *)
(***************************************************************************)

CONSTANTS Procs, MaxReuse

VARIABLES fixed, stage, read, file, tmp, others, kept, overlap

Single == INSTANCE SingleInstance WITH at <- stage

\* A process that has published its pid and not yet removed it.
Published == {p \in Procs : stage[p] \in {"serve", "cleanup"}}

(***************************************************************************)
(* The order of the steps of one process excludes the others: at most one  *)
(* starts; the file is the published process's; a process beyond the check *)
(* found none, one that is about to decide has read the right pid, and a   *)
(* file that could not be removed names a process that served.             *)
(***************************************************************************)
AloneInStart   ==
    \A p, q \in Procs : stage[p] \in Single!Starting /\ stage[q] \in Single!Starting => p = q
FileIsOwn      == \A p \in Published : file = Single!Named(p)
ReadIsCurrent  == \A p \in Published, q \in Procs : stage[q] = "decide" => read[q] = Single!Named(p)
RemoverIsAlone ==
    \A q \in Procs : stage[q] \in {"remove", "bind", "write", "rename"} => Published = {}
NoFileYet      ==
    \A q \in Procs : stage[q] \in {"bind", "write", "rename"} => file = Single!Missing \/ kept
FileOfServer   ==
    file.pid \subseteq {q \in Procs : stage[q] \in {"serve", "cleanup", "gone", "killed"}}
TmpIsOwn       == \A q \in Procs : stage[q] = "rename" => tmp = Single!Named(q)

Exclusive == /\ AloneInStart /\ FileIsOwn /\ ReadIsCurrent /\ RemoverIsAlone
             /\ NoFileYet /\ FileOfServer /\ TmpIsOwn

StartInv == Single!TypeOK /\ (~overlap => Exclusive)

\* The contents of the file tell the cases apart.
LEMMA ContentsDiffer ==
    /\ \A p : Single!Named(p) # Single!Missing /\ Single!Named(p) # Single!Corrupt
    /\ Single!Missing # Single!Corrupt
    /\ \A p, q : Single!Named(p) = Single!Named(q) => p = q
    /\ \A p : Single!Named(p).pid = {p}
    /\ Single!Missing.pid = {} /\ Single!Corrupt.pid = {}
    /\ \A p \in Procs : Single!Named(p) \in Single!Contents
    /\ Single!Missing \in Single!Contents /\ Single!Corrupt \in Single!Contents
  <1>1. /\ \A p : Single!Named(p).there = TRUE /\ Single!Named(p).pid = {p}
        /\ Single!Missing.there = FALSE /\ Single!Missing.pid = {} /\ Single!Corrupt.pid = {}
        /\ Single!Corrupt.there = TRUE
    BY DEF Single!Named, Single!Missing, Single!Corrupt
  <1>2. \A p, q : Single!Named(p) = Single!Named(q) => p = q
    BY <1>1
  <1>3. QED
    BY <1>1, <1>2 DEF Single!Contents

\* Every step keeps the types.
LEMMA StartTypeStep == Single!TypeOK /\ [Single!Next]_(Single!vars) => Single!TypeOK'
  <1> SUFFICES ASSUME Single!TypeOK, [Single!Next]_(Single!vars) PROVE Single!TypeOK'
    OBVIOUS
  <1> USE DEF Single!TypeOK, Single!Goto, Single!Starting
  <1>1. ASSUME NEW p \in Procs, Single!Start(p) PROVE Single!TypeOK'
    BY <1>1 DEF Single!Start
  <1>2. ASSUME NEW p \in Procs, Single!Check(p) PROVE Single!TypeOK'
    BY <1>2 DEF Single!Check
  <1>3. ASSUME NEW p \in Procs, Single!Decide(p) PROVE Single!TypeOK'
    BY <1>3 DEF Single!Decide
  <1>4. ASSUME NEW p \in Procs, Single!Remove(p) PROVE Single!TypeOK'
    BY <1>4, ContentsDiffer DEF Single!Remove, Single!remove_daemon_info
  <1>5. ASSUME NEW p \in Procs, Single!Bind(p) PROVE Single!TypeOK'
    BY <1>5 DEF Single!Bind
  <1>6. ASSUME NEW p \in Procs, Single!Write(p) PROVE Single!TypeOK'
    BY <1>6, ContentsDiffer DEF Single!Write
  <1>7. ASSUME NEW p \in Procs, Single!Rename(p) PROVE Single!TypeOK'
    BY <1>7, ContentsDiffer DEF Single!Rename
  <1>8. ASSUME NEW p \in Procs, Single!Cleanup(p) PROVE Single!TypeOK'
    BY <1>8, ContentsDiffer DEF Single!Cleanup, Single!remove_daemon_info
  <1>9. ASSUME NEW p \in Procs, Single!Stop(p) \/ Single!IoError(p) \/ Single!Kill(p) PROVE Single!TypeOK'
    BY <1>9 DEF Single!Stop, Single!IoError, Single!Kill
  <1>10. ASSUME NEW p \in Procs, Single!PidReused(p) PROVE Single!TypeOK'
    BY <1>10 DEF Single!PidReused
  <1>11. CASE UNCHANGED Single!vars
    BY <1>11 DEF Single!vars
  <1>12. QED
    BY <1>1, <1>2, <1>3, <1>4, <1>5, <1>6, <1>7, <1>8, <1>9, <1>10, <1>11
       DEF Single!Next, Single!Step

\* Steps that only move a process out of the way, or leave all in place.
LEMMA LeavingKeeps ==
    ASSUME Single!TypeOK, Exclusive, NEW p \in Procs, NEW where,
           stage' = [stage EXCEPT ![p] = where], UNCHANGED <<read, file, tmp, kept>>,
           \/ where \in {"refused", "failed"} /\ stage[p] \in Single!Starting
           \/ where = "killed" \/ (where = "cleanup" /\ stage[p] = "serve")
    PROVE  Exclusive'
  <1> USE DEF Single!TypeOK, Single!Starting
  <1>1. \A q \in Procs : q # p => stage'[q] = stage[q]
    OBVIOUS
  <1>2. stage'[p] = where
    OBVIOUS
  <1>3. Published' \subseteq Published
    BY <1>1, <1>2 DEF Published
  <1>4. \A q \in Procs : stage'[q] \in Single!Starting => stage[q] = stage'[q]
    BY <1>1, <1>2
  <1>5. FileOfServer'
    BY <1>1, <1>2 DEF Exclusive, FileOfServer
  <1>6. QED
    BY <1>3, <1>4, <1>5 DEF Exclusive, AloneInStart, FileIsOwn, ReadIsCurrent, RemoverIsAlone,
                      NoFileYet, TmpIsOwn

\* Every step keeps the exclusion, as long as starts do not overlap.
LEMMA ExclusiveStep ==
    ASSUME Single!TypeOK, ~overlap => Exclusive, Single!Next, ~overlap'
    PROVE  Exclusive'
  <1> USE DEF Single!Starting
  <1>0. ~overlap /\ Exclusive
    BY DEF Single!TypeOK, Single!Next, Single!Step, Single!Start, Single!Check, Single!Decide,
       Single!Remove, Single!Bind, Single!Write, Single!Rename, Single!Cleanup, Single!Stop,
           Single!IoError, Single!Kill, Single!PidReused
  <1>1. ASSUME NEW p \in Procs, Single!Start(p) PROVE Exclusive'
    <2>1. /\ stage' = [stage EXCEPT ![p] = "check"] /\ UNCHANGED <<read, file, tmp, kept>>
          /\ \A q \in Procs : stage[q] \notin Single!Starting \cup {"cleanup"}
          /\ stage[p] = "new"
      BY <1>1 DEF Single!Start, Single!Goto
    <2>2. stage'[p] = "check" /\ \A q \in Procs : q # p => stage'[q] = stage[q]
      BY <2>1 DEF Single!TypeOK
    <2>3. Published' = Published
      BY <2>1, <2>2 DEF Published
    <2>4. QED
      BY <1>0, <2>1, <2>2, <2>3 DEF Exclusive, AloneInStart, FileIsOwn, ReadIsCurrent,
                                    RemoverIsAlone, NoFileYet, FileOfServer, TmpIsOwn
  <1>2. ASSUME NEW p \in Procs, Single!Check(p) PROVE Exclusive'
    <2>1. /\ stage' = [stage EXCEPT ![p] = IF file = Single!Missing THEN "bind" ELSE "decide"]
          /\ read' = [read EXCEPT ![p] = file] /\ UNCHANGED <<file, tmp, kept>>
          /\ stage[p] = "check"
      BY <1>2 DEF Single!Check, Single!Goto
    <2>2. /\ stage'[p] = IF file = Single!Missing THEN "bind" ELSE "decide"
          /\ read'[p] = file
          /\ \A q \in Procs : q # p => stage'[q] = stage[q] /\ read'[q] = read[q]
      BY <2>1 DEF Single!TypeOK
    <2>3. Published' = Published
      BY <2>1, <2>2 DEF Published
    <2>4. \A q \in Procs : q # p => stage[q] \notin Single!Starting
      BY <1>0, <2>1 DEF Exclusive, AloneInStart
    <2>5. ReadIsCurrent'
      BY <1>0, <2>1, <2>2, <2>3, <2>4 DEF Exclusive, ReadIsCurrent, FileIsOwn
    <2>6. RemoverIsAlone'
      <3>1. file = Single!Missing => Published = {}
        BY <1>0, ContentsDiffer DEF Exclusive, FileIsOwn
      <3>2. QED
        BY <1>0, <2>2, <2>3, <2>4, <3>1 DEF Exclusive, RemoverIsAlone
    <2>7. FileOfServer'
      BY <1>0, <2>1, <2>2 DEF Exclusive, FileOfServer
    <2>8. QED
      BY <1>0, <2>1, <2>2, <2>3, <2>4, <2>5, <2>6, <2>7
         DEF Exclusive, AloneInStart, FileIsOwn, NoFileYet, TmpIsOwn
  <1>3. ASSUME NEW p \in Procs, Single!Decide(p) PROVE Exclusive'
    <2>1. CASE \E q \in read[p].pid : Single!pid_alive(q)
      <3>1. /\ stage' = [stage EXCEPT ![p] = "refused"] /\ UNCHANGED <<read, file, tmp, kept>>
            /\ stage[p] = "decide"
        BY <1>3, <2>1 DEF Single!Decide, Single!Goto
      <3>2. QED
        BY <1>0, <3>1, LeavingKeeps
    <2>2. CASE ~ \E q \in read[p].pid : Single!pid_alive(q)
      <3>1. /\ stage' = [stage EXCEPT ![p] = "remove"] /\ UNCHANGED <<read, file, tmp, kept>>
            /\ stage[p] = "decide"
        BY <1>3, <2>2 DEF Single!Decide, Single!Goto
      <3>2. stage'[p] = "remove" /\ \A q \in Procs : q # p => stage'[q] = stage[q]
        BY <3>1 DEF Single!TypeOK
      <3>3. Published' = Published
        BY <3>1, <3>2 DEF Published
      <3>4. Published = {}
        <4>1. ASSUME NEW q \in Published PROVE FALSE
          <5>1. read[p].pid = {q}
            BY <1>0, <3>1, <4>1, ContentsDiffer DEF Exclusive, ReadIsCurrent
          <5>2. q \in Single!Running
            BY <4>1 DEF Published, Single!Running
          <5>3. QED
            BY <2>2, <5>1, <5>2 DEF Single!pid_alive
        <4>2. QED
          BY <4>1
      <3>5. \A q \in Procs : q # p => stage[q] \notin Single!Starting
        BY <1>0, <3>1 DEF Exclusive, AloneInStart
      <3>6. QED
        BY <1>0, <3>1, <3>2, <3>3, <3>4, <3>5
           DEF Exclusive, AloneInStart, FileIsOwn, ReadIsCurrent, RemoverIsAlone,
               NoFileYet, FileOfServer, TmpIsOwn
    <2>3. QED
      BY <2>1, <2>2
  <1>4. ASSUME NEW p \in Procs, Single!Remove(p) PROVE Exclusive'
    <2>1. /\ stage' = [stage EXCEPT ![p] = "bind"] /\ UNCHANGED <<read, tmp>>
          /\ stage[p] = "remove" /\ file' \in {Single!Missing, file}
          /\ file' = Single!Missing \/ kept'
      BY <1>4 DEF Single!Remove, Single!remove_daemon_info, Single!Goto
    <2>2. stage'[p] = "bind" /\ \A q \in Procs : q # p => stage'[q] = stage[q]
      BY <2>1 DEF Single!TypeOK
    <2>3. Published' = {}
      BY <1>0, <2>1, <2>2 DEF Exclusive, RemoverIsAlone, Published
    <2>4. \A q \in Procs : q # p => stage[q] \notin Single!Starting
      BY <1>0, <2>1 DEF Exclusive, AloneInStart
    <2>5. FileOfServer'
      BY <1>0, <2>1, <2>2, ContentsDiffer DEF Exclusive, FileOfServer
    <2>6. QED
      BY <1>0, <2>1, <2>2, <2>3, <2>4, <2>5
         DEF Exclusive, AloneInStart, FileIsOwn, ReadIsCurrent, RemoverIsAlone,
             NoFileYet, TmpIsOwn
  <1>5. ASSUME NEW p \in Procs, Single!Bind(p) PROVE Exclusive'
    <2>1. CASE stage' = [stage EXCEPT ![p] = "failed"]
      BY <1>0, <1>5, <2>1, LeavingKeeps DEF Single!Bind
    <2>2. CASE stage' = [stage EXCEPT ![p] = "write"]
      <3>1. UNCHANGED <<read, file, tmp, kept>> /\ stage[p] = "bind"
        BY <1>5 DEF Single!Bind
      <3>2. stage'[p] = "write" /\ \A q \in Procs : q # p => stage'[q] = stage[q]
        BY <2>2 DEF Single!TypeOK
      <3>3. Published' = Published
        BY <3>1, <3>2 DEF Published
      <3>4. QED
        BY <1>0, <3>1, <3>2, <3>3
           DEF Exclusive, AloneInStart, FileIsOwn, ReadIsCurrent, RemoverIsAlone,
               NoFileYet, FileOfServer, TmpIsOwn
    <2>3. QED
      BY <1>5, <2>1, <2>2 DEF Single!Bind, Single!Goto
  <1>6. ASSUME NEW p \in Procs, Single!Write(p) PROVE Exclusive'
    <2>1. /\ stage' = [stage EXCEPT ![p] = "rename"] /\ UNCHANGED <<read, file, kept>>
          /\ stage[p] = "write" /\ tmp' = Single!Named(p)
      BY <1>6 DEF Single!Write, Single!Goto
    <2>2. stage'[p] = "rename" /\ \A q \in Procs : q # p => stage'[q] = stage[q]
      BY <2>1 DEF Single!TypeOK
    <2>3. Published' = Published
      BY <2>1, <2>2 DEF Published
    <2>4. QED
      BY <1>0, <2>1, <2>2, <2>3
         DEF Exclusive, AloneInStart, FileIsOwn, ReadIsCurrent, RemoverIsAlone,
             NoFileYet, FileOfServer, TmpIsOwn
  <1>7. ASSUME NEW p \in Procs, Single!Rename(p) PROVE Exclusive'
    <2>1. tmp = Single!Named(p)
      BY <1>0, <1>7 DEF Single!Rename, Exclusive, TmpIsOwn
    <2>2. Published = {}
      BY <1>0, <1>7 DEF Single!Rename, Exclusive, RemoverIsAlone
    <2>3. /\ stage' = [stage EXCEPT ![p] = "serve"] /\ UNCHANGED read
          /\ stage[p] = "rename" /\ file' = Single!Named(p)
      BY <1>7, <2>1, ContentsDiffer DEF Single!Rename, Single!Goto
    <2>4. stage'[p] = "serve" /\ \A q \in Procs : q # p => stage'[q] = stage[q]
      BY <2>3 DEF Single!TypeOK
    <2>5. Published' = {p}
      BY <2>2, <2>4 DEF Published
    <2>6. \A q \in Procs : stage'[q] \notin Single!Starting
      BY <1>0, <2>3, <2>4 DEF Exclusive, AloneInStart
    <2>7. FileOfServer'
      BY <2>3, <2>4, ContentsDiffer DEF FileOfServer
    <2>8. QED
      BY <2>3, <2>5, <2>6, <2>7
         DEF Exclusive, AloneInStart, FileIsOwn, ReadIsCurrent, RemoverIsAlone,
             NoFileYet, TmpIsOwn
  <1>8. ASSUME NEW p \in Procs, Single!Cleanup(p) PROVE Exclusive'
    <2>1. /\ stage' = [stage EXCEPT ![p] = "gone"] /\ UNCHANGED <<read, tmp>>
          /\ stage[p] = "cleanup" /\ file' \in {Single!Missing, file}
          /\ file' = Single!Missing \/ kept'
      BY <1>8 DEF Single!Cleanup, Single!remove_daemon_info, Single!Goto
    <2>2. stage'[p] = "gone" /\ \A q \in Procs : q # p => stage'[q] = stage[q]
      BY <2>1 DEF Single!TypeOK
    <2>3. p \in Published /\ \A q \in Published : q = p
      BY <1>0, <2>1, ContentsDiffer DEF Exclusive, FileIsOwn, Published
    <2>4. Published' = {}
      BY <2>2, <2>3 DEF Published
    <2>5. FileOfServer'
      BY <1>0, <2>1, <2>2, ContentsDiffer DEF Exclusive, FileOfServer
    <2>6. QED
      BY <1>0, <2>1, <2>2, <2>4, <2>5
         DEF Exclusive, AloneInStart, FileIsOwn, ReadIsCurrent, RemoverIsAlone,
             NoFileYet, TmpIsOwn
  <1>9. ASSUME NEW p \in Procs, Single!Stop(p) PROVE Exclusive'
    BY <1>0, <1>9, LeavingKeeps DEF Single!Stop, Single!Goto
  <1>10. ASSUME NEW p \in Procs, Single!IoError(p) PROVE Exclusive'
    BY <1>0, <1>10, LeavingKeeps DEF Single!IoError, Single!Goto
  <1>11. ASSUME NEW p \in Procs, Single!Kill(p) PROVE Exclusive'
    BY <1>0, <1>11, LeavingKeeps DEF Single!Kill, Single!Goto
  <1>12. ASSUME NEW p \in Procs, Single!PidReused(p) PROVE Exclusive'
    BY <1>0, <1>12 DEF Single!PidReused, Published, Exclusive, AloneInStart, FileIsOwn,
                       ReadIsCurrent, RemoverIsAlone, NoFileYet, FileOfServer, TmpIsOwn
  <1>13. QED
    BY <1>1, <1>2, <1>3, <1>4, <1>5, <1>6, <1>7, <1>8, <1>9, <1>10, <1>11, <1>12
       DEF Single!Next, Single!Step

\* The invariant holds throughout.
LEMMA StartInvHolds == Single!Spec => []StartInv
  <1>1. Single!Init => StartInv
    BY ContentsDiffer
       DEF Single!Init, StartInv, Single!TypeOK, Single!Starting, Exclusive, Published,
           AloneInStart, FileIsOwn,
           ReadIsCurrent, RemoverIsAlone, NoFileYet, FileOfServer, TmpIsOwn
  <1>2. StartInv /\ UNCHANGED Single!vars => StartInv'
    BY DEF Single!vars, StartInv, Single!TypeOK, Exclusive, Published, AloneInStart, FileIsOwn,
           ReadIsCurrent, RemoverIsAlone, NoFileYet, FileOfServer, TmpIsOwn
  <1>3. StartInv /\ Single!Next => StartInv'
    BY StartTypeStep, ExclusiveStep DEF StartInv
  <1>4. QED
    BY <1>1, <1>2, <1>3, PTL DEF Single!Spec

(***************************************************************************)
(* However many processes start, stop and are killed, none while another   *)
(* is starting or cleaning up: at most one serves and daemon.json is its.  *)
(***************************************************************************)
THEOREM AtMostOneDaemon == Single!Spec => []Single!OneDaemon
  <1>1. StartInv => Single!OneDaemon
    BY ContentsDiffer
       DEF StartInv, Exclusive, Single!OneDaemon, FileIsOwn, Published, Single!Serving
  <1>2. QED
    BY <1>1, StartInvHolds, PTL

(***************************************************************************)
(* A daemon that binds has cleared what a crashed one left in daemon.json, *)
(* unless remove_daemon_info failed; what then stays names a daemon that   *)
(* no longer runs.                                                         *)
(***************************************************************************)
THEOREM NoStalePid == Single!Spec => []Single!StaleIsCleared
  <1>1. StartInv => Single!StaleIsCleared
    <2> SUFFICES ASSUME StartInv, ~overlap, NEW p \in Procs,
                        stage[p] \in {"bind", "write", "rename"}
                 PROVE  /\ file = Single!Missing \/ kept
                        /\ file.pid \cap Single!Running = {}
      BY DEF Single!StaleIsCleared
    <2>1. Exclusive
      BY DEF StartInv
    <2>2. file = Single!Missing \/ kept
      BY <2>1 DEF Exclusive, NoFileYet
    <2>3. ASSUME NEW q \in file.pid, q \in Single!Running PROVE FALSE
      <3>1. q \in Procs /\ stage[q] \in {"serve", "cleanup", "gone", "killed"}
        BY <2>1, <2>3 DEF Exclusive, FileOfServer
      <3>2. q \in Published
        BY <2>3, <3>1 DEF Single!Running, Single!Starting, Published
      <3>3. QED
        BY <2>1, <3>2 DEF Exclusive, RemoverIsAlone
    <2>4. QED
      BY <2>2, <2>3
  <1>2. QED
    BY <1>1, StartInvHolds, PTL
=============================================================================
