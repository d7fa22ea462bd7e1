-------------------------- MODULE ConnectLoopProofs --------------------------
(***************************************************************************)
(* The connect loop ignores only peers that are connected, and scanner and *)
(* loop forget no wire id, for any number of wire ids, peers, retries and  *)
(* any capacity of the channels.                                           *)
(***************************************************************************)
EXTENDS ConnectLoop, FiniteSetTheorems, TLAPS

-----------------------------------------------------------------------------
(* The inductive invariant.                                                *)

Dialling  == at \in {"dial", "dialled"}
Accepting == at \in {"accept", "accepted"}

\* The loop runs and has missed nothing.
Informed == at # "ended" /\ ~tainted

\* The loop works on one wire id exactly while it is not idle; what it dials
\* it has not accepted; a round's discoveries wait only in "send";
\* a transport that is off has no loop.
Shape ==
    /\ Dialling \/ Accepting => \E w \in Wires : hand = {w}
    /\ at \in {"idle", "ended"} => hand = {}
    /\ Dialling => hand \intersect inbound = {}
    /\ scan # "send" => fresh = {}
    /\ lagged => tainted
    /\ ~on => at = "ended"

\* A wire id in the map belongs to a peer that is connected or whose loss is
\* waiting to be heard of; so does one whose registration has succeeded.
MappedIsHeld ==
    Informed => /\ \A w \in mapped : Held(AppOf[w])
                /\ at \in {"dialled", "accepted"} => \A w \in hand : Held(AppOf[w])

\* Whatever is marked as taken is being worked on or is in the map.
TakenIsMapped == Informed => engaged \union inbound \subseteq hand \union mapped

\* Why a seen wire id w will come up again or need not.  A connection being
\* accepted is no reason: it may fail, and then nobody tells the scanner.
Reason(w) ==
    \/ w \in fresh \union Entries(found)
    \/ Dialling /\ w \in hand
    \/ timers[w] > 0 \/ w \in Entries(unsee)
    \/ attempts[w] >= MaxRetries
    \/ w \in mapped /\ Held(AppOf[w])

SeenHasReason == Informed /\ scan # "ended" => \A w \in seen : Reason(w)

IInv == TypeOK /\ Shape /\ MappedIsHeld /\ TakenIsMapped /\ SeenHasReason

-----------------------------------------------------------------------------
(* Sequences.                                                              *)

\* What is in a queue after an entry is added.
LEMMA EntriesAppend ==
    ASSUME NEW S, NEW q \in Seq(S), NEW x \in S
    PROVE  Entries(Append(q, x)) = Entries(q) \union {x}
  <1>1. /\ Append(q, x) \in Seq(S) /\ Len(Append(q, x)) = Len(q) + 1
        /\ Append(q, x)[Len(q) + 1] = x
        /\ \A i \in 1 .. Len(q) : Append(q, x)[i] = q[i]
    OBVIOUS
  <1>2. Len(q) \in Nat
    OBVIOUS
  <1>3. QED
    BY <1>1, <1>2, SMTT(30) DEF Entries

\* The head of a queue and what is in the rest.
LEMMA EntriesTail ==
    ASSUME NEW S, NEW q \in Seq(S), q # <<>>
    PROVE  /\ Head(q) \in S /\ Tail(q) \in Seq(S) /\ Len(Tail(q)) = Len(q) - 1
           /\ Entries(q) = {Head(q)} \union Entries(Tail(q))
  <1>1. /\ Len(q) \in Nat /\ Len(q) >= 1
        /\ Head(q) = q[1] /\ Head(q) \in S
        /\ Tail(q) \in Seq(S) /\ Len(Tail(q)) = Len(q) - 1
        /\ \A i \in 1 .. Len(q) - 1 : Tail(q)[i] = q[i + 1]
    OBVIOUS
  <1>2. Entries(q) \subseteq {Head(q)} \union Entries(Tail(q))
    <2>1. SUFFICES ASSUME NEW i \in 1 .. Len(q)
                   PROVE  q[i] \in {Head(q)} \union Entries(Tail(q))
      BY DEF Entries
    <2>2. CASE i = 1
      BY <2>2, <1>1
    <2>3. CASE i # 1
      <3>1. i - 1 \in 1 .. Len(Tail(q)) /\ Tail(q)[i - 1] = q[i]
        BY <2>3, <1>1
      <3>2. QED
        BY <3>1 DEF Entries
    <2>4. QED
      BY <2>2, <2>3
  <1>3. {Head(q)} \union Entries(Tail(q)) \subseteq Entries(q)
    <2>1. Head(q) \in Entries(q)
      BY <1>1 DEF Entries
    <2>2. ASSUME NEW i \in 1 .. Len(Tail(q))
          PROVE  Tail(q)[i] \in Entries(q)
      <3>1. i + 1 \in 1 .. Len(q) /\ Tail(q)[i] = q[i + 1]
        BY <1>1
      <3>2. QED
        BY <3>1 DEF Entries
    <2>3. QED
      BY <2>1, <2>2 DEF Entries
  <1>4. QED
    BY <1>1, <1>2, <1>3

\* What is in two queues put together.
LEMMA EntriesConcat ==
    ASSUME NEW S, NEW q \in Seq(S), NEW r \in Seq(S)
    PROVE  /\ q \o r \in Seq(S) /\ Len(q \o r) = Len(q) + Len(r)
           /\ Entries(q \o r) = Entries(q) \union Entries(r)
  <1>1. /\ Len(q) \in Nat /\ Len(r) \in Nat
        /\ q \o r \in Seq(S) /\ Len(q \o r) = Len(q) + Len(r)
        /\ \A i \in 1 .. Len(q) : (q \o r)[i] = q[i]
        /\ \A i \in Len(q) + 1 .. Len(q) + Len(r) : (q \o r)[i] = r[i - Len(q)]
    OBVIOUS
  <1>2. ASSUME NEW i \in 1 .. Len(q \o r)
        PROVE  (q \o r)[i] \in Entries(q) \union Entries(r)
    <2>1. CASE i <= Len(q)
      BY <2>1, <1>1 DEF Entries
    <2>2. CASE i > Len(q)
      <3>1. i - Len(q) \in 1 .. Len(r) /\ (q \o r)[i] = r[i - Len(q)]
        BY <2>2, <1>1
      <3>2. QED
        BY <3>1 DEF Entries
    <2>3. QED
      BY <2>1, <2>2, <1>1
  <1>3. ASSUME NEW i \in 1 .. Len(q)
        PROVE  q[i] \in Entries(q \o r)
    BY <1>1 DEF Entries
  <1>4. ASSUME NEW i \in 1 .. Len(r)
        PROVE  r[i] \in Entries(q \o r)
    <2>1. Len(q) + i \in 1 .. Len(q \o r) /\ (q \o r)[Len(q) + i] = r[i]
      BY <1>1
    <2>2. QED
      BY <2>1 DEF Entries
  <1>5. QED
    BY <1>1, <1>2, <1>3, <1>4 DEF Entries

\* try_send adds wire ids of dead, fits, and misses none unless some are
\* refused.
LEMMA SendableSent ==
    ASSUME TypeOK, NEW dead \in SUBSET Wires, NEW s \in Sendable(dead)
    PROVE  /\ s \in Seq(Wires) /\ Len(unsee) + Len(s) <= UnseeCap
           /\ ~Unsent(dead) => Entries(s) = dead
  <1> DEFINE n == IF Unsent(dead) THEN UnseeCap - Len(unsee) ELSE Cardinality(dead)
  <1>1. IsFiniteSet(dead) /\ Cardinality(dead) \in Nat
    BY ConnectAssumption, FS_Subset, FS_CardinalityType
  <1>2. n \in Nat /\ Len(unsee) + n <= UnseeCap
    BY <1>1, ConnectAssumption DEF TypeOK, Unsent
  <1>3. s \in [1 .. n -> dead] /\ s \in Injection(1 .. n, dead)
    BY DEF Sendable, Injection
  <1>4. s \in Seq(dead) /\ Len(s) = n
    BY <1>2, <1>3
  <1>5. ASSUME ~Unsent(dead)
        PROVE  Entries(s) = dead
    <2>1. Cardinality(1 .. n) = n
      <3>1. n \in Int /\ 1 \in Int
        BY <1>2
      <3>2. Cardinality(1 .. n) = IF 1 > n THEN 0 ELSE n - 1 + 1
        BY <3>1, FS_Interval, Zenon
      <3>3. QED
        BY <3>2, <1>2
    <2>2. s \in Surjection(1 .. n, dead)
      BY <1>5, <1>1, <1>3, <2>1, FS_Injection, Zenon
    <2>3. QED
      BY <2>2, <1>3, <1>4 DEF Surjection, Entries
  <1>6. QED
    BY <1>2, <1>4, <1>5

-----------------------------------------------------------------------------
(* Types.                                                                  *)

\* Events that are sent are events.
LEMMA EventType == \A a \in Apps : Up(a) \in Events /\ Down(a) \in Events
  BY DEF Up, Down, Events

\* The initial state is well typed.
LEMMA TypeInit == Init => TypeOK
  <1> SUFFICES ASSUME Init
               PROVE  TypeOK
    OBVIOUS
  <1>1. found \in Seq(Wires) /\ Len(found) = 0 /\ unsee \in Seq(Wires) /\ Len(unsee) = 0
    BY DEF Init
  <1>2. events \in Seq(Events)
    BY DEF Init
  <1>3. timers \in [Wires -> Nat] /\ attempts \in [Wires -> 0 .. MaxRetries]
    BY ConnectAssumption DEF Init
  <1>4. on \in BOOLEAN /\ lagged \in BOOLEAN /\ tainted \in BOOLEAN
    BY DEF Init
  <1>5. losses \in 0 .. MaxLosses /\ inbounds \in 0 .. MaxInbound /\ faults \in 0 .. MaxFaults
    BY ConnectAssumption DEF Init
  <1>6. Len(found) <= FoundCap /\ Len(unsee) <= UnseeCap
    BY <1>1, ConnectAssumption
  <1>7. /\ visible \in SUBSET Wires /\ peers \in SUBSET Apps /\ seen \in SUBSET Wires
        /\ fresh \in SUBSET Wires /\ hand \in SUBSET Wires /\ engaged \in SUBSET Wires
        /\ inbound \in SUBSET Wires /\ connected \in SUBSET Apps /\ mapped \in SUBSET Wires
        /\ scan = "drain" /\ at = "idle"
    BY DEF Init
  <1>8. QED
    BY <1>1, <1>2, <1>3, <1>4, <1>5, <1>6, <1>7 DEF TypeOK

\* The parts of the state that a start or an end of the tasks sets.
LEMMA FreshType ==
    ASSUME NEW pc
    PROVE  /\ ScannerState(pc) =>
                /\ scan' = pc /\ seen' \in SUBSET Wires /\ fresh' \in SUBSET Wires
                /\ unsee' \in Seq(Wires) /\ Len(unsee') <= UnseeCap
           /\ LoopState(pc) =>
                /\ at' = pc /\ hand' \in SUBSET Wires
                /\ engaged' \in SUBSET Wires /\ inbound' \in SUBSET Wires
                /\ connected' \in SUBSET Apps /\ mapped' \in SUBSET Wires
                /\ attempts' \in [Wires -> 0 .. MaxRetries]
                /\ found' \in Seq(Wires) /\ Len(found') <= FoundCap
                /\ events' \in Seq(Events)
                /\ lagged' \in BOOLEAN /\ tainted' \in BOOLEAN
  <1> USE ConnectAssumption
  <1>1. ASSUME ScannerState(pc)
        PROVE  /\ scan' = pc /\ seen' \in SUBSET Wires /\ fresh' \in SUBSET Wires
               /\ unsee' \in Seq(Wires) /\ Len(unsee') <= UnseeCap
    BY <1>1 DEF ScannerState
  <1>2. ASSUME LoopState(pc)
        PROVE  /\ at' = pc /\ hand' \in SUBSET Wires
               /\ engaged' \in SUBSET Wires /\ inbound' \in SUBSET Wires
               /\ connected' \in SUBSET Apps /\ mapped' \in SUBSET Wires
    BY <1>2 DEF LoopState
  <1>3. ASSUME LoopState(pc)
        PROVE  found' \in Seq(Wires) /\ Len(found') <= FoundCap /\ events' \in Seq(Events)
    BY <1>3 DEF LoopState
  <1>4. ASSUME LoopState(pc)
        PROVE  attempts' \in [Wires -> 0 .. MaxRetries]
    BY <1>4 DEF LoopState
  <1>5. ASSUME LoopState(pc)
        PROVE  lagged' \in BOOLEAN /\ tainted' \in BOOLEAN
    BY <1>5 DEF LoopState
  <1>6. QED
    BY <1>1, <1>2, <1>3, <1>4, <1>5

\* Every step keeps the types: the budget bounds the attempts, the guards and
\* try_send the channels.
LEMMA TypeStep == TypeOK /\ [Next]_vars => TypeOK'
  <1> SUFFICES ASSUME TypeOK, [Next]_vars
               PROVE  TypeOK'
    OBVIOUS
  <1> USE ConnectAssumption
  <1>1. CASE ScanDrain
    BY <1>1 DEF ScanDrain, TypeOK, world, scanner, channels, loop, bounds
  <1>2. CASE ScanRound
    BY <1>2 DEF ScanRound, TypeOK, world, scanner, channels, loop, bounds
  <1>3. ASSUME NEW w \in Wires, ScanSend(w)
        PROVE  TypeOK'
    <2>1. found' \in Seq(Wires) /\ Len(found') <= FoundCap
      BY <1>3 DEF ScanSend, TypeOK
    <2>2. scan' \in {"drain", "send"} /\ fresh' \in SUBSET Wires
      BY <1>3 DEF ScanSend, TypeOK
    <2>3. QED
      BY <1>3, <2>1, <2>2 DEF ScanSend, TypeOK, world, scanner, channels, loop, bounds
  <1>4. CASE ScanEnds
    <2>1. faults' \in 0 .. MaxFaults
      BY <1>4 DEF ScanEnds, TypeOK
    <2>2. QED
      BY <1>4, <2>1, FreshType DEF ScanEnds, TypeOK, world, scanner, channels, loop, bounds
  <1>5. ASSUME NEW w \in Wires, TimerFires(w)
        PROVE  TypeOK'
    <2>1. timers' \in [Wires -> Nat]
      <3>1. timers[w] \in Nat /\ timers[w] > 0
        BY <1>5 DEF TimerFires, TypeOK
      <3>2. timers[w] - 1 \in Nat
        BY <3>1
      <3>3. QED
        BY <1>5, <3>2 DEF TimerFires, TypeOK
    <2>2. unsee' \in Seq(Wires) /\ Len(unsee') <= UnseeCap
      <3>1. unsee \in Seq(Wires) /\ Len(unsee) \in Nat /\ Len(unsee) <= UnseeCap
        BY DEF TypeOK
      <3>2. CASE UNCHANGED unsee
        BY <3>1, <3>2
      <3>3. CASE Len(unsee) < UnseeCap /\ unsee' = Append(unsee, w)
        BY <3>1, <3>3
      <3>4. QED
        BY <1>5, <3>2, <3>3 DEF TimerFires
    <2>3. QED
      BY <1>5, <2>1, <2>2 DEF TimerFires, TypeOK, world, scanner, channels, loop, bounds
  <1>6. CASE TakePeer
    <2>1. Head(found) \in Wires /\ Tail(found) \in Seq(Wires) /\ Len(Tail(found)) = Len(found) - 1
      BY <1>6, EntriesTail DEF TakePeer, TypeOK
    <2>2. attempts' \in [Wires -> 0 .. MaxRetries]
      <3>1. CASE Deduped(Head(found)) \/ Spent(Head(found))
        BY <1>6, <3>1 DEF TakePeer, TypeOK
      <3>2. CASE ~(Deduped(Head(found)) \/ Spent(Head(found)))
        <4>1. attempts[Head(found)] \in 0 .. MaxRetries /\ attempts[Head(found)] < MaxRetries
          BY <2>1, <3>2 DEF TypeOK, Spent
        <4>2. attempts[Head(found)] + 1 \in 0 .. MaxRetries
          BY <4>1
        <4>3. QED
          BY <1>6, <2>1, <3>2, <4>2 DEF TakePeer, TypeOK
      <3>3. QED
        BY <3>1, <3>2
    <2>3. at' \in {"idle", "dial"} /\ hand' \in SUBSET Wires /\ engaged' \in SUBSET Wires
      BY <1>6, <2>1 DEF TakePeer, TypeOK
    <2>4. found' \in Seq(Wires) /\ Len(found') <= FoundCap
      BY <1>6, <2>1 DEF TakePeer, TypeOK
    <2>5. QED
      BY <1>6, <2>2, <2>3, <2>4 DEF TakePeer, TypeOK, world, scanner, channels, loop, bounds
  <1>7. ASSUME NEW w \in Wires, TakeConn(w)
        PROVE  TypeOK'
    <2>1. inbounds' \in 0 .. MaxInbound
      BY <1>7 DEF TakeConn, TypeOK
    <2>2. QED
      BY <1>7, <2>1 DEF TakeConn, TypeOK, world, scanner, channels, loop, bounds
  <1>8. ASSUME NEW w \in Wires, Register(w)
        PROVE  TypeOK'
    <2>1. AppOf[w] \in Apps /\ Up(AppOf[w]) \in Events
      BY EventType
    <2>2. events' \in Seq(Events)
      BY <1>8, <2>1 DEF Register, TypeOK
    <2>3. QED
      BY <1>8, <2>1, <2>2 DEF Register, TypeOK, world, scanner, channels, loop, bounds
  <1>9. ASSUME NEW w \in Wires, Settle(w)
        PROVE  TypeOK'
    BY <1>9 DEF Settle, TypeOK, world, scanner, channels, loop, bounds, Idle
  <1>10. ASSUME NEW w \in Wires, DialMismatch(w)
        PROVE  TypeOK'
    BY <1>10 DEF DialMismatch, TypeOK, world, scanner, channels, loop, bounds, Idle
  <1>11. ASSUME NEW w \in Wires, DialFails(w)
        PROVE  TypeOK'
    <2>1. timers' \in [Wires -> Nat]
      BY <1>11 DEF DialFails, TypeOK
    <2>2. QED
      BY <1>11, <2>1 DEF DialFails, Idle, TypeOK, world, scanner, channels, loop, bounds
  <1>12. ASSUME NEW w \in Wires, AcceptFails(w)
        PROVE  TypeOK'
    BY <1>12 DEF AcceptFails, TypeOK, world, scanner, channels, loop, bounds, Idle
  <1>13. CASE TakeUp
    <2>1. Head(events) \in Events /\ Tail(events) \in Seq(Events)
      BY <1>13 DEF TakeUp, TypeOK
    <2>2. QED
      BY <1>13, <2>1 DEF TakeUp, Events, TypeOK, world, scanner, channels, loop, bounds
  <1>14. CASE TakeDown
    <2> DEFINE dead == DeadWires(Head(events).app)
    <2>1. Head(events) \in Events /\ Tail(events) \in Seq(Events)
      BY <1>14 DEF TakeDown, TypeOK
    <2>2. dead \in SUBSET Wires
      BY DEF DeadWires, TypeOK
    <2>3. unsee' \in Seq(Wires) /\ Len(unsee') <= UnseeCap /\ tainted' \in BOOLEAN
      <3>1. CASE scan = "ended"
        BY <1>14, <3>1 DEF TakeDown, TypeOK
      <3>2. CASE scan # "ended"
        <4>1. PICK s \in Sendable(dead) : unsee' = unsee \o s
          BY <1>14, <3>2 DEF TakeDown
        <4>2. s \in Seq(Wires) /\ Len(unsee) + Len(s) <= UnseeCap
          BY <2>2, SendableSent
        <4>3. unsee' \in Seq(Wires) /\ Len(unsee') = Len(unsee) + Len(s)
          BY <4>1, <4>2, EntriesConcat DEF TypeOK
        <4>4. tainted' \in BOOLEAN
          BY <1>14, <3>2 DEF TakeDown
        <4>5. QED
          BY <4>2, <4>3, <4>4
      <3>3. QED
        BY <3>1, <3>2
    <2>4. /\ connected' \in SUBSET Apps /\ mapped' \in SUBSET Wires
          /\ engaged' \in SUBSET Wires /\ inbound' \in SUBSET Wires
          /\ attempts' \in [Wires -> 0 .. MaxRetries] /\ events' \in Seq(Events)
      BY <1>14, <2>1, <2>2 DEF TakeDown, Released, TypeOK
    <2>5. QED
      BY <1>14, <2>3, <2>4 DEF TakeDown, TypeOK, world, scanner, channels, loop, bounds
  <1>15. CASE TakeLagged
    BY <1>15 DEF TakeLagged, TypeOK, world, scanner, channels, loop, bounds
  <1>16. CASE LoopEnds
    <2>1. faults' \in 0 .. MaxFaults
      BY <1>16 DEF LoopEnds, TypeOK
    <2>2. QED
      BY <1>16, <2>1, FreshType DEF LoopEnds, TypeOK, world, scanner, channels, loop, bounds
  <1>17. ASSUME NEW a \in Apps, Lose(a)
        PROVE  TypeOK'
    <2>1. events' \in Seq(Events)
      <3>1. Down(a) \in Events /\ events \in Seq(Events)
        BY EventType DEF TypeOK
      <3>2. QED
        BY <1>17, <3>1 DEF Lose
    <2>2. losses' \in 0 .. MaxLosses
      BY <1>17 DEF Lose, TypeOK
    <2>3. QED
      BY <1>17, <2>1, <2>2 DEF Lose, TypeOK, world, scanner, channels, loop, bounds
  <1>18. ASSUME NEW a \in Apps, Elsewhere(a)
        PROVE  TypeOK'
    <2>1. events' \in Seq(Events)
      <3>1. Up(a) \in Events /\ events \in Seq(Events)
        BY EventType DEF TypeOK
      <3>2. QED
        BY <1>18, <3>1 DEF Elsewhere
    <2>2. QED
      BY <1>18, <2>1 DEF Elsewhere, TypeOK, world, scanner, channels, loop, bounds
  <1>19. CASE Overrun
    <2>1. PICK i \in 0 .. Len(events) : events' = SubSeq(events, i + 1, Len(events))
      BY <1>19 DEF Overrun
    <2>2. events' \in Seq(Events)
      BY <2>1 DEF TypeOK
    <2>3. faults' \in 0 .. MaxFaults /\ lagged' \in BOOLEAN /\ tainted' \in BOOLEAN
      BY <1>19 DEF Overrun, TypeOK
    <2>4. QED
      BY <1>19, <2>2, <2>3 DEF Overrun, TypeOK, world, scanner, channels, loop, bounds
  <1>20. ASSUME NEW w \in Wires, Appear(w)
        PROVE  TypeOK'
    BY <1>20 DEF Appear, TypeOK, world, scanner, channels, loop, bounds
  <1>21. CASE Disable
    <2>1. on' \in BOOLEAN /\ timers' \in [Wires -> Nat]
      BY <1>21 DEF Disable, Aborted
    <2>2. faults' \in 0 .. MaxFaults
      BY <1>21 DEF Disable, Aborted, TypeOK, bounds
    <2>3. QED
      BY <1>21, <2>1, <2>2, FreshType DEF Disable, Aborted, TypeOK, world, scanner, channels, loop, bounds
  <1>22. CASE Enable
    <2>1. on' \in BOOLEAN /\ timers' \in [Wires -> Nat]
      BY <1>22 DEF Enable
    <2>2. faults' \in 0 .. MaxFaults
      BY <1>22 DEF Enable, TypeOK, bounds
    <2>3. QED
      BY <1>22, <2>1, <2>2, FreshType DEF Enable, TypeOK, world, scanner, channels, loop, bounds
  <1>23. CASE UNCHANGED vars
    BY <1>23 DEF vars, TypeOK, world, scanner, channels, loop, bounds
  <1>24. QED
    BY <1>1, <1>2, <1>3, <1>4, <1>5, <1>6, <1>7, <1>8, <1>9, <1>10, <1>11, <1>12,
       <1>13, <1>14, <1>15, <1>16, <1>17, <1>18, <1>19, <1>20, <1>21, <1>22, <1>23
    DEF Next, handle_disable_transport, handle_enable_transport, ScanStep, LoopStep, DialStep

-----------------------------------------------------------------------------
(* The other conjuncts.                                                    *)

\* The loop takes up one wire id at a time, and dials none that it accepted.
LEMMA ShapeStep == TypeOK /\ Shape /\ [Next]_vars => Shape'
  <1> SUFFICES ASSUME TypeOK, Shape, [Next]_vars
               PROVE  Shape'
    OBVIOUS
  <1> USE DEF Dialling, Accepting
  <1>1. CASE ScanDrain
    BY <1>1 DEF ScanDrain, Shape, TypeOK, world, scanner, channels, loop, bounds
  <1>2. CASE ScanRound
    BY <1>2 DEF ScanRound, Shape, TypeOK, world, scanner, channels, loop, bounds
  <1>3. ASSUME NEW w \in Wires, ScanSend(w)
        PROVE  Shape'
    BY <1>3 DEF ScanSend, Shape, TypeOK, world, scanner, channels, loop, bounds
  <1>4. CASE ScanEnds
    BY <1>4 DEF ScanEnds, ScannerState, Shape, TypeOK, world, scanner, channels, loop, bounds
  <1>5. ASSUME NEW w \in Wires, TimerFires(w)
        PROVE  Shape'
    BY <1>5 DEF TimerFires, Shape, TypeOK, world, scanner, channels, loop, bounds
  <1>6. CASE TakePeer
    <2>1. Head(found) \in Wires
      BY <1>6, EntriesTail DEF TakePeer, TypeOK
    <2>2. CASE Deduped(Head(found)) \/ Spent(Head(found))
      BY <1>6, <2>2 DEF TakePeer, Shape, world, scanner
    <2>3. CASE ~(Deduped(Head(found)) \/ Spent(Head(found)))
      <3>1. hand' = {Head(found)} /\ at' = "dial" /\ Head(found) \notin inbound
        BY <1>6, <2>3 DEF TakePeer, Deduped
      <3>2. QED
        BY <1>6, <2>1, <3>1 DEF TakePeer, Shape, world, scanner
    <2>4. QED
      BY <2>2, <2>3
  <1>7. ASSUME NEW w \in Wires, TakeConn(w)
        PROVE  Shape'
    BY <1>7 DEF TakeConn, Shape, TypeOK, world, scanner, channels, loop, bounds
  <1>8. ASSUME NEW w \in Wires, Register(w)
        PROVE  Shape'
    BY <1>8 DEF Register, Shape, TypeOK, world, scanner, channels, loop, bounds
  <1>9. ASSUME NEW w \in Wires, Settle(w)
        PROVE  Shape'
    BY <1>9 DEF Settle, Idle, Shape, TypeOK, world, scanner, channels, loop, bounds
  <1>10. ASSUME NEW w \in Wires, DialMismatch(w)
        PROVE  Shape'
    BY <1>10 DEF DialMismatch, Idle, Shape, TypeOK, world, scanner, channels, loop, bounds
  <1>11. ASSUME NEW w \in Wires, DialFails(w)
        PROVE  Shape'
    BY <1>11 DEF DialFails, Idle, Shape, TypeOK, world, scanner, channels, loop, bounds
  <1>12. ASSUME NEW w \in Wires, AcceptFails(w)
        PROVE  Shape'
    BY <1>12 DEF AcceptFails, Idle, Shape, TypeOK, world, scanner, channels, loop, bounds
  <1>13. CASE TakeUp
    BY <1>13 DEF TakeUp, Shape, TypeOK, world, scanner, channels, loop, bounds
  <1>14. CASE TakeDown
    BY <1>14 DEF TakeDown, Released, Shape, TypeOK, world, scanner, channels, loop, bounds
  <1>15. CASE TakeLagged
    BY <1>15 DEF TakeLagged, Shape, TypeOK, world, scanner, channels, loop, bounds
  <1>16. CASE LoopEnds
    BY <1>16 DEF LoopEnds, LoopState, Shape, TypeOK, world, scanner, channels, loop, bounds
  <1>17. ASSUME NEW a \in Apps, Lose(a)
        PROVE  Shape'
    BY <1>17 DEF Lose, Shape, TypeOK, world, scanner, channels, loop, bounds
  <1>18. ASSUME NEW a \in Apps, Elsewhere(a)
        PROVE  Shape'
    BY <1>18 DEF Elsewhere, Shape, TypeOK, world, scanner, channels, loop, bounds
  <1>19. CASE Overrun
    BY <1>19 DEF Overrun, Shape, TypeOK, world, scanner, channels, loop, bounds
  <1>20. ASSUME NEW w \in Wires, Appear(w)
        PROVE  Shape'
    BY <1>20 DEF Appear, Shape, TypeOK, world, scanner, channels, loop, bounds
  <1>21. CASE Disable
    BY <1>21 DEF Disable, Aborted, LoopState, ScannerState, Shape, TypeOK, world, scanner, channels, loop, bounds
  <1>22. CASE Enable
    BY <1>22 DEF Enable, LoopState, ScannerState, Shape, TypeOK, world, scanner, channels, loop, bounds
  <1>23. CASE UNCHANGED vars
    BY <1>23 DEF vars, Shape, TypeOK, world, scanner, channels, loop, bounds
  <1>24. QED
    BY <1>1, <1>2, <1>3, <1>4, <1>5, <1>6, <1>7, <1>8, <1>9, <1>10, <1>11, <1>12,
       <1>13, <1>14, <1>15, <1>16, <1>17, <1>18, <1>19, <1>20, <1>21, <1>22, <1>23
    DEF Next, handle_disable_transport, handle_enable_transport, ScanStep, LoopStep, DialStep

\* A loop that is informed after a step was so before, unless it has just
\* been started.
LEMMA InformedBefore == TypeOK /\ Shape /\ [Next]_vars /\ Informed' => Informed \/ Enable
  <1> SUFFICES ASSUME TypeOK, Shape, [Next]_vars, Informed'
               PROVE  Informed \/ Enable
    OBVIOUS
  <1>1. CASE ScanDrain
    BY <1>1 DEF ScanDrain, Informed, Shape, TypeOK, world, scanner, channels, loop, bounds
  <1>2. CASE ScanRound
    BY <1>2 DEF ScanRound, Informed, Shape, TypeOK, world, scanner, channels, loop, bounds
  <1>3. ASSUME NEW w \in Wires, ScanSend(w)
        PROVE  Informed \/ Enable
    BY <1>3 DEF ScanSend, Informed, Shape, TypeOK, world, scanner, channels, loop, bounds
  <1>4. CASE ScanEnds
    BY <1>4 DEF ScanEnds, ScannerState, Informed, Shape, TypeOK, world, scanner, channels, loop, bounds
  <1>5. ASSUME NEW w \in Wires, TimerFires(w)
        PROVE  Informed \/ Enable
    BY <1>5 DEF TimerFires, Informed, Shape, TypeOK, world, scanner, channels, loop, bounds
  <1>6. CASE TakePeer
    BY <1>6 DEF TakePeer, Deduped, Informed, Shape, TypeOK, world, scanner, channels, loop, bounds
  <1>7. ASSUME NEW w \in Wires, TakeConn(w)
        PROVE  Informed \/ Enable
    BY <1>7 DEF TakeConn, Informed, Shape, TypeOK, world, scanner, channels, loop, bounds
  <1>8. ASSUME NEW w \in Wires, Register(w)
        PROVE  Informed \/ Enable
    BY <1>8 DEF Register, Informed, Shape, TypeOK, world, scanner, channels, loop, bounds
  <1>9. ASSUME NEW w \in Wires, Settle(w)
        PROVE  Informed \/ Enable
    BY <1>9 DEF Settle, Idle, Informed, Shape, TypeOK, world, scanner, channels, loop, bounds
  <1>10. ASSUME NEW w \in Wires, DialMismatch(w)
        PROVE  Informed \/ Enable
    BY <1>10 DEF DialMismatch, Idle, Informed, Shape, TypeOK, world, scanner, channels, loop, bounds
  <1>11. ASSUME NEW w \in Wires, DialFails(w)
        PROVE  Informed \/ Enable
    BY <1>11 DEF DialFails, Idle, Informed, Shape, TypeOK, world, scanner, channels, loop, bounds
  <1>12. ASSUME NEW w \in Wires, AcceptFails(w)
        PROVE  Informed \/ Enable
    BY <1>12 DEF AcceptFails, Idle, Informed, Shape, TypeOK, world, scanner, channels, loop, bounds
  <1>13. CASE TakeUp
    BY <1>13 DEF TakeUp, Informed, Shape, TypeOK, world, scanner, channels, loop, bounds
  <1>14. CASE TakeDown
    BY <1>14 DEF TakeDown, Released, Informed, Shape, TypeOK, world, scanner, channels, loop, bounds
  <1>15. CASE TakeLagged
    BY <1>15 DEF TakeLagged, Informed, Shape, TypeOK, world, scanner, channels, loop, bounds
  <1>16. CASE LoopEnds
    BY <1>16 DEF LoopEnds, LoopState, Informed, Shape, TypeOK, world, scanner, channels, loop, bounds
  <1>17. ASSUME NEW a \in Apps, Lose(a)
        PROVE  Informed \/ Enable
    BY <1>17 DEF Lose, Informed, Shape, TypeOK, world, scanner, channels, loop, bounds
  <1>18. ASSUME NEW a \in Apps, Elsewhere(a)
        PROVE  Informed \/ Enable
    BY <1>18 DEF Elsewhere, Informed, Shape, TypeOK, world, scanner, channels, loop, bounds
  <1>19. CASE Overrun
    BY <1>19 DEF Overrun, Informed, Shape, TypeOK, world, scanner, channels, loop, bounds
  <1>20. ASSUME NEW w \in Wires, Appear(w)
        PROVE  Informed \/ Enable
    BY <1>20 DEF Appear, Informed, Shape, TypeOK, world, scanner, channels, loop, bounds
  <1>21. CASE Disable
    BY <1>21 DEF Disable, Aborted, LoopState, ScannerState, Informed, Shape, TypeOK, world, scanner, channels, loop, bounds
  <1>22. CASE Enable
    BY <1>22
  <1>23. CASE UNCHANGED vars
    BY <1>23 DEF vars, Informed, Shape, TypeOK, world, scanner, channels, loop, bounds
  <1>24. QED
    BY <1>1, <1>2, <1>3, <1>4, <1>5, <1>6, <1>7, <1>8, <1>9, <1>10, <1>11, <1>12,
       <1>13, <1>14, <1>15, <1>16, <1>17, <1>18, <1>19, <1>20, <1>21, <1>22, <1>23
    DEF Next, handle_disable_transport, handle_enable_transport, ScanStep, LoopStep, DialStep

\* A peer that is held stays held, until its loss is taken up.
LEMMA HeldStep ==
    ASSUME TypeOK, Informed, [Next]_vars, Informed', ~Enable,
           NEW b \in Apps, Held(b), ~(TakeDown /\ Head(events).app = b)
    PROVE  Held(b)'
  <1>1. CASE peers \subseteq peers' /\ UNCHANGED events
    BY <1>1 DEF Held
  <1>2. ASSUME NEW e \in Events, peers \subseteq peers', events' = Append(events, e)
        PROVE  Held(b)'
    <2>1. Entries(events') = Entries(events) \union {e}
      BY <1>2, EntriesAppend DEF TypeOK
    <2>2. QED
      BY <1>2, <2>1 DEF Held
  <1>3. ASSUME NEW a \in Apps, Lose(a)
        PROVE  Held(b)'
    <2>1. peers' = peers \ {a} /\ events' = Append(events, Down(a))
      BY <1>3 DEF Lose, Informed
    <2>2. Entries(events') = Entries(events) \union {Down(a)}
      BY <2>1, EntriesAppend, EventType DEF TypeOK
    <2>3. QED
      BY <2>1, <2>2 DEF Held
  <1>4. ASSUME events # <<>>, events' = Tail(events), UNCHANGED peers, Head(events) # Down(b)
        PROVE  Held(b)'
    <2>1. Entries(events) = {Head(events)} \union Entries(events')
      BY <1>4, EntriesTail DEF TypeOK
    <2>2. QED
      BY <1>4, <2>1 DEF Held
  <1>5. CASE TakeUp
    <2>1. Head(events) # Down(b)
      BY <1>5 DEF TakeUp, Down
    <2>2. QED
      BY <1>5, <2>1, <1>4 DEF TakeUp, world
  <1>6. CASE TakeDown
    <2>1. Head(events) # Down(b)
      BY <1>6 DEF Down
    <2>2. QED
      BY <1>6, <2>1, <1>4 DEF TakeDown, world
  <1>7. ASSUME NEW w \in Wires, Register(w)
        PROVE  Held(b)'
    <2>1. AppOf[w] \in Apps /\ Up(AppOf[w]) \in Events
      BY ConnectAssumption, EventType
    <2>2. peers \subseteq peers'
      BY <1>7 DEF Register
    <2>3. CASE AppOf[w] \in peers
      BY <1>7, <2>2, <2>3, <1>1 DEF Register
    <2>4. CASE AppOf[w] \notin peers
      BY <1>7, <2>1, <2>2, <2>4, <1>2 DEF Register
    <2>5. QED
      BY <2>3, <2>4
  <1>8. ASSUME NEW a \in Apps, Elsewhere(a)
        PROVE  Held(b)'
    BY <1>8, <1>2, EventType DEF Elsewhere, Informed
  <1>9. CASE \/ ScanStep \/ TakePeer \/ TakeLagged
             \/ \E w \in Wires : TimerFires(w) \/ TakeConn(w) \/ Appear(w)
    <2>1. UNCHANGED peers /\ UNCHANGED events
      BY <1>9 DEF ScanStep, ScanDrain, ScanRound, ScanSend, ScanEnds, TakePeer, TakeLagged,
                  TimerFires, TakeConn, Appear, world, channels
    <2>2. QED
      BY <2>1, <1>1
  <1>10. ASSUME NEW w \in Wires, Settle(w) \/ DialMismatch(w) \/ DialFails(w) \/ AcceptFails(w)
         PROVE  Held(b)'
    <2>1. UNCHANGED peers /\ UNCHANGED events
      BY <1>10 DEF Settle, DialMismatch, DialFails, AcceptFails, world, channels
    <2>2. QED
      BY <2>1, <1>1
  <1>11. CASE UNCHANGED vars
    BY <1>11, <1>1 DEF vars, world, channels
  <1>12. ~LoopEnds /\ ~Overrun /\ ~Disable
    BY DEF LoopEnds, Overrun, Disable, Aborted, LoopState, Informed
  <1>13. QED
    BY <1>3, <1>5, <1>6, <1>7, <1>8, <1>9, <1>10, <1>11, <1>12
    DEF Next, handle_disable_transport, handle_enable_transport, LoopStep, DialStep

\* The map names only held peers: a wire id enters it after its registration
\* and leaves it when the loss of its peer is taken up.
LEMMA MappedStep == IInv /\ [Next]_vars => MappedIsHeld'
  <1> SUFFICES ASSUME IInv, [Next]_vars, Informed'
               PROVE  MappedIsHeld'
    BY DEF MappedIsHeld
  <1> USE DEF IInv
  <1>1. CASE Enable
    BY <1>1 DEF Enable, LoopState, MappedIsHeld
  <1>2. SUFFICES ASSUME ~Enable
                 PROVE  MappedIsHeld'
    BY <1>1
  <1>3. /\ Informed
        /\ \A u \in mapped : u \in Wires /\ Held(AppOf[u])
        /\ \A u \in hand : u \in Wires
    BY <1>2, InformedBefore DEF MappedIsHeld, TypeOK
  <1>4. ASSUME NEW u \in Wires, Held(AppOf[u]), ~(TakeDown /\ Head(events).app = AppOf[u])
        PROVE  Held(AppOf[u])'
    BY <1>2, <1>3, <1>4, HeldStep, ConnectAssumption
  <1>5. CASE TakeDown
    <2>1. /\ at' = "idle"
          /\ \A u \in mapped' : u \in mapped /\ AppOf[u] # Head(events).app
      BY <1>5 DEF TakeDown, DeadWires
    <2>2. QED
      BY <2>1, <1>3, <1>4 DEF MappedIsHeld
  <1>6. SUFFICES ASSUME ~TakeDown
                 PROVE  MappedIsHeld'
    BY <1>5
  <1>7. ASSUME NEW w \in Wires, Register(w)
        PROVE  MappedIsHeld'
    <2>1. hand' = {w} /\ mapped' = mapped /\ AppOf[w] \in peers'
      BY <1>7 DEF Register, Shape, Dialling, Accepting
    <2>2. Held(AppOf[w])'
      BY <2>1 DEF Held
    <2>3. QED
      BY <2>1, <2>2, <1>3, <1>4, <1>6 DEF MappedIsHeld
  <1>8. ASSUME NEW w \in Wires, Settle(w)
        PROVE  MappedIsHeld'
    <2>1. mapped' = mapped \union {w} /\ at' = "idle" /\ Held(AppOf[w])
      BY <1>8, <1>3 DEF Settle, Idle, MappedIsHeld
    <2>2. QED
      BY <2>1, <1>3, <1>4, <1>6 DEF MappedIsHeld
  <1>9. CASE TakeLagged
    BY <1>9 DEF TakeLagged, MappedIsHeld
  <1>10. ASSUME UNCHANGED mapped, at' \in {"dialled", "accepted"} => UNCHANGED <<at, hand>>
         PROVE  MappedIsHeld'
    BY <1>3, <1>4, <1>6, <1>10 DEF MappedIsHeld
  <1>11. CASE ScanStep \/ TakePeer \/ TakeUp \/ UNCHANGED vars
    BY <1>11, <1>10 DEF ScanStep, ScanDrain, ScanRound, ScanSend, ScanEnds, TakePeer, TakeUp,
                        vars, loop
  <1>12. ASSUME NEW w \in Wires, TimerFires(w) \/ TakeConn(w) \/ Appear(w)
         PROVE  MappedIsHeld'
    BY <1>12, <1>10 DEF TimerFires, TakeConn, Appear, loop
  <1>13. ASSUME NEW w \in Wires, DialMismatch(w) \/ DialFails(w) \/ AcceptFails(w)
         PROVE  MappedIsHeld'
    BY <1>13, <1>10 DEF DialMismatch, DialFails, AcceptFails, Idle
  <1>14. ASSUME NEW a \in Apps, Lose(a) \/ Elsewhere(a)
         PROVE  MappedIsHeld'
    BY <1>14, <1>10 DEF Lose, Elsewhere, loop
  <1>15. ~LoopEnds /\ ~Overrun /\ ~Disable
    BY DEF LoopEnds, Overrun, Disable, Aborted, LoopState, Informed
  <1>16. QED
    BY <1>2, <1>6, <1>7, <1>8, <1>9, <1>11, <1>12, <1>13, <1>14, <1>15
    DEF Next, handle_disable_transport, handle_enable_transport, LoopStep, DialStep

\* Nothing stays marked as taken once the loop is done with it.
LEMMA TakenStep == IInv /\ [Next]_vars => TakenIsMapped'
  <1> SUFFICES ASSUME IInv, [Next]_vars, Informed'
               PROVE  TakenIsMapped'
    BY DEF TakenIsMapped
  <1> USE DEF IInv
  <1>1. CASE Enable
    BY <1>1 DEF Enable, LoopState, TakenIsMapped
  <1>2. SUFFICES ASSUME ~Enable
                 PROVE  TakenIsMapped'
    BY <1>1
  <1>3. Informed /\ engaged \union inbound \subseteq hand \union mapped
    BY <1>2, InformedBefore DEF TakenIsMapped
  <1>4. ASSUME UNCHANGED <<engaged, inbound, hand, mapped>>
        PROVE  TakenIsMapped'
    BY <1>3, <1>4 DEF TakenIsMapped
  <1>5. CASE TakePeer
    BY <1>5, <1>3 DEF TakePeer, TakenIsMapped, Shape
  <1>6. ASSUME NEW w \in Wires, TakeConn(w)
        PROVE  TakenIsMapped'
    BY <1>6, <1>3 DEF TakeConn, TakenIsMapped, Shape
  <1>7. ASSUME NEW w \in Wires, Settle(w)
        PROVE  TakenIsMapped'
    <2>1. hand = {w}
      BY <1>7 DEF Settle, Shape, Dialling, Accepting
    <2>2. QED
      BY <1>7, <2>1, <1>3 DEF Settle, TakenIsMapped, Idle
  <1>8. ASSUME NEW w \in Wires, DialMismatch(w) \/ DialFails(w)
        PROVE  TakenIsMapped'
    <2>1. hand = {w} /\ w \notin inbound
      BY <1>8 DEF DialMismatch, DialFails, Shape, Dialling
    <2>2. engaged' = engaged \ {w} /\ inbound' = inbound /\ mapped' = mapped
      BY <1>8 DEF DialMismatch, DialFails
    <2>3. QED
      BY <2>1, <2>2, <1>3 DEF TakenIsMapped
  <1>9. ASSUME NEW w \in Wires, AcceptFails(w)
        PROVE  TakenIsMapped'
    <2>1. hand = {w}
      BY <1>9 DEF AcceptFails, Shape, Accepting
    <2>2. QED
      BY <1>9, <2>1, <1>3 DEF AcceptFails, TakenIsMapped
  <1>10. CASE TakeDown
    BY <1>10, <1>3 DEF TakeDown, Released, TakenIsMapped
  <1>11. ~TakeLagged
    BY <1>3 DEF TakeLagged, Shape, Informed
  <1>12. CASE ScanStep \/ TakeUp \/ UNCHANGED vars
    BY <1>12, <1>4 DEF ScanStep, ScanDrain, ScanRound, ScanSend, ScanEnds, TakeUp, vars, loop
  <1>13. ASSUME NEW w \in Wires, TimerFires(w) \/ Appear(w) \/ Register(w)
         PROVE  TakenIsMapped'
    BY <1>13, <1>4 DEF TimerFires, Appear, Register, loop
  <1>14. ASSUME NEW a \in Apps, Lose(a) \/ Elsewhere(a)
         PROVE  TakenIsMapped'
    BY <1>14, <1>4 DEF Lose, Elsewhere, loop
  <1>15. ~LoopEnds /\ ~Overrun /\ ~Disable
    BY DEF LoopEnds, Overrun, Disable, Aborted, LoopState, Informed
  <1>16. QED
    BY <1>2, <1>5, <1>6, <1>7, <1>8, <1>9, <1>10, <1>11, <1>12, <1>13, <1>14, <1>15
    DEF Next, handle_disable_transport, handle_enable_transport, LoopStep, DialStep

\* A wire id that loses one reason to come up again has another.
LEMMA ReasonStep == IInv /\ [Next]_vars => SeenHasReason'
  <1> SUFFICES ASSUME IInv, [Next]_vars, Informed', scan' # "ended", NEW u \in seen'
               PROVE  Reason(u)'
    BY DEF SeenHasReason
  <1> USE DEF IInv
  <1>1. ~Enable
    BY DEF Enable, ScannerState
  <1>2. Informed /\ scan # "ended"
    <2>1. Informed
      BY <1>1, InformedBefore
    <2>2. scan # "ended"
      <3>1. ~LoopEnds /\ ~Overrun /\ ~Disable
        BY DEF LoopEnds, Overrun, Disable, Aborted, LoopState, Informed
      <3>2. QED
        BY <1>1, <3>1 DEF Next, handle_disable_transport, handle_enable_transport, ScanStep,
            LoopStep, DialStep, ScanDrain, ScanRound, ScanSend, ScanEnds,
          ScannerState, TimerFires, TakePeer, TakeConn, Register, Settle, DialMismatch, DialFails,
          AcceptFails, TakeUp, TakeDown, TakeLagged, Lose, Elsewhere, Appear, scanner, vars
    <2>3. QED
      BY <2>1, <2>2
  <1>3. \A x \in seen : Reason(x)
    BY <1>2 DEF SeenHasReason
  <1>4. ASSUME Held(AppOf[u]), ~(TakeDown /\ Head(events).app = AppOf[u]), u \in Wires
        PROVE  Held(AppOf[u])'
    BY <1>1, <1>2, <1>4, HeldStep, ConnectAssumption
  <1>5. u \in Wires /\ attempts[u] \in Nat /\ timers[u] \in Nat /\ MaxRetries \in Nat
    <2>1. u \in Wires
      BY TypeStep DEF TypeOK
    <2>2. QED
      BY <2>1, ConnectAssumption DEF TypeOK
  <1>6. ASSUME u \in seen, ~TakeDown,
               u \in fresh \union Entries(found) => u \in fresh' \union Entries(found'),
               Dialling /\ u \in hand => Reason(u)',
               timers[u] > 0 \/ u \in Entries(unsee) => timers'[u] > 0 \/ u \in Entries(unsee'),
               attempts[u] >= MaxRetries => attempts'[u] >= MaxRetries,
               u \in mapped => u \in mapped'
        PROVE  Reason(u)'
    <2>1. Held(AppOf[u]) => Held(AppOf[u])'
      BY <1>4, <1>5, <1>6
    <2>2. QED
      BY <1>3, <1>6, <2>1 DEF Reason
  <1>7. CASE TakeDown
    <2> DEFINE dead == DeadWires(Head(events).app)
    <2>1. PICK s \in Sendable(dead) : unsee' = unsee \o s
      BY <1>7, <1>2 DEF TakeDown
    <2>2. ~Unsent(dead)
      BY <1>7, <1>2 DEF TakeDown, Informed
    <2>3. dead \in SUBSET Wires
      BY DEF DeadWires, TypeOK
    <2>4. s \in Seq(Wires) /\ Entries(s) = dead
      BY <2>2, <2>3, SendableSent
    <2>5. Entries(unsee') = Entries(unsee) \union dead
      BY <2>1, <2>4, EntriesConcat DEF TypeOK
    <2>6. CASE u \in dead
      BY <2>5, <2>6 DEF Reason
    <2>7. CASE u \notin dead
      <3>1. u \in seen /\ UNCHANGED <<fresh, found, timers, hand, at>> /\ attempts'[u] = attempts[u]
        BY <1>7, <1>5, <2>7 DEF TakeDown, scanner
      <3>2. u \in mapped => u \in mapped' /\ AppOf[u] # Head(events).app
        BY <1>7, <2>7 DEF TakeDown, DeadWires
      <3>3. u \in mapped /\ Held(AppOf[u]) => u \in mapped' /\ Held(AppOf[u])'
        BY <3>2, <1>4, <1>5
      <3>4. QED
        BY <1>3, <2>5, <3>1, <3>3 DEF Reason, Dialling
    <2>8. QED
      BY <2>6, <2>7
  <1>8. SUFFICES ASSUME ~TakeDown
                 PROVE  Reason(u)'
    BY <1>7
  <1>9. CASE ScanDrain
    <2>1. /\ u \in seen /\ u \notin Entries(unsee)
          /\ UNCHANGED <<fresh, found, timers, attempts, mapped, at, hand>>
      BY <1>9 DEF ScanDrain, loop
    <2>2. QED
      BY <2>1, <1>6, <1>8 DEF Reason, Dialling
  <1>10. CASE ScanRound
    <2>1. fresh = {} /\ UNCHANGED <<found, unsee, timers, attempts, mapped, at, hand>>
      BY <1>10 DEF ScanRound, Shape, loop, channels
    <2>2. u \in fresh' \/ u \in seen
      BY <1>10 DEF ScanRound
    <2>3. CASE u \in fresh'
      BY <2>3 DEF Reason
    <2>4. CASE u \in seen
      BY <2>1, <2>4, <1>6, <1>8 DEF Reason, Dialling
    <2>5. QED
      BY <2>2, <2>3, <2>4
  <1>11. ASSUME NEW w \in Wires, ScanSend(w)
         PROVE  Reason(u)'
    <2>1. Entries(found') = Entries(found) \union {w}
      BY <1>11, EntriesAppend DEF ScanSend, TypeOK
    <2>2. u \in seen /\ fresh' = fresh \ {w} /\ UNCHANGED <<unsee, timers, attempts, mapped, at, hand>>
      BY <1>11 DEF ScanSend, loop
    <2>3. QED
      BY <2>1, <2>2, <1>6, <1>8 DEF Reason, Dialling
  <1>12. ~ScanEnds
    BY DEF ScanEnds, ScannerState
  <1>13. ASSUME NEW w \in Wires, TimerFires(w)
         PROVE  Reason(u)'
    <2>1. unsee' = Append(unsee, w) /\ timers' = [timers EXCEPT ![w] = @ - 1]
      BY <1>13, <1>2 DEF TimerFires
    <2>2. Entries(unsee') = Entries(unsee) \union {w}
      BY <2>1, EntriesAppend DEF TypeOK
    <2>3. u # w => timers'[u] = timers[u]
      BY <2>1, <1>5 DEF TypeOK
    <2>4. u \in seen /\ UNCHANGED <<fresh, found, attempts, mapped, at, hand>>
      BY <1>13 DEF TimerFires, scanner, loop
    <2>5. QED
      BY <2>2, <2>3, <2>4, <1>6, <1>8 DEF Reason, Dialling
  <1>14. CASE TakePeer
    <2> DEFINE h == Head(found)
    <2>1. Entries(found) = {h} \union Entries(found') /\ h \in Wires
      BY <1>14, EntriesTail DEF TakePeer, TypeOK
    <2>2. u \in seen /\ hand = {} /\ UNCHANGED <<fresh, unsee, timers, mapped, events, peers>>
      BY <1>14 DEF TakePeer, Shape, scanner, world
    <2>3. u # h => attempts'[u] = attempts[u]
      BY <1>14, <1>5 DEF TakePeer, TypeOK
    <2>4. CASE u = h
      <3>1. CASE Deduped(h)
        <4>1. h \in mapped
          BY <2>2, <3>1, <1>2 DEF Deduped, TakenIsMapped
        <4>2. Held(AppOf[u])
          BY <4>1, <2>4, <1>2 DEF MappedIsHeld
        <4>3. QED
          BY <2>2, <2>4, <4>1, <4>2 DEF Reason, Held
      <3>2. CASE Spent(h) /\ ~Deduped(h)
        <4>1. attempts' = attempts
          BY <1>14, <3>2 DEF TakePeer
        <4>2. QED
          BY <2>4, <3>2, <4>1 DEF Reason, Spent
      <3>3. CASE ~Spent(h) /\ ~Deduped(h)
        <4>1. at' = "dial" /\ hand' = {h}
          BY <1>14, <3>3 DEF TakePeer
        <4>2. QED
          BY <2>4, <4>1 DEF Reason, Dialling
      <3>4. QED
        BY <3>1, <3>2, <3>3
    <2>5. CASE u # h
      BY <2>1, <2>2, <2>3, <2>5, <1>6, <1>8
    <2>6. QED
      BY <2>4, <2>5
  <1>15. ASSUME NEW w \in Wires, TakeConn(w)
         PROVE  Reason(u)'
    <2>1. u \in seen /\ hand = {} /\ UNCHANGED <<fresh, found, unsee, timers, attempts, mapped>>
      BY <1>15 DEF TakeConn, Shape, scanner, channels
    <2>2. QED
      BY <2>1, <1>6, <1>8
  <1>16. ASSUME NEW w \in Wires, Register(w)
         PROVE  Reason(u)'
    <2>1. u \in seen /\ UNCHANGED <<fresh, found, unsee, timers, attempts, mapped, hand>>
      BY <1>16 DEF Register, scanner
    <2>2. Dialling => Dialling'
      BY <1>16 DEF Register, Dialling
    <2>3. Dialling /\ u \in hand => Reason(u)'
      BY <2>1, <2>2 DEF Reason
    <2>4. QED
      BY <2>1, <2>3, <1>6, <1>8
  <1>17. ASSUME NEW w \in Wires, Settle(w)
         PROVE  Reason(u)'
    <2>1. hand = {w}
      BY <1>17 DEF Settle, Shape, Dialling, Accepting
    <2>2. u \in seen /\ UNCHANGED <<fresh, found, unsee, timers>> /\ mapped' = mapped \union {w}
      BY <1>17 DEF Settle, scanner, channels
    <2>3. u # w => attempts'[u] = attempts[u]
      BY <1>17, <1>5 DEF Settle, TypeOK
    <2>4. CASE u = w
      <3>1. Held(AppOf[u])
        BY <1>17, <2>1, <2>4, <1>2 DEF Settle, MappedIsHeld
      <3>2. Held(AppOf[u])'
        BY <3>1, <1>4, <1>5, <1>8
      <3>3. QED
        BY <2>2, <2>4, <3>2 DEF Reason
    <2>5. CASE u # w
      BY <2>1, <2>2, <2>3, <2>5, <1>6, <1>8
    <2>6. QED
      BY <2>4, <2>5
  <1>18. ASSUME NEW w \in Wires, DialMismatch(w)
         PROVE  Reason(u)'
    <2>1. hand = {w}
      BY <1>18 DEF DialMismatch, Shape, Dialling
    <2>2. u \in seen /\ UNCHANGED <<fresh, found, unsee, timers, mapped>>
      BY <1>18 DEF DialMismatch, scanner, channels
    <2>3. attempts'[w] = MaxRetries /\ (u # w => attempts'[u] = attempts[u])
      BY <1>18, <1>5 DEF DialMismatch, TypeOK
    <2>4. CASE u = w
      BY <2>3, <2>4, <1>5 DEF Reason
    <2>5. CASE u # w
      BY <2>1, <2>2, <2>3, <2>5, <1>6, <1>8
    <2>6. QED
      BY <2>4, <2>5
  <1>19. ASSUME NEW w \in Wires, DialFails(w)
         PROVE  Reason(u)'
    <2>1. hand = {w}
      BY <1>19 DEF DialFails, Shape, Dialling
    <2>2. u \in seen /\ UNCHANGED <<fresh, found, unsee, attempts, mapped>>
      BY <1>19 DEF DialFails, scanner
    <2>3. timers'[u] >= timers[u] /\ (u = w => timers'[u] > 0)
      BY <1>19, <1>5 DEF DialFails, TypeOK
    <2>4. CASE u = w
      BY <2>3, <2>4 DEF Reason
    <2>5. CASE u # w
      <3>1. timers'[u] = timers[u]
        BY <1>19, <2>5, <1>5 DEF DialFails, TypeOK
      <3>2. QED
        BY <2>1, <2>2, <3>1, <2>5, <1>6, <1>8
    <2>6. QED
      BY <2>4, <2>5
  <1>20. ASSUME NEW w \in Wires, AcceptFails(w)
         PROVE  Reason(u)'
    <2>1. u \in seen /\ ~Dialling /\ UNCHANGED <<fresh, found, unsee, timers, attempts, mapped>>
      BY <1>20 DEF AcceptFails, Dialling, scanner, channels
    <2>2. QED
      BY <2>1, <1>6, <1>8
  <1>21. CASE TakeUp \/ UNCHANGED vars
    <2>1. u \in seen /\ UNCHANGED <<fresh, found, unsee, timers, attempts, mapped, at, hand>>
      BY <1>21 DEF TakeUp, scanner, channels, loop, vars
    <2>2. QED
      BY <2>1, <1>6, <1>8 DEF Reason, Dialling
  <1>22. ~TakeLagged
    BY <1>2 DEF TakeLagged, Shape, Informed
  <1>23. ASSUME NEW w \in Wires, Appear(w)
         PROVE  Reason(u)'
    <2>1. u \in seen /\ UNCHANGED <<fresh, found, unsee, timers, attempts, mapped, at, hand>>
      BY <1>23 DEF Appear, scanner, channels, loop
    <2>2. QED
      BY <2>1, <1>6, <1>8 DEF Reason, Dialling
  <1>24. ASSUME NEW a \in Apps, Lose(a) \/ Elsewhere(a)
         PROVE  Reason(u)'
    <2>1. u \in seen /\ UNCHANGED <<fresh, found, unsee, timers, attempts, mapped, at, hand>>
      BY <1>24 DEF Lose, Elsewhere, scanner, loop
    <2>2. QED
      BY <2>1, <1>6, <1>8 DEF Reason, Dialling
  <1>25. ~LoopEnds /\ ~Overrun /\ ~Disable
    BY DEF LoopEnds, Overrun, Disable, Aborted, LoopState, Informed
  <1>26. QED
    BY <1>1, <1>8, <1>9, <1>10, <1>11, <1>12, <1>13, <1>14, <1>15, <1>16, <1>17, <1>18, <1>19,
       <1>20, <1>21, <1>22, <1>23, <1>24, <1>25
    DEF Next, handle_disable_transport, handle_enable_transport, ScanStep, LoopStep, DialStep

-----------------------------------------------------------------------------
(* The theorems.                                                           *)

\* The invariant holds initially.
LEMMA IInvInit == Init => IInv
  BY TypeInit DEF IInv, Init, Shape, MappedIsHeld, TakenIsMapped, SeenHasReason, Informed,
                  Dialling, Accepting

\* ... and every step keeps it.
LEMMA IInvStep == IInv /\ [Next]_vars => IInv'
  BY TypeStep, ShapeStep, MappedStep, TakenStep, ReasonStep DEF IInv

\* Scanner, connect_loop and channels keep their types, the retry budget and
\* their capacities.
THEOREM ConnectTypes == Spec => []TypeOK
  <1>1. IInv => TypeOK
    BY DEF IInv
  <1>2. QED
    BY <1>1, IInvInit, IInvStep, PTL DEF Spec

\* connect_loop ignores a discovery only while the peer is connected or its
\* PeerDisconnected is waiting.
THEOREM IgnoredOnlyWhileConnected == Spec => []IgnoredIsConnected
  <1>1. IInv => IgnoredIsConnected
    <2> SUFFICES ASSUME IInv, at = "idle", ~tainted, NEW w \in Wires, Deduped(w)
                 PROVE  Held(AppOf[w])
      BY DEF IgnoredIsConnected
    <2>1. Informed /\ hand = {}
      BY DEF Informed, IInv, Shape
    <2>2. w \in mapped
      BY <2>1 DEF Deduped, IInv, TakenIsMapped
    <2>3. QED
      BY <2>1, <2>2 DEF IInv, MappedIsHeld
  <1>2. QED
    BY <1>1, IInvInit, IInvStep, PTL DEF Spec

\* Scanner and connect_loop together forget no wire id.
THEOREM NothingForgotten == Spec => []NoPeerForgotten
  <1>1. IInv => NoPeerForgotten
    BY DEF IInv, SeenHasReason, Reason, Informed, NoPeerForgotten
  <1>2. QED
    BY <1>1, IInvInit, IInvStep, PTL DEF Spec
=============================================================================
