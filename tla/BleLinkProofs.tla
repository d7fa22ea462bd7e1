---------------------------- MODULE BleLinkProofs ----------------------------
(***************************************************************************)
(* What the peripheral and its centrals keep true, for any number of       *)
(* centrals, subscriptions and frames and any length of the queue.         *)
(***************************************************************************)
EXTENDS BleLink, SequenceTheorems, TLAPS

-----------------------------------------------------------------------------
(* The inductive invariant.                                                *)

\* Subscriptions that still wait in the queue: at most one report is before them.
Waiting == IF events # <<>> /\ Head(events) \notin Centrals THEN Len(events) - 1 ELSE Len(events)

\* Until the peripheral is up nothing is accepted; then every event is a
\* subscription that wait_for_central still has to take.
EventsCounted ==
    /\ bring # "up" => conns = <<>>
    /\ IF bring = "up" THEN events \in Seq(Centrals)
                       ELSE events # <<>> => Tail(events) \in Seq(Centrals)
    /\ Len(conns) <= taken /\ taken + Waiting <= subs

\* The map has, for each central, the one connection that it can still reach,
\* and that is the one whose channel is open.
ChannelsOwned ==
    /\ \A c \in Centrals : chan[c] # 0 =>
          chan[c] \in DOMAIN conns /\ conns[chan[c]].central = c
    /\ \A k \in DOMAIN conns : conns[k].open => chan[conns[k].central] = k

\* Whoever was refused has been woken, or will be when the queue drains.
WakeupsPending ==
    \A k \in Conns :
        writer[k] \in {"refused", "parked"} => k \in woken \/ (wantReady /\ cbq # <<>>)

\* What connection k was given, read or not.
Given(k) == conns[k].read \o conns[k].q

\* Consecutive frames of central c, under one subscription.
Consecutive(s, c) == \A i \in DOMAIN s : s[i] = <<c, s[1][2] + i - 1, s[1][3]>>

\* The last frame that a reachable connection was given is the last that its
\* central wrote.
ChannelsCurrent ==
    /\ \A c \in Centrals : wrote[c] <= frames
    /\ \A k \in DOMAIN conns :
          chan[conns[k].central] = k /\ Given(k) # <<>> =>
              Given(k)[Len(Given(k))] = <<conns[k].central, wrote[conns[k].central],
                                          latest[conns[k].central]>>

\* A reachable connection that was given frames, or was accepted in time, is of
\* the subscription that its central has.
SubsCurrent ==
    /\ \A c \in Centrals : /\ link[c] # "off" <=> c \in subscribed
                           /\ link[c] # "off" => latest[c] \in Conns
    /\ \A k \in DOMAIN conns : chan[conns[k].central] = k =>
          /\ Given(k) # <<>> => link[conns[k].central] # "off"
          /\ k \notin stale => /\ link[conns[k].central] # "off"
                               /\ conns[k].sub = latest[conns[k].central]

IInv == /\ TypeOK /\ EventsCounted
        /\ ChannelsOwned /\ OpenMeansSubscribed /\ SubsCurrent
        /\ WakeupsPending
        /\ ChannelsCurrent /\ ReadsItsOwnCentral

ConnRecs == [central : Centrals, sub : Conns, q : Seq(Letters), open : BOOLEAN,
             read : Seq(Letters)]

-----------------------------------------------------------------------------
(* Facts about sequences and channels.                                     *)

\* Append and Tail, by position.
LEMMA Appended ==
    ASSUME NEW S, NEW q \in Seq(S), NEW e \in S
    PROVE  /\ Append(q, e) \in Seq(S)
           /\ Len(Append(q, e)) = Len(q) + 1
           /\ DOMAIN Append(q, e) = 1..(Len(q) + 1)
           /\ \A i \in 1..Len(q) : Append(q, e)[i] = q[i]
           /\ Append(q, e)[Len(q) + 1] = e
  BY AppendProperties, LenProperties

\* A frame that is queued is given last.
LEMMA QueuedIsLast ==
    ASSUME NEW S, NEW r \in Seq(S), NEW q \in Seq(S), NEW e \in S
    PROVE  r \o Append(q, e) = Append(r \o q, e)
  <1> DEFINE a == r \o Append(q, e)
             b == Append(r \o q, e)
  <1>1. /\ Len(r) \in Nat /\ Len(q) \in Nat
        /\ Append(q, e) \in Seq(S) /\ Len(Append(q, e)) = Len(q) + 1
        /\ \A i \in 1..Len(q) : Append(q, e)[i] = q[i]
        /\ Append(q, e)[Len(q) + 1] = e
    BY Appended, LenProperties
  <1>2. /\ r \o q \in Seq(S) /\ Len(r \o q) = Len(r) + Len(q)
        /\ \A i \in 1..(Len(r) + Len(q)) :
              (r \o q)[i] = IF i <= Len(r) THEN r[i] ELSE q[i - Len(r)]
    BY ConcatProperties
  <1>3. /\ a \in Seq(S) /\ Len(a) = Len(r) + Len(q) + 1
        /\ \A i \in 1..(Len(r) + Len(q) + 1) :
              a[i] = IF i <= Len(r) THEN r[i] ELSE Append(q, e)[i - Len(r)]
    BY <1>1, ConcatProperties
  <1>4. /\ b \in Seq(S) /\ Len(b) = Len(r) + Len(q) + 1
        /\ \A i \in 1..(Len(r) + Len(q)) : b[i] = (r \o q)[i]
        /\ b[Len(r) + Len(q) + 1] = e
    BY <1>1, <1>2, Appended
  <1>5. ASSUME NEW i \in 1..Len(a) PROVE a[i] = b[i]
    <2>1. CASE i <= Len(r)
      BY <1>1, <1>2, <1>3, <1>4, <2>1
    <2>2. CASE i > Len(r) /\ i <= Len(r) + Len(q)
      BY <1>1, <1>2, <1>3, <1>4, <2>2
    <2>3. CASE i = Len(r) + Len(q) + 1
      BY <1>1, <1>3, <1>4, <2>3
    <2> QED  BY <1>1, <1>3, <2>1, <2>2, <2>3
  <1> QED  BY <1>3, <1>4, <1>5, SeqEqual

\* Reading the head of the queue changes nothing in what was given.
LEMMA ReadStaysGiven ==
    ASSUME NEW S, NEW r \in Seq(S), NEW q \in Seq(S), q # <<>>
    PROVE  Append(r, Head(q)) \o Tail(q) = r \o q
  <1> DEFINE a == Append(r, Head(q)) \o Tail(q)
             b == r \o q
  <1>1. /\ Len(r) \in Nat /\ Len(q) \in Nat /\ Len(q) >= 1
        /\ Head(q) \in S /\ Head(q) = q[1]
        /\ Tail(q) \in Seq(S) /\ Len(Tail(q)) = Len(q) - 1
        /\ \A i \in 1..(Len(q) - 1) : Tail(q)[i] = q[i + 1]
    BY HeadTailProperties, LenProperties, EmptySeq
  <1>2. /\ Append(r, Head(q)) \in Seq(S) /\ Len(Append(r, Head(q))) = Len(r) + 1
        /\ \A i \in 1..Len(r) : Append(r, Head(q))[i] = r[i]
        /\ Append(r, Head(q))[Len(r) + 1] = q[1]
    BY <1>1, Appended
  <1>3. /\ b \in Seq(S) /\ Len(b) = Len(r) + Len(q)
        /\ \A i \in 1..(Len(r) + Len(q)) :
              b[i] = IF i <= Len(r) THEN r[i] ELSE q[i - Len(r)]
    BY ConcatProperties
  <1>4. /\ a \in Seq(S) /\ Len(a) = Len(r) + Len(q)
        /\ \A i \in 1..(Len(r) + Len(q)) :
              a[i] = IF i <= Len(r) + 1 THEN Append(r, Head(q))[i]
                                        ELSE Tail(q)[i - (Len(r) + 1)]
    BY <1>1, <1>2, ConcatProperties
  <1>5. ASSUME NEW i \in 1..Len(a) PROVE a[i] = b[i]
    <2>1. CASE i <= Len(r)
      BY <1>1, <1>2, <1>3, <1>4, <2>1
    <2>2. CASE i = Len(r) + 1
      BY <1>1, <1>2, <1>3, <1>4, <2>2
    <2>3. CASE i > Len(r) + 1
      <3>1. a[i] = Tail(q)[i - (Len(r) + 1)] /\ i - (Len(r) + 1) \in 1..(Len(q) - 1)
        BY <1>1, <1>4, <2>3
      <3>2. Tail(q)[i - (Len(r) + 1)] = q[(i - (Len(r) + 1)) + 1]
        BY <1>1, <3>1
      <3>3. (i - (Len(r) + 1)) + 1 = i - Len(r)
        BY <1>1
      <3> QED  BY <1>1, <1>3, <1>4, <2>3, <3>1, <3>2, <3>3
    <2> QED  BY <1>1, <1>4, <2>1, <2>2, <2>3
  <1> QED  BY <1>3, <1>4, <1>5, SeqEqual

\* The frame after the last keeps a central's frames consecutive.
LEMMA NextIsConsecutive ==
    ASSUME NEW s \in Seq(Letters), NEW c \in Centrals, NEW n \in Frames, NEW u \in Conns,
           Consecutive(s, c), s # <<>> => s[Len(s)] = <<c, n - 1, u>>
    PROVE  /\ Consecutive(Append(s, <<c, n, u>>), c)
           /\ Append(s, <<c, n, u>>)[1][3] = u
  <1> DEFINE e == <<c, n, u>>
  <1>1. e \in Letters /\ n \in Int /\ Len(s) \in Nat /\ DOMAIN s = 1..Len(s)
    BY LenProperties DEF Letters, Frames
  <1>2. e[1] = c /\ e[2] = n /\ e[3] = u
    OBVIOUS
  <1> HIDE DEF e
  <1>3. /\ DOMAIN Append(s, e) = 1..(Len(s) + 1)
        /\ \A i \in 1..Len(s) : Append(s, e)[i] = s[i]
        /\ Append(s, e)[Len(s) + 1] = e
    BY <1>1, Appended
  <1>4. CASE s = <<>>
    <2>1. DOMAIN Append(s, e) = {1} /\ Append(s, e)[1] = e
      BY <1>3, <1>4, EmptySeq
    <2>2. e = <<c, e[2] + 1 - 1, e[3]>>
      BY <1>1, <1>2 DEF e
    <2> QED  BY <1>2, <2>1, <2>2 DEF Consecutive, e
  <1>5. CASE s # <<>>
    <2>1. Len(s) >= 1
      BY <1>1, <1>5, EmptySeq
    <2>2. s[1] \in Letters /\ s[1][2] \in Int
      BY <1>1, <2>1 DEF Letters, Frames
    <2>3. s[Len(s)] = <<c, s[1][2] + Len(s) - 1, s[1][3]>>
      BY <1>1, <2>1 DEF Consecutive
    <2>4. s[1][2] + Len(s) - 1 = n - 1 /\ s[1][3] = u
      BY <1>5, <2>3
    <2>5. Append(s, e)[1] = s[1]
      BY <1>1, <1>3, <2>1
    <2>6. ASSUME NEW i \in 1..(Len(s) + 1)
          PROVE  Append(s, e)[i] = <<c, Append(s, e)[1][2] + i - 1, Append(s, e)[1][3]>>
      <3>1. CASE i <= Len(s)
        BY <1>1, <1>3, <2>5, <3>1 DEF Consecutive
      <3>2. CASE i = Len(s) + 1
        <4>1. s[1][2] + i - 1 = n
          BY <1>1, <2>2, <2>4, <3>2
        <4> QED  BY <1>3, <2>4, <2>5, <3>2, <4>1 DEF e
      <3> QED  BY <1>1, <3>1, <3>2
    <2> QED  BY <1>3, <2>4, <2>5, <2>6 DEF Consecutive, e
  <1> QED  BY <1>4, <1>5

\* Closing a channel changes nothing else of the connections.
LEMMA Closed ==
    ASSUME NEW cs \in Seq(ConnRecs), NEW k
    PROVE  /\ CloseChannel(cs, k) \in Seq(ConnRecs)
           /\ Len(CloseChannel(cs, k)) = Len(cs)
           /\ DOMAIN CloseChannel(cs, k) = DOMAIN cs
           /\ \A i \in DOMAIN cs :
                 /\ CloseChannel(cs, k)[i].central = cs[i].central
                 /\ CloseChannel(cs, k)[i].sub = cs[i].sub
                 /\ CloseChannel(cs, k)[i].q = cs[i].q
                 /\ CloseChannel(cs, k)[i].read = cs[i].read
                 /\ CloseChannel(cs, k)[i].open => i # k /\ cs[i].open
  <1>1. /\ Len(cs) \in Nat /\ DOMAIN cs = 1..Len(cs)
        /\ \A i \in 1..Len(cs) : cs[i] \in ConnRecs
    BY LenProperties, ElementOfSeq
  <1>2. ASSUME NEW i \in DOMAIN cs
        PROVE  /\ CloseChannel(cs, k)[i] \in ConnRecs
               /\ CloseChannel(cs, k)[i].central = cs[i].central
               /\ CloseChannel(cs, k)[i].sub = cs[i].sub
               /\ CloseChannel(cs, k)[i].q = cs[i].q
               /\ CloseChannel(cs, k)[i].read = cs[i].read
               /\ CloseChannel(cs, k)[i].open => i # k /\ cs[i].open
    <2>1. cs[i] \in ConnRecs
      BY <1>1
    <2>2. CASE i = k
      <3>1. CloseChannel(cs, k)[i] = [cs[i] EXCEPT !.open = FALSE]
        BY <2>2 DEF CloseChannel
      <3> QED  BY <2>1, <3>1 DEF ConnRecs
    <2>3. CASE i # k
      <3>1. CloseChannel(cs, k)[i] = cs[i]
        BY <2>3 DEF CloseChannel
      <3> QED  BY <2>1, <2>3, <3>1
    <2> QED  BY <2>2, <2>3
  <1>3. /\ DOMAIN CloseChannel(cs, k) = 1..Len(cs)
        /\ CloseChannel(cs, k) = [i \in 1..Len(cs) |-> CloseChannel(cs, k)[i]]
    BY <1>1 DEF CloseChannel
  <1>4. CloseChannel(cs, k) \in Seq(ConnRecs)
    BY <1>1, <1>2, <1>3
  <1> QED  BY <1>1, <1>2, <1>3, <1>4, LenProperties

-----------------------------------------------------------------------------
(* The initial states, and the types.                                      *)

\* The initial states satisfy the invariant.
LEMMA InitIInv == Init => IInv
  <1> SUFFICES ASSUME Init PROVE IInv
    OBVIOUS
  <1> USE BleAssumption DEF Init
  <1>1. TypeOK
    <2>1. /\ bring \in Bring /\ events \in Seq(Events) /\ subscribed \in SUBSET Centrals
          /\ chan \in [Centrals -> 0..MaxSubs] /\ early \in SUBSET Conns
          /\ woken \in SUBSET Conns /\ reading \in SUBSET Centrals
          /\ stale \in SUBSET Conns /\ taken \in 0..MaxSubs /\ latest \in [Centrals -> 0..MaxSubs]
      BY DEF Bring
    <2>2. /\ conns \in Seq(ConnRecs) /\ Len(conns) <= MaxSubs
          /\ cbq \in Seq(SUBSET Centrals) /\ Len(cbq) <= QueueCap
      OBVIOUS
    <2>3. /\ writer \in [Conns -> {"idle", "armed", "refused", "parked"}]
          /\ link \in [Centrals -> {"off", "up", "closing"}]
      OBVIOUS
    <2>4. wantReady \in BOOLEAN
      BY Zenon
    <2>5. /\ wrote \in [Centrals -> 0..MaxFrames]
          /\ subs \in 0..MaxSubs /\ frames \in 0..MaxFrames
      OBVIOUS
    <2> QED  BY <2>1, <2>2, <2>3, <2>4, <2>5 DEF TypeOK, ConnRecs
  <1>2. EventsCounted /\ ChannelsOwned /\ OpenMeansSubscribed /\ SubsCurrent
    BY DEF EventsCounted, Waiting, ChannelsOwned, OpenMeansSubscribed, SubsCurrent
  <1>3. WakeupsPending /\ ChannelsCurrent /\ ReadsItsOwnCentral
    BY DEF WakeupsPending, ChannelsCurrent, ReadsItsOwnCentral
  <1> QED  BY <1>1, <1>2, <1>3 DEF IInv

\* What the types say about connections.
LEMMA ConnTypes ==
    ASSUME TypeOK
    PROVE  /\ conns \in Seq(ConnRecs) /\ Len(conns) \in Nat /\ Len(conns) <= MaxSubs
           /\ DOMAIN conns = 1..Len(conns) /\ DOMAIN conns \subseteq Conns
           /\ \A k \in DOMAIN conns :
                 /\ conns[k] \in ConnRecs
                 /\ conns[k].central \in Centrals /\ conns[k].sub \in Conns
                 /\ conns[k].q \in Seq(Letters) /\ conns[k].read \in Seq(Letters)
                 /\ Given(k) \in Seq(Letters)
  <1>1. /\ conns \in Seq(ConnRecs) /\ Len(conns) \in Nat /\ Len(conns) <= MaxSubs
        /\ DOMAIN conns = 1..Len(conns)
    BY LenProperties DEF TypeOK, ConnRecs
  <1>2. ASSUME NEW k \in DOMAIN conns
        PROVE  /\ conns[k] \in ConnRecs
               /\ conns[k].central \in Centrals /\ conns[k].sub \in Conns
               /\ conns[k].q \in Seq(Letters) /\ conns[k].read \in Seq(Letters)
    <2>1. conns[k] \in ConnRecs
      BY <1>1, ElementOfSeq
    <2> QED  BY <2>1 DEF ConnRecs
  <1>3. \A k \in DOMAIN conns : Given(k) \in Seq(Letters)
    BY <1>2, ConcatProperties DEF Given
  <1> QED  BY <1>1, <1>2, <1>3, BleAssumption DEF Conns

\* The reports that bring-up waits for are events.
LEMMA ReportTypes ==
    ASSUME Starting
    PROVE  /\ Wanted[bring] \in Events /\ Refused[bring] \in Events
           /\ Wanted[bring] \in Reports /\ Refused[bring] \in Reports
           /\ After[bring] \in Bring
  <1>1. bring \in {"power", "service", "advert"}
    BY DEF Starting, Wanted
  <1> QED  BY <1>1 DEF Wanted, Refused, After, Events, Reports, Bring

\* A frame that c writes keeps the connections well typed.
LEMMA WriteTypes ==
    ASSUME TypeOK, ChannelsCurrent, SubsCurrent, NEW c \in Centrals, DidReceiveWrite(c)
    PROVE  /\ wrote' \in [Centrals -> 0..MaxFrames] /\ frames' \in 0..MaxFrames
           /\ \A d \in Centrals : wrote'[d] <= frames'
           /\ conns' \in Seq(ConnRecs) /\ Len(conns') = Len(conns)
  <1>1. PICK w \in {"frame", "empty", "ctrl"} :
           /\ Write(c, w)
           /\ conns' = [k \in DOMAIN conns |->
                          IF k = ChannelOf(c) /\ classify_write(w) = "Deliver"
                          THEN [conns[k] EXCEPT !.q = Append(@, <<c, wrote'[c], latest[c]>>)]
                          ELSE conns[k]]
    BY DEF DidReceiveWrite
  <1>2. /\ frames \in Nat /\ frames < MaxFrames /\ MaxFrames \in Nat
        /\ \A d \in Centrals : wrote[d] \in Nat /\ wrote[d] <= frames
        /\ wrote \in [Centrals -> 0..MaxFrames]
    BY <1>1, BleAssumption DEF Write, Budget, TypeOK, ChannelsCurrent
  <1>3. CASE w = "frame"
    <2>1. wrote' = [wrote EXCEPT ![c] = @ + 1] /\ frames' = frames + 1
      BY <1>1, <1>3 DEF Write
    <2>2. /\ wrote' \in [Centrals -> 0..MaxFrames] /\ frames' \in 0..MaxFrames
          /\ \A d \in Centrals : wrote'[d] <= frames'
      BY <1>2, <2>1
    <2>6. <<c, wrote'[c], latest[c]>> \in Letters
      <3>1. latest[c] \in Conns /\ wrote'[c] \in Frames
        BY <1>1, <1>2, <2>1 DEF Write, SubsCurrent, Frames
      <3> QED  BY <3>1 DEF Letters
    <2>3. ASSUME NEW k \in DOMAIN conns PROVE conns'[k] \in ConnRecs
      <3>1. conns[k] \in ConnRecs /\ Append(conns[k].q, <<c, wrote'[c], latest[c]>>) \in Seq(Letters)
        BY <2>6, ConnTypes, Appended
      <3>2. [conns[k] EXCEPT !.q = Append(@, <<c, wrote'[c], latest[c]>>)] \in ConnRecs
        BY <3>1 DEF ConnRecs
      <3> QED  BY <1>1, <3>1, <3>2
    <2>4. conns' = [k \in 1..Len(conns) |-> conns'[k]] /\ DOMAIN conns' = 1..Len(conns)
      BY <1>1, ConnTypes
    <2>5. conns' \in Seq(ConnRecs)
      BY <2>3, <2>4, ConnTypes
    <2> QED  BY <2>2, <2>4, <2>5, ConnTypes, LenProperties
  <1>4. CASE w # "frame"
    <2>1. UNCHANGED <<wrote, frames>> /\ classify_write(w) = "Ignore"
      BY <1>1, <1>4 DEF Write, classify_write
    <2>2. conns' = conns
      BY <1>1, <2>1, ConnTypes
    <2> QED  BY <1>2, <2>1, <2>2, ConnTypes
  <1> QED  BY <1>3, <1>4

\* wait_for_central has room for a connection: every event was a subscription.
LEMMA Accepted ==
    ASSUME TypeOK, EventsCounted, WaitForCentral
    PROVE  \E c \in Centrals, k \in Conns :
              /\ events # <<>> /\ bring = "up" /\ events' = Tail(events)
              /\ k = Len(conns) + 1 /\ Len(conns) < subs
              /\ conns' = Append(CloseChannel(conns, chan[c]),
                                 [central |-> c, sub |-> taken + 1, q |-> <<>>, open |-> TRUE,
                                  read |-> <<>>])
              /\ chan' = [chan EXCEPT ![c] = k]
              /\ early' = IF c \in subscribed THEN early ELSE early \cup {k}
              /\ stale' = IF c \in subscribed /\ latest[c] = taken + 1 THEN stale
                                                                     ELSE stale \cup {k}
              /\ taken' = taken + 1 /\ taken + 1 \in Conns
              /\ conns' \in Seq(ConnRecs) /\ Len(conns') = Len(conns) + 1
              /\ DOMAIN conns' = 1..(Len(conns) + 1)
              /\ conns'[k] = [central |-> c, sub |-> taken + 1, q |-> <<>>, open |-> TRUE,
                               read |-> <<>>]
              /\ \A i \in DOMAIN conns : conns'[i] = CloseChannel(conns, chan[c])[i]
  <1> DEFINE c == Head(events)
             k == Len(conns) + 1
             new == [central |-> c, sub |-> taken + 1, q |-> <<>>, open |-> TRUE, read |-> <<>>]
  <1>1. bring = "up" /\ events # <<>> /\ events \in Seq(Centrals)
           /\ Len(conns) <= taken /\ taken + Waiting <= subs
    BY DEF WaitForCentral, EventsCounted
  <1>2. c \in Centrals /\ Len(events) \in Nat /\ Len(events) >= 1 /\ Waiting = Len(events)
    BY <1>1, HeadTailProperties, EmptySeq, LenProperties DEF Waiting
  <1>3. k \in Conns /\ Len(conns) < subs /\ taken + 1 \in Conns
    <2>1. taken \in Nat /\ subs \in Nat /\ subs <= MaxSubs /\ MaxSubs \in Nat /\ Len(conns) \in Nat
      BY ConnTypes, BleAssumption DEF TypeOK
    <2> QED  BY <1>1, <1>2, <2>1 DEF Conns
  <1>4. new \in ConnRecs
    BY <1>2, <1>3, EmptySeq DEF ConnRecs
  <1>5. /\ events' = Tail(events)
        /\ conns' = Append(CloseChannel(conns, chan[c]), new)
        /\ chan' = [chan EXCEPT ![c] = k]
        /\ early' = IF c \in subscribed THEN early ELSE early \cup {k}
        /\ stale' = IF c \in subscribed /\ latest[c] = taken + 1 THEN stale ELSE stale \cup {k}
        /\ taken' = taken + 1
    BY DEF WaitForCentral
  <1>6. /\ CloseChannel(conns, chan[c]) \in Seq(ConnRecs)
        /\ Len(CloseChannel(conns, chan[c])) = Len(conns)
        /\ Len(conns) \in Nat /\ DOMAIN conns = 1..Len(conns)
    BY ConnTypes, Closed
  <1> HIDE DEF c, new
  <1>7. /\ conns' \in Seq(ConnRecs) /\ Len(conns') = Len(conns) + 1
        /\ DOMAIN conns' = 1..(Len(conns) + 1)
        /\ conns'[k] = new
        /\ \A i \in DOMAIN conns : conns'[i] = CloseChannel(conns, chan[c])[i]
    BY <1>4, <1>5, <1>6, Appended
  <1> HIDE DEF k
  <1> QED  BY <1>1, <1>2, <1>3, <1>5, <1>7 DEF new, k

\* A read keeps the connections well typed.
LEMMA ReadTypes ==
    ASSUME TypeOK, NEW k \in Conns, PeripheralRead(k)
    PROVE  /\ k \in DOMAIN conns /\ conns[k].q # <<>>
           /\ conns' \in Seq(ConnRecs) /\ Len(conns') = Len(conns)
           /\ DOMAIN conns' = DOMAIN conns
           /\ \A i \in DOMAIN conns :
                 /\ conns'[i].central = conns[i].central /\ conns'[i].sub = conns[i].sub
                 /\ conns'[i].open = conns[i].open
                 /\ i # k => conns'[i] = conns[i]
           /\ conns'[k].q = Tail(conns[k].q)
           /\ conns'[k].read = Append(conns[k].read, Head(conns[k].q))
  <1>1. k \in DOMAIN conns /\ conns[k].q # <<>>
    BY DEF PeripheralRead
  <1>2. conns[k] \in ConnRecs /\ conns[k].q \in Seq(Letters) /\ conns[k].read \in Seq(Letters)
    BY <1>1, ConnTypes
  <1> DEFINE rec == [conns[k] EXCEPT !.q = Tail(@), !.read = Append(@, Head(conns[k].q))]
  <1>3. Tail(conns[k].q) \in Seq(Letters)
           /\ Append(conns[k].read, Head(conns[k].q)) \in Seq(Letters)
    BY <1>1, <1>2, HeadTailProperties, Appended
  <1>4. /\ rec \in ConnRecs /\ rec.central = conns[k].central /\ rec.sub = conns[k].sub
        /\ rec.open = conns[k].open
        /\ rec.q = Tail(conns[k].q)
        /\ rec.read = Append(conns[k].read, Head(conns[k].q))
    BY <1>2, <1>3 DEF ConnRecs
  <1>5. conns' = [conns EXCEPT ![k] = rec]
    BY DEF PeripheralRead
  <1> HIDE DEF rec
  <1>6. conns \in Seq(ConnRecs) /\ k \in 1..Len(conns) /\ DOMAIN conns = 1..Len(conns)
    BY <1>1, ConnTypes
  <1>7. /\ conns' \in Seq(ConnRecs) /\ Len(conns') = Len(conns)
        /\ \A i \in 1..Len(conns) : conns'[i] = IF i = k THEN rec ELSE conns[i]
    BY <1>4, <1>5, <1>6, ExceptSeq
  <1>8. DOMAIN conns' = DOMAIN conns
    BY <1>6, <1>7, LenProperties
  <1> QED  BY <1>1, <1>4, <1>6, <1>7, <1>8

\* Every step keeps the types.
LEMMA TypeStep ==
    ASSUME TypeOK, EventsCounted, ChannelsCurrent, SubsCurrent, [Next]_vars
    PROVE  TypeOK'
  <1> USE BleAssumption DEF TypeOK, accepted, peripheral, notifying, centrals, rest
  <1>0. /\ conns \in Seq(ConnRecs) /\ Len(conns) \in Nat
        /\ \A v : v \in Seq(ConnRecs) <=>
              v \in Seq([central : Centrals, sub : Conns, q : Seq(Letters),
                         open : BOOLEAN, read : Seq(Letters)])
    BY ConnTypes DEF ConnRecs
  <1>1. CASE DidReport
    <2>1. events' \in Seq(Events)
      <3>1. PICK ev \in {Wanted[bring], Refused[bring], "powered_on"} :
               events' = Append(events, ev)
        BY <1>1 DEF DidReport
      <3>2. ev \in Events
        BY <1>1, ReportTypes DEF DidReport, Events, Reports
      <3> QED  BY <3>1, <3>2, Appended
    <2> QED  BY <1>1, <2>1 DEF DidReport
  <1>2. CASE WaitForStep
    <2>1. events' \in Seq(Events)
      BY <1>2, HeadTailProperties DEF WaitForStep
    <2>2. bring' \in Bring
      BY <1>2, ReportTypes DEF WaitForStep, Bring
    <2>3. taken' \in 0..MaxSubs
      <3>1. events # <<>> /\ (taken' = taken \/ (taken' = taken + 1 /\ Head(events) \in Centrals))
        BY <1>2 DEF WaitForStep
      <3>2. Len(events) \in Nat /\ Len(events) >= 1
        BY <3>1, EmptySeq, LenProperties
      <3>3. Head(events) \in Centrals => taken + Len(events) <= subs
        BY <3>1 DEF EventsCounted, Waiting
      <3>4. taken \in 0..MaxSubs /\ subs \in 0..MaxSubs /\ MaxSubs \in Nat
        OBVIOUS
      <3> HIDE DEF TypeOK
      <3> QED  BY <3>1, <3>2, <3>3, <3>4
    <2> QED  BY <1>2, <2>1, <2>2, <2>3 DEF WaitForStep
  <1>3. CASE BringUpTimeout
    BY <1>3 DEF BringUpTimeout, Bring
  <1>4. CASE Transmit
    <2>1. cbq' \in Seq(SUBSET Centrals) /\ Len(cbq') <= QueueCap
      BY <1>4, HeadTailProperties, LenProperties DEF Transmit, Drained
    <2>2. wantReady' \in BOOLEAN
      BY <1>4, Zenon DEF Transmit, Drained
    <2>3. woken' \in SUBSET Conns
      BY <1>4 DEF Transmit, Drained, Waiters
    <2> QED  BY <1>4, <2>1, <2>2, <2>3 DEF Transmit
  <1>5. CASE WaitForCentral
    <2>1. PICK c \in Centrals, k \in Conns :
              /\ events # <<>> /\ events' = Tail(events)
              /\ k = Len(conns) + 1
              /\ chan' = [chan EXCEPT ![c] = k]
              /\ early' = IF c \in subscribed THEN early ELSE early \cup {k}
              /\ stale' = stale \/ stale' = stale \cup {k}
              /\ taken' = taken + 1 /\ taken + 1 \in Conns
              /\ conns' \in Seq(ConnRecs) /\ Len(conns') = Len(conns) + 1
      <3> HIDE DEF TypeOK
      <3> QED  BY <1>5, Accepted
    <2>2. events' \in Seq(Events)
      BY <2>1, HeadTailProperties
    <2>3. chan' \in [Centrals -> 0..MaxSubs] /\ Len(conns') <= MaxSubs
      BY <2>1 DEF Conns
    <2>4. early' \in SUBSET Conns /\ stale' \in SUBSET Conns
      BY <2>1
    <2>5. taken' \in 0..MaxSubs
      <3> HIDE DEF TypeOK
      <3> QED  BY <2>1 DEF Conns
    <2> QED  BY <1>0, <1>5, <2>1, <2>2, <2>3, <2>4, <2>5 DEF WaitForCentral
  <1>6. ASSUME NEW k \in Conns, PeripheralRead(k) PROVE TypeOK'
    <2>1. conns' \in Seq(ConnRecs) /\ Len(conns') = Len(conns)
      <3> HIDE DEF TypeOK
      <3> QED  BY <1>6, ReadTypes
    <2> QED  BY <1>0, <1>6, <2>1 DEF PeripheralRead
  <1>7. ASSUME NEW k \in Conns, WriteArm(k) PROVE TypeOK'
    <2>1. writer' \in [Conns -> {"idle", "armed", "refused", "parked"}]
      BY <1>7 DEF WriteArm
    <2>2. frames' \in 0..MaxFrames
      <3>1. frames' = frames \/ (frames' = frames + 1 /\ frames < MaxFrames)
        BY <1>7 DEF WriteArm, Budget
      <3>2. frames \in 0..MaxFrames /\ MaxFrames \in Nat
        OBVIOUS
      <3> HIDE DEF TypeOK
      <3> QED  BY <3>1, <3>2
    <2> QED  BY <1>7, <2>1, <2>2 DEF WriteArm
  <1>8. ASSUME NEW k \in Conns, WriteTry(k) PROVE TypeOK'
    <2>1. cbq' \in Seq(SUBSET Centrals) /\ Len(cbq') <= QueueCap
      <3>1. /\ Len(cbq) \in Nat /\ Len(cbq) <= QueueCap /\ QueueCap \in Nat
            /\ cbq \in Seq(SUBSET Centrals)
        BY LenProperties
      <3>2. cbq' = cbq \/ (cbq' = Append(cbq, subscribed) /\ ~Full)
        BY <1>8 DEF WriteTry
      <3>3. /\ Append(cbq, subscribed) \in Seq(SUBSET Centrals)
            /\ Len(Append(cbq, subscribed)) = Len(cbq) + 1
        BY Appended
      <3> HIDE DEF TypeOK
      <3> QED  BY <3>1, <3>2, <3>3 DEF Full
    <2>2. wantReady' \in BOOLEAN
      BY <1>8, Zenon DEF WriteTry
    <2>3. writer' \in [Conns -> {"idle", "armed", "refused", "parked"}]
      BY <1>8 DEF WriteTry
    <2> QED  BY <1>8, <2>1, <2>2, <2>3 DEF WriteTry
  <1>9. ASSUME NEW k \in Conns, WritePark(k) \/ WriteTimeout(k) PROVE TypeOK'
    BY <1>9 DEF WritePark, WriteTimeout
  <1>10. ASSUME NEW c \in Centrals, DidSubscribe(c) PROVE TypeOK'
    <2>1. events' \in Seq(Events)
      BY <1>10, Appended DEF DidSubscribe, Events
    <2>2. link' \in [Centrals -> {"off", "up", "closing"}] /\ subs' \in 0..MaxSubs
             /\ subscribed' \in SUBSET Centrals /\ latest' \in [Centrals -> 0..MaxSubs]
      BY <1>10 DEF DidSubscribe, Connect
    <2> QED  BY <1>10, <2>1, <2>2 DEF DidSubscribe
  <1>11. ASSUME NEW c \in Centrals, DidReceiveWrite(c) PROVE TypeOK'
    <2>1. /\ wrote' \in [Centrals -> 0..MaxFrames] /\ frames' \in 0..MaxFrames
          /\ conns' \in Seq(ConnRecs) /\ Len(conns') = Len(conns)
      <3> HIDE DEF TypeOK
      <3> QED  BY <1>11, WriteTypes
    <2> QED  BY <1>0, <1>11, <2>1 DEF DidReceiveWrite
  <1>12. ASSUME NEW c \in Centrals, CentralReadBegin(c) \/ CentralReadEnd(c) \/ CentralClose(c)
         PROVE  TypeOK'
    BY <1>12 DEF CentralReadBegin, CentralReadEnd, CentralClose
  <1>13. ASSUME NEW c \in Centrals, CentralCloseEnd(c) \/ CentralLost(c) PROVE TypeOK'
    <2>1. /\ conns' = CloseChannel(conns, chan[c]) /\ chan' = [chan EXCEPT ![c] = 0]
          /\ link' = [link EXCEPT ![c] = "off"] /\ subscribed' = subscribed \ {c}
      BY <1>13 DEF CentralCloseEnd, CentralLost, DidUnsubscribe
    <2>2. conns' \in Seq(ConnRecs) /\ Len(conns') = Len(conns)
      BY <1>0, <2>1, Closed
    <2>3. /\ chan' \in [Centrals -> 0..MaxSubs] /\ subscribed' \in SUBSET Centrals
          /\ link' \in [Centrals -> {"off", "up", "closing"}]
      BY <2>1
    <2>4. reading' \in SUBSET Centrals
      BY <1>13 DEF CentralCloseEnd, CentralLost
    <2> QED  BY <1>0, <1>13, <2>2, <2>3, <2>4 DEF CentralCloseEnd, CentralLost
  <1>14. CASE UNCHANGED vars
    BY <1>14 DEF vars
  <1> QED  BY <1>1, <1>2, <1>3, <1>4, <1>5, <1>6, <1>7, <1>8, <1>9, <1>10, <1>11, <1>12,
              <1>13, <1>14 DEF Next

-----------------------------------------------------------------------------
(* Notifications.                                                          *)

\* Every step keeps the wake-ups of refused writers.
LEMMA WakeupsStep == ASSUME TypeOK, WakeupsPending, [Next]_vars PROVE WakeupsPending'
  <1> USE DEF WakeupsPending
  <1>1. CASE Transmit
    <2>1. /\ UNCHANGED writer /\ woken \subseteq woken'
          /\ wantReady => Waiters \subseteq woken'
      BY <1>1 DEF Transmit, Drained
    <2>2. \A k \in Conns : writer[k] \in {"refused", "parked"} => k \in Waiters
      BY DEF Waiters
    <2> QED  BY <2>1, <2>2
  <1>2. ASSUME NEW k \in Conns, WriteArm(k) PROVE WakeupsPending'
    <2>1. /\ woken' = woken \ {k} /\ UNCHANGED <<cbq, wantReady>>
          /\ \A j \in Conns : writer'[j] = IF j = k THEN "armed" ELSE writer[j]
      BY <1>2 DEF WriteArm, TypeOK
    <2> QED  BY <2>1
  <1>3. ASSUME NEW k \in Conns, WriteTry(k) PROVE WakeupsPending'
    <2>1. UNCHANGED woken
      BY <1>3 DEF WriteTry
    <2>2. CASE UNCHANGED <<cbq, wantReady>> /\ writer' = [writer EXCEPT ![k] = "idle"]
      BY <2>1, <2>2 DEF TypeOK
    <2>3. CASE /\ cbq' = Append(cbq, subscribed) /\ UNCHANGED wantReady
               /\ writer' = [writer EXCEPT ![k] = "idle"]
      <3>1. cbq' # <<>>
        <4>1. Len(cbq') = Len(cbq) + 1 /\ Len(cbq) \in Nat
          BY <2>3, Appended, LenProperties DEF TypeOK
        <4> QED  BY <4>1, EmptySeq
      <3> QED  BY <2>1, <2>3, <3>1 DEF TypeOK
    <2>4. CASE /\ wantReady' = TRUE /\ UNCHANGED cbq /\ Full
               /\ writer' = [writer EXCEPT ![k] = "refused"]
      <3>1. cbq # <<>>
        BY <2>4, EmptySeq, BleAssumption DEF Full
      <3> QED  BY <2>1, <2>4, <3>1 DEF TypeOK
    <2> QED  BY <1>3, <2>2, <2>3, <2>4 DEF WriteTry
  <1>4. ASSUME NEW k \in Conns, WritePark(k) \/ WriteTimeout(k) PROVE WakeupsPending'
    BY <1>4 DEF WritePark, WriteTimeout, TypeOK
  <1>5. CASE UNCHANGED notifying
    BY <1>5 DEF notifying
  <1>6. ASSUME Next, ~Transmit,
               \A k \in Conns : /\ ~WriteArm(k) /\ ~WriteTry(k)
                                /\ ~WritePark(k) /\ ~WriteTimeout(k)
        PROVE  UNCHANGED notifying
    BY <1>6 DEF Next, DidReport, WaitForStep, BringUpTimeout, WaitForCentral, PeripheralRead,
                DidSubscribe, DidReceiveWrite, CentralReadBegin, CentralReadEnd, CentralClose,
                CentralCloseEnd, CentralLost, rest
  <1> QED  BY <1>1, <1>2, <1>3, <1>4, <1>5, <1>6 DEF vars, notifying

-----------------------------------------------------------------------------
(* Connections.                                                            *)

\* Every step keeps the count of events and connections.
LEMMA EventsStep ==
    ASSUME TypeOK, EventsCounted, ChannelsCurrent, SubsCurrent, [Next]_vars
    PROVE  EventsCounted'
  <1> USE DEF EventsCounted
  <1>0. conns \in Seq(ConnRecs) /\ Len(conns) \in Nat /\ DOMAIN conns = 1..Len(conns)
    BY ConnTypes
  <1>1. CASE DidReport
    <2>1. bring # "up" /\ events = <<>> /\ UNCHANGED <<bring, conns, subs, taken>>
      BY <1>1 DEF DidReport, Starting, Wanted, peripheral, accepted, rest, centrals
    <2>2. PICK ev \in {Wanted[bring], Refused[bring], "powered_on"} :
             events' = Append(events, ev)
      BY <1>1 DEF DidReport
    <2>3. ev \in Events /\ ev \notin Centrals
      BY <1>1, ReportTypes, BleAssumption DEF DidReport, Events, Reports
    <2>4. events' = <<ev>>
      BY <2>1, <2>2
    <2>5. Len(events') = 1 /\ Head(events') = ev /\ events' # <<>> /\ Tail(events') = <<>>
      BY <2>4
    <2>6. Waiting' = 0 /\ Waiting = 0
      <3>1. Len(events) = 0
        BY <2>1
      <3> QED  BY <2>1, <2>3, <2>5, <3>1 DEF Waiting
    <2>7. Tail(events') \in Seq(Centrals)
      BY <2>5, EmptySeq
    <2> QED  BY <2>1, <2>6, <2>7
  <1>2. CASE WaitForStep
    <2>1. /\ bring # "up" /\ events # <<>> /\ events' = Tail(events) /\ UNCHANGED <<conns, subs>>
          /\ taken' = IF Head(events) \in Centrals THEN taken + 1 ELSE taken
      BY <1>2 DEF WaitForStep, Starting, Wanted, rest, centrals
    <2>2. /\ events' \in Seq(Centrals) /\ Len(events') = Len(events) - 1
          /\ Len(events) \in Nat /\ Len(events) >= 1 /\ Len(events') \in Nat
      BY <2>1, EmptySeq, LenProperties, HeadTailProperties DEF TypeOK
    <2>3. events' # <<>> => Tail(events') \in Seq(Centrals) /\ Head(events') \in Centrals
      BY <2>2, HeadTailProperties
    <2>4. Waiting' = Len(events')
      BY <2>3 DEF Waiting
    <2>5. taken' + Waiting' <= subs
      <3>1. taken \in Nat /\ subs \in Nat
        BY DEF TypeOK
      <3>2. CASE Head(events) \in Centrals
        <4>1. Waiting = Len(events) /\ taken' = taken + 1 /\ taken + Waiting <= subs
          BY <2>1, <3>2 DEF Waiting
        <4> QED  BY <2>2, <2>4, <3>1, <4>1
      <3>3. CASE Head(events) \notin Centrals
        BY <2>1, <2>2, <2>4, <3>1, <3>3 DEF Waiting
      <3> QED  BY <3>2, <3>3
    <2>6. conns' = <<>> /\ Len(conns') = 0 /\ 0 <= taken'
      BY <2>1 DEF TypeOK
    <2> QED  BY <2>1, <2>2, <2>3, <2>5, <2>6
  <1>3. CASE BringUpTimeout
    <2>1. events = <<>> /\ bring # "up" /\ bring' = "failed" /\ UNCHANGED <<conns, events, subs, taken>>
      BY <1>3 DEF BringUpTimeout, Starting, Wanted, peripheral, accepted, rest, centrals
    <2> QED  BY <2>1 DEF Waiting
  <1>4. CASE WaitForCentral
    <2>1. /\ events # <<>> /\ bring = "up" /\ events' = Tail(events)
          /\ Len(conns') = Len(conns) + 1 /\ taken' = taken + 1
      BY <1>4, Accepted
    <2>2. /\ events' \in Seq(Centrals) /\ Len(events') = Len(events) - 1 /\ Len(events) \in Nat
          /\ Head(events) \in Centrals
      BY <2>1, HeadTailProperties, LenProperties
    <2>3. UNCHANGED <<bring, subs>> /\ subs \in Nat /\ taken \in Nat
      BY <1>4 DEF WaitForCentral, rest, centrals, TypeOK
    <2>4. Waiting = Len(events) /\ Waiting' = Len(events')
      BY <2>1, <2>2, HeadTailProperties DEF Waiting
    <2> QED  BY <1>0, <2>1, <2>2, <2>3, <2>4
  <1>5. ASSUME NEW c \in Centrals, DidSubscribe(c) PROVE EventsCounted'
    <2>1. events' = Append(events, c) /\ subs' = subs + 1
             /\ UNCHANGED <<bring, conns, taken>> /\ subs \in Nat /\ taken \in Nat
      BY <1>5 DEF DidSubscribe, Connect, TypeOK, accepted
    <2>2. /\ events \in Seq(Events) /\ c \in Events /\ Len(events) \in Nat
          /\ events = <<>> <=> Len(events) = 0
      BY EmptySeq, LenProperties DEF TypeOK, Events
    <2>3. /\ events' \in Seq(Events) /\ Len(events') = Len(events) + 1 /\ events' # <<>>
          /\ events # <<>> => Head(events') = Head(events)
          /\ events = <<>> => Head(events') = c
      <3>1. /\ events' \in Seq(Events) /\ Len(events') = Len(events) + 1
            /\ \A i \in 1..Len(events) : events'[i] = events[i]
            /\ events'[Len(events) + 1] = c
        BY <2>1, <2>2, Appended
      <3>2. events' # <<>> /\ Head(events') = events'[1]
        BY <2>2, <3>1, EmptySeq
      <3> QED  BY <2>2, <3>1, <3>2
    <2>4. Waiting' = Waiting + 1
      BY <2>2, <2>3 DEF Waiting
    <2>5. bring = "up" => events' \in Seq(Centrals)
      BY <2>1, Appended
    <2>6. CASE bring # "up" /\ events # <<>>
      <3> DEFINE q == Tail(events)
      <3>1. q \in Seq(Centrals) /\ Len(q) = Len(events) - 1
        BY <2>2, <2>6, HeadTailProperties
      <3>2. Tail(events') = Append(q, c)
        <4>1. /\ Len(Tail(events')) = Len(events) /\ Len(Append(q, c)) = Len(events)
              /\ Tail(events') \in Seq(Events) /\ Append(q, c) \in Seq(Centrals)
          BY <2>2, <2>3, <3>1, Appended, HeadTailProperties
        <4>2. Append(q, c) \in Seq(Events)
          BY <4>1 DEF Events
        <4>3. ASSUME NEW i \in 1..Len(events) PROVE Tail(events')[i] = Append(q, c)[i]
          <5>1. Tail(events')[i] = events'[i + 1]
            BY <2>2, <2>3, HeadTailProperties
          <5>2. CASE i = Len(events)
            <6>1. events'[i + 1] = c
              BY <2>1, <2>2, <5>2, Appended
            <6>2. Append(q, c)[i] = c
              BY <2>2, <3>1, <5>2, Appended
            <6> QED  BY <5>1, <6>1, <6>2
          <5>3. CASE i < Len(events)
            <6>1. i + 1 \in 1..Len(events) /\ i \in 1..Len(q)
              BY <2>2, <3>1, <5>3
            <6>2. events'[i + 1] = events[i + 1]
              BY <2>1, <2>2, <6>1, Appended
            <6>3. Append(q, c)[i] = q[i] /\ q[i] = events[i + 1]
              BY <2>2, <2>6, <3>1, <6>1, Appended, HeadTailProperties
            <6> QED  BY <5>1, <6>2, <6>3
          <5>4. i = Len(events) \/ i < Len(events)
            BY <2>2
          <5> QED  BY <5>2, <5>3, <5>4
        <4> HIDE DEF q
        <4> QED  BY <4>1, <4>2, <4>3, SeqEqual
      <3>3. Tail(events') \in Seq(Centrals)
        <4> HIDE DEF q
        <4>1. Append(q, c) \in Seq(Centrals)
          BY <3>1, Appended
        <4> QED  BY <3>2, <4>1
      <3> QED  BY <2>1, <2>4, <2>6, <3>3 DEF Waiting
    <2>7. CASE bring # "up" /\ events = <<>>
      <3>1. events' = <<c>> /\ Tail(events') = <<>>
        BY <2>1, <2>7
      <3>2. Tail(events') \in Seq(Centrals)
        BY <3>1
      <3>3. Waiting = 0
        BY <2>7 DEF Waiting
      <3> QED  BY <2>1, <2>4, <2>7, <3>2, <3>3
    <2>8. CASE bring = "up"
      <3>1. Waiting \in Nat
        BY <2>2 DEF Waiting
      <3> QED  BY <2>1, <2>4, <2>5, <2>8, <3>1
    <2> QED  BY <2>6, <2>7, <2>8
  <1>6. ASSUME UNCHANGED <<bring, events, subs, taken>>,
               conns' \in Seq(ConnRecs), Len(conns') = Len(conns)
        PROVE  EventsCounted'
    BY <1>0, <1>6, EmptySeq DEF Waiting
  <1>7. ASSUME NEW k \in Conns, PeripheralRead(k) PROVE EventsCounted'
    <2>1. conns' \in Seq(ConnRecs) /\ Len(conns') = Len(conns)
      BY <1>7, ReadTypes
    <2> QED  BY <1>6, <1>7, <2>1 DEF PeripheralRead, accepted, rest, centrals
  <1>8. ASSUME NEW c \in Centrals, DidReceiveWrite(c) PROVE EventsCounted'
    <2>1. conns' \in Seq(ConnRecs) /\ Len(conns') = Len(conns)
      BY <1>8, WriteTypes
    <2> QED  BY <1>6, <1>8, <2>1 DEF DidReceiveWrite, accepted
  <1>9. ASSUME NEW c \in Centrals, CentralCloseEnd(c) \/ CentralLost(c) PROVE EventsCounted'
    <2>1. conns' = CloseChannel(conns, chan[c]) /\ UNCHANGED <<bring, events, subs, taken>>
      BY <1>9 DEF CentralCloseEnd, CentralLost, DidUnsubscribe, accepted
    <2> QED  BY <1>0, <1>6, <2>1, Closed
  <1>10. CASE UNCHANGED <<bring, events, subs, taken, conns>>
    BY <1>10 DEF Waiting
  <1>11. ASSUME NEW k \in Conns, WriteArm(k) \/ WriteTry(k) \/ WritePark(k) \/ WriteTimeout(k)
         PROVE  UNCHANGED <<bring, events, subs, taken, conns>>
    BY <1>11 DEF WriteArm, WriteTry, WritePark, WriteTimeout, centrals, peripheral, accepted
  <1>12. ASSUME NEW c \in Centrals, CentralReadBegin(c) \/ CentralReadEnd(c) \/ CentralClose(c)
         PROVE  UNCHANGED <<bring, events, subs, taken, conns>>
    BY <1>12 DEF CentralReadBegin, CentralReadEnd, CentralClose, peripheral, accepted
  <1>13. CASE Transmit
    BY <1>10, <1>13 DEF Transmit, centrals, peripheral, accepted
  <1> QED  BY <1>1, <1>2, <1>3, <1>4, <1>5, <1>7, <1>8, <1>9, <1>10, <1>11, <1>12, <1>13
           DEF Next, vars

\* The steps, as far as connections can tell.
LEMMA ConnSteps ==
    ASSUME TypeOK, [Next]_vars
    PROVE  \/ WaitForCentral
           \/ \E k \in Conns : PeripheralRead(k)
           \/ \E c \in Centrals : DidReceiveWrite(c)
           \/ \E c \in Centrals : DidSubscribe(c)
           \/ \E c \in Centrals :
                 /\ conns' = CloseChannel(conns, chan[c])
                 /\ chan' = [chan EXCEPT ![c] = 0] /\ subscribed' = subscribed \ {c}
                 /\ link' = [link EXCEPT ![c] = "off"]
                 /\ UNCHANGED <<early, stale, latest, wrote, frames>>
           \/ /\ UNCHANGED <<conns, chan, early, stale, latest, wrote, subscribed>>
              /\ \A c \in Centrals : link'[c] # "off" <=> link[c] # "off"
              /\ frames' = frames \/ frames' = frames + 1
  <1>1. ASSUME NEW c \in Centrals, CentralCloseEnd(c) \/ CentralLost(c)
        PROVE  /\ conns' = CloseChannel(conns, chan[c])
               /\ chan' = [chan EXCEPT ![c] = 0] /\ subscribed' = subscribed \ {c}
               /\ link' = [link EXCEPT ![c] = "off"]
               /\ UNCHANGED <<early, stale, latest, wrote, frames>>
    BY <1>1 DEF CentralCloseEnd, CentralLost, DidUnsubscribe, accepted
  <1> DEFINE Same == /\ UNCHANGED <<conns, chan, early, stale, latest, wrote, subscribed>>
                     /\ \A c \in Centrals : link'[c] # "off" <=> link[c] # "off"
                     /\ frames' = frames \/ frames' = frames + 1
  <1>2. ASSUME NEW k \in Conns, WriteArm(k) \/ WriteTry(k) \/ WritePark(k) \/ WriteTimeout(k)
        PROVE  Same
    BY <1>2 DEF WriteArm, WriteTry, WritePark, WriteTimeout, centrals, peripheral, accepted
  <1>3. ASSUME NEW c \in Centrals, CentralReadBegin(c) \/ CentralReadEnd(c)
        PROVE  Same
    BY <1>3 DEF CentralReadBegin, CentralReadEnd, peripheral, accepted
  <1>4. ASSUME NEW c \in Centrals, CentralClose(c) PROVE Same
    <2>1. UNCHANGED <<conns, chan, early, stale, latest, wrote, subscribed, frames>>
      BY <1>4 DEF CentralClose, peripheral, accepted
    <2>2. link[c] = "up" /\ link' = [link EXCEPT ![c] = "closing"]
      BY <1>4 DEF CentralClose
    <2>3. \A d \in Centrals : link'[d] # "off" <=> link[d] # "off"
      BY <2>2 DEF TypeOK
    <2> QED  BY <2>1, <2>3
  <1>5. ASSUME DidReport \/ WaitForStep \/ BringUpTimeout \/ Transmit PROVE Same
    BY <1>5 DEF DidReport, WaitForStep, BringUpTimeout, Transmit, peripheral, accepted, rest,
                centrals
  <1>6. UNCHANGED vars => Same
    BY DEF vars
  <1> QED  BY <1>1, <1>2, <1>3, <1>4, <1>5, <1>6 DEF Next

\* What a central's write does to the connections.
LEMMA Written ==
    ASSUME TypeOK, NEW c \in Centrals, DidReceiveWrite(c)
    PROVE  /\ UNCHANGED <<chan, subscribed, early, stale, latest, link>> /\ DOMAIN conns' = DOMAIN conns
           /\ \A k \in DOMAIN conns : /\ conns'[k].central = conns[k].central
                                      /\ conns'[k].sub = conns[k].sub
                                      /\ conns'[k].open = conns[k].open
                                      /\ conns'[k].read = conns[k].read
           /\ \/ UNCHANGED wrote /\ \A k \in DOMAIN conns : conns'[k].q = conns[k].q
              \/ /\ wrote' = [wrote EXCEPT ![c] = @ + 1]
                 /\ \A k \in DOMAIN conns :
                       conns'[k].q = IF k = chan[c]
                                     THEN Append(conns[k].q, <<c, wrote'[c], latest[c]>>)
                                     ELSE conns[k].q
  <1>1. PICK w \in {"frame", "empty", "ctrl"} :
           /\ Write(c, w)
           /\ conns' = [k \in DOMAIN conns |->
                          IF k = ChannelOf(c) /\ classify_write(w) = "Deliver"
                          THEN [conns[k] EXCEPT !.q = Append(@, <<c, wrote'[c], latest[c]>>)]
                          ELSE conns[k]]
    BY DEF DidReceiveWrite
  <1>2. ASSUME NEW k \in DOMAIN conns
        PROVE  LET f == [conns[k] EXCEPT !.q = Append(@, <<c, wrote'[c], latest[c]>>)]
               IN  /\ f.central = conns[k].central /\ f.sub = conns[k].sub /\ f.open = conns[k].open
                   /\ f.read = conns[k].read
                   /\ f.q = Append(conns[k].q, <<c, wrote'[c], latest[c]>>)
    <2>1. conns[k] \in ConnRecs
      BY ConnTypes
    <2> QED  BY <2>1 DEF ConnRecs
  <1>3. CASE w = "frame"
    <2>1. wrote' = [wrote EXCEPT ![c] = @ + 1] /\ classify_write(w) = "Deliver"
      BY <1>1, <1>3 DEF Write, classify_write
    <2>2. /\ DOMAIN conns' = DOMAIN conns
          /\ \A k \in DOMAIN conns : /\ conns'[k].central = conns[k].central
                                     /\ conns'[k].sub = conns[k].sub
                                     /\ conns'[k].open = conns[k].open
                                     /\ conns'[k].read = conns[k].read
                                     /\ conns'[k].q = IF k = chan[c]
                                                      THEN Append(conns[k].q, <<c, wrote'[c], latest[c]>>)
                                                      ELSE conns[k].q
      BY <1>1, <1>2, <2>1 DEF ChannelOf
    <2> QED  BY <2>1, <2>2 DEF DidReceiveWrite, accepted
  <1>4. CASE w # "frame"
    <2>1. UNCHANGED wrote /\ classify_write(w) = "Ignore"
      BY <1>1, <1>4 DEF Write, classify_write
    <2>2. conns' = conns
      BY <1>1, <2>1, ConnTypes
    <2> QED  BY <2>1, <2>2 DEF DidReceiveWrite, accepted
  <1> QED  BY <1>3, <1>4

\* Every step keeps the channels with their centrals, and open only while
\* those are subscribed.
LEMMA OwnedStep ==
    ASSUME TypeOK, EventsCounted, ChannelsOwned, OpenMeansSubscribed, [Next]_vars
    PROVE  ChannelsOwned' /\ OpenMeansSubscribed'
  <1> USE DEF ChannelsOwned, OpenMeansSubscribed
  <1>0. /\ conns \in Seq(ConnRecs) /\ Len(conns) \in Nat /\ DOMAIN conns = 1..Len(conns)
        /\ chan \in [Centrals -> 0..MaxSubs]
        /\ \A k \in DOMAIN conns : conns[k].central \in Centrals
    BY ConnTypes DEF TypeOK
  <1>1. CASE WaitForCentral
    <2>1. PICK c \in Centrals, k \in Conns :
              /\ k = Len(conns) + 1
              /\ chan' = [chan EXCEPT ![c] = k]
              /\ early' = IF c \in subscribed THEN early ELSE early \cup {k}
              /\ DOMAIN conns' = 1..(Len(conns) + 1)
              /\ conns'[k] = [central |-> c, sub |-> taken + 1, q |-> <<>>, open |-> TRUE,
                               read |-> <<>>]
              /\ \A i \in DOMAIN conns : conns'[i] = CloseChannel(conns, chan[c])[i]
      BY <1>1, Accepted
    <2>2. /\ \A i \in DOMAIN conns :
                /\ conns'[i].central = conns[i].central
                /\ conns'[i].open => i # chan[c] /\ conns[i].open
          /\ conns'[k].central = c
          /\ UNCHANGED subscribed
      BY <1>0, <1>1, <2>1, Closed DEF WaitForCentral
    <2>3. \A i \in DOMAIN conns' : i \in DOMAIN conns \/ i = k
      BY <1>0, <2>1
    <2>4. \A d \in Centrals : chan'[d] # 0 =>
             chan'[d] \in DOMAIN conns' /\ conns'[chan'[d]].central = d
      <3> SUFFICES ASSUME NEW d \in Centrals, chan'[d] # 0
                   PROVE  chan'[d] \in DOMAIN conns' /\ conns'[chan'[d]].central = d
        OBVIOUS
      <3>1. CASE d = c
        BY <1>0, <2>1, <2>2, <3>1
      <3>2. CASE d # c
        <4>1. chan'[d] = chan[d] /\ chan[d] \in DOMAIN conns /\ conns[chan[d]].central = d
          BY <1>0, <2>1, <3>2
        <4> QED  BY <1>0, <2>1, <2>2, <4>1
      <3> QED  BY <3>1, <3>2
    <2>5. ASSUME NEW i \in DOMAIN conns', conns'[i].open
          PROVE  /\ chan'[conns'[i].central] = i
                 /\ conns'[i].central \in subscribed' \/ i \in early'
      <3>1. CASE i = k
        BY <1>0, <2>1, <2>2, <3>1
      <3>2. CASE i \in DOMAIN conns
        <4>1. /\ conns'[i].central = conns[i].central /\ i # chan[c]
              /\ chan[conns[i].central] = i
              /\ conns[i].central \in subscribed \/ i \in early
          BY <2>2, <2>5, <3>2
        <4>2. conns[i].central # c
          BY <4>1
        <4> QED  BY <1>0, <2>1, <2>2, <3>2, <4>1, <4>2
      <3> QED  BY <2>3, <3>1, <3>2
    <2> QED  BY <2>4, <2>5
  <1>2. ASSUME NEW k \in Conns, PeripheralRead(k)
        PROVE  ChannelsOwned' /\ OpenMeansSubscribed'
    <2>1. UNCHANGED <<chan, subscribed, early>>
      BY <1>2 DEF PeripheralRead, accepted
    <2>2. /\ DOMAIN conns' = DOMAIN conns
          /\ \A i \in DOMAIN conns : /\ conns'[i].central = conns[i].central
                                     /\ conns'[i].open = conns[i].open
      BY <1>2, ReadTypes
    <2> QED  BY <2>1, <2>2
  <1>3. ASSUME NEW c \in Centrals, DidReceiveWrite(c)
        PROVE  ChannelsOwned' /\ OpenMeansSubscribed'
    <2>1. /\ UNCHANGED <<chan, subscribed, early>> /\ DOMAIN conns' = DOMAIN conns
          /\ \A i \in DOMAIN conns : /\ conns'[i].central = conns[i].central
                                     /\ conns'[i].open = conns[i].open
      BY <1>3, Written
    <2> QED  BY <2>1
  <1>4. ASSUME NEW c \in Centrals, conns' = CloseChannel(conns, chan[c]),
               chan' = [chan EXCEPT ![c] = 0], subscribed' = subscribed \ {c}, UNCHANGED early
        PROVE  ChannelsOwned' /\ OpenMeansSubscribed'
    <2>1. /\ DOMAIN conns' = DOMAIN conns
          /\ \A i \in DOMAIN conns : /\ conns'[i].central = conns[i].central
                                     /\ conns'[i].open => i # chan[c] /\ conns[i].open
      BY <1>0, <1>4, Closed
    <2>2. \A d \in Centrals : chan'[d] = IF d = c THEN 0 ELSE chan[d]
      BY <1>0, <1>4
    <2>3. \A i \in DOMAIN conns : conns'[i].open => conns[i].central # c
      BY <2>1
    <2> QED  BY <1>0, <1>4, <2>1, <2>2, <2>3
  <1>5. ASSUME UNCHANGED <<conns, chan, early>>, subscribed \subseteq subscribed'
        PROVE  ChannelsOwned' /\ OpenMeansSubscribed'
    BY <1>5
  <1>6. ASSUME NEW c \in Centrals, DidSubscribe(c)
        PROVE  ChannelsOwned' /\ OpenMeansSubscribed'
    BY <1>5, <1>6 DEF DidSubscribe, accepted
  <1> QED  BY <1>1, <1>2, <1>3, <1>4, <1>5, <1>6, ConnSteps

\* Every step keeps what the connections were given consecutive and current.
LEMMA CurrentStep ==
    ASSUME TypeOK, EventsCounted, ChannelsOwned, SubsCurrent, ChannelsCurrent,
           ReadsItsOwnCentral, [Next]_vars
    PROVE  SubsCurrent' /\ ChannelsCurrent' /\ ReadsItsOwnCentral'
  <1> DEFINE
       Goal == SubsCurrent /\ ChannelsCurrent /\ ReadsItsOwnCentral
       Current(k) == chan[conns[k].central] = k /\ Given(k) # <<>> =>
                        Given(k)[Len(Given(k))]
                            = <<conns[k].central, wrote[conns[k].central],
                                latest[conns[k].central]>>
       Own(k) == \A i \in DOMAIN Given(k) : Given(k)[i][3] = conns[k].sub \/ k \in stale
       Timely(k) == chan[conns[k].central] = k =>
                       /\ Given(k) # <<>> => link[conns[k].central] # "off"
                       /\ k \notin stale => /\ link[conns[k].central] # "off"
                                            /\ conns[k].sub = latest[conns[k].central]
       Fine(k) == /\ Current(k) /\ Consecutive(Given(k), conns[k].central)
                  /\ Own(k) /\ Timely(k)
       Linked == \A c \in Centrals : /\ link[c] # "off" <=> c \in subscribed
                                     /\ link[c] # "off" => latest[c] \in Conns
  <1>0. /\ conns \in Seq(ConnRecs) /\ Len(conns) \in Nat /\ DOMAIN conns = 1..Len(conns)
        /\ chan \in [Centrals -> 0..MaxSubs] /\ frames \in Nat
        /\ wrote \in [Centrals -> 0..MaxFrames] /\ latest \in [Centrals -> 0..MaxSubs]
        /\ link \in [Centrals -> {"off", "up", "closing"}]
        /\ \A k \in DOMAIN conns : /\ conns[k].central \in Centrals
                                   /\ conns[k].q \in Seq(Letters)
                                   /\ conns[k].read \in Seq(Letters)
    <2>1. /\ chan \in [Centrals -> 0..MaxSubs] /\ frames \in Nat
          /\ wrote \in [Centrals -> 0..MaxFrames] /\ latest \in [Centrals -> 0..MaxSubs]
          /\ link \in [Centrals -> {"off", "up", "closing"}]
      BY DEF TypeOK
    <2> QED  BY <2>1, ConnTypes
  <1>1. Linked /\ \A k \in DOMAIN conns : Fine(k)
    <2>1. Linked /\ \A k \in DOMAIN conns : Current(k) /\ Timely(k)
      <3>1. Linked
        BY Zenon DEF SubsCurrent
      <3>2. \A k \in DOMAIN conns : Current(k)
        BY Zenon DEF ChannelsCurrent
      <3>3. \A k \in DOMAIN conns : Timely(k)
        BY Zenon DEF SubsCurrent
      <3> QED  BY <3>1, <3>2, <3>3
    <2>2. \A k \in DOMAIN conns : Consecutive(Given(k), conns[k].central) /\ Own(k)
      BY DEF ReadsItsOwnCentral, Consecutive, Given
    <2> QED  BY <2>1, <2>2
  <1>2. ASSUME \A k \in DOMAIN conns' : Fine(k)', \A c \in Centrals : wrote'[c] <= frames', Linked'
        PROVE  Goal'
    <2>1. SubsCurrent' /\ ChannelsCurrent'
      <3>1. \A k \in DOMAIN conns' : Current(k)' /\ Timely(k)'
        BY <1>2
      <3>2. ChannelsCurrent'
        BY <1>2, <3>1, Zenon DEF ChannelsCurrent
      <3>3. SubsCurrent'
        BY <1>2, <3>1, Zenon DEF SubsCurrent
      <3> QED  BY <3>2, <3>3
    <2>2. ReadsItsOwnCentral'
      BY <1>2 DEF ReadsItsOwnCentral, Consecutive, Given
    <2> QED  BY <2>1, <2>2
  <1>3. ASSUME NEW k \in DOMAIN conns, Given(k)' = Given(k), stale \subseteq stale',
               conns'[k].central = conns[k].central, conns'[k].sub = conns[k].sub,
               chan'[conns[k].central] = k =>
                  /\ chan[conns[k].central] = k
                  /\ wrote'[conns[k].central] = wrote[conns[k].central]
                  /\ Given(k) # <<>> \/ k \notin stale =>
                        /\ latest'[conns[k].central] = latest[conns[k].central]
                        /\ link[conns[k].central] # "off" => link'[conns[k].central] # "off"
        PROVE  Fine(k)'
    <2>1. Consecutive(Given(k), conns[k].central) /\ Current(k) /\ Own(k) /\ Timely(k)
      BY <1>1
    <2>2. Consecutive(Given(k)', conns'[k].central)
      BY <1>3, <2>1
    <2>3. Current(k)'
      BY <1>3, <2>1
    <2>4. Own(k)'
      BY <1>3, <2>1
    <2>5. Timely(k)'
      BY <1>3, <2>1
    <2> QED  BY <2>2, <2>3, <2>4, <2>5
  <1> HIDE DEF Fine, Current, Own, Timely, Linked, Goal
  <1>4. CASE WaitForCentral
    <2>1. PICK c \in Centrals, k \in Conns :
              /\ k = Len(conns) + 1
              /\ chan' = [chan EXCEPT ![c] = k]
              /\ stale' = IF c \in subscribed /\ latest[c] = taken + 1 THEN stale
                                                                     ELSE stale \cup {k}
              /\ DOMAIN conns' = 1..(Len(conns) + 1)
              /\ conns'[k] = [central |-> c, sub |-> taken + 1, q |-> <<>>, open |-> TRUE,
                               read |-> <<>>]
              /\ \A i \in DOMAIN conns : conns'[i] = CloseChannel(conns, chan[c])[i]
      BY <1>4, Accepted
    <2>2. UNCHANGED <<wrote, frames, latest, link, subscribed>> /\ stale \subseteq stale'
      BY <1>4, <2>1 DEF WaitForCentral, rest, centrals
    <2>3. ASSUME NEW i \in DOMAIN conns PROVE Fine(i)'
      <3>1. /\ conns'[i].central = conns[i].central /\ conns'[i].sub = conns[i].sub
            /\ conns'[i].q = conns[i].q /\ conns'[i].read = conns[i].read
        <4> DEFINE cs == CloseChannel(conns, chan[c])
        <4>1. conns'[i] = cs[i]
          BY <2>1
        <4>2. /\ cs[i].central = conns[i].central /\ cs[i].sub = conns[i].sub
              /\ cs[i].q = conns[i].q /\ cs[i].read = conns[i].read
          BY <1>0, Closed
        <4> QED  BY <4>1, <4>2
      <3>2. Given(i)' = Given(i)
        BY <3>1 DEF Given
      <3>3. chan'[conns[i].central] = i => chan[conns[i].central] = i
        BY <1>0, <2>1
      <3> QED  BY <1>3, <2>2, <3>1, <3>2, <3>3
    <2>4. Fine(k)'
      <3>1. conns'[k].q = <<>> /\ conns'[k].read = <<>>
        BY <2>1
      <3>2. Given(k)' = <<>>
        BY <3>1, ConcatEmptySeq, EmptySeq DEF Given
      <3>3. conns'[k].central = c /\ conns'[k].sub = taken + 1
        BY <2>1
      <3>4. k \notin stale' => link'[c] # "off" /\ latest'[c] = taken + 1
        <4>1. CASE c \in subscribed /\ latest[c] = taken + 1
          BY <1>1, <2>2, <4>1 DEF Linked
        <4>2. CASE ~(c \in subscribed /\ latest[c] = taken + 1)
          BY <2>1, <4>2
        <4> QED  BY <4>1, <4>2
      <3>5. Timely(k)'
        BY <3>2, <3>3, <3>4 DEF Timely
      <3>6. Current(k)' /\ Own(k)' /\ Consecutive(Given(k)', conns'[k].central)
        BY <3>2 DEF Current, Own, Consecutive
      <3> QED  BY <3>5, <3>6 DEF Fine
    <2>5. \A i \in DOMAIN conns' : i \in DOMAIN conns \/ i = k
      BY <1>0, <2>1
    <2>6. Linked'
      BY <1>1, <2>2 DEF Linked
    <2>7. \A i \in DOMAIN conns' : Fine(i)'
      BY <2>3, <2>4, <2>5
    <2>8. \A d \in Centrals : wrote'[d] <= frames'
      BY <2>2 DEF ChannelsCurrent
    <2> QED  BY <1>2, <2>6, <2>7, <2>8 DEF Goal
  <1>5. ASSUME NEW k \in Conns, PeripheralRead(k)
        PROVE  Goal'
    <2>1. UNCHANGED <<chan, wrote, frames, stale, latest, link, subscribed>>
      BY <1>5 DEF PeripheralRead, rest, centrals, accepted
    <2>2. /\ k \in DOMAIN conns /\ conns[k].q # <<>>
          /\ DOMAIN conns' = DOMAIN conns
          /\ \A i \in DOMAIN conns : /\ conns'[i].central = conns[i].central
                                     /\ conns'[i].sub = conns[i].sub
                                     /\ i # k => conns'[i] = conns[i]
          /\ conns'[k].q = Tail(conns[k].q)
          /\ conns'[k].read = Append(conns[k].read, Head(conns[k].q))
      BY <1>5, ReadTypes
    <2>3. ASSUME NEW i \in DOMAIN conns PROVE Given(i)' = Given(i)
      <3>1. CASE i = k
        BY <1>0, <2>2, <3>1, ReadStaysGiven DEF Given
      <3>2. CASE i # k
        BY <2>2, <3>2 DEF Given
      <3> QED  BY <3>1, <3>2
    <2>4. Linked'
      BY <1>1, <2>1 DEF Linked
    <2>5. ASSUME NEW i \in DOMAIN conns PROVE Fine(i)'
      BY <1>3, <2>1, <2>2, <2>3
    <2> QED  BY <1>2, <2>1, <2>2, <2>4, <2>5 DEF ChannelsCurrent
  <1>6. ASSUME NEW c \in Centrals, DidReceiveWrite(c)
        PROVE  Goal'
    <2>0. link[c] # "off" /\ latest[c] \in Conns
      <3>1. link[c] # "off"
        BY <1>6 DEF DidReceiveWrite, Write
      <3> QED  BY <1>1, <3>1 DEF Linked
    <2>1. /\ UNCHANGED <<chan, subscribed, stale, latest, link>> /\ DOMAIN conns' = DOMAIN conns
          /\ \A k \in DOMAIN conns : /\ conns'[k].central = conns[k].central
                                     /\ conns'[k].sub = conns[k].sub
                                     /\ conns'[k].read = conns[k].read
          /\ \/ UNCHANGED wrote /\ \A k \in DOMAIN conns : conns'[k].q = conns[k].q
             \/ /\ wrote' = [wrote EXCEPT ![c] = @ + 1]
                /\ \A k \in DOMAIN conns :
                      conns'[k].q = IF k = chan[c]
                                    THEN Append(conns[k].q, <<c, wrote'[c], latest[c]>>)
                                    ELSE conns[k].q
      BY <1>6, Written
    <2>2. /\ \A d \in Centrals : wrote'[d] <= frames'
          /\ wrote' \in [Centrals -> 0..MaxFrames] /\ Linked'
      BY <1>1, <1>6, <2>1, WriteTypes DEF Linked
    <2>3. ASSUME NEW k \in DOMAIN conns, conns'[k].q = conns[k].q,
                 chan[conns[k].central] = k =>
                     wrote'[conns[k].central] = wrote[conns[k].central]
          PROVE  Fine(k)'
      <3>1. Given(k)' = Given(k)
        BY <2>1, <2>3 DEF Given
      <3> QED  BY <1>3, <2>1, <2>3, <3>1
    <2>4. CASE UNCHANGED wrote /\ \A k \in DOMAIN conns : conns'[k].q = conns[k].q
      BY <1>2, <2>1, <2>2, <2>3, <2>4
    <2>5. CASE /\ wrote' = [wrote EXCEPT ![c] = @ + 1]
               /\ \A k \in DOMAIN conns :
                     conns'[k].q = IF k = chan[c]
                                   THEN Append(conns[k].q, <<c, wrote'[c], latest[c]>>)
                                   ELSE conns[k].q
      <3> DEFINE n == wrote'[c]
      <3>1. n = wrote[c] + 1 /\ n \in Frames
        BY <1>0, <2>2, <2>5 DEF Frames
      <3> DEFINE u == latest[c]
      <3>4. <<c, n, u>> \in Letters
        BY <2>0, <3>1 DEF Letters
      <3>2. ASSUME NEW k \in DOMAIN conns, k # chan[c] PROVE Fine(k)'
        <4>1. conns'[k].q = conns[k].q
          BY <2>5, <3>2
        <4>2. chan[conns[k].central] = k =>
                 wrote'[conns[k].central] = wrote[conns[k].central]
          BY <1>0, <2>5, <3>2
        <4> QED  BY <2>3, <4>1, <4>2
      <3>3. ASSUME NEW k \in DOMAIN conns, k = chan[c] PROVE Fine(k)'
        <4>1. conns[k].central = c
          BY <1>0, <3>3 DEF ChannelsOwned
        <4>2. Given(k) \in Seq(Letters) /\ Fine(k)
          BY <1>1, ConnTypes
        <4>3. conns'[k].q = Append(conns[k].q, <<c, n, u>>) /\ conns'[k].read = conns[k].read
          BY <2>1, <2>5, <3>3
        <4> HIDE DEF n, u
        <4>4. Given(k)' = Append(Given(k), <<c, n, u>>)
          <5> DEFINE r == conns[k].read
                     q == conns[k].q
          <5>1. r \in Seq(Letters) /\ q \in Seq(Letters)
            BY <1>0
          <5>2. Given(k)' = r \o Append(q, <<c, n, u>>) /\ Given(k) = r \o q
            BY <4>3 DEF Given
          <5> HIDE DEF r, q
          <5>3. r \o Append(q, <<c, n, u>>) = Append(r \o q, <<c, n, u>>)
            BY <3>4, <5>1, QueuedIsLast
          <5> QED  BY <5>2, <5>3
        <4>5. Given(k) # <<>> => Given(k)[Len(Given(k))] = <<c, wrote[c], u>>
          BY <3>3, <4>1, <4>2 DEF Fine, Current, u
        <4>6. wrote[c] = n - 1 /\ u \in Conns
          BY <1>0, <2>0, <3>1 DEF u
        <4>7. Consecutive(Given(k)', c) /\ Given(k)'[1][3] = u
          BY <3>1, <4>1, <4>2, <4>4, <4>5, <4>6, NextIsConsecutive DEF Fine
        <4>8. Given(k)'[Len(Given(k)')] = <<c, n, u>>
          BY <3>4, <4>2, <4>4, Appended
        <4>9. \A i \in DOMAIN Given(k)' : Given(k)'[i][3] = u
          BY <4>7 DEF Consecutive
        <4>10. k \notin stale => conns[k].sub = u
          BY <3>3, <4>1, <4>2 DEF Fine, Timely, u
        <4>11. Own(k)'
          BY <2>1, <4>9, <4>10 DEF Own
        <4>12. Timely(k)'
          BY <2>0, <2>1, <4>1, <4>10 DEF Timely, u
        <4>13. Current(k)'
          BY <2>1, <4>1, <4>8 DEF Current, n, u
        <4> QED  BY <2>1, <4>1, <4>7, <4>11, <4>12, <4>13 DEF Fine
      <3> QED  BY <1>2, <2>1, <2>2, <3>2, <3>3
    <2> QED  BY <2>1, <2>4, <2>5
  <1>7. ASSUME NEW c \in Centrals, conns' = CloseChannel(conns, chan[c]),
               chan' = [chan EXCEPT ![c] = 0], link' = [link EXCEPT ![c] = "off"],
               subscribed' = subscribed \ {c}, UNCHANGED <<stale, latest, wrote, frames>>
        PROVE  Goal'
    <2>1. /\ DOMAIN conns' = DOMAIN conns
          /\ \A i \in DOMAIN conns : /\ conns'[i].central = conns[i].central
                                     /\ conns'[i].sub = conns[i].sub
                                     /\ conns'[i].q = conns[i].q
                                     /\ conns'[i].read = conns[i].read
      BY <1>0, <1>7, Closed
    <2>2. \A i \in DOMAIN conns : Given(i)' = Given(i)
      BY <2>1 DEF Given
    <2>3. \A i \in DOMAIN conns :
             chan'[conns[i].central] = i =>
                /\ chan[conns[i].central] = i
                /\ link'[conns[i].central] = link[conns[i].central]
      BY <1>0, <1>7
    <2>4. ASSUME NEW i \in DOMAIN conns PROVE Fine(i)'
      BY <1>3, <1>7, <2>1, <2>2, <2>3
    <2>5. Linked'
      <3>1. \A d \in Centrals : link'[d] = IF d = c THEN "off" ELSE link[d]
        BY <1>0, <1>7
      <3>2. \A d \in Centrals : (d \in subscribed' <=> d \in subscribed /\ d # c) /\ latest'[d] = latest[d]
        BY <1>7
      <3> QED  BY <1>1, <3>1, <3>2 DEF Linked
    <2> QED  BY <1>2, <1>7, <2>1, <2>4, <2>5 DEF ChannelsCurrent
  <1>8. ASSUME UNCHANGED <<conns, chan, stale, latest, wrote, subscribed>>,
               \A c \in Centrals : link'[c] # "off" <=> link[c] # "off",
               frames' = frames \/ frames' = frames + 1
        PROVE  Goal'
    <2>1. \A c \in Centrals : wrote'[c] <= frames'
      BY <1>0, <1>8 DEF ChannelsCurrent
    <2>2. \A k \in DOMAIN conns : Given(k)' = Given(k)
      BY <1>8 DEF Given
    <2>3. ASSUME NEW k \in DOMAIN conns PROVE Fine(k)'
      BY <1>0, <1>3, <1>8, <2>2
    <2>4. Linked'
      BY <1>1, <1>8 DEF Linked
    <2> QED  BY <1>2, <1>8, <2>1, <2>3, <2>4
  <1>9. ASSUME NEW c \in Centrals, DidSubscribe(c) PROVE Goal'
    <2>1. /\ link[c] = "off" /\ link' = [link EXCEPT ![c] = "up"]
          /\ subscribed' = subscribed \cup {c} /\ subs < MaxSubs
          /\ latest' = [latest EXCEPT ![c] = subs + 1]
          /\ UNCHANGED <<conns, chan, stale, wrote, frames>>
      BY <1>9 DEF DidSubscribe, Connect, accepted
    <2>2. \A k \in DOMAIN conns : Given(k)' = Given(k)
      BY <2>1 DEF Given
    <2>3. ASSUME NEW k \in DOMAIN conns PROVE Fine(k)'
      <3>1. CASE conns[k].central = c /\ chan[c] = k
        <4>1. Given(k) = <<>> /\ k \in stale
          BY <1>1, <2>1, <3>1 DEF Fine, Timely
        <4> QED  BY <1>3, <2>1, <2>2, <4>1
      <3>2. CASE conns[k].central = c /\ chan[c] # k
        BY <1>3, <2>1, <2>2, <3>2
      <3>3. CASE conns[k].central # c
        <4>1. /\ link'[conns[k].central] = link[conns[k].central]
              /\ latest'[conns[k].central] = latest[conns[k].central]
          BY <1>0, <2>1, <3>3
        <4> QED  BY <1>3, <2>1, <2>2, <4>1
      <3> QED  BY <3>1, <3>2, <3>3
    <2>4. Linked'
      <3>1. subs + 1 \in Conns
        BY <2>1, BleAssumption DEF TypeOK, Conns
      <3> QED  BY <1>0, <1>1, <2>1, <3>1 DEF Linked
    <2> QED  BY <1>2, <2>1, <2>3, <2>4 DEF ChannelsCurrent
  <1>10. Goal'
    <2>1. \/ WaitForCentral
          \/ \E k \in Conns : PeripheralRead(k)
          \/ \E c \in Centrals : DidReceiveWrite(c)
          \/ \E c \in Centrals : DidSubscribe(c)
          \/ \E c \in Centrals :
                /\ conns' = CloseChannel(conns, chan[c])
                /\ chan' = [chan EXCEPT ![c] = 0] /\ subscribed' = subscribed \ {c}
                /\ link' = [link EXCEPT ![c] = "off"]
                /\ UNCHANGED <<stale, latest, wrote, frames>>
          \/ /\ UNCHANGED <<conns, chan, stale, latest, wrote, subscribed>>
             /\ \A c \in Centrals : link'[c] # "off" <=> link[c] # "off"
             /\ frames' = frames \/ frames' = frames + 1
      BY ConnSteps
    <2>2. CASE \E c \in Centrals :
                /\ conns' = CloseChannel(conns, chan[c])
                /\ chan' = [chan EXCEPT ![c] = 0] /\ subscribed' = subscribed \ {c}
                /\ link' = [link EXCEPT ![c] = "off"]
                /\ UNCHANGED <<stale, latest, wrote, frames>>
      BY <1>7, <2>2
    <2>3. CASE /\ UNCHANGED <<conns, chan, stale, latest, wrote, subscribed>>
               /\ \A c \in Centrals : link'[c] # "off" <=> link[c] # "off"
               /\ frames' = frames \/ frames' = frames + 1
      BY <1>8, <2>3
    <2> QED  BY <1>4, <1>5, <1>6, <1>9, <2>1, <2>2, <2>3 DEF Goal
  <1> QED  BY <1>10 DEF Goal

-----------------------------------------------------------------------------
(* The theorems.                                                           *)

\* Every step keeps the invariant.
LEMMA IInvStep == IInv /\ [Next]_vars => IInv'
  BY TypeStep, EventsStep, OwnedStep, WakeupsStep, CurrentStep DEF IInv

\* Every reachable state satisfies the invariant.
LEMMA IInvAlways == Spec => []IInv
  BY InitIInv, IInvStep, PTL DEF Spec

\* Every state the transport reaches is well typed: in particular the queue of
\* notifications and the number of connections stay within their bounds.
THEOREM BleTypes == Spec => []TypeOK
  BY IInvAlways, PTL DEF IInv

\* MacPeripheralConnection::read: what it returns is what its own central
\* wrote under one subscription, consecutive from the first frame after the
\* connection was accepted; and that is the subscription it was accepted for,
\* unless it had ended before.
THEOREM ReadersReadTheirOwn == Spec => []ReadsItsOwnCentral
  BY IInvAlways, PTL DEF IInv

\* MacPeripheralConnection::write: the future made before updateValue misses
\* no callback between the refusal and the wait.
THEOREM WakeupsAreNotLost == Spec => []NoLostWakeup
  <1>1. IInv => NoLostWakeup
    BY DEF IInv, WakeupsPending, NoLostWakeup
  <1> QED  BY <1>1, IInvAlways, PTL

\* didUnsubscribe and wait_for_central: no channel stays open for a central
\* that has left, except one accepted when it had left already.
THEOREM OpenChannelsAreSubscribed == Spec => []OpenMeansSubscribed
  BY IInvAlways, PTL DEF IInv
=============================================================================
