------------------------------- MODULE BleLink -------------------------------
(***************************************************************************)
(* The BLE transport: one peripheral and the centrals that dial it.        *)
(*   transport/peripheral.rs   MacPeripheral, its CoreBluetooth delegate   *)
(*                             and MacPeripheralConnection                 *)
(*   transport/ble.rs          BleTransport::connect and BleConnection     *)
(*                                                                         *)
(* The delegate's callbacks run one at a time on a queue of their own; the *)
(* accept loop and the connections are tokio tasks.  They meet in four     *)
(* places: the queue of control events, the list of subscribed centrals,   *)
(* the map of per-central channels and the Notify that says CoreBluetooth  *)
(* takes notifications again.  A callback is one action, taken when the    *)
(* central does what it reports.                                           *)
(***************************************************************************)
EXTENDS Integers, Sequences, FiniteSets

CONSTANTS
    Centrals,    \* identifiers of the centrals
    MaxSubs,     \* bound: subscriptions
    MaxFrames,   \* bound: frames written, by centrals and by the peripheral
    QueueCap     \* notifications CoreBluetooth queues before it says no

\* What the delegate reports besides centrals.
Reports == {"powered_on", "powered_off", "service_ok", "service_err",
            "advert_ok", "advert_err"}

ASSUME BleAssumption ==
    /\ IsFiniteSet(Centrals) /\ Centrals \cap Reports = {}
    /\ MaxSubs \in Nat /\ MaxFrames \in Nat
    /\ QueueCap \in Nat \ {0}

VARIABLES
    bring,      \* MacPeripheral::start: what it waits for
    events,     \* ctrl_events
    subscribed, \* the centrals in the delegate's list of subscribers
    chan,       \* per_central_tx: the connection whose channel a central has
    conns,      \* what wait_for_central returned: the central, the channel's
                \* bytes, whether its sender lives, what read() returned, and
                \* (history) the subscription whose event it was
    early,      \* history: connections of centrals that had left by then
    stale,      \* history: connections of subscriptions that had ended by then
    taken,      \* history: subscriptions whose event was taken off the queue
    latest,     \* history: per central, the number of its last subscription
    writer,     \* per connection, where its write() is
    woken,      \* per connection, its Notified future has been notified
    cbq,        \* CoreBluetooth's queue: who each notification is for
    wantReady,  \* updateValue has returned false since the last callback
    link,       \* per central, its BleConnection
    reading,    \* centrals whose read() holds the notifications lock
    wrote,      \* history: frames each central has written
    subs,
    frames      \* frames written, by centrals and by the peripheral

vars == <<bring, events, subscribed, chan, conns, early, stale, taken, latest,
          writer, woken, cbq, wantReady, link, reading, wrote, subs, frames>>

Bring   == {"power", "service", "advert", "up", "failed"}
Conns   == 1..MaxSubs
Events  == Reports \cup Centrals
Frames  == 1..MaxFrames
\* A frame: its writer, its number there, the subscription it was written under.
Letters == Centrals \X Frames \X Conns

TypeOK ==
    /\ bring \in Bring /\ events \in Seq(Events)
    /\ subscribed \in SUBSET Centrals
    /\ chan \in [Centrals -> 0..MaxSubs]
    /\ conns \in Seq([central : Centrals, sub : Conns, q : Seq(Letters),
                      open : BOOLEAN, read : Seq(Letters)])
    /\ Len(conns) <= MaxSubs
    /\ early \in SUBSET Conns /\ stale \in SUBSET Conns /\ taken \in 0..MaxSubs
    /\ latest \in [Centrals -> 0..MaxSubs]
    /\ writer \in [Conns -> {"idle", "armed", "refused", "parked"}]
    /\ woken \in SUBSET Conns
    /\ cbq \in Seq(SUBSET Centrals)
    /\ Len(cbq) <= QueueCap
    /\ wantReady \in BOOLEAN
    /\ link \in [Centrals -> {"off", "up", "closing"}]
    /\ reading \in SUBSET Centrals
    /\ wrote \in [Centrals -> 0..MaxFrames]
    /\ subs \in 0..MaxSubs /\ frames \in 0..MaxFrames

Init ==
    /\ bring = "power" /\ events = <<>>
    /\ subscribed = {} /\ chan = [c \in Centrals |-> 0]
    /\ conns = <<>> /\ early = {} /\ stale = {} /\ taken = 0
    /\ latest = [c \in Centrals |-> 0]
    /\ writer = [k \in Conns |-> "idle"] /\ woken = {}
    /\ cbq = <<>> /\ wantReady = FALSE
    /\ link = [c \in Centrals |-> "off"] /\ reading = {}
    /\ wrote = [c \in Centrals |-> 0] /\ subs = 0 /\ frames = 0

Budget == frames < MaxFrames

accepted   == <<early, stale, taken>>
peripheral == <<subscribed, chan, conns, accepted>>
notifying  == <<writer, woken, cbq, wantReady>>
centrals   == <<link, latest, reading, wrote, subs>>
rest       == <<notifying, centrals, frames>>

-----------------------------------------------------------------------------
\* Bring-up: each step waits for its own event, up to ten seconds, and throws
\* away every other, a central's subscription too.

Wanted == [power |-> "powered_on", service |-> "service_ok", advert |-> "advert_ok"]
Refused == [power |-> "powered_off", service |-> "service_err", advert |-> "advert_err"]
After  == [power |-> "service", service |-> "advert", advert |-> "up"]
Starting == bring \in DOMAIN Wanted

\* didUpdateState, didAddService, didStartAdvertising: CoreBluetooth answers
\* the step that start() has asked for, and may change its state any time.
DidReport ==
    /\ Starting /\ events = <<>>
    /\ \E ev \in {Wanted[bring], Refused[bring], "powered_on"} :
          events' = Append(events, ev)
    /\ UNCHANGED <<bring, peripheral, rest>>

WaitForStep ==
    /\ Starting /\ events # <<>>
    /\ events' = Tail(events)
    /\ bring' = CASE Head(events) = Wanted[bring]  -> After[bring]
                  [] Head(events) = Refused[bring] -> "failed"
                  [] OTHER -> bring
    /\ taken' = IF Head(events) \in Centrals THEN taken + 1 ELSE taken
    /\ UNCHANGED <<subscribed, chan, conns, early, stale, rest>>

BringUpTimeout ==
    /\ Starting /\ events = <<>>
    /\ bring' = "failed"
    /\ UNCHANGED <<events, peripheral, rest>>

-----------------------------------------------------------------------------
\* The delegate's callbacks for centrals

\* The sender of connection k, if there is one, is dropped: its receiver gets
\* what is queued and then the end of the stream.
CloseChannel(cs, k) ==
    [i \in DOMAIN cs |-> IF i = k THEN [cs[i] EXCEPT !.open = FALSE] ELSE cs[i]]

\* BleTransport::connect at the central: connect, discover the services, find
\* the two characteristics, subscribe.  A step that fails leaves no connection.
Connect(c) ==
    /\ link[c] = "off" /\ subs < MaxSubs
    /\ link' = [link EXCEPT ![c] = "up"]
    /\ subs' = subs + 1 /\ latest' = [latest EXCEPT ![c] = subs + 1]

\* The delegate sees the subscription to RX, which can be made as soon as the
\* service is advertised.
DidSubscribe(c) ==
    /\ bring \in {"advert", "up"} /\ Connect(c)
    /\ subscribed' = subscribed \cup {c}
    /\ events' = Append(events, c)
    /\ UNCHANGED <<bring, chan, conns, accepted, notifying, reading, wrote, frames>>

\* Mutant: the per-central channel is left in the map.
DidUnsubscribe_Kept(c) ==
    /\ link' = [link EXCEPT ![c] = "off"]
    /\ subscribed' = subscribed \ {c}
    /\ UNCHANGED <<conns, chan>>

\* The central unsubscribes, disconnects or is lost: retain takes out every
\* entry of its identifier, then its channel is removed.
DidUnsubscribe(c) ==
    /\ link' = [link EXCEPT ![c] = "off"]
    /\ subscribed' = subscribed \ {c}
    /\ conns' = CloseChannel(conns, chan[c])
    /\ chan' = [chan EXCEPT ![c] = 0]

\* Mutant: one receiver for all, the newest connection's.
ChannelOf_Shared(c) == IF chan[c] = 0 THEN 0 ELSE Len(conns)

ChannelOf(c) == chan[c]

\* What a central may write: a frame to TX, nothing to TX, or to CTRL.
classify_write(w) == IF w = "frame" THEN "Deliver" ELSE "Ignore"

\* BleConnection::write has a peripheral until close() has taken it.
Write(c, w) ==
    /\ link[c] # "off" /\ Budget
    /\ IF w = "frame" THEN /\ wrote' = [wrote EXCEPT ![c] = @ + 1]
                            /\ frames' = frames + 1
                       ELSE UNCHANGED <<wrote, frames>>

\* What a central writes to TX goes to that central's channel; without one it
\* is dropped.
DidReceiveWrite(c) == \E w \in {"frame", "empty", "ctrl"} :
    LET frame == <<c, wrote'[c], latest[c]>> IN
    /\ Write(c, w)
    /\ conns' = [k \in DOMAIN conns |->
                   IF k = ChannelOf(c) /\ classify_write(w) = "Deliver"
                   THEN [conns[k] EXCEPT !.q = Append(@, frame)]
                   ELSE conns[k]]
    /\ UNCHANGED <<bring, events, subscribed, chan, accepted, notifying, link,
                   latest, reading, subs>>

\* Mutant: a writer's future is made only when it parks.
Waiters_Late == {k \in Conns : writer[k] = "parked"}

\* The Notified futures that exist, polled or not.
Waiters == {k \in Conns : writer[k] # "idle"}

\* peripheralManagerIsReadyToUpdateSubscribers, after a notification has left
\* a queue that had refused one: notify_waiters.
Drained(q) ==
    /\ cbq' = q
    /\ wantReady' = FALSE
    /\ woken' = IF wantReady THEN woken \cup Waiters ELSE woken

\* The radio sends the notification at the head of the queue.
Transmit ==
    /\ cbq # <<>>
    /\ Drained(Tail(cbq))
    /\ UNCHANGED <<bring, events, peripheral, writer, centrals, frames>>

-----------------------------------------------------------------------------
\* The accept loop

\* wait_for_central: a fresh channel replaces the central's entry, if any.
WaitForCentral ==
    /\ bring = "up" /\ events # <<>>
    /\ events' = Tail(events)
    /\ LET c == Head(events)
           k == Len(conns) + 1
           u == taken + 1   \* the events come in the order of the subscriptions
       IN  /\ conns' = Append(CloseChannel(conns, chan[c]),
                              [central |-> c, sub |-> u, q |-> <<>>, open |-> TRUE,
                               read |-> <<>>])
           /\ chan' = [chan EXCEPT ![c] = k]
           /\ early' = IF c \in subscribed THEN early ELSE early \cup {k}
           /\ stale' = IF c \in subscribed /\ latest[c] = u THEN stale
                                                          ELSE stale \cup {k}
           /\ taken' = u
    /\ UNCHANGED <<bring, subscribed, rest>>

\* MacPeripheralConnection::read
PeripheralRead(k) ==
    /\ k \in DOMAIN conns /\ conns[k].q # <<>>
    /\ conns' = [conns EXCEPT ![k].q = Tail(@),
                              ![k].read = Append(@, Head(conns[k].q))]
    /\ UNCHANGED <<bring, events, subscribed, chan, accepted, rest>>

-----------------------------------------------------------------------------
\* MacPeripheralConnection::write

\* The Notified future is made before the attempt.
WriteArm(k) ==
    /\ k \in DOMAIN conns
    /\ \/ writer[k] = "idle" /\ Budget /\ frames' = frames + 1
       \/ writer[k] = "parked" /\ k \in woken /\ UNCHANGED frames
    /\ writer' = [writer EXCEPT ![k] = "armed"]
    /\ woken' = woken \ {k}
    /\ UNCHANGED <<bring, events, peripheral, cbq, wantReady, centrals>>

\* updateValue returns false.
Full == Len(cbq) >= QueueCap

\* notify_subscribed: to every subscribed central, whoever the connection is
\* for; with none it counts as sent.
WriteTry(k) ==
    /\ writer[k] = "armed"
    /\ IF subscribed = {}
       THEN /\ writer' = [writer EXCEPT ![k] = "idle"]
            /\ UNCHANGED <<cbq, wantReady>>
       ELSE IF ~Full
       THEN /\ cbq' = Append(cbq, subscribed)
            /\ writer' = [writer EXCEPT ![k] = "idle"]
            /\ UNCHANGED wantReady
       ELSE /\ wantReady' = TRUE
            /\ writer' = [writer EXCEPT ![k] = "refused"]
            /\ UNCHANGED cbq
    /\ UNCHANGED <<bring, events, peripheral, woken, centrals, frames>>

\* The queue was full: the select! polls the future for the first time.
WritePark(k) ==
    /\ writer[k] = "refused"
    /\ writer' = [writer EXCEPT ![k] = "parked"]
    /\ UNCHANGED <<bring, events, peripheral, woken, cbq, wantReady, centrals, frames>>

\* The two-second timer: the frame is given up with an error.
WriteTimeout(k) ==
    /\ writer[k] = "parked"
    /\ writer' = [writer EXCEPT ![k] = "idle"]
    /\ UNCHANGED <<bring, events, peripheral, woken, cbq, wantReady, centrals, frames>>

-----------------------------------------------------------------------------
\* BleConnection at the central

CentralReadBegin(c) ==
    /\ link[c] = "up" /\ c \notin reading
    /\ reading' = reading \cup {c}
    /\ UNCHANGED <<bring, events, peripheral, notifying, link, latest, wrote, subs,
                   frames>>

\* Mutant: no timeout, only a notification ends the read.
CentralReadEnd_Parked(c) ==
    /\ c \in reading /\ cbq # <<>> /\ c \in Head(cbq)
    /\ reading' = reading \ {c}
    /\ UNCHANGED <<bring, events, peripheral, notifying, link, latest, wrote, subs,
                   frames>>

\* A notification, the end of the stream, or BLE_READ_TIMEOUT: the lock is
\* released in each case.
CentralReadEnd(c) ==
    /\ c \in reading
    /\ reading' = reading \ {c}
    /\ UNCHANGED <<bring, events, peripheral, notifying, link, latest, wrote, subs,
                   frames>>

CentralClose(c) ==
    /\ link[c] = "up"
    /\ link' = [link EXCEPT ![c] = "closing"]
    /\ UNCHANGED <<bring, events, peripheral, notifying, latest, reading, wrote, subs,
                   frames>>

\* close() has the notifications lock: unsubscribe and disconnect.
CentralCloseEnd(c) ==
    /\ link[c] = "closing" /\ c \notin reading
    /\ DidUnsubscribe(c)
    /\ UNCHANGED <<bring, events, accepted, notifying, latest, reading, wrote, subs,
                   frames>>

\* The central walks away or its process ends; CoreBluetooth reports it.
CentralLost(c) ==
    /\ link[c] # "off"
    /\ DidUnsubscribe(c)
    /\ reading' = reading \ {c}
    /\ UNCHANGED <<bring, events, accepted, notifying, latest, wrote, subs, frames>>

-----------------------------------------------------------------------------
Next ==
    \/ DidReport \/ WaitForStep \/ BringUpTimeout
    \/ Transmit \/ WaitForCentral
    \/ \E k \in Conns : PeripheralRead(k) \/ WriteArm(k) \/ WriteTry(k)
                       \/ WritePark(k) \/ WriteTimeout(k)
    \/ \E c \in Centrals :
          \/ DidSubscribe(c) \/ DidReceiveWrite(c)
          \/ CentralReadBegin(c) \/ CentralReadEnd(c)
          \/ CentralClose(c) \/ CentralCloseEnd(c) \/ CentralLost(c)

Spec == Init /\ [][Next]_vars

\* Timers fire, the radio sends, and tasks that can go on do.
FairSpec ==
    /\ Spec /\ WF_vars(WaitForStep \/ BringUpTimeout)
    /\ WF_vars(Transmit) /\ WF_vars(WaitForCentral)
    /\ \A c \in Centrals : WF_vars(CentralCloseEnd(c)) /\ WF_vars(CentralReadEnd(c))

-----------------------------------------------------------------------------
\* Each connection reads what its own central wrote under one subscription, in
\* order and without a gap: routing by central keeps two centrals, and two
\* connections of one central, from taking each other's frames.  That
\* subscription is the one the connection was accepted for, unless it had ended
\* before wait_for_central came to its event: such a connection is given the
\* frames of the central's next one until that is accepted too.
ReadsItsOwnCentral ==
    \A k \in DOMAIN conns :
        LET s == conns[k].read \o conns[k].q IN
        \A i \in DOMAIN s :
            /\ s[i] = <<conns[k].central, s[1][2] + i - 1, s[1][3]>>
            /\ s[i][3] = conns[k].sub \/ k \in stale

\* A writer that waits for CoreBluetooth is woken: its queue is still full and
\* will call back, or the wake-up has already come.
NoLostWakeup ==
    \A k \in Conns :
        writer[k] = "parked" => k \in woken \/ (wantReady /\ cbq # <<>>)

\* The comment in didUnsubscribe: the reader "observes EOF instead of
\* hanging".  A connection that could still read has a subscribed central,
\* unless the central had left before wait_for_central came to it.
OpenMeansSubscribed ==
    \A k \in DOMAIN conns :
        conns[k].open => conns[k].central \in subscribed \/ k \in early

\* What a central closes ends at both sides: the read timeout frees the lock
\* that close() waits for, and the peripheral's reader gets its end.
CloseReachesPeripheral ==
    \A c \in Centrals : link[c] = "closing" ~> c \notin subscribed
=============================================================================
