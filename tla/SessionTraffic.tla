---------------------------- MODULE SessionTraffic ----------------------------
(***************************************************************************)
(* Messages and acknowledgements between two nodes A and B joined by a     *)
(* multi-link session:                                                     *)
(*   core/session/io.rs      Session::send with its inline failover, on_ack*)
(*   core/session/reader.rs  Session::recv, the delayed acknowledgement    *)
(* A sends (several tasks at once, one per caller), B only receives (one   *)
(* reader task per link that was ever attached).  The set of links is      *)
(* fixed: attaching and detaching is the subject of NodePeers.             *)
(*                                                                         *)
(* Session::send puts the payload on the wire as the caller gave it; the   *)
(* reader takes the first four bytes for the session sequence number and   *)
(* the rest for the payload.  content[m] is what the four bytes of         *)
(* message m say, or Short when there are fewer.                           *)
(***************************************************************************)
EXTENDS TrafficState

netVars    == <<up, toB, toA>>
sendVars   == <<activeA, sick, ring, sat, smsg, slink, issued, content>>
recvVars   == <<activeB, window, pending, rat, rmsg, rack, got, lapsed,
                owed, rcov, ackDropped>>
vars       == <<netVars, sendVars, recvVars, losses>>

SendPlaces == {"idle", "pick", "adopt", "write", "promote", "retry", "record"}
RecvPlaces == {"loop", "count", "take", "snapshot", "send"}
NoMsg      == 0

TypeOK ==
    /\ up \in SUBSET Links /\ sick \in SUBSET Links
    /\ toB \in [Links -> Seq(Msgs)]
    /\ toA \in [Links -> Seq([ack : SeqNos, bitmap : SUBSET Bits])]
    /\ issued \in 0 .. MaxMsgs /\ content \in [Msgs -> SeqNos \union {Short}]
    /\ activeA \in Links \union {None} /\ activeB \in Links \union {None}
    /\ ring \in Seq(SeqNos)
    /\ sat \in [Senders -> SendPlaces]
    /\ smsg \in [Senders -> Msgs \union {NoMsg}]
    /\ slink \in [Senders -> Links \union {None}]
    /\ window \in Windows /\ pending \in Nat
    /\ rat \in [Readers -> RecvPlaces]
    /\ rmsg \in [Readers -> Msgs \union {NoMsg}]
    /\ rack \in [Readers -> [ack : SeqNos, bitmap : SUBSET Bits]]
    /\ got \in [Msgs -> Nat] /\ lapsed \in SUBSET Msgs
    /\ owed \in SUBSET Msgs /\ rcov \in [Readers -> SUBSET Msgs]
    /\ ackDropped \in BOOLEAN /\ losses \in 0 .. MaxLosses

Nothing == [ack |-> 0, bitmap |-> {}]

\* Both ends start with all links attached.  A fresh session has its first
\* link active; one whose active link was detached and replaced has none.  The
\* callers send whatever they like.
Init ==
    /\ up = Links /\ sick = {}
    /\ toB = [l \in Links |-> <<>>] /\ toA = [l \in Links |-> <<>>]
    /\ issued = 0 /\ ring = <<>> /\ content \in [Msgs -> Beginnings]
    /\ activeA \in Links \union {None} /\ activeB \in Links \union {None}
    /\ sat = [s \in Senders |-> "idle"] /\ smsg = [s \in Senders |-> NoMsg]
    /\ slink = [s \in Senders |-> None]
    /\ window = NewWindow /\ pending = 0
    /\ rat = [r \in Readers |-> "loop"] /\ rmsg = [r \in Readers |-> NoMsg]
    /\ rack = [r \in Readers |-> Nothing]
    /\ got = [m \in Msgs |-> 0] /\ lapsed = {}
    /\ owed = {} /\ rcov = [r \in Readers |-> {}]
    /\ ackDropped = FALSE /\ losses = 0

-----------------------------------------------------------------------------
(* Session::send.                                                          *)

\* SeqGen starts at 0 and wraps; message m is the m-th to take a number.
SeqOf(m) == (m - 1) % M

\* Take the next number and build the frame of the payload the caller gave.  A
\* payload that cannot be compressed or encrypted or is too large for a frame
\* uses the number up, and send returns the error.
SendBegin(s) ==
    /\ sat[s] = "idle" /\ issued < MaxMsgs
    /\ issued' = issued + 1
    /\ \/ /\ smsg' = [smsg EXCEPT ![s] = issued + 1]
          /\ sat' = [sat EXCEPT ![s] = "pick"]
       \/ UNCHANGED <<smsg, sat>>
    /\ UNCHANGED <<netVars, activeA, sick, ring, slink, content, recvVars, losses>>

SendReturn(s) ==
    /\ sat' = [sat EXCEPT ![s] = "idle"]
    /\ smsg' = [smsg EXCEPT ![s] = NoMsg]
    /\ slink' = [slink EXCEPT ![s] = None]

\* current_or_pick: the active link if healthy, else the best healthy one;
\* NoHealthyLink without.
CurrentOrPick(s) ==
    /\ sat[s] = "pick"
    /\ IF activeA \in Links \ sick
       THEN /\ slink' = [slink EXCEPT ![s] = activeA]
            /\ sat' = [sat EXCEPT ![s] = "write"]
            /\ UNCHANGED smsg
       ELSE \/ /\ Links \subseteq sick
               /\ SendReturn(s)
            \/ \E l \in Links \ sick :
                  /\ slink' = [slink EXCEPT ![s] = l]
                  /\ sat' = [sat EXCEPT ![s] = "adopt"]
                  /\ UNCHANGED smsg
    /\ UNCHANGED <<netVars, activeA, sick, ring, issued, content, recvVars, losses>>

\* ... which becomes active if no link is by now.
Adopt(s) ==
    /\ sat[s] = "adopt"
    /\ activeA' = IF activeA = None THEN slink[s] ELSE activeA
    /\ sat' = [sat EXCEPT ![s] = "write"]
    /\ UNCHANGED <<netVars, sick, ring, smsg, slink, issued, content,
                   recvVars, losses>>

\* Link::send: a write to a link that is up succeeds.  One that fails may
\* have been carried out by a link that went down with it, and the error may
\* be the one that makes the link unhealthy.
Written(s) == toB' = [toB EXCEPT ![slink[s]] = Append(@, smsg[s])]

Failed(s) ==
    /\ slink[s] \notin up
    /\ sick' \in {sick, sick \union {slink[s]}}
    /\ \/ Written(s)
       \/ UNCHANGED toB

Write(s) ==
    /\ sat[s] = "write"
    /\ \/ /\ slink[s] \in up /\ Written(s)
          /\ sat' = [sat EXCEPT ![s] = "record"]
          /\ UNCHANGED sick
       \/ /\ Failed(s)
          /\ sat' = [sat EXCEPT ![s] = "promote"]
    /\ UNCHANGED <<up, toA, activeA, ring, smsg, slink, issued, content,
                   recvVars, losses>>

\* promote_on_failure: the best healthy link but the failing one is active.
PromoteOnFailure(s) ==
    /\ sat[s] = "promote"
    /\ \/ /\ Links \ {slink[s]} \subseteq sick
          /\ SendReturn(s)
          /\ UNCHANGED activeA
       \/ \E l \in Links \ (sick \union {slink[s]}) :
             /\ activeA' = l
             /\ slink' = [slink EXCEPT ![s] = l]
             /\ sat' = [sat EXCEPT ![s] = "retry"]
             /\ UNCHANGED smsg
    /\ UNCHANGED <<netVars, sick, ring, issued, content, recvVars, losses>>

\* One retry, then NoHealthyLink.
Retry(s) ==
    /\ sat[s] = "retry"
    /\ \/ /\ slink[s] \in up /\ Written(s)
          /\ sat' = [sat EXCEPT ![s] = "record"]
          /\ UNCHANGED <<sick, smsg, slink>>
       \/ Failed(s) /\ SendReturn(s)
    /\ UNCHANGED <<up, toA, activeA, ring, issued, content, recvVars,
                   losses>>

\* record_unacked, after the frame was written.
RecordUnacked(s) ==
    /\ sat[s] = "record"
    /\ ring' = RingPush(ring, SeqOf(smsg[s]))
    /\ SendReturn(s)
    /\ UNCHANGED <<netVars, activeA, sick, issued, content, recvVars, losses>>

\* A's reader takes an acknowledgement off a link: on_ack.  The successful
\* read may be the one that makes the link healthy again.
OnAck(l) ==
    LET a == Head(toA[l]) IN
    /\ toA[l] # <<>>
    /\ toA' = [toA EXCEPT ![l] = Tail(@)]
    /\ ring' = Sack(AckCum(ring, a.ack), a.ack, a.bitmap)
    /\ sick' \in {sick, sick \ {l}}
    /\ UNCHANGED <<up, toB, activeA, sat, smsg, slink, issued, content,
                   recvVars, losses>>

\* A's reader fails on a link that is down, often enough to make it unhealthy.
ReadError(l) ==
    /\ l \notin up /\ toA[l] = <<>> /\ l \notin sick
    /\ sick' = sick \union {l}
    /\ UNCHANGED <<netVars, activeA, ring, sat, smsg, slink, issued, content,
                   recvVars, losses>>

-----------------------------------------------------------------------------
(* Session::recv on B.                                                     *)

\* History: the accepted messages, and those of them that the newest number
\* leaves more than half the number space behind when it moves on to k.
Accepted == {m \in Msgs : got[m] > 0 \/ \E r \in Readers : rmsg[r] = m}

PassedBy(k) ==
    LET forward == WrapSub(k, window.last)
    IN  {m \in Accepted :
            /\ IsForward(forward)
            /\ 2 * (WrapSub(window.last, content[m]) + forward) > M}

\* consume_message: a frame without a number and a repeated or stale number
\* are dropped; an accepted message is on its way to the caller.
RecvMessage(r, l) ==
    LET m  == Head(toB[l])
        k  == content[m]
        ok == k # Short /\ Verdict(window, k) = "Accept"
    IN
    /\ rat[r] = "loop" /\ toB[l] # <<>>
    /\ toB' = [toB EXCEPT ![l] = Tail(@)]
    /\ window' = IF ok THEN Observe(window, k) ELSE window
    /\ rat' = [rat EXCEPT ![r] = IF ok THEN "count" ELSE "loop"]
    /\ rmsg' = [rmsg EXCEPT ![r] = IF ok THEN m ELSE NoMsg]
    /\ owed' = IF ok THEN owed \union {m} ELSE owed
    /\ lapsed' = IF ok THEN lapsed \union PassedBy(k) ELSE lapsed
    /\ UNCHANGED <<up, toA, sendVars, activeB, pending, rack, got, rcov, ackDropped,
                   losses>>

\* Back at the head of recv; a message in hand goes to the caller.
RecvReturn(r) ==
    /\ rat' = [rat EXCEPT ![r] = "loop"]
    /\ rmsg' = [rmsg EXCEPT ![r] = NoMsg]
    /\ rack' = [rack EXCEPT ![r] = Nothing]
    /\ rcov' = [rcov EXCEPT ![r] = {}]
    /\ got' = IF rmsg[r] = NoMsg THEN got ELSE [got EXCEPT ![rmsg[r]] = @ + 1]

\* ... which counts it first and flushes when the threshold is reached.
CountAccept(r) ==
    /\ rat[r] = "count"
    /\ pending' = pending + 1
    /\ IF pending + 1 >= AckMax
       THEN /\ rat' = [rat EXCEPT ![r] = "take"]
            /\ UNCHANGED <<rmsg, rack, rcov, got>>
       ELSE RecvReturn(r)
    /\ UNCHANGED <<netVars, sendVars, activeB, window, lapsed, owed,
                   ackDropped, losses>>

\* Mutant: only the count makes an acknowledgement due.
MaybeFlush_CountOnly(r) ==
    /\ rat[r] = "loop" /\ pending >= AckMax
    /\ rat' = [rat EXCEPT ![r] = "take"]
    /\ UNCHANGED <<netVars, sendVars, activeB, window, lapsed, pending, rmsg, rack, got, owed, rcov,
                   ackDropped, losses>>

\* The count is reached, or the deadline of the first one has passed, which it
\* may do any time.
ack_should_flush == pending >= AckMax \/ pending > 0

\* maybe_flush_ack_locked
MaybeFlush(r) ==
    /\ rat[r] = "loop" /\ ack_should_flush
    /\ rat' = [rat EXCEPT ![r] = "take"]
    /\ UNCHANGED <<netVars, sendVars, activeB, window, lapsed, pending, rmsg, rack, got, owed, rcov,
                   ackDropped, losses>>

\* flush_ack_now: reset the count,
TakePending(r) ==
    /\ rat[r] = "take"
    /\ IF pending = 0
       THEN RecvReturn(r) /\ UNCHANGED pending
       ELSE /\ pending' = 0
            /\ rat' = [rat EXCEPT ![r] = "snapshot"]
            /\ UNCHANGED <<rmsg, rack, rcov, got>>
    /\ UNCHANGED <<netVars, sendVars, activeB, window, lapsed, owed,
                   ackDropped, losses>>

\* ... copy the window,
TakeSnapshot(r) ==
    /\ rat[r] = "snapshot"
    /\ rack' = [rack EXCEPT ![r] = Snapshot(window)]
    /\ rcov' = [rcov EXCEPT ![r] = owed]
    /\ rat' = [rat EXCEPT ![r] = "send"]
    /\ UNCHANGED <<netVars, sendVars, activeB, window, lapsed, pending, rmsg, got, owed, ackDropped,
                   losses>>

\* Mutant: the failed acknowledgement is given up.
Recount_GivenUp == pending

Recount == pending + 1

\* ... and write it to the active link.  A failed write counts one again; no
\* active link, no acknowledgement.
SendAck(r) ==
    /\ rat[r] = "send"
    /\ \/ /\ activeB \in up
          /\ toA' = [toA EXCEPT ![activeB] = Append(@, rack[r])]
          /\ owed' = owed \ rcov[r]
          /\ UNCHANGED <<pending, ackDropped>>
       \/ /\ activeB \in Links \ up
          /\ pending' = Recount
          /\ UNCHANGED <<toA, owed, ackDropped>>
       \/ /\ activeB = None
          /\ ackDropped' = TRUE
          /\ UNCHANGED <<toA, owed, pending>>
    /\ RecvReturn(r)
    /\ UNCHANGED <<up, toB, sendVars, activeB, window, lapsed, losses>>

\* A link goes down and keeps only some of what was under way, oldest first.
LoseLink(l) ==
    /\ l \in up /\ losses < MaxLosses
    /\ losses' = losses + 1
    /\ up' = up \ {l}
    /\ \E i \in 0 .. Len(toB[l]) : toB' = [toB EXCEPT ![l] = SubSeq(@, 1, i)]
    /\ \E i \in 0 .. Len(toA[l]) : toA' = [toA EXCEPT ![l] = SubSeq(@, 1, i)]
    /\ UNCHANGED <<sendVars, recvVars>>

SendStep(s) ==
    \/ CurrentOrPick(s) \/ Adopt(s) \/ Write(s) \/ PromoteOnFailure(s) \/ Retry(s)
    \/ RecordUnacked(s)

FlushStep(r) ==
    \/ CountAccept(r) \/ MaybeFlush(r) \/ TakePending(r) \/ TakeSnapshot(r)
    \/ SendAck(r)

Next ==
    \/ \E s \in Senders : SendBegin(s) \/ SendStep(s)
    \/ \E r \in Readers : FlushStep(r) \/ \E l \in Links : RecvMessage(r, l)
    \/ \E l \in Links : OnAck(l) \/ ReadError(l) \/ LoseLink(l)

Spec == Init /\ [][Next]_vars

(***************************************************************************)
(* Fairness: every task runs on, and a reader whose deadline has passed    *)
(* flushes (the timer branch of read_any comes first).  Messages may be    *)
(* under way for as long as they like, and callers need not send.          *)
(***************************************************************************)
Fairness == /\ \A s \in Senders : WF_vars(SendStep(s))
            /\ \A r \in Readers : WF_vars(FlushStep(r))

FairSpec == Spec /\ Fairness

-----------------------------------------------------------------------------
(* Liveness; the safety properties are in TrafficState.                    *)

(***************************************************************************)
(* Every accepted message is acknowledged as long as the active link of    *)
(* the receiver works.                                                     *)
(***************************************************************************)
AcksFlow == owed # {} ~> owed = {} \/ activeB \notin up

=============================================================================
