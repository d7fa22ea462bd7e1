----------------------------- MODULE TrafficState -----------------------------
(***************************************************************************)
(* What two nodes joined by a multi-link session keep (core/session/io.rs  *)
(* and reader.rs), and what must hold of it.  The steps of Session::send   *)
(* and Session::recv are in SessionTraffic.                                *)
(***************************************************************************)
EXTENDS UnackedRing, FiniteSets

CONSTANTS
    Links,      \* links of the session
    Senders,    \* tasks that call Session::send on A
    Readers,    \* reader tasks on B
    MaxMsgs,    \* bound: messages sent
    MaxLosses,  \* bound: links that go down
    AckMax,     \* ACK_MAX_PENDING (8)
    None,       \* no link
    Short,      \* the payload has fewer than four bytes
    Beginnings  \* what the first four bytes of a payload may say

Msgs == 1 .. MaxMsgs

ASSUME TrafficAssumption ==
    /\ MaxMsgs \in Nat /\ MaxLosses \in Nat /\ AckMax \in Nat \ {0}
    /\ None \notin Links /\ Links # {}
    /\ Beginnings \subseteq SeqNos \union {Short}

VARIABLES
    \* -- the links -----------------------------------------------------
    up,         \* links that still carry data
    toB,        \* per link, messages under way
    toA,        \* per link, acknowledgements under way
    \* -- A -------------------------------------------------------------
    activeA,    \* Session::active
    sick,       \* links that is_healthy turns down
    ring,       \* UnackedRing
    sat, smsg, slink,   \* senders: place, message in hand, link chosen
    \* -- B -------------------------------------------------------------
    activeB,    \* Session::active
    window,     \* DedupWindow
    pending,    \* AckPending::count
    rat, rmsg, rack,    \* readers: place message, snapshot
    \* -- history -------------------------------------------------------
    issued,     \* messages handed to send; message m got number m - 1
    content,    \* per message, what its first four bytes say
    got,        \* per message, how often B returned it to the caller
    lapsed,     \* accepted messages the newest number seen has since moved on
                \* from by more than half the number space
    owed,       \* accepted messages no acknowledgement sent so far reports
    rcov,       \* readers: accepted messages their snapshot reports
    ackDropped, \* an acknowledgement was thrown away
    losses

-----------------------------------------------------------------------------
(* Properties.                                                             *)

(***************************************************************************)
(* The delayed acknowledgement forgets nobody: an accepted message that no *)
(* acknowledgement has reported is being counted, is counted, or will be   *)
(* reported by a reader that is already flushing, although two readers     *)
(* reset the count, copy the window and write in any order.                *)
(***************************************************************************)
NoAckForgotten ==
    ~ackDropped =>
        \A m \in owed :
            \/ pending > 0
            \/ \E r \in Readers : \/ rat[r] = "count" /\ rmsg[r] = m
                                  \/ rat[r] = "snapshot"
                                  \/ rat[r] = "send" /\ m \in rcov[r]

Failover == INSTANCE AtMostOnceChannel
            WITH Messages <- Msgs, offered <- 1 .. issued, returned <- got

\* The one exception: a message that has lapsed may reach the caller again.
Again(m) ==
    /\ m \in lapsed
    /\ got' = [got EXCEPT ![m] = @ + 1]
    /\ UNCHANGED issued

(***************************************************************************)
(* Session::send and Session::recv step as the channel does: a write that  *)
(* failed on one link and was carried out all the same, repeated on        *)
(* another link and read by another task, reaches the caller once, and     *)
(* nothing reaches it that was not sent, whatever the payloads begin with. *)
(* The exception is in the statement: the filter reads the number off the  *)
(* payload, so a payload may take the newest number more than half the     *)
(* number space past a message, and a later copy of that message counts    *)
(* as new.                                                                 *)
(***************************************************************************)
OnceUnlessLapsed ==
    /\ Failover!Init
    /\ [][Failover!Next \/ \E m \in Msgs : Again(m)]_<<issued, got>>
===============================================================================
