-------------------------- MODULE AtMostOnceChannel --------------------------
(***************************************************************************)
(* What a receiver behind the duplicate filter promises to the application *)
(* (protocol/seq.rs, core/session/reader.rs): a message is handed over     *)
(* only after it was offered, and no message is handed over twice.  It may *)
(* overtake others or never arrive.  DedupDelivery and SessionTraffic      *)
(* implement it.                                                           *)
(***************************************************************************)
EXTENDS Naturals

CONSTANT Messages

VARIABLES
    offered,    \* messages the sender has numbered
    returned    \* per message, how often the application was given it

Init == offered = {} /\ returned = [m \in Messages |-> 0]

Offer(m) ==
    /\ m \in Messages \ offered
    /\ offered' = offered \union {m}
    /\ UNCHANGED returned

Return(m) ==
    /\ m \in offered /\ returned[m] = 0
    /\ returned' = [returned EXCEPT ![m] = 1]
    /\ UNCHANGED offered

Next == \E m \in Messages : Offer(m) \/ Return(m)

Spec == Init /\ [][Next]_<<offered, returned>>
=============================================================================
