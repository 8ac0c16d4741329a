---------------------------- MODULE ZdprService -----------------------------
(***************************************************************************)
(* What a reliable ZDP session promises to the two management planes it    *)
(* joins, without windows, retries or messages: a packet that was sent is  *)
(* handed to the peer's management processor at most once, or is given up  *)
(* by the peer and then never handed over, and what the sender learns of a *)
(* packet is what happened to it.                                          *)
(***************************************************************************)
EXTENDS Integers

VARIABLES
    next,        \* the next sequence number: packets 0..next-1 were sent
    delivered,   \* packets handed to the peer's management processor
    redelivered, \* packets handed to it a second time
    refused,     \* packets the peer has acknowledged as canceled
    told_acked,  \* packets the sender knows to be acknowledged
    told_canceled \* packets the sender knows to be canceled

svars == <<next, delivered, redelivered, refused, told_acked, told_canceled>>

SInit == /\ next = 0
         /\ delivered = {} /\ redelivered = {} /\ refused = {}
         /\ told_acked = {} /\ told_canceled = {}

\* Sending, possibly several packets that had been waiting.
SSend == /\ next' \in Nat /\ next' > next
         /\ UNCHANGED <<delivered, redelivered, refused, told_acked, told_canceled>>

SUndecided(sn) == sn \in 0..(next - 1) /\ sn \notin delivered \cup refused

SDeliver(sn) ==
    /\ SUndecided(sn)
    /\ delivered' = delivered \cup {sn}
    /\ UNCHANGED <<next, redelivered, refused, told_acked, told_canceled>>

SRefuse(sn) ==
    /\ SUndecided(sn)
    /\ refused' = refused \cup {sn}
    /\ UNCHANGED <<next, delivered, redelivered, told_acked, told_canceled>>

\* The sender learns the fate of a packet; waiting packets may go out with it.
SLearn(sn) ==
    /\ \/ sn \in delivered /\ told_acked' = told_acked \cup {sn}
                           /\ UNCHANGED told_canceled
       \/ sn \in refused /\ told_canceled' = told_canceled \cup {sn}
                         /\ UNCHANGED told_acked
    /\ next' \in Nat /\ next' >= next
    /\ UNCHANGED <<delivered, redelivered, refused>>

SNext == SSend \/ \E sn \in 0..(next - 1) : SDeliver(sn) \/ SRefuse(sn) \/ SLearn(sn)

SSpec == SInit /\ [][SNext]_svars

=============================================================================
