---------------------------- MODULE LinkRestart -----------------------------
(***************************************************************************)
(* Zdpr and LinkState composed: what becomes of a reliable session when    *)
(* its link is closed and started again.                                   *)
(*                                                                         *)
(* complete_close removes the peer at the node, and a new one, with a new  *)
(* sender and receiver, is inserted when the adapter's next handshake      *)
(* arrives; the adapter keeps its peer and only starts the link again.     *)
(***************************************************************************)
EXTENDS Zdpr

CONSTANT MaxLinks       \* bound: links established between the two

VARIABLES
    adapter,            \* which end of the session the adapter is
    links               \* links established so far

restart_vars == <<vars, adapter, links>>

RestartInit ==
    /\ Init
    /\ adapter \in {"sender", "receiver"} /\ links = 1

\* The link is closed at both ends and started again.  The new keys cut off
\* what the network still holds; the histories are those of the new link.
Restart ==
    /\ links < MaxLinks /\ links' = links + 1
    /\ IF adapter = "receiver"
         THEN /\ snd' = new_sender /\ armed' = FALSE /\ permit' = FALSE
              /\ UNCHANGED <<rcv, queued>>
         ELSE /\ rcv' = new_receiver /\ queued' = 0
              /\ UNCHANGED <<snd, armed, permit>>
    /\ net' = {} /\ errors' = {}
    /\ delivered' = {} /\ redelivered' = {} /\ refused' = {}
    /\ told_acked' = {} /\ told_canceled' = {}
    /\ UNCHANGED adapter

RestartNext == (Next /\ UNCHANGED <<adapter, links>>) \/ Restart

RestartSpec == RestartInit /\ [][RestartNext]_restart_vars

-----------------------------------------------------------------------------
(* Properties.                                                             *)

\* What is acknowledged over a link was acted on over that link: the answer to
\* the hello of a link that was started again in particular.
AckedIsTaken == told_acked \subseteq delivered

=============================================================================
