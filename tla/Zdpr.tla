-------------------------------- MODULE Zdpr --------------------------------
(***************************************************************************)
(* One direction of a reliable ZDP session: the sender, the network that   *)
(* loses, duplicates and reorders, the receiver with the bounded queue of  *)
(* its management processor, and the retry worker of the sending side.     *)
(*                                                                         *)
(* Each action is one handler of mgmt/core.rs, mgmt/dispatch.rs or         *)
(* zdpr_worker.rs; all of them run under the lock of the sender or of the  *)
(* receiver they touch.                                                    *)
(***************************************************************************)
EXTENDS ZdprSender, ZdprReceiver

CONSTANTS
    QueueSize,      \* capacity of the peer's management processor queue
    RetryLimits,    \* the limits callers put on retries
    MaxSeq,         \* bound: packets sent or waiting to be sent
    MaxQueued,      \* bound: packets ever put into the blocked queue
    MayCancel,      \* whether callers cancel packets or limit their retries
    Lossy           \* whether messages leave the network.  When they do not,
                    \* a message that is never looked at again is a lost one
                    \* and one that is taken again a duplicate, so that the
                    \* safety properties cover both.

ASSUME ZdprAssumption == /\ QueueSize \in Nat \ {0}
                         /\ RetryLimits \subseteq Nat
                         /\ MaxSeq \in Nat /\ MaxQueued \in Nat
                         /\ MayCancel \in BOOLEAN /\ Lossy \in BOOLEAN

VARIABLES
    snd,            \* peer_state.zdpr_send of the sending side
    rcv,            \* peer_state.zdpr_recv of the receiving side
    net,            \* packets, cancels and acknowledgements on their way
    queued,         \* length of the receiving side's mgmt_processor queue
    armed,          \* zdpr_worker: retry_needed as read at the top of the loop
    permit,         \* zdpr_retry_timer_reset holds a notification
    errors,         \* statistics counted so far whose is_protocol_error holds
    delivered, redelivered, refused, told_acked, told_canceled
                    \* history: what happened to each sequence number

session == <<snd, rcv, net, queued>>
history == <<delivered, redelivered, refused, told_acked, told_canceled>>
vars == <<session, armed, permit, errors, history>>

Pkt(sn)         == [type |-> "Mgmt", sn |-> sn]
Cancel(sn)      == [type |-> "Cancel", sn |-> sn]
Ack(sn)         == [type |-> "Acknowledgement", sn |-> sn]
CanceledMsg(sn) == [type |-> "Canceled", sn |-> sn]

\* SenderStat::is_protocol_error and ReceiverStat::is_protocol_error
ProtocolErrors == {"InvalidAck", "TooNewAck", "TooNew"}

MsgTypes == {"Mgmt", "Cancel", "Acknowledgement", "Canceled"}

Init ==
    /\ snd = new_sender /\ rcv = new_receiver
    /\ net = {} /\ queued = 0
    /\ armed = FALSE /\ permit = FALSE
    /\ errors = {}
    /\ delivered = {} /\ redelivered = {} /\ refused = {}
    /\ told_acked = {} /\ told_canceled = {}

\* What the network holds after handing over m.
Taken(m) == IF Lossy THEN net \ {m} ELSE net

-----------------------------------------------------------------------------
(* The sending side.                                                       *)

\* Mutant of SendMgmt: whether the timer runs is read after the packet is in
\* the window.
SendMgmt_late ==
    /\ snd.next + Cardinality(Waiting(snd)) < MaxSeq
    /\ sends_at_once(snd) \/ snd.next_id < MaxQueued
    /\ snd' = enqueue_packet(snd)
    /\ net' = net \cup {Pkt(sn) : sn \in snd.next..(snd'.next - 1)}
    /\ permit' = (permit \/ (sends_at_once(snd) /\ ~retry_needed(snd')))
    /\ UNCHANGED <<rcv, queued, armed, errors, history>>

\* send_mgmt_helper: the packet goes out, or waits for the window.
SendMgmt ==
    /\ snd.next + Cardinality(Waiting(snd)) < MaxSeq
    /\ sends_at_once(snd) \/ snd.next_id < MaxQueued
    /\ snd' = enqueue_packet(snd)
    /\ net' = net \cup {Pkt(sn) : sn \in snd.next..(snd'.next - 1)}
    /\ permit' = (permit \/ (sends_at_once(snd) /\ ~retry_needed(snd)))
    /\ UNCHANGED <<rcv, queued, armed, errors, history>>

\* Hello carries the window the peer's receiver accepts.
process_window_size_tlv ==
    /\ snd.window_size # Window
    /\ snd' = adjust_window_size(snd, Window)
    /\ UNCHANGED <<rcv, net, queued, armed, permit, errors, history>>

\* Dropping a `Sent` handle, or request_cancel, while the packet is blocked.
CancelQueued(id) ==
    /\ MayCancel
    /\ cancels_queued(snd, id)
    /\ snd' = cancel_queued_packet(snd, id)
    /\ UNCHANGED <<rcv, net, queued, armed, permit, errors, history>>

\* request_cancel of a packet that was sent: an immediate Cancel; the retry
\* worker repeats it.
RequestCancel(sn) ==
    /\ MayCancel
    /\ cancels_sent(snd, sn)
    /\ snd' = cancel_sent_packet(snd, sn)
    /\ net' = net \cup {Cancel(sn)}
    /\ UNCHANGED <<rcv, queued, armed, permit, errors, history>>

\* limit_retries of a packet that was sent, or of one that waits.
LimitRetries ==
    /\ MayCancel
    /\ \E limit \in RetryLimits :
         \/ \E sn \in SeqNums(snd) :
              snd' = limit_retries_by_seq_num(snd, sn, limit)
         \/ \E id \in snd.first_sent..(snd.next_id - 1) :
              snd' = limit_retries_by_id(snd, id, limit)
    /\ UNCHANGED <<rcv, net, queued, armed, permit, errors, history>>

\* AckedOrCanceled handles forget the packet when they are dropped.
Forget(sn) ==
    /\ MayCancel
    /\ sn \in SeqNums(snd)
    /\ snd' = forget_canceled_packet(snd, sn)
    /\ UNCHANGED <<rcv, net, queued, armed, permit, errors, history>>

\* The retry worker's timer: age, resend, and look again whether the timer
\* is needed.
RetryTick ==
    /\ armed
    /\ snd' = age_retries(snd)
    /\ net' = net \cup {Pkt(sn) : sn \in retry_packets(snd')}
                  \cup {Cancel(sn) : sn \in retry_cancels(snd')}
    /\ armed' = retry_needed(snd')
    /\ UNCHANGED <<rcv, queued, permit, errors, history>>

\* The retry worker is notified, restarts its interval and looks again.
RetryReset ==
    /\ permit
    /\ permit' = FALSE
    /\ armed' = retry_needed(snd)
    /\ UNCHANGED <<session, errors, history>>

\* handle_acknowledgement_canceled_common: note the answer, send what the
\* window now lets out, and start the timer if only that needs it.
HandleAckOrCanceled(m) ==
    LET is_canceled == m.type = "Canceled"
        heeded == m.sn \in SeqNums(snd) /\ Outstanding(snd.unacked[m.sn])
                    /\ ack_stat(snd, m.sn, is_canceled) = "none"
    IN  /\ m \in net /\ m.type \in {"Acknowledgement", "Canceled"}
        /\ \E s \in {IF is_canceled THEN process_canceled(snd, m.sn)
                            ELSE process_ack(snd, m.sn)} :
            /\ snd' = unblock(s)
            /\ net' = Taken(m) \cup {Pkt(sn) : sn \in s.next..(snd'.next - 1)}
            /\ permit' = (permit \/ (~retry_needed(s) /\ retry_needed(snd')))
        /\ errors' = errors \cup ({ack_stat(snd, m.sn, is_canceled)} \cap ProtocolErrors)
        /\ told_acked' = told_acked \cup
             (IF heeded /\ ~is_canceled THEN {m.sn} ELSE {})
        /\ told_canceled' = told_canceled \cup
             (IF heeded /\ is_canceled THEN {m.sn} ELSE {})
        /\ UNCHANGED <<rcv, queued, armed, delivered, redelivered, refused>>

-----------------------------------------------------------------------------
(* The receiving side.                                                     *)

Answer(disp, sn) ==
    CASE disp = "Ignore"                -> {}
      [] disp = "AckCancelDoNotProcess" -> {CanceledMsg(sn)}
      [] OTHER                          -> {Ack(sn)}

receiver_error(r, sn) ==
    IF too_new(r, sn) /\ ~too_old(r, sn) THEN {"TooNew"} ELSE {}

\* dispatch_mgmt_packet_with_link: a packet that should be processed goes to
\* the management processor first; when its queue is full the packet counts
\* as never received.
dispatch_mgmt_packet(m) ==
    LET sn   == m.sn
        disp == disposition(rcv, sn, FALSE)
        full == should_process_packet(rcv, sn) /\ queued = QueueSize
    IN  /\ m \in net /\ m.type = "Mgmt"
        /\ net' = Taken(m) \cup (IF full THEN {} ELSE Answer(disp, sn))
        /\ IF full THEN UNCHANGED <<rcv, queued, errors, delivered, redelivered>>
           ELSE /\ rcv' = process_packet_or_cancel(rcv, sn, FALSE)
                /\ errors' = errors \cup receiver_error(rcv, sn)
                /\ IF should_process_packet(rcv, sn)
                   THEN /\ queued' = queued + 1
                        /\ delivered' = delivered \cup {sn}
                        /\ redelivered' = redelivered \cup (delivered \cap {sn})
                   ELSE UNCHANGED <<queued, delivered, redelivered>>
        /\ UNCHANGED <<snd, armed, permit, refused, told_acked, told_canceled>>

handle_cancel(m) ==
    LET sn   == m.sn
        disp == disposition(rcv, sn, TRUE)
    IN  /\ m \in net /\ m.type = "Cancel"
        /\ rcv' = process_packet_or_cancel(rcv, sn, TRUE)
        /\ net' = Taken(m) \cup Answer(disp, sn)
        /\ errors' = errors \cup receiver_error(rcv, sn)
        /\ refused' = IF disp = "AckCancelDoNotProcess" THEN refused \cup {sn}
                                                        ELSE refused
        /\ UNCHANGED <<snd, queued, armed, permit, delivered, redelivered,
                       told_acked, told_canceled>>

\* mgmt_processor_worker takes the next packet.
ProcessNext ==
    /\ queued > 0
    /\ queued' = queued - 1
    /\ UNCHANGED <<snd, rcv, net, armed, permit, errors, history>>

-----------------------------------------------------------------------------
\* The substrate loses a message (or a full egress queue drops it).
Lose(m) ==
    /\ Lossy
    /\ net' = net \ {m}
    /\ UNCHANGED <<snd, rcv, queued, armed, permit, errors, history>>

Next ==
    \/ SendMgmt
    \/ process_window_size_tlv
    \/ \E id \in BlockedIds(snd) : CancelQueued(id)
    \/ \E sn \in SeqNums(snd) : RequestCancel(sn)
    \/ LimitRetries
    \/ \E sn \in SeqNums(snd) : Forget(sn)
    \/ RetryTick
    \/ RetryReset
    \/ \E m \in net : HandleAckOrCanceled(m)
    \/ \E m \in net : dispatch_mgmt_packet(m)
    \/ \E m \in net : handle_cancel(m)
    \/ ProcessNext
    \/ \E m \in net : Lose(m)

Spec == Init /\ [][Next]_vars

\* The peer hears of sn, and the sender hears back about it.
Heard(sn) == \/ queued < QueueSize /\ dispatch_mgmt_packet(Pkt(sn))
             \/ handle_cancel(Cancel(sn))

HeardBack(sn) == HandleAckOrCanceled(Ack(sn)) \/ HandleAckOrCanceled(CanceledMsg(sn))

\* The retry worker and the management processor keep running; the substrate
\* may lose any number of copies of a message but not every one (each retry
\* is a new copy), and a queue that keeps being emptied is found not full.
Fairness ==
    /\ WF_vars(RetryTick) /\ WF_vars(RetryReset) /\ WF_vars(ProcessNext)
    /\ \A sn \in 0..(MaxSeq - 1) : SF_vars(Heard(sn)) /\ SF_vars(HeardBack(sn))

FairSpec == Spec /\ Fairness

\* Moreover, whoever canceled a packet forgets it once the answer is there, as
\* forget_canceled_packet requires.
CallersForget ==
    \A sn \in 0..(MaxSeq - 1) :
        WF_vars(is_cancel_acked(snd, sn) /\ Forget(sn))

FairCallersSpec == FairSpec /\ CallersForget

-----------------------------------------------------------------------------
(* Properties.                                                             *)

\* The fields of the two ends and of the messages have their types, and the
\* deques sit on the ranges of sequence numbers and ids they are indexed by.
TypeOK ==
    /\ snd.window_size \in {1, Window}
    /\ snd.base \in Nat /\ snd.next \in Nat /\ snd.base <= snd.next
    /\ DOMAIN snd.unacked = SeqNums(snd)
    /\ \A sn \in SeqNums(snd) : IsUnackedState(snd.unacked[sn])
    /\ snd.first_sent \in Nat /\ snd.first_blocked \in Nat /\ snd.next_id \in Nat
    /\ snd.first_sent <= snd.first_blocked /\ snd.first_blocked <= snd.next_id
    /\ rcv.highest_seen \in Nat \cup {-1}
    /\ rcv.recvd \subseteq Positions /\ rcv.canceled \subseteq Positions
    /\ \A m \in net : m.type \in MsgTypes /\ m.sn \in Nat
    /\ queued \in 0..QueueSize
    /\ armed \in BOOLEAN /\ permit \in BOOLEAN
    /\ errors \subseteq ProtocolErrors

\* Each packet reaches the peer's management processor at most once, and
\* never after the peer has acknowledged its cancellation, however often the
\* packet and its cancel are retried, duplicated or delayed.
AtMostOnce == redelivered = {} /\ delivered \cap refused = {}

\* What the sender reports is what happened: a packet it holds as Acked
\* without having been told of a cancel was given to the management
\* processor, and one it holds as canceled never was.
ReportsAreTrue == /\ told_acked \subseteq delivered
                  /\ told_canceled \subseteq refused
                  /\ \A sn \in SeqNums(snd) :
                       snd.unacked[sn].st = "CancelAcked" => sn \in refused

\* Every packet that has left the sender's window was decided by the peer:
\* the window never slides past a packet that was lost.
WindowCoversUndecided == 0..(snd.base - 1) \subseteq delivered \cup refused

\* A packet still outstanding is never too old for the receiver, whose bitset
\* would otherwise have dropped it and would ignore all its retries.
OutstandingIsAcceptable ==
    \A sn \in SeqNums(snd) :
        Outstanding(snd.unacked[sn]) => ~too_old(rcv, sn) /\ ~too_new(rcv, sn)

\* Between correct peers nothing is counted that would mean that the other
\* side sent beyond the window or acknowledged what was not sent.
NoWindowErrors == errors \cap {"TooNew", "TooNewAck"} = {}

\* The retry worker never sleeps with packets outstanding: its timer runs, or
\* a notification waits for it.
RetryIsScheduled == retry_needed(snd) => armed \/ permit

Service == INSTANCE ZdprService WITH next <- snd.next

\* The session implements the promise of ZdprService.
ServiceSpec == Service!SSpec

\* Every packet sent is eventually acknowledged, as received or as canceled.
EventuallyAnswered ==
    \A sn \in 0..(MaxSeq - 1) :
        (sn < snd.next) ~> (sn \in told_acked \cup told_canceled)

\* Unless the peer confirms a cancel, every packet that waits for the window
\* is eventually sent (or canceled while it waits).
UnblockedUnlessCanceled ==
    \A id \in 0..(MaxQueued - 1) :
        (id < snd.next_id) ~> (is_sent(snd, id) \/ told_canceled # {})

\* Every packet that waits for the window is eventually sent or canceled.
EventuallyUnblocked ==
    \A id \in 0..(MaxQueued - 1) :
        (id < snd.next_id) ~> (is_sent(snd, id))

=============================================================================
