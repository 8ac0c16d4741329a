------------------------------ MODULE MgmtSend ------------------------------
(***************************************************************************)
(* The futures by which callers follow a management packet they have sent: *)
(* Sent, Acked and AckedOrCanceled of mgmt/core.rs, over the sender of     *)
(* module ZdprSender.  Each packet has one future; its task parks when a   *)
(* poll returns Pending and runs again once its waker fires.               *)
(*                                                                         *)
(* The peer is what ZdprService promises: it takes a packet or refuses it, *)
(* once, and answers any number of times.                                  *)
(***************************************************************************)
EXTENDS ZdprSender

CONSTANTS
    Futures,        \* one future per packet
    Window,         \* window size the peer announces
    RetryLimits,    \* limits given to limit_retries
    Calls           \* which methods callers use, of CallNames

CallNames == {"try_cancel", "request_cancel", "limit_retries", "enqueue", "drop"}

ASSUME MgmtSendAssumption == /\ Window \in Nat \ {0} /\ RetryLimits \subseteq Nat
                             /\ Calls \subseteq CallNames

VARIABLES
    snd,            \* peer_state.zdpr_send; a new one once the link is closed
    link,           \* whether the peer table still has the link
    fut,            \* the futures, with what became of them
    delivered, refused,     \* what the peer decided
    panicked        \* the panics that happened

vars == <<snd, link, fut, delivered, refused, panicked>>

(* PacketId *)
Queued(id)  == <<"Queued", id>>
Sent(sn)    == <<"Sent", sn>>
IdAcked     == <<"Acked", 0>>
IdCanceled  == <<"Canceled", 0>>

\* kind is the type of the future, "unused" before and "gone" after it is
\* one; out is what it resolved to.  id and sn are history: the packet's
\* QueuedPacketId and sequence number, as the sender knows them.
Unused == [kind |-> "unused", packet_id |-> IdAcked, parked |-> FALSE,
           out |-> "none", id |-> NoSeq, sn |-> NoSeq]

\* What is left of a future that was consumed.
Gone(g) == [Unused EXCEPT !.kind = "gone", !.out = g.out,
                          !.sn = IF g.out = "none" THEN NoSeq ELSE g.sn]

Kinds == {"unused", "Sent", "Acked", "AckedOrCanceled", "gone"}
Outcomes == {"none", "Acked", "Canceled", "LinkClosed", "Packet"}

Live(f) == fut[f].kind \in {"Sent", "Acked", "AckedOrCanceled"}

Init ==
    /\ snd = new_sender /\ link = TRUE
    /\ fut = [f \in Futures |-> Unused]
    /\ delivered = {} /\ refused = {} /\ panicked = {}

-----------------------------------------------------------------------------
(* Wakers.  A waker fires when its packet leaves the blocked queue, is     *)
(* answered, or the sender is dropped.                                     *)

HasWaker(s, f) ==
    \/ fut[f].id \in Waiting(s) /\ s.blocked[fut[f].id].waker
    \/ /\ fut[f].sn \in SeqNums(s) /\ Outstanding(s.unacked[fut[f].sn])
       /\ s.unacked[fut[f].sn].waker

\* A task is woken when its packet leaves the blocked queue or is answered
\* between s and t, if its waker was there.
Woken(s, t, f) ==
    /\ HasWaker(s, f)
    /\ \/ fut[f].id \in Waiting(s) \ Waiting(t)
       \/ /\ fut[f].sn \in SeqNums(s)
          /\ ~(fut[f].sn \in SeqNums(t) /\ Outstanding(t.unacked[fut[f].sn]))

\* The futures after the sender went from s to t: packets have got their
\* sequence numbers, and tasks have been woken.
Follow(fs, s, t) ==
    [f \in Futures |->
       [fs[f] EXCEPT
          !.sn = IF fs[f].id \in Waiting(s) \ Waiting(t) /\ fs[f].id \in DOMAIN t.sent
                 THEN t.sent[fs[f].id] ELSE @,
          !.parked = @ /\ ~Woken(s, t, f)]]

\* The sender becomes s, and future f what g says.
Step(s, f, g) ==
    /\ snd' = s
    /\ fut' = Follow([fut EXCEPT ![f] = g], snd, s)
    /\ UNCHANGED <<link, delivered, refused>>

-----------------------------------------------------------------------------
(* Sending and converting.                                                 *)

\* send_mgmt_helper.  Without a link the future carries an unknown link id,
\* and all its operations find no peer.
send_mgmt_helper(f) ==
    /\ fut[f].kind = "unused"
    /\ LET new == [Unused EXCEPT !.kind = "Sent"]
       IN  IF ~link
           THEN Step(snd, f, [new EXCEPT !.packet_id = Queued(0)])
           ELSE IF sends_at_once(snd)
           THEN Step(enqueue_packet(snd), f,
                     [new EXCEPT !.packet_id = Sent(snd.next), !.sn = snd.next])
           ELSE Step(enqueue_packet(snd), f,
                     [new EXCEPT !.packet_id = Queued(snd.next_id), !.id = snd.next_id])
    /\ UNCHANGED panicked

\* Sent::acked, and From<Acked> for AckedOrCanceled.
Convert(f) ==
    /\ \/ fut[f].kind = "Sent" /\ fut' = [fut EXCEPT ![f].kind = "Acked"]
       \/ fut[f].kind = "Acked" /\ fut' = [fut EXCEPT ![f].kind = "AckedOrCanceled"]
    /\ UNCHANGED <<snd, link, delivered, refused, panicked>>

update_sent_packet_id(seq_num) == IF seq_num = NoSeq THEN IdAcked ELSE Sent(seq_num)

IsQueued(g) == g.packet_id[1] = "Queued"

\* try_cancel_internal succeeds on a packet that still waits.
try_cancels(g) == link /\ IsQueued(g) /\ cancels_queued(snd, g.packet_id[2])

\* Otherwise it looks the packet up, and panics (with the sender locked) when
\* the packet was canceled before but still has its place in the queue.
lookup_panics(g) ==
    /\ link /\ IsQueued(g) /\ ~is_sent(snd, g.packet_id[2]) /\ ~try_cancels(g)

after_try(g) ==
    IF link /\ IsQueued(g) /\ is_sent(snd, g.packet_id[2])
    THEN [g EXCEPT !.packet_id = update_sent_packet_id(lookup_seq_num(snd, g.packet_id[2]))]
    ELSE g

Panic(site) == /\ panicked' = panicked \cup {site}
               /\ UNCHANGED <<snd, link, fut, delivered, refused>>

\* Sent::try_cancel.  When it succeeds the future is dropped on return, and
\* its Drop tries once more to cancel the packet it still calls Queued.
try_cancel(f) ==
    LET g == fut[f]
    IN  /\ "try_cancel" \in Calls /\ g.kind = "Sent"
        /\ IF try_cancels(g)
           THEN LET s == cancel_queued_packet(snd, g.packet_id[2])
                IN  IF ~is_sent(s, g.packet_id[2]) THEN Panic("try_cancel")
                    ELSE /\ Step(s, f, Gone([g EXCEPT !.out = "Packet"]))
                         /\ UNCHANGED panicked
           ELSE IF lookup_panics(g) THEN Panic("try_cancel")
           ELSE /\ Step(snd, f, [after_try(g) EXCEPT !.kind = "Acked"])
                /\ UNCHANGED panicked

\* request_cancel of any of the three futures.
request_cancel(f) ==
    LET g == fut[f]
        h == [after_try(g) EXCEPT !.kind = "AckedOrCanceled"]
    IN  /\ "request_cancel" \in Calls /\ Live(f)
        /\ CASE ~link \/ g.packet_id \in {IdAcked, IdCanceled} ->
                  Step(snd, f, [g EXCEPT !.kind = "AckedOrCanceled"]) /\ UNCHANGED panicked
             [] link /\ try_cancels(g) ->
                  /\ Step(cancel_queued_packet(snd, g.packet_id[2]), f,
                          [h EXCEPT !.packet_id = IdCanceled])
                  /\ UNCHANGED panicked
             [] link /\ IsQueued(g) /\ ~try_cancels(g) /\ h.packet_id[1] # "Sent" ->
                  Panic("request_cancel")       \* unreachable!()
             [] OTHER ->
                  /\ Step(cancel_sent_packet(snd, h.packet_id[2]), f, h)
                  /\ UNCHANGED panicked

\* limit_retries of any of the three futures.
limit_retries_of(f, limit) ==
    LET g == fut[f]
        s == CASE ~link \/ g.packet_id \in {IdAcked, IdCanceled} -> snd
               [] link /\ IsQueued(g) -> limit_retries_by_id(snd, g.packet_id[2], limit)
               [] OTHER -> limit_retries_by_seq_num(snd, g.packet_id[2], limit)
    IN  /\ "limit_retries" \in Calls /\ Live(f)
        /\ Step(s, f, [g EXCEPT !.kind = "AckedOrCanceled"])
        /\ UNCHANGED panicked

-----------------------------------------------------------------------------
(* Polling.                                                                *)

Resolve(f, g, out) == /\ Step(snd, f, [g EXCEPT !.out = out, !.parked = FALSE])
                      /\ UNCHANGED panicked

Pend(f, g, s) == /\ Step(s, f, [g EXCEPT !.parked = TRUE])
                 /\ UNCHANGED panicked

\* Mutant of AckReady: a packet with a cancel on its way counts as answered.
AckReady_canceled(s, sn) == ~(sn \in SeqNums(s) /\ s.unacked[sn].st = "Unacked")

\* Whether poll_ack is Ready.
AckReady(s, sn) == ~(sn \in SeqNums(s) /\ Outstanding(s.unacked[sn]))

\* Sent::poll hands over to Acked with what it knows of the packet.
poll_sent(f) ==
    LET g == fut[f]
        id == g.packet_id[2]
    IN  CASE ~IsQueued(g) -> /\ Step(snd, f, [g EXCEPT !.kind = "Acked", !.parked = FALSE])
                             /\ UNCHANGED panicked
          [] IsQueued(g) /\ ~link -> Resolve(f, g, "LinkClosed")
          [] IsQueued(g) /\ link /\ id \in Waiting(snd) -> Pend(f, g, poll_send(snd, id))
          [] IsQueued(g) /\ link /\ is_sent(snd, id) ->
               /\ Step(snd, f, [after_try(g) EXCEPT !.kind = "Acked", !.parked = FALSE])
               /\ UNCHANGED panicked
          [] OTHER -> Panic("poll")

\* The last part of Acked::poll and AckedOrCanceled::poll, with the sequence
\* number known.  is_cancel_acked panics when the packet is not answered.
poll_answer(f, g, sn) ==
    IF ~AckReady(snd, sn) THEN Pend(f, g, poll_ack(snd, sn))
    ELSE IF g.kind = "Acked" THEN Resolve(f, g, "Acked")
    ELSE IF sn \in SeqNums(snd) /\ Outstanding(snd.unacked[sn]) THEN Panic("poll")
    ELSE Resolve(f, g, IF is_cancel_acked(snd, sn) THEN "Canceled" ELSE "Acked")

poll_acked(f) ==
    LET g == fut[f]
        id == g.packet_id[2]
    IN  CASE g.packet_id = IdAcked -> Resolve(f, g, "Acked")
          [] g.packet_id = IdCanceled ->
               IF g.kind = "Acked" THEN Panic("poll") ELSE Resolve(f, g, "Canceled")
          [] g.packet_id \notin {IdAcked, IdCanceled} /\ ~link -> Resolve(f, g, "LinkClosed")
          [] link /\ g.packet_id[1] = "Sent" -> poll_answer(f, g, id)
          [] link /\ IsQueued(g) /\ id \in Waiting(snd) -> Pend(f, g, poll_send(snd, id))
          [] link /\ IsQueued(g) /\ is_sent(snd, id) ->
               IF lookup_seq_num(snd, id) = NoSeq THEN Resolve(f, g, "Acked")
               ELSE poll_answer(f, after_try(g), lookup_seq_num(snd, id))
          [] OTHER -> Panic("poll")

Poll(f) ==
    /\ Live(f) /\ ~fut[f].parked /\ fut[f].out = "none"
    /\ IF fut[f].kind = "Sent" THEN poll_sent(f) ELSE poll_acked(f)

-----------------------------------------------------------------------------
(* The end of a future.                                                    *)

\* AckedOrCanceled::forget_internal.
forgets(g) == link /\ g.kind = "AckedOrCanceled" /\ g.packet_id[1] = "Sent"

after_forget(g) ==
    IF forgets(g) THEN forget_canceled_packet(snd, g.packet_id[2]) ELSE snd

\* A future that has resolved is dropped; one that has not may be.  Dropping
\* forgets the packet, and cancels it if it still waits.
Drop(f) ==
    LET g == fut[f]
    IN  /\ Live(f)
        /\ g.out # "none" \/ "drop" \in Calls
        /\ IF lookup_panics(g) THEN Panic("drop")
           ELSE /\ Step(IF try_cancels(g) THEN cancel_queued_packet(snd, g.packet_id[2])
                        ELSE after_forget(g),
                        f, Gone(g))
                /\ UNCHANGED panicked

\* enqueue: nobody waits for the packet any more, but it is not canceled.
enqueue(f) ==
    /\ "enqueue" \in Calls /\ Live(f)
    /\ Step(after_forget(fut[f]), f, Gone(fut[f]))
    /\ UNCHANGED panicked

-----------------------------------------------------------------------------
(* The sender's side of the link.                                          *)

Hear(s) == /\ snd' = s
           /\ fut' = Follow(fut, snd, s)
           /\ UNCHANGED <<link, panicked>>

\* The peer takes the packet, or refuses it once it has been asked to.
Decide(sn) ==
    /\ link /\ sn \in SeqNums(snd) /\ sn \notin delivered \cup refused
    /\ \/ delivered' = delivered \cup {sn} /\ UNCHANGED refused
       \/ /\ snd.unacked[sn].st = "CancelRequested"
          /\ refused' = refused \cup {sn} /\ UNCHANGED delivered
    /\ UNCHANGED <<snd, link, fut, panicked>>

\* handle_acknowledgement_canceled_common.
Answered(sn) ==
    /\ link /\ sn \in SeqNums(snd)
    /\ \/ sn \in delivered /\ Hear(unblock(process_ack(snd, sn)))
       \/ sn \in refused /\ Hear(unblock(process_canceled(snd, sn)))
    /\ UNCHANGED <<delivered, refused>>

RetryTick ==
    /\ link /\ retry_needed(snd)
    /\ Hear(age_retries(snd))
    /\ UNCHANGED <<delivered, refused>>

process_window_size_tlv ==
    /\ link /\ snd.window_size # Window
    /\ Hear(adjust_window_size(snd, Window))
    /\ UNCHANGED <<delivered, refused>>

\* The peer is removed from the peer table; dropping the sender wakes all.
LinkClosed ==
    /\ link /\ link' = FALSE /\ snd' = new_sender
    /\ fut' = [f \in Futures |-> [fut[f] EXCEPT !.parked = @ /\ ~HasWaker(snd, f)]]
    /\ UNCHANGED <<delivered, refused, panicked>>

Next ==
    /\ panicked = {}
    /\ \/ \E f \in Futures :
            \/ send_mgmt_helper(f) \/ Convert(f) \/ try_cancel(f) \/ request_cancel(f)
            \/ \E limit \in RetryLimits : limit_retries_of(f, limit)
            \/ Poll(f) \/ Drop(f) \/ enqueue(f)
       \/ \E sn \in SeqNums(snd) : Decide(sn) \/ Answered(sn)
       \/ RetryTick \/ process_window_size_tlv \/ LinkClosed

Spec == Init /\ [][Next]_vars

-----------------------------------------------------------------------------
(* Properties.                                                             *)

\* Futures and entries of the window have their types; no packet is both
\* taken and refused.
TypeOK ==
    /\ \A f \in Futures : /\ fut[f].kind \in Kinds /\ fut[f].out \in Outcomes
                          /\ fut[f].id \in Nat \cup {NoSeq} /\ fut[f].sn \in Nat \cup {NoSeq}
    /\ \A sn \in SeqNums(snd) : IsUnackedState(snd.unacked[sn])
    /\ delivered \cap refused = {}

\* A future that is parked will be woken: its waker is with its packet, which
\* is still waiting or unanswered on a link that is still there.
NoLostWakeup == \A f \in Futures : fut[f].parked => link /\ HasWaker(snd, f)

\* What a future resolves to happened: the peer had decided the packet, and
\* Canceled means that the peer will never act on it.
ResultsHappened ==
    \A f \in Futures :
        /\ fut[f].out = "Acked" => fut[f].sn \in delivered \cup refused
        /\ fut[f].out = "Canceled" => fut[f].sn \notin delivered
        /\ fut[f].out = "Packet" => fut[f].sn = NoSeq

\* Polling or dropping a future reaches none of the assertions, panic!()s and
\* unreachable!()s on the way, whatever was done with the future before.
PollsNeverPanic == panicked \subseteq {"try_cancel", "request_cancel"}

\* Nor does a call to cancel a packet.
NoPanic == panicked = {}

\* A packet whose status is reported as Acked was taken by the peer.
AckedMeansTaken ==
    \A f \in Futures :
        fut[f].kind = "AckedOrCanceled" /\ fut[f].out = "Acked" => fut[f].sn \in delivered

=============================================================================
