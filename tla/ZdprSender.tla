----------------------------- MODULE ZdprSender -----------------------------
(***************************************************************************)
(* The sending half of a reliable ZDP session (`Sender` of zdpr.rs), as    *)
(* operators from one sender state to the next.  The modules Zdpr and      *)
(* MgmtSend call them from their actions the way mgmt/core.rs,             *)
(* mgmt/dispatch.rs and zdpr_worker.rs call the methods.                   *)
(*                                                                         *)
(* The three deques of the code are functions indexed by what the code     *)
(* computes their positions from:                                          *)
(*   unacked   on base..next-1, by sequence number; next = last_sent + 1   *)
(*   blocked   on first_blocked..next_id-1, by QueuedPacketId;             *)
(*             next_id = last_enqueued + 1                                 *)
(*   sent      on first_sent..first_blocked-1, by QueuedPacketId           *)
(* so that the index (len + offset - 1) of the code is the number itself,  *)
(* and "-offset >= len" is "below the base".  The u64 counters start at    *)
(* MAX and wrap to 0 at the first packet; they are not followed to a       *)
(* second wrap.                                                            *)
(***************************************************************************)
EXTENDS Integers, FiniteSets

CONSTANT RetryMax       \* u8::MAX, where retry_count saturates

ASSUME RetryMaxAssumption == RetryMax \in Nat

NoLimit == -1           \* retry_limit: None
NoSeq   == -1           \* Option<SeqNum>: None

Lower(a, b) == IF a <= b THEN a ELSE b

\* The first member of S in lo..hi-1, or hi when there is none: where a
\* "while front matches, pop_front" loop stops.
First(lo, hi, S) ==
    CHOOSE i \in lo..hi : /\ i = hi \/ i \in S
                          /\ \A j \in lo..(i - 1) : j \notin S

\* The part of a deque that is left after popping up to lo.
From(f, lo, hi) == [i \in lo..(hi - 1) |-> f[i]]

-----------------------------------------------------------------------------
(* UnackedState.  `waker` is TRUE when a task has registered; limit, count *)
(* and forgotten have their default in the variants that do not carry them.*)

UnackedStates == {"Unacked", "CancelRequested", "Acked", "CancelAcked"}

\* e has the fields of an entry; the limit is whatever the caller asked for.
IsUnackedState(e) ==
    /\ e = [st |-> e.st, limit |-> e.limit, count |-> e.count,
            forgotten |-> e.forgotten, waker |-> e.waker]
    /\ e.st \in UnackedStates /\ e.count \in 0..RetryMax
    /\ e.forgotten \in BOOLEAN /\ e.waker \in BOOLEAN

Entry(st, limit, forgotten, waker) ==
    [st |-> st, limit |-> limit, count |-> 0,
     forgotten |-> forgotten, waker |-> waker]

Unacked(limit)     == Entry("Unacked", limit, FALSE, FALSE)

\* Mutant of CancelRequested: the waker stays behind with the packet.
CancelRequested_noop(e) == Entry("CancelRequested", NoLimit, e.forgotten, FALSE)

CancelRequested(e) == Entry("CancelRequested", NoLimit, e.forgotten, e.waker)
Acked              == Entry("Acked", NoLimit, FALSE, FALSE)
CancelAcked        == Entry("CancelAcked", NoLimit, FALSE, FALSE)

Outstanding(e) == e.st \in {"Unacked", "CancelRequested"}

cancel(e) == IF e.st = "Unacked" THEN CancelRequested(e) ELSE e

limited(old, limit) == IF old = NoLimit THEN limit ELSE Lower(limit, old)

limit_retries(e, limit) ==
    IF e.st = "Unacked" THEN [e EXCEPT !.limit = limited(e.limit, limit)] ELSE e

forget(e) ==
    CASE e.st = "Unacked" /\ e.limit # NoLimit -> [e EXCEPT !.forgotten = TRUE]
      [] e.st = "CancelRequested"              -> [e EXCEPT !.forgotten = TRUE]
      [] e.st = "CancelAcked"                  -> Acked
      [] OTHER                                 -> e

\* Mutant of age: the retry counter does not saturate.
age_unsaturated(e) ==
    CASE e.st # "Unacked"                            -> e
      [] e.st = "Unacked" /\ e.limit # NoLimit
                          /\ e.count >= e.limit      -> CancelRequested(e)
      [] OTHER -> [e EXCEPT !.count = e.count + 1]

age(e) ==
    CASE e.st # "Unacked"                            -> e
      [] e.st = "Unacked" /\ e.limit # NoLimit
                          /\ e.count >= e.limit      -> CancelRequested(e)
      [] OTHER -> [e EXCEPT !.count = Lower(e.count + 1, RetryMax)]

(* BlockedState. *)
Blocked  == [st |-> "Blocked", limit |-> NoLimit, waker |-> FALSE]
Canceled == [Blocked EXCEPT !.st = "Canceled"]

-----------------------------------------------------------------------------
(* Sender: construction and queries. *)

NoEntries == [i \in {} |-> Acked]

new_sender ==
    [window_size |-> 1,
     base |-> 0, next |-> 0, unacked |-> NoEntries,
     first_sent |-> 0, first_blocked |-> 0, next_id |-> 0,
     sent |-> NoEntries, blocked |-> NoEntries]

SeqNums(s)       == s.base..(s.next - 1)
BlockedIds(s)    == s.first_blocked..(s.next_id - 1)

\* Mutant of is_blocked: the window is one packet too large.
is_blocked_late(s)     == s.next - s.base > s.window_size

is_blocked(s)          == s.next - s.base >= s.window_size
has_blocked_packets(s) == s.first_blocked < s.next_id
unblock_needed(s)      == ~is_blocked(s) /\ has_blocked_packets(s)
retry_needed(s)        == \E sn \in SeqNums(s) : Outstanding(s.unacked[sn])

is_sent(s, id)   == id < s.first_blocked
is_acked(s, sn)  == sn < s.base \/ (sn < s.next /\ ~Outstanding(s.unacked[sn]))

\* Mutant of is_cancel_acked: any answered packet that is still in the window.
is_cancel_acked_any(s, sn) == sn \in SeqNums(s) /\ ~Outstanding(s.unacked[sn])

is_cancel_acked(s, sn) == sn \in SeqNums(s) /\ s.unacked[sn].st = "CancelAcked"

lookup_seq_num(s, id) == IF id < s.first_sent THEN NoSeq ELSE s.sent[id]

retry_packets(s) == {sn \in SeqNums(s) : s.unacked[sn].st = "Unacked"}

\* Mutant of retry_cancels: what nobody waits for is not repeated.
retry_cancels_awaited(s) == {sn \in SeqNums(s) : /\ s.unacked[sn].st = "CancelRequested"
                                               /\ ~s.unacked[sn].forgotten}

retry_cancels(s) == {sn \in SeqNums(s) : s.unacked[sn].st = "CancelRequested"}

-----------------------------------------------------------------------------
(* Sender: the clean-up loops. *)

\* Mutant of clean_unacked_queue: canceled packets leave the window unanswered.
clean_unacked_canceled(s, u) ==
    First(s.base, s.next, {sn \in SeqNums(s) : u[sn].st = "Unacked"})

\* Where the front of the window goes once its entries are u: Acked entries
\* leave it, CancelAcked ones stay.
clean_unacked_queue(s, u) ==
    First(s.base, s.next, {sn \in SeqNums(s) : u[sn].st # "Acked"})

\* Where the front of `sent` goes once the window is u from base on: entries
\* that are None or for which is_acked holds leave it, and is_acked holds of a
\* CancelAcked packet too.
clean_sent_queue(s, u, base) ==
    First(s.first_sent, s.first_blocked,
          {id \in s.first_sent..(s.first_blocked - 1) :
             /\ s.sent[id] # NoSeq /\ s.sent[id] >= base
             /\ Outstanding(u[s.sent[id]])})

\* Canceled entries leave the front of `blocked` and become None in `sent`.
clean_blocked_queue(s) ==
    LET b == First(s.first_blocked, s.next_id,
                   {id \in BlockedIds(s) : s.blocked[id].st # "Canceled"})
    IN  [s EXCEPT !.first_blocked = b,
                  !.blocked = From(s.blocked, b, s.next_id),
                  !.sent = [id \in s.first_sent..(b - 1) |->
                              IF id < s.first_blocked THEN s.sent[id] ELSE NoSeq]]

-----------------------------------------------------------------------------
(* Sender: operations. *)

adjust_window_size(s, window_size) == [s EXCEPT !.window_size = window_size]

\* EnqueueResult::Sent(next) when the packet can go at once, else
\* EnqueueResult::Queued(next_id).
sends_at_once(s) == ~is_blocked(s) /\ ~has_blocked_packets(s)

enqueue_packet(s) ==
    IF sends_at_once(s)
    THEN [s EXCEPT !.next = s.next + 1,
                   !.unacked = [sn \in s.base..s.next |->
                                  IF sn = s.next THEN Unacked(NoLimit)
                                                 ELSE s.unacked[sn]]]
    ELSE [s EXCEPT !.next_id = s.next_id + 1,
                   !.blocked = [id \in s.first_blocked..s.next_id |->
                                  IF id = s.next_id THEN Blocked
                                                    ELSE s.blocked[id]]]

\* Succeeds only while the packet is still waiting in `blocked`.
cancels_queued(s, id) == id \in BlockedIds(s) /\ s.blocked[id].st = "Blocked"

cancel_queued_packet(s, id) ==
    IF ~cancels_queued(s, id) THEN s
    ELSE LET t == [s EXCEPT !.blocked[id] = Canceled]
         IN  IF id = s.first_blocked THEN clean_blocked_queue(t) ELSE t

cancels_sent(s, sn) == sn \in SeqNums(s) /\ s.unacked[sn].st = "Unacked"

cancel_sent_packet(s, sn) ==
    IF sn \in SeqNums(s) THEN [s EXCEPT !.unacked[sn] = cancel(@)] ELSE s

limit_retries_by_seq_num(s, sn, limit) ==
    IF sn \in SeqNums(s) THEN [s EXCEPT !.unacked[sn] = limit_retries(@, limit)]
                         ELSE s

limit_retries_by_id(s, id, limit) ==
    IF is_sent(s, id)
    THEN limit_retries_by_seq_num(s, lookup_seq_num(s, id), limit)
    ELSE IF id \in BlockedIds(s) /\ s.blocked[id].st = "Blocked"
    THEN [s EXCEPT !.blocked[id].limit = limited(@, limit)]
    ELSE s

\* Entry sn takes its new state e; the front of the window and of `sent`
\* move past what is finished.
settle(s, sn, e) ==
    LET u    == [s.unacked EXCEPT ![sn] = e]
        base == IF sn = s.base THEN clean_unacked_queue(s, u) ELSE s.base
        sent == clean_sent_queue(s, u, base)
    IN  [s EXCEPT !.base = base,
                  !.unacked = From(u, base, s.next),
                  !.first_sent = sent,
                  !.sent = From(s.sent, sent, s.first_blocked)]

forget_canceled_packet(s, sn) ==
    IF sn \in SeqNums(s) THEN settle(s, sn, forget(s.unacked[sn])) ELSE s

process_ack(s, sn) ==
    IF sn \in SeqNums(s) /\ Outstanding(s.unacked[sn])
    THEN settle(s, sn, Acked) ELSE s

process_canceled(s, sn) ==
    IF sn \in SeqNums(s) /\ s.unacked[sn].st = "CancelRequested"
    THEN settle(s, sn, IF s.unacked[sn].forgotten THEN Acked ELSE CancelAcked)
    ELSE s

\* The SenderStat an acknowledgement counts, if any.
ack_stat(s, sn, is_canceled) ==
    LET st == s.unacked[sn].st
    IN  CASE sn >= s.next -> "TooNewAck"
          [] sn < s.base  -> "TooOldAck"
          [] sn \in SeqNums(s) /\ ~is_canceled
               -> (CASE st = "Acked" -> "DuplicateAck"
                     [] st = "CancelAcked" -> "InvalidAck"
                     [] OTHER -> "none")
          [] OTHER
               -> (CASE st = "CancelAcked" -> "DuplicateAck"
                     [] st \in {"Unacked", "Acked"} -> "InvalidAck"
                     [] OTHER -> "none")

age_retries(s) ==
    [s EXCEPT !.unacked = [sn \in SeqNums(s) |-> age(s.unacked[sn])]]

-----------------------------------------------------------------------------
(* "while unblock_needed() { enqueue_next_blocked_packet() }": as many     *)
(* waiting packets as the window has room for get the next sequence        *)
(* numbers, in the order of their ids, and canceled ones on the way become *)
(* None.                                                                   *)

Waiting(s) == {id \in BlockedIds(s) : s.blocked[id].st = "Blocked"}
Ahead(s, id) == Cardinality({j \in Waiting(s) : j < id})

\* Mutant of UnblockCount: one slot of the window is never used.
UnblockCount_short(s) ==
    LET room == s.window_size - (s.next - s.base) - 1
    IN  IF room <= 0 THEN 0 ELSE Lower(room, Cardinality(Waiting(s)))

UnblockCount(s) ==
    LET room == s.window_size - (s.next - s.base)
    IN  IF room <= 0 THEN 0 ELSE Lower(room, Cardinality(Waiting(s)))

unblock(s) ==
    LET n     == UnblockCount(s)
        front == First(s.first_blocked, s.next_id,
                       {id \in Waiting(s) : Ahead(s, id) >= n})
        Moved(k) == CHOOSE id \in Waiting(s) : Ahead(s, id) = k
    IN  [s EXCEPT
           !.next = s.next + n,
           !.unacked = [sn \in s.base..(s.next + n - 1) |->
                          IF sn < s.next THEN s.unacked[sn]
                          ELSE Unacked(s.blocked[Moved(sn - s.next)].limit)],
           !.first_blocked = front,
           !.blocked = From(s.blocked, front, s.next_id),
           !.sent = [id \in s.first_sent..(front - 1) |->
                       CASE id < s.first_blocked -> s.sent[id]
                         [] id \in Waiting(s)    -> s.next + Ahead(s, id)
                         [] OTHER                -> NoSeq]]

-----------------------------------------------------------------------------
(* Polling registers the task's waker with the packet.                     *)

poll_send(s, id) ==
    IF id \in Waiting(s) THEN [s EXCEPT !.blocked[id].waker = TRUE] ELSE s

poll_ack(s, sn) ==
    IF sn \in SeqNums(s) /\ Outstanding(s.unacked[sn])
    THEN [s EXCEPT !.unacked[sn].waker = TRUE] ELSE s

=============================================================================
