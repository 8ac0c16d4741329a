----------------------------- MODULE ZdprProofs -----------------------------
(***************************************************************************)
(* Proofs about the reliable ZDP session of module Zdpr, for every window, *)
(* bitset, queue and number of packets.                                    *)
(***************************************************************************)
EXTENDS Zdpr, FiniteSetTheorems, WellFoundedInduction, TLAPS

-----------------------------------------------------------------------------
\* A non-empty set of naturals has a least element: where a scan stops.
LEMMA LeastNat ==
    ASSUME NEW T, T \subseteq Nat, T # {}
    PROVE  \E k \in T : \A m \in T : k <= m
<1>1. PICK k \in T : \A m \in T : ~(<<m, k>> \in OpToRel(<, Nat))
    BY NatLessThanWellFounded, WFMin
<1>2. \A m \in T : ~(m < k)
    BY <1>1 DEF OpToRel
<1> QED BY <1>2

(* The clean-up loops stop where First says.                               *)
LEMMA FirstExists ==
    ASSUME NEW lo \in Int, NEW hi \in Int, lo <= hi, NEW S
    PROVE  /\ First(lo, hi, S) \in lo..hi
           /\ First(lo, hi, S) = hi \/ First(lo, hi, S) \in S
           /\ \A j \in lo..(First(lo, hi, S) - 1) : j \notin S
<1> DEFINE T == {k \in Nat : lo + k <= hi /\ (lo + k = hi \/ lo + k \in S)}
<1>1. hi - lo \in T
    OBVIOUS
<1>2. PICK k \in T : \A m \in T : k <= m
    BY <1>1, LeastNat
<1>3. \A j \in lo..(lo + k - 1) : j \notin S
    <2> SUFFICES ASSUME NEW j \in lo..(lo + k - 1), j \in S
                 PROVE  FALSE
        OBVIOUS
    <2>1. j - lo \in T
        OBVIOUS
    <2> QED BY <2>1, <1>2
<1>4. lo + k \in lo..hi /\ (lo + k = hi \/ lo + k \in S)
    OBVIOUS
<1>5. \E i \in lo..hi : /\ i = hi \/ i \in S
                        /\ \A j \in lo..(i - 1) : j \notin S
    BY <1>3, <1>4
<1> QED BY <1>5 DEF First

(* The offset of the oldest packet that is still missing.                  *)
LEMMA OldestOffset ==
    ASSUME NEW r
    PROVE  LET o == oldest_unrecvd_offset(r)
           IN  /\ o \in Int /\ o <= 1
               /\ \A i \in Positions \ r.recvd : o <= -i
               /\ o = 1 \/ -o \in Positions \ r.recvd
<1> DEFINE U == Positions \ r.recvd
<1>1. CASE U = {}
    BY <1>1 DEF oldest_unrecvd_offset
<1>2. CASE U # {}
    <2> DEFINE T == {k \in Nat : Bits - 1 - k \in U}
    <2>1. T # {}
        <3>1. PICK i \in U : TRUE
            BY <1>2
        <3>2. Bits - 1 - i \in T
            BY <3>1, WindowAssumption DEF Positions
        <3> QED BY <3>2
    <2>2. PICK k \in T : \A m \in T : k <= m
        BY <2>1, LeastNat
    <2>3. Bits - 1 - k \in U /\ \A j \in U : j <= Bits - 1 - k
        <3>1. ASSUME NEW j \in U PROVE j <= Bits - 1 - k
            <4>1. Bits - 1 - j \in T
                BY WindowAssumption DEF Positions
            <4> QED BY <4>1, <2>2, WindowAssumption DEF Positions
        <3> QED BY <3>1
    <2>4. \E i \in U : \A j \in U : j <= i
        BY <2>3
    <2> DEFINE i == CHOOSE i \in U : \A j \in U : j <= i
    <2>5. i \in U /\ \A j \in U : j <= i
        BY <2>4
    <2>6. oldest_unrecvd_offset(r) = -i
        BY <1>2 DEF oldest_unrecvd_offset
    <2> QED BY <2>5, <2>6, WindowAssumption DEF Positions
<1> QED BY <1>1, <1>2

-----------------------------------------------------------------------------
(* The sender.  A sender state is sound, given the packets the peer has    *)
(* delivered and refused, when it is well formed, its window is not        *)
(* overrun, and whatever it has let go of or marked answered was decided.  *)

IsSender(s) ==
    /\ DOMAIN s = {"window_size", "base", "next", "unacked", "first_sent",
                   "first_blocked", "next_id", "sent", "blocked"}
    /\ s.window_size \in {1, Window}
    /\ s.base \in Nat /\ s.next \in Nat /\ s.base <= s.next
    /\ s.unacked = [sn \in SeqNums(s) |-> s.unacked[sn]]
    /\ \A sn \in SeqNums(s) : IsUnackedState(s.unacked[sn])
    /\ s.first_sent \in Nat /\ s.first_blocked \in Nat /\ s.next_id \in Nat
    /\ s.first_sent <= s.first_blocked /\ s.first_blocked <= s.next_id

Sound(s, del, ref) ==
    /\ IsSender(s)
    /\ s.next - s.base <= Window
    /\ \A sn \in 0..(s.base - 1) : sn \in del \cup ref
    /\ \A sn \in SeqNums(s) :
         /\ ~Outstanding(s.unacked[sn]) => sn \in del \cup ref
         /\ s.unacked[sn].st = "CancelAcked" => sn \in ref

(* Each operation on an entry yields an entry, and none but an answer      *)
(* makes it stop being outstanding.                                        *)
LEMMA EntrySteps ==
    ASSUME NEW e, IsUnackedState(e), NEW limit
    PROVE  /\ IsUnackedState(Unacked(limit)) /\ Unacked(limit).st = "Unacked"
           /\ IsUnackedState(Acked) /\ Acked.st = "Acked"
           /\ IsUnackedState(CancelAcked) /\ CancelAcked.st = "CancelAcked"
           /\ \A f \in {cancel(e), limit_retries(e, limit), age(e)} :
                /\ IsUnackedState(f)
                /\ Outstanding(f) <=> Outstanding(e)
                /\ f.st = "CancelAcked" <=> e.st = "CancelAcked"
           /\ /\ IsUnackedState(forget(e))
              /\ Outstanding(forget(e)) <=> Outstanding(e)
              /\ forget(e).st = "CancelAcked" => e.st = "CancelAcked"
<1> USE RetryMaxAssumption
<1>1. IsUnackedState(Unacked(limit)) /\ Unacked(limit).st = "Unacked"
    BY DEF IsUnackedState, UnackedStates, Unacked, Entry
<1>2. IsUnackedState(Acked) /\ Acked.st = "Acked"
    BY DEF IsUnackedState, UnackedStates, Entry, Acked
<1>3. IsUnackedState(CancelAcked) /\ CancelAcked.st = "CancelAcked"
    BY DEF IsUnackedState, UnackedStates, Entry, CancelAcked
<1>4. IsUnackedState(CancelRequested(e)) /\ CancelRequested(e).st = "CancelRequested"
    BY DEF IsUnackedState, UnackedStates, Entry, CancelRequested
<1>5. /\ IsUnackedState(cancel(e))
      /\ Outstanding(cancel(e)) <=> Outstanding(e)
      /\ cancel(e).st = "CancelAcked" <=> e.st = "CancelAcked"
    BY <1>4 DEF cancel, Outstanding
<1>6. /\ IsUnackedState(limit_retries(e, limit))
      /\ limit_retries(e, limit).st = e.st
    BY DEF limit_retries, IsUnackedState, UnackedStates
<1>7. /\ IsUnackedState(age(e))
      /\ Outstanding(age(e)) <=> Outstanding(e)
      /\ age(e).st = "CancelAcked" <=> e.st = "CancelAcked"
    <2>1. CASE e.st = "Unacked" /\ e.limit # NoLimit /\ e.count >= e.limit
        BY <2>1, <1>4 DEF age, Outstanding
    <2>2. CASE e.st # "Unacked"
        BY <2>2 DEF age, Outstanding
    <2>3. CASE e.st = "Unacked" /\ ~(e.limit # NoLimit /\ e.count >= e.limit)
        <3>1. age(e) = [e EXCEPT !.count = Lower(e.count + 1, RetryMax)]
            BY <2>3 DEF age
        <3>2. Lower(e.count + 1, RetryMax) \in 0..RetryMax
            BY DEF IsUnackedState, Lower
        <3> QED BY <2>3, <3>1, <3>2 DEF IsUnackedState, Outstanding
    <2> QED BY <2>1, <2>2, <2>3
<1>8. /\ IsUnackedState(forget(e))
      /\ Outstanding(forget(e)) <=> Outstanding(e)
      /\ forget(e).st = "CancelAcked" => e.st = "CancelAcked"
    <2>1. CASE e.st \in {"Unacked", "CancelRequested"}
        BY <2>1 DEF forget, IsUnackedState, UnackedStates, Outstanding
    <2>2. CASE e.st = "CancelAcked"
        BY <2>2, <1>2 DEF forget, Outstanding
    <2>3. CASE e.st = "Acked"
        BY <2>3 DEF forget, Outstanding
    <2> QED BY <2>1, <2>2, <2>3 DEF IsUnackedState, UnackedStates
<1>9. /\ Outstanding(limit_retries(e, limit)) <=> Outstanding(e)
      /\ limit_retries(e, limit).st = "CancelAcked" <=> e.st = "CancelAcked"
    BY <1>6 DEF Outstanding
<1> QED BY <1>1, <1>2, <1>3, <1>5, <1>6, <1>7, <1>8, <1>9

(* Changing entries one by one keeps a sender sound as long as what is     *)
(* outstanding, and what is CancelAcked, stays so.                         *)
LEMMA EntriesSound ==
    ASSUME NEW s, NEW del, NEW ref, Sound(s, del, ref), NEW u,
           u = [sn \in SeqNums(s) |-> u[sn]],
           \A sn \in SeqNums(s) :
               /\ IsUnackedState(u[sn])
               /\ Outstanding(u[sn]) <=> Outstanding(s.unacked[sn])
               /\ u[sn].st = "CancelAcked" => s.unacked[sn].st = "CancelAcked"
    PROVE  /\ Sound([s EXCEPT !.unacked = u], del, ref)
           /\ [s EXCEPT !.unacked = u].next = s.next
BY DEF Sound, IsSender, SeqNums

\* What waits in the blocked queue is of no concern to the window.
LEMMA BlockedSound ==
    ASSUME NEW s, NEW del, NEW ref, Sound(s, del, ref), NEW b,
           NEW id \in Nat, id >= s.first_blocked
    PROVE  /\ Sound([s EXCEPT !.next_id = id, !.blocked = b], del, ref)
           /\ Sound([s EXCEPT !.blocked = b], del, ref)
BY DEF Sound, IsSender, SeqNums

(* enqueue_packet, whether the packet is sent or has to wait.              *)
LEMMA EnqueueSound ==
    ASSUME NEW s, NEW del, NEW ref, Sound(s, del, ref)
    PROVE  /\ Sound(enqueue_packet(s), del, ref)
           /\ enqueue_packet(s).next = IF sends_at_once(s) THEN s.next + 1 ELSE s.next
<1> DEFINE t == enqueue_packet(s)
<1>1. CASE sends_at_once(s)
    <2> DEFINE u == [sn \in s.base..s.next |->
                       IF sn = s.next THEN Unacked(NoLimit) ELSE s.unacked[sn]]
    <2>1. t = [s EXCEPT !.next = s.next + 1, !.unacked = u]
        BY <1>1 DEF enqueue_packet
    <2>2. IsUnackedState(Unacked(NoLimit)) /\ Outstanding(Unacked(NoLimit))
          /\ Unacked(NoLimit).st # "CancelAcked"
        BY RetryMaxAssumption DEF IsUnackedState, Unacked, UnackedStates, Entry, Outstanding
    <2>3. s.next - s.base < Window
        BY <1>1, WindowAssumption DEF sends_at_once, is_blocked, Sound, IsSender
    <2>4. /\ DOMAIN t = DOMAIN s /\ t.window_size = s.window_size
          /\ t.base = s.base /\ t.next = s.next + 1 /\ t.unacked = u
          /\ t.first_sent = s.first_sent /\ t.first_blocked = s.first_blocked
          /\ t.next_id = s.next_id
        BY <2>1 DEF Sound, IsSender
    <2>5. SeqNums(t) = s.base..s.next
        BY <2>4 DEF SeqNums, Sound, IsSender
    <2>6. \A sn \in s.base..s.next :
             \/ u[sn] = Unacked(NoLimit) /\ sn = s.next
             \/ u[sn] = s.unacked[sn] /\ sn \in SeqNums(s)
        <3>1. s.base \in Nat /\ s.next \in Nat
            BY DEF Sound, IsSender
        <3> QED BY <3>1 DEF SeqNums
    <2>7. u = [sn \in s.base..s.next |-> u[sn]]
        OBVIOUS
    <2> HIDE DEF t, u
    <2>8. IsSender(t)
        <3>1. \A sn \in SeqNums(t) : IsUnackedState(t.unacked[sn])
            BY <2>2, <2>4, <2>5, <2>6 DEF Sound, IsSender
        <3>2. t.unacked = [sn \in SeqNums(t) |-> t.unacked[sn]]
            BY <2>4, <2>5, <2>7
        <3>3. t.base \in Nat /\ t.next \in Nat /\ t.base <= t.next
            BY <2>4 DEF Sound, IsSender
        <3> QED BY <2>4, <3>1, <3>2, <3>3 DEF Sound, IsSender
    <2>9. Sound(t, del, ref)
        <3>1. t.next - t.base <= Window
            BY <2>3, <2>4, WindowAssumption DEF Sound, IsSender
        <3>2. \A sn \in SeqNums(t) :
                 /\ ~Outstanding(t.unacked[sn]) => sn \in del \cup ref
                 /\ t.unacked[sn].st = "CancelAcked" => sn \in ref
            BY <2>2, <2>4, <2>5, <2>6 DEF Sound
        <3> QED BY <2>4, <2>8, <3>1, <3>2 DEF Sound
    <2> QED BY <1>1, <2>4, <2>9 DEF t
<1>2. CASE ~sends_at_once(s)
    <2> DEFINE b == [id \in s.first_blocked..s.next_id |->
                       IF id = s.next_id THEN Blocked ELSE s.blocked[id]]
    <2>1. t = [s EXCEPT !.next_id = s.next_id + 1, !.blocked = b]
        BY <1>2 DEF enqueue_packet
    <2>2. s.next_id + 1 \in Nat /\ s.next_id + 1 >= s.first_blocked
        BY DEF Sound, IsSender
    <2>3. t.next = s.next
        BY <2>1 DEF Sound, IsSender
    <2> HIDE DEF b
    <2>4. Sound([s EXCEPT !.next_id = s.next_id + 1, !.blocked = b], del, ref)
        BY <2>2, BlockedSound
    <2>5. Sound(t, del, ref)
        BY <2>1, <2>4
    <2> QED BY <1>2, <2>3, <2>5
<1> QED BY <1>1, <1>2

(* cancel_queued_packet and the clean-up of `blocked`.                     *)
LEMMA CancelQueuedSound ==
    ASSUME NEW s, NEW del, NEW ref, Sound(s, del, ref), NEW id
    PROVE  /\ Sound(cancel_queued_packet(s, id), del, ref)
           /\ cancel_queued_packet(s, id).next = s.next
           /\ cancel_queued_packet(s, id).base = s.base
           /\ cancel_queued_packet(s, id).unacked = s.unacked
<1> DEFINE t == [s EXCEPT !.blocked[id] = Canceled]
<1>1. Sound(t, del, ref) /\ t.next = s.next /\ t.base = s.base /\ t.unacked = s.unacked
    BY DEF Sound, IsSender, SeqNums
<1>2. /\ Sound(clean_blocked_queue(t), del, ref)
      /\ clean_blocked_queue(t).next = s.next
      /\ clean_blocked_queue(t).base = s.base
      /\ clean_blocked_queue(t).unacked = s.unacked
    <2> DEFINE S == {i \in BlockedIds(t) : t.blocked[i].st # "Canceled"}
               b == First(t.first_blocked, t.next_id, S)
    <2> HIDE DEF t, S
    <2>1. b \in t.first_blocked..t.next_id
        <3>1. /\ t.first_blocked \in Int /\ t.next_id \in Int
              /\ t.first_blocked <= t.next_id
            BY <1>1 DEF Sound, IsSender
        <3> QED BY <3>1, FirstExists
    <2> HIDE DEF b
    <2>2. clean_blocked_queue(t) =
            [t EXCEPT !.first_blocked = b,
                      !.blocked = From(t.blocked, b, t.next_id),
                      !.sent = [i \in t.first_sent..(b - 1) |->
                                  IF i < t.first_blocked THEN t.sent[i] ELSE NoSeq]]
        BY DEF clean_blocked_queue, b, S
    <2> QED BY <1>1, <2>1, <2>2 DEF Sound, IsSender, SeqNums
<1> QED BY <1>1, <1>2 DEF cancel_queued_packet

(* settle: what an answer or forget_canceled_packet does to entry sn.      *)
LEMMA SettleSound ==
    ASSUME NEW s, NEW del, NEW ref, Sound(s, del, ref),
           NEW sn \in SeqNums(s), NEW e, IsUnackedState(e),
           ~Outstanding(e) => sn \in del \cup ref,
           e.st = "CancelAcked" => sn \in ref
    PROVE  /\ Sound(settle(s, sn, e), del, ref)
           /\ settle(s, sn, e).next = s.next
           /\ \A i \in SeqNums(settle(s, sn, e)) :
                /\ i \in SeqNums(s)
                /\ settle(s, sn, e).unacked[i] = IF i = sn THEN e ELSE s.unacked[i]
<1> DEFINE u == [s.unacked EXCEPT ![sn] = e]
           base == IF sn = s.base THEN clean_unacked_queue(s, u) ELSE s.base
           fs == clean_sent_queue(s, u, base)
           t == settle(s, sn, e)
<1>1. /\ u = [i \in SeqNums(s) |-> IF i = sn THEN e ELSE s.unacked[i]]
      /\ \A i \in SeqNums(s) : IsUnackedState(u[i])
    BY DEF Sound, IsSender
<1>2. /\ \A i \in SeqNums(s) : ~Outstanding(u[i]) => i \in del \cup ref
      /\ \A i \in SeqNums(s) : u[i].st = "CancelAcked" => i \in ref
    BY <1>1 DEF Sound
<1> HIDE DEF u
<1>3. /\ base \in s.base..s.next
      /\ \A i \in s.base..(base - 1) : u[i].st = "Acked"
    <2>1. CASE sn = s.base
        <3> DEFINE S == {i \in SeqNums(s) : u[i].st # "Acked"}
        <3>1. s.base \in Int /\ s.next \in Int /\ s.base <= s.next
            BY DEF Sound, IsSender
        <3>2. base = First(s.base, s.next, S)
            BY <2>1 DEF clean_unacked_queue
        <3> HIDE DEF base, S
        <3>3. base \in s.base..s.next /\ \A i \in s.base..(base - 1) : i \notin S
            BY <3>1, <3>2, FirstExists
        <3> QED BY <3>1, <3>3 DEF S, SeqNums
    <2>2. CASE sn # s.base
        BY <2>2 DEF Sound, IsSender
    <2> QED BY <2>1, <2>2
<1> HIDE DEF base
<1>4. fs \in s.first_sent..s.first_blocked
    BY FirstExists DEF clean_sent_queue, Sound, IsSender
<1> HIDE DEF fs
<1>5. t = [s EXCEPT !.base = base, !.unacked = From(u, base, s.next),
                    !.first_sent = fs,
                    !.sent = From(s.sent, fs, s.first_blocked)]
    BY DEF settle, u, base, fs
<1>6. /\ t.base = base /\ t.next = s.next
      /\ t.unacked = [i \in base..(s.next - 1) |-> u[i]]
    BY <1>5 DEF Sound, IsSender, From
<1>7. SeqNums(t) = base..(s.next - 1) /\ SeqNums(t) \subseteq SeqNums(s)
    BY <1>3, <1>6 DEF SeqNums, Sound, IsSender
<1>8. \A i \in SeqNums(t) : t.unacked[i] = u[i]
    BY <1>6, <1>7
<1>9. IsSender(t)
    <2>1. /\ DOMAIN t = DOMAIN s /\ t.window_size = s.window_size
          /\ t.first_sent = fs /\ t.first_blocked = s.first_blocked
          /\ t.next_id = s.next_id
        BY <1>5 DEF Sound, IsSender
    <2>2. t.unacked = [i \in SeqNums(t) |-> t.unacked[i]]
        BY <1>6, <1>7
    <2> HIDE DEF t
    <2>3. \A i \in SeqNums(t) : IsUnackedState(t.unacked[i])
        BY <1>1, <1>7, <1>8
    <2>4. t.base \in Nat /\ t.next \in Nat /\ t.base <= t.next
        BY <1>3, <1>6 DEF Sound, IsSender
    <2>5. t.first_sent \in Nat /\ t.first_sent <= t.first_blocked
        BY <2>1, <1>4 DEF Sound, IsSender
    <2> QED BY <2>1, <2>2, <2>3, <2>4, <2>5 DEF Sound, IsSender
<1>10. \A i \in 0..(base - 1) : i \in del \cup ref
    <2> SUFFICES ASSUME NEW i \in 0..(base - 1), ~(i \in 0..(s.base - 1))
                 PROVE  i \in del \cup ref
        BY DEF Sound
    <2>1. i \in s.base..(base - 1) /\ i \in SeqNums(s)
        BY <1>3 DEF SeqNums, Sound, IsSender
    <2> QED BY <2>1, <1>2, <1>3 DEF Outstanding
<1>11. t.next - t.base <= Window
    BY <1>3, <1>6, WindowAssumption DEF Sound, IsSender
<1>12. Sound(t, del, ref)
    BY <1>2, <1>6, <1>7, <1>8, <1>9, <1>10, <1>11 DEF Sound
<1> QED BY <1>1, <1>6, <1>7, <1>8, <1>12

(* unblock: packets go out only as far as the window has room.             *)
LEMMA UnblockSound ==
    ASSUME NEW s, NEW del, NEW ref, Sound(s, del, ref)
    PROVE  /\ Sound(unblock(s), del, ref)
           /\ unblock(s).next \in Nat /\ unblock(s).next >= s.next
           /\ unblock(s).base = s.base
           /\ \A sn \in SeqNums(s) : /\ sn \in SeqNums(unblock(s))
                                     /\ unblock(s).unacked[sn] = s.unacked[sn]
<1> DEFINE n     == UnblockCount(s)
           front == First(s.first_blocked, s.next_id,
                          {id \in Waiting(s) : Ahead(s, id) >= n})
           Moved(k) == CHOOSE id \in Waiting(s) : Ahead(s, id) = k
           lim(sn) == s.blocked[Moved(sn - s.next)].limit
           u == [sn \in s.base..(s.next + n - 1) |->
                   IF sn < s.next THEN s.unacked[sn] ELSE Unacked(lim(sn))]
           t == unblock(s)
<1>1. IsFiniteSet(Waiting(s)) /\ Cardinality(Waiting(s)) \in Nat
    <2>1. IsFiniteSet(BlockedIds(s))
        BY FS_Interval DEF BlockedIds, Sound, IsSender
    <2>2. Waiting(s) \in SUBSET BlockedIds(s)
        BY DEF Waiting
    <2>3. IsFiniteSet(Waiting(s))
        BY <2>1, <2>2, FS_Subset
    <2> QED BY <2>3, FS_CardinalityType
<1>2. n \in Nat /\ s.next + n - s.base <= Window
    BY <1>1, WindowAssumption DEF UnblockCount, Lower, Sound, IsSender
<1> HIDE DEF n
<1>3. front \in s.first_blocked..s.next_id
    BY FirstExists DEF Sound, IsSender
<1> HIDE DEF front
<1>4. t = [s EXCEPT !.next = s.next + n, !.unacked = u,
                    !.first_blocked = front,
                    !.blocked = From(s.blocked, front, s.next_id),
                    !.sent = [id \in s.first_sent..(front - 1) |->
                                CASE id < s.first_blocked -> s.sent[id]
                                  [] id \in Waiting(s)    -> s.next + Ahead(s, id)
                                  [] OTHER                -> NoSeq]]
    BY DEF unblock, n, front
<1>5. \A sn \in s.base..(s.next + n - 1) :
         \/ u[sn] = Unacked(lim(sn))
         \/ u[sn] = s.unacked[sn] /\ sn \in SeqNums(s)
    <2>1. s.base \in Nat /\ s.next \in Nat
        BY DEF Sound, IsSender
    <2> HIDE DEF lim
    <2> QED BY <1>2, <2>1 DEF SeqNums
<1>6. \A sn \in SeqNums(s) : sn \in s.base..(s.next + n - 1) /\ u[sn] = s.unacked[sn]
    <2>1. s.base \in Nat /\ s.next \in Nat
        BY DEF Sound, IsSender
    <2> HIDE DEF lim
    <2> QED BY <1>2, <2>1 DEF SeqNums
<1>7. u = [sn \in s.base..(s.next + n - 1) |-> u[sn]]
    OBVIOUS
<1>8. \A l : /\ IsUnackedState(Unacked(l)) /\ Outstanding(Unacked(l))
             /\ Unacked(l).st # "CancelAcked"
    BY RetryMaxAssumption DEF IsUnackedState, Unacked, UnackedStates, Entry, Outstanding
<1> HIDE DEF u, lim
<1>9. /\ DOMAIN t = DOMAIN s /\ t.window_size = s.window_size
      /\ t.base = s.base /\ t.next = s.next + n /\ t.unacked = u
      /\ t.first_sent = s.first_sent /\ t.first_blocked = front
      /\ t.next_id = s.next_id
    BY <1>4 DEF Sound, IsSender
<1> HIDE DEF t
<1>10. SeqNums(t) = s.base..(s.next + n - 1)
    <2>1. s.next \in Int /\ n \in Int
        BY <1>2 DEF Sound, IsSender
    <2>2. t.next - 1 = s.next + n - 1 /\ s.base = t.base
        BY <2>1, <1>9
    <2> QED BY <2>2 DEF SeqNums
<1>11. IsSender(t)
    <2>1. \A sn \in SeqNums(t) : IsUnackedState(t.unacked[sn])
        BY <1>5, <1>8, <1>9, <1>10 DEF Sound, IsSender
    <2>2. t.unacked = [sn \in SeqNums(t) |-> t.unacked[sn]]
        BY <1>7, <1>9, <1>10
    <2>3. t.base \in Nat /\ t.next \in Nat /\ t.base <= t.next
        BY <1>2, <1>9 DEF Sound, IsSender
    <2>4. /\ t.first_sent \in Nat /\ t.first_blocked \in Nat /\ t.next_id \in Nat
          /\ t.first_sent <= t.first_blocked /\ t.first_blocked <= t.next_id
        BY <1>3, <1>9 DEF Sound, IsSender
    <2> QED BY <1>9, <2>1, <2>2, <2>3, <2>4 DEF Sound, IsSender
<1>12. Sound(t, del, ref)
    <2>1. \A sn \in SeqNums(t) :
             /\ ~Outstanding(t.unacked[sn]) => sn \in del \cup ref
             /\ t.unacked[sn].st = "CancelAcked" => sn \in ref
        BY <1>5, <1>8, <1>9, <1>10 DEF Sound
    <2>2. t.next - t.base <= Window
        <3>1. t.next - t.base = s.next + n - s.base
            BY <1>2, <1>9 DEF Sound, IsSender
        <3> QED BY <1>2, <3>1
    <2> QED BY <1>9, <1>11, <2>1, <2>2 DEF Sound
<1>13. t.next \in Nat /\ t.next >= s.next
    BY <1>2, <1>9 DEF Sound, IsSender
<1>14. \A sn \in SeqNums(s) : sn \in SeqNums(t) /\ t.unacked[sn] = s.unacked[sn]
    BY <1>6, <1>9, <1>10
<1> QED BY <1>9, <1>12, <1>13, <1>14 DEF t

-----------------------------------------------------------------------------
(* The receiver.  Its bitsets and highest_seen represent exactly what was  *)
(* delivered and refused, and whatever has been shifted out was decided.   *)

Represents(r, del, ref) ==
    /\ DOMAIN r = {"highest_seen", "recvd", "canceled"}
    /\ r.highest_seen \in Nat \cup {-1}
    /\ r.recvd \subseteq Positions /\ r.canceled \subseteq Positions
    /\ del \subseteq Nat /\ ref \subseteq Nat /\ del \cap ref = {}
    /\ \A sn \in del \cup ref : sn <= r.highest_seen
    /\ \A i \in Positions :
         i \in r.recvd <=> (r.highest_seen - i < 0 \/ r.highest_seen - i \in del \cup ref)
    /\ \A i \in Positions :
         r.highest_seen - i >= 0 =>
           (i \in r.canceled <=> r.highest_seen - i \in ref)
    /\ \A sn \in Nat : sn <= r.highest_seen - Bits => sn \in del \cup ref

(* A packet that the receiver accepts is one that was not decided before.  *)
LEMMA AcceptedIsNew ==
    ASSUME NEW r, NEW del, NEW ref, Represents(r, del, ref), NEW sn \in Nat,
           ~too_old(r, sn), ~too_new(r, sn), ~was_recvd(r, sn)
    PROVE  sn \notin del \cup ref
<1>1. CASE sn > r.highest_seen
    BY <1>1 DEF Represents
<1>2. CASE sn <= r.highest_seen
    <2>1. r.highest_seen - sn \in Positions
        BY <1>2, WindowAssumption DEF Represents, too_old, Positions
    <2>2. r.highest_seen - sn \notin r.recvd
        BY <1>2 DEF was_recvd
    <2>3. r.highest_seen - (r.highest_seen - sn) = sn
        BY DEF Represents
    <2> QED BY <2>1, <2>2, <2>3 DEF Represents
<1> QED BY <1>1, <1>2 DEF Represents

(* The shift is exact for every distance the window allows.                *)
LEMMA ShiftExact ==
    ASSUME NEW x, x \subseteq Positions, NEW n \in Nat, n < Bits,
           NEW i \in Positions
    PROVE  i \in ShiftLeft(x, n) <=> (i >= n /\ i - n \in x)
<1>1. n % Bits = n
    BY WindowAssumption
<1>2. ShiftLeft(x, n) = {j + n : j \in x} \cap Positions
    BY <1>1 DEF ShiftLeft
<1>3. \A j \in x : j \in Int /\ j >= 0
    BY WindowAssumption DEF Positions
<1>4. i \in Int
    BY DEF Positions
<1>5. ASSUME i \in {j + n : j \in x} PROVE i >= n /\ i - n \in x
    <2>1. PICK j \in x : i = j + n
        BY <1>5
    <2>2. i - n = j /\ i >= n
        BY <2>1, <1>3, <1>4
    <2> QED BY <2>2
<1>6. ASSUME i >= n, i - n \in x PROVE i \in {j + n : j \in x}
    <2>1. i = (i - n) + n
        BY <1>4
    <2> QED BY <2>1, <1>6
<1> QED BY <1>2, <1>5, <1>6

(* Accepting a packet or a cancel keeps the representation.  The bitset    *)
(* has to be wider than the window: a shift of Bits would be no shift.     *)
LEMMA AcceptRepresents ==
    ASSUME Window < Bits,
           NEW r, NEW del, NEW ref, Represents(r, del, ref), NEW sn \in Nat,
           ~too_old(r, sn), ~too_new(r, sn), ~was_recvd(r, sn),
           NEW is_cancel \in BOOLEAN,
           NEW d2, NEW f2,
           d2 = IF is_cancel THEN del ELSE del \cup {sn},
           f2 = IF is_cancel THEN ref \cup {sn} ELSE ref
    PROVE  /\ Represents(process_packet_or_cancel(r, sn, is_cancel), d2, f2)
           /\ process_packet_or_cancel(r, sn, is_cancel).highest_seen
                = IF sn > r.highest_seen THEN sn ELSE r.highest_seen
<1> DEFINE k == sn - r.highest_seen
           t == process_packet_or_cancel(r, sn, is_cancel)
<1>0. /\ r.highest_seen \in Int /\ Window \in Nat /\ Bits \in Nat /\ 1 <= Window
      /\ \A i \in Positions : i \in Int /\ 0 <= i /\ i <= Bits - 1
      /\ 0 \in Positions
    BY WindowAssumption DEF Represents, Positions
<1>1. sn \notin del \cup ref
    BY AcceptedIsNew
<1>2. d2 \cup f2 = del \cup ref \cup {sn} /\ d2 \cap f2 = {}
      /\ d2 \subseteq Nat /\ f2 \subseteq Nat
    BY <1>1 DEF Represents
<1>3. CASE sn > r.highest_seen
    <2> DEFINE R == ShiftLeft(r.recvd, k)
               C == ShiftLeft(r.canceled, k)
    <2>1. /\ t.highest_seen = sn
          /\ t.recvd = R \cup {0}
          /\ t.canceled = C \cup (IF is_cancel THEN {0} ELSE {})
          /\ DOMAIN t = {"highest_seen", "recvd", "canceled"}
        BY <1>3 DEF process_packet_or_cancel, newer, should_process_packet
    <2>2. k \in Nat /\ 1 <= k
        BY <1>0, <1>3
    <2>3. k <= Window
        BY <1>0, OldestOffset DEF too_new
    <2>4. k < Bits
        BY <1>0, <2>2, <2>3
    <2> HIDE DEF t, k
    <2>5. \A i \in Positions : /\ i \in R <=> (i >= k /\ i - k \in r.recvd)
                               /\ i \in C <=> (i >= k /\ i - k \in r.canceled)
        BY <2>2, <2>4, ShiftExact DEF Represents
    <2>6. \A i \in Positions : i >= k => /\ i - k \in Positions
                                         /\ r.highest_seen - (i - k) = sn - i
        BY <1>0, <2>2 DEF Positions, k
    <2>7. R \subseteq Positions /\ C \subseteq Positions
        BY DEF ShiftLeft
    <2> HIDE DEF R, C
    <2>8. ASSUME NEW i \in Positions
          PROVE  i \in t.recvd <=> (sn - i < 0 \/ sn - i \in d2 \cup f2)
        <3>1. CASE i = 0
            <4>1. sn - i = sn
                BY <3>1
            <4> QED BY <3>1, <4>1, <2>1, <1>2
        <3>2. CASE i # 0 /\ i < k
            <4>1. i \notin t.recvd
                BY <3>2, <2>1, <2>5, <1>0, <2>2
            <4>2. sn - i > r.highest_seen /\ sn - i # sn
                BY <3>2, <1>0, <2>2 DEF k
            <4>3. sn - i \notin del \cup ref
                BY <4>2, <1>0 DEF Represents
            <4>4. ~(sn - i < 0)
                BY <4>2, <1>0 DEF Represents
            <4> QED BY <4>1, <4>2, <4>3, <4>4, <1>2
        <3>3. CASE i # 0 /\ i >= k
            <4>1. i \in t.recvd <=> i - k \in r.recvd
                BY <3>3, <2>1, <2>5
            <4>2. i - k \in r.recvd <=> (sn - i < 0 \/ sn - i \in del \cup ref)
                BY <3>3, <2>6 DEF Represents
            <4>3. sn - i # sn
                BY <3>3, <1>0
            <4> QED BY <4>1, <4>2, <4>3, <1>2
        <3> QED BY <3>1, <3>2, <3>3, <1>0, <2>2
    <2>9. ASSUME NEW i \in Positions, sn - i >= 0
          PROVE  i \in t.canceled <=> sn - i \in f2
        <3>1. CASE i = 0
            <4>1. sn - i = sn
                BY <3>1
            <4>2. 0 \notin C
                BY <2>2, <2>5, <1>0
            <4> QED BY <3>1, <4>1, <4>2, <2>1, <1>1
        <3>2. CASE i # 0
            <4>1. sn - i # sn /\ (sn - i \in f2 <=> sn - i \in ref)
                BY <3>2, <1>0
            <4>2. CASE i >= k
                <5>1. i \in t.canceled <=> i - k \in r.canceled
                    BY <3>2, <4>2, <2>1, <2>5
                <5>2. i - k \in r.canceled <=> sn - i \in ref
                    BY <2>9, <4>2, <2>6 DEF Represents
                <5> QED BY <4>1, <5>1, <5>2
            <4>3. CASE i < k
                <5>1. i \notin t.canceled
                    BY <3>2, <4>3, <2>1, <2>5, <1>0, <2>2
                <5>2. sn - i > r.highest_seen
                    BY <4>3, <1>0, <2>2 DEF k
                <5>3. sn - i \notin ref
                    BY <5>2, <1>0 DEF Represents
                <5> QED BY <4>1, <5>1, <5>3
            <4> QED BY <4>2, <4>3, <1>0, <2>2
        <3> QED BY <3>1, <3>2
    <2>10. ASSUME NEW j \in Nat, j <= sn - Bits
           PROVE  j \in d2 \cup f2
        <3>1. CASE j <= r.highest_seen - Bits
            BY <3>1, <1>2 DEF Represents
        <3>2. CASE j > r.highest_seen - Bits
            <4> DEFINE i == r.highest_seen - j
            <4>1. i \in Positions
                BY <3>2, <2>10, <2>2, <2>4, <1>0 DEF Positions, k
            <4>2. i \in r.recvd
                <5> SUFFICES ASSUME i \in Positions \ r.recvd PROVE FALSE
                    BY <4>1
                <5>1. oldest_unrecvd_offset(r) <= -i /\ oldest_unrecvd_offset(r) \in Int
                    BY OldestOffset
                <5>2. k >= oldest_unrecvd_offset(r) + Window
                    BY <5>1, <2>10, <1>0, <2>2 DEF k
                <5> QED BY <5>2 DEF too_new, k
            <4>3. r.highest_seen - i = j
                BY <1>0
            <4>4. j \in del \cup ref
                BY <4>1, <4>2, <4>3 DEF Represents
            <4> QED BY <4>4, <1>2
        <3> QED BY <3>1, <3>2, <1>0
    <2>11. \A j \in d2 \cup f2 : j <= sn
        BY <1>0, <1>2, <1>3 DEF Represents
    <2>12. t.recvd \subseteq Positions /\ t.canceled \subseteq Positions
        BY <2>1, <2>7, <1>0
    <2>13. Represents(t, d2, f2)
        BY <2>1, <1>2, <2>8, <2>9, <2>10, <2>11, <2>12 DEF Represents
    <2> QED BY <1>3, <2>1, <2>13 DEF t
<1>4. CASE sn <= r.highest_seen
    <2> DEFINE p == -(sn - r.highest_seen)
    <2>1. p \in Positions /\ r.highest_seen - p = sn
        BY <1>0, <1>4 DEF too_old, Positions
    <2>2. /\ t.highest_seen = r.highest_seen
          /\ t.recvd = r.recvd \cup {p}
          /\ t.canceled = r.canceled \cup (IF is_cancel THEN {p} ELSE {})
          /\ DOMAIN t = {"highest_seen", "recvd", "canceled"}
        BY <1>0, <1>4 DEF process_packet_or_cancel, newer, should_process_packet, Represents
    <2>3. p \notin r.recvd
        BY <1>0, <1>4 DEF was_recvd
    <2> HIDE DEF t, p
    <2>4. \A i \in Positions : i # p => r.highest_seen - i # sn
        BY <2>1, <1>0
    <2>5. ASSUME NEW i \in Positions
          PROVE  i \in t.recvd <=> (r.highest_seen - i < 0
                                      \/ r.highest_seen - i \in d2 \cup f2)
        <3>1. CASE i = p
            BY <3>1, <2>1, <2>2, <1>2
        <3>2. CASE i # p
            BY <3>2, <2>2, <2>4, <1>2 DEF Represents
        <3> QED BY <3>1, <3>2
    <2>6. ASSUME NEW i \in Positions, r.highest_seen - i >= 0
          PROVE  i \in t.canceled <=> r.highest_seen - i \in f2
        <3>1. CASE i = p
            <4>1. p \notin r.canceled
                BY <2>1, <1>1 DEF Represents
            <4> QED BY <3>1, <4>1, <2>1, <2>2, <1>1
        <3>2. CASE i # p
            BY <3>2, <2>2, <2>4, <2>6 DEF Represents
        <3> QED BY <3>1, <3>2
    <2>7. \A j \in Nat : j <= r.highest_seen - Bits => j \in d2 \cup f2
        BY <1>2 DEF Represents
    <2>8. \A j \in d2 \cup f2 : j <= r.highest_seen
        BY <1>2, <1>4 DEF Represents
    <2>9. t.recvd \subseteq Positions /\ t.canceled \subseteq Positions
        BY <2>1, <2>2 DEF Represents
    <2>10. Represents(t, d2, f2)
        BY <2>2, <1>2, <2>5, <2>6, <2>7, <2>8, <2>9 DEF Represents
    <2>11. ~(sn > r.highest_seen)
        BY <1>4, <1>0
    <2> QED BY <2>2, <2>10, <2>11 DEF t
<1> QED BY <1>3, <1>4, <1>0

-----------------------------------------------------------------------------
(* The operations that change entries of the window one by one.            *)
LEMMA OneEntrySound ==
    ASSUME NEW s, NEW del, NEW ref, Sound(s, del, ref),
           NEW sn \in SeqNums(s), NEW f, IsUnackedState(f),
           Outstanding(f) <=> Outstanding(s.unacked[sn]),
           f.st = "CancelAcked" => s.unacked[sn].st = "CancelAcked"
    PROVE  LET t == [s EXCEPT !.unacked[sn] = f]
           IN  /\ Sound(t, del, ref) /\ t.next = s.next /\ SeqNums(t) = SeqNums(s)
               /\ \A i \in SeqNums(s) :
                    Outstanding(t.unacked[i]) <=> Outstanding(s.unacked[i])
<1> DEFINE u == [s.unacked EXCEPT ![sn] = f]
           t == [s EXCEPT !.unacked = u]
<1>1. u = [i \in SeqNums(s) |-> IF i = sn THEN f ELSE s.unacked[i]]
    BY DEF Sound, IsSender
<1>2. \A i \in SeqNums(s) :
         /\ IsUnackedState(u[i])
         /\ Outstanding(u[i]) <=> Outstanding(s.unacked[i])
         /\ u[i].st = "CancelAcked" => s.unacked[i].st = "CancelAcked"
    BY <1>1 DEF Sound, IsSender
<1>3. u = [i \in SeqNums(s) |-> u[i]]
    BY <1>1
<1> HIDE DEF u
<1>4. Sound(t, del, ref) /\ t.next = s.next
    BY <1>2, <1>3, EntriesSound
<1>5. t.unacked = u /\ SeqNums(t) = SeqNums(s)
    BY DEF Sound, IsSender, SeqNums
<1>6. t = [s EXCEPT !.unacked[sn] = f]
    BY DEF u
<1> QED BY <1>2, <1>4, <1>5, <1>6

\* What the operations that touch neither the peer nor the counters promise.
Harmless(s, t, del, ref) ==
    /\ Sound(t, del, ref) /\ t.next = s.next
    /\ retry_needed(t) => retry_needed(s)

\* Asking the peer to cancel a packet (cancel_sent_packet) keeps it in the window.
LEMMA CancelSentHarmless ==
    ASSUME NEW s, NEW del, NEW ref, Sound(s, del, ref), NEW sn \in SeqNums(s)
    PROVE  Harmless(s, cancel_sent_packet(s, sn), del, ref)
<1>1. IsUnackedState(s.unacked[sn])
    BY DEF Sound, IsSender
<1>2. /\ IsUnackedState(cancel(s.unacked[sn]))
      /\ Outstanding(cancel(s.unacked[sn])) <=> Outstanding(s.unacked[sn])
      /\ cancel(s.unacked[sn]).st = "CancelAcked" => s.unacked[sn].st = "CancelAcked"
    BY <1>1, EntrySteps
<1>3. cancel_sent_packet(s, sn) = [s EXCEPT !.unacked[sn] = cancel(s.unacked[sn])]
    BY DEF cancel_sent_packet
<1> QED BY <1>2, <1>3, OneEntrySound DEF Harmless, retry_needed

\* Limiting the retries of a packet leaves the window as it is.
LEMMA LimitHarmless ==
    ASSUME NEW s, NEW del, NEW ref, Sound(s, del, ref), NEW x, NEW limit
    PROVE  /\ Harmless(s, limit_retries_by_seq_num(s, x, limit), del, ref)
           /\ Harmless(s, limit_retries_by_id(s, x, limit), del, ref)
<1>1. ASSUME NEW sn PROVE Harmless(s, limit_retries_by_seq_num(s, sn, limit), del, ref)
    <2>1. CASE sn \in SeqNums(s)
        <3> DEFINE f == limit_retries(s.unacked[sn], limit)
        <3>1. IsUnackedState(s.unacked[sn])
            BY <2>1 DEF Sound, IsSender
        <3>2. /\ IsUnackedState(f)
              /\ Outstanding(f) <=> Outstanding(s.unacked[sn])
              /\ f.st = "CancelAcked" => s.unacked[sn].st = "CancelAcked"
            BY <3>1, EntrySteps
        <3>3. limit_retries_by_seq_num(s, sn, limit) = [s EXCEPT !.unacked[sn] = f]
            BY <2>1 DEF limit_retries_by_seq_num
        <3> QED BY <2>1, <3>2, <3>3, OneEntrySound DEF Harmless, retry_needed
    <2>2. CASE sn \notin SeqNums(s)
        BY <2>2 DEF limit_retries_by_seq_num, Harmless
    <2> QED BY <2>1, <2>2
<1>2. Harmless(s, limit_retries_by_id(s, x, limit), del, ref)
    <2>1. CASE is_sent(s, x)
        BY <1>1, <2>1 DEF limit_retries_by_id
    <2>2. CASE ~is_sent(s, x) /\ x \in BlockedIds(s) /\ s.blocked[x].st = "Blocked"
        <3> DEFINE b == [s.blocked EXCEPT ![x].limit = limited(s.blocked[x].limit, limit)]
                   t == [s EXCEPT !.blocked = b]
        <3>1. limit_retries_by_id(s, x, limit) = t
            BY <2>2 DEF limit_retries_by_id
        <3> HIDE DEF b
        <3>3. Sound(t, del, ref)
            BY DEF Sound, IsSender, SeqNums
        <3>4. t.next = s.next /\ t.base = s.base /\ t.unacked = s.unacked
            BY DEF Sound, IsSender
        <3> HIDE DEF t
        <3> QED BY <3>1, <3>3, <3>4 DEF Harmless, retry_needed, SeqNums
    <2>3. CASE ~is_sent(s, x) /\ ~(x \in BlockedIds(s) /\ s.blocked[x].st = "Blocked")
        BY <2>3 DEF limit_retries_by_id, Harmless
    <2> QED BY <2>1, <2>2, <2>3
<1> QED BY <1>1, <1>2

\* Forgetting a packet only lets go of packets that the peer has decided.
LEMMA ForgetHarmless ==
    ASSUME NEW s, NEW del, NEW ref, Sound(s, del, ref), NEW sn \in SeqNums(s)
    PROVE  Harmless(s, forget_canceled_packet(s, sn), del, ref)
<1> DEFINE e == forget(s.unacked[sn])
<1>1. IsUnackedState(s.unacked[sn])
    BY DEF Sound, IsSender
<1>2. /\ IsUnackedState(e)
      /\ Outstanding(e) <=> Outstanding(s.unacked[sn])
      /\ e.st = "CancelAcked" => s.unacked[sn].st = "CancelAcked"
    BY <1>1, EntrySteps
<1>3. forget_canceled_packet(s, sn) = settle(s, sn, e)
    BY DEF forget_canceled_packet
<1> HIDE DEF e
<1>4. (~Outstanding(e) => sn \in del \cup ref) /\ (e.st = "CancelAcked" => sn \in ref)
    BY <1>2 DEF Sound
<1>5. /\ Sound(settle(s, sn, e), del, ref)
      /\ settle(s, sn, e).next = s.next
      /\ \A i \in SeqNums(settle(s, sn, e)) :
           /\ i \in SeqNums(s)
           /\ settle(s, sn, e).unacked[i] = IF i = sn THEN e ELSE s.unacked[i]
    BY <1>2, <1>4, SettleSound
<1> QED BY <1>2, <1>3, <1>5 DEF Harmless, retry_needed

(* Noting an answer that is true.                                          *)
LEMMA AnswerHarmless ==
    ASSUME NEW s, NEW del, NEW ref, Sound(s, del, ref), NEW sn
    PROVE  /\ sn \in del => Harmless(s, process_ack(s, sn), del, ref)
           /\ sn \in ref => Harmless(s, process_canceled(s, sn), del, ref)
<1> USE RetryMaxAssumption
<1>1. ASSUME NEW e, e \in {Acked, CancelAcked}, sn \in SeqNums(s), sn \in del \cup ref,
             e = CancelAcked => sn \in ref
      PROVE  Harmless(s, settle(s, sn, e), del, ref)
    <2>1. /\ IsUnackedState(e) /\ ~Outstanding(e)
          /\ e.st = "CancelAcked" => e = CancelAcked
        <3>1. CASE e = Acked
            BY <3>1 DEF IsUnackedState, UnackedStates, Acked, Entry, Outstanding
        <3>2. CASE e = CancelAcked
            BY <3>2 DEF IsUnackedState, UnackedStates, CancelAcked, Entry, Outstanding
        <3> QED BY <1>1, <3>1, <3>2
    <2>2. /\ Sound(settle(s, sn, e), del, ref)
          /\ settle(s, sn, e).next = s.next
          /\ \A i \in SeqNums(settle(s, sn, e)) :
               /\ i \in SeqNums(s)
               /\ settle(s, sn, e).unacked[i] = IF i = sn THEN e ELSE s.unacked[i]
        BY <1>1, <2>1, SettleSound
    <2> QED BY <2>1, <2>2 DEF Harmless, retry_needed
<1>2. Acked # CancelAcked
    BY DEF Acked, CancelAcked, Entry
<1>3. Harmless(s, s, del, ref)
    BY DEF Harmless
<1>4. ASSUME sn \in del PROVE Harmless(s, process_ack(s, sn), del, ref)
    BY <1>1, <1>2, <1>3, <1>4 DEF process_ack
<1>5. ASSUME sn \in ref PROVE Harmless(s, process_canceled(s, sn), del, ref)
    BY <1>1, <1>2, <1>3, <1>5 DEF process_canceled
<1> QED BY <1>4, <1>5

-----------------------------------------------------------------------------
(* The inductive invariant.                                                *)

\* What is on its way was sent, and an answer on its way is true.
NetSound(ms, next, del, ref) ==
    \A m \in ms : /\ m = [type |-> m.type, sn |-> m.sn]
                  /\ m.type \in MsgTypes /\ m.sn \in Nat /\ m.sn < next
                  /\ m.type = "Acknowledgement" => m.sn \in del
                  /\ m.type = "Canceled" => m.sn \in ref

IInv ==
    /\ Sound(snd, delivered, refused)
    /\ Represents(rcv, delivered, refused)
    /\ rcv.highest_seen < snd.next
    /\ NetSound(net, snd.next, delivered, refused)
    /\ told_acked \subseteq delivered /\ told_canceled \subseteq refused
    /\ redelivered = {}
    /\ errors \subseteq {"InvalidAck"}
    /\ queued \in 0..QueueSize
    /\ armed \in BOOLEAN /\ permit \in BOOLEAN

(* A sequence number in the sender's window or below it is never too new:  *)
(* the oldest packet the peer misses is not below the window.              *)
LEMMA NotTooNew ==
    ASSUME NEW s, NEW r, NEW del, NEW ref, Sound(s, del, ref),
           Represents(r, del, ref), NEW sn \in Nat, sn < s.next
    PROVE  ~too_new(r, sn)
<1> DEFINE o == oldest_unrecvd_offset(r)
<1>1. /\ o \in Int /\ o <= 1
      /\ o = 1 \/ -o \in Positions \ r.recvd
    BY OldestOffset
<1>2. /\ r.highest_seen \in Int /\ s.base \in Nat /\ s.next \in Nat /\ Window \in Nat
      /\ s.next - s.base <= Window
    BY WindowAssumption DEF Represents, Sound, IsSender
<1> HIDE DEF o
<1>3. s.base <= r.highest_seen + o
    <2> SUFFICES ASSUME s.base > r.highest_seen + o
                 PROVE  FALSE
        BY <1>1, <1>2
    <2>1. CASE o = 1
        <3>1. s.base - 1 \in 0..(s.base - 1) /\ s.base - 1 > r.highest_seen
            BY <1>2, <2>1 DEF Represents
        <3> QED BY <3>1, <1>2 DEF Sound, Represents
    <2>2. CASE -o \in Positions \ r.recvd
        <3>1. r.highest_seen - (-o) = r.highest_seen + o
            BY <1>1, <1>2
        <3>2. ~(r.highest_seen + o < 0) /\ r.highest_seen + o \notin del \cup ref
            BY <2>2, <3>1 DEF Represents
        <3>3. r.highest_seen + o \in 0..(s.base - 1)
            BY <1>1, <1>2, <3>2
        <3> QED BY <3>2, <3>3 DEF Sound
    <2> QED BY <1>1, <2>1, <2>2
<1>4. sn - r.highest_seen < o + Window
    BY <1>1, <1>2, <1>3
<1> QED BY <1>1, <1>2, <1>4 DEF too_new, o

(* A sequence number in the window is never too old.                       *)
LEMMA NotTooOld ==
    ASSUME NEW s, NEW r, NEW del, NEW ref, Sound(s, del, ref),
           Represents(r, del, ref), r.highest_seen < s.next, NEW sn \in SeqNums(s)
    PROVE  ~too_old(r, sn)
BY WindowAssumption DEF Represents, Sound, IsSender, SeqNums, too_old

(* Repeated packets and cancels are answered with what was decided.        *)
LEMMA RepeatedIsDecided ==
    ASSUME NEW r, NEW del, NEW ref, Represents(r, del, ref), NEW sn \in Nat,
           ~too_old(r, sn), was_recvd(r, sn)
    PROVE  /\ r.highest_seen - sn \in r.canceled => sn \in ref
           /\ r.highest_seen - sn \notin r.canceled => sn \in del
<1> DEFINE i == r.highest_seen - sn
<1>1. i \in Positions /\ r.highest_seen - i = sn /\ i \in r.recvd
    BY WindowAssumption DEF Represents, was_recvd, too_old, Positions
<1> HIDE DEF i
<1>2. sn \in del \cup ref
    BY <1>1 DEF Represents
<1>3. i \in r.canceled <=> sn \in ref
    BY <1>1 DEF Represents
<1> QED BY <1>2, <1>3 DEF i

(* Steps of the sending side that change the sender and put packets on the *)
(* network.                                                                *)
LEMMA SenderStep ==
    ASSUME IInv, Sound(snd', delivered, refused),
           snd'.next \in Nat, snd'.next >= snd.next,
           net' \subseteq net \cup {Pkt(sn) : sn \in 0..(snd'.next - 1)}
                             \cup {Cancel(sn) : sn \in 0..(snd'.next - 1)},
           armed' \in BOOLEAN, permit' \in BOOLEAN,
           UNCHANGED <<rcv, queued, errors, history>>
    PROVE  IInv'
<1>1. NetSound(net', snd'.next, delivered, refused)
    <2> SUFFICES ASSUME NEW m \in net'
                 PROVE  /\ m = [type |-> m.type, sn |-> m.sn]
                        /\ m.type \in MsgTypes /\ m.sn \in Nat /\ m.sn < snd'.next
                        /\ m.type = "Acknowledgement" => m.sn \in delivered
                        /\ m.type = "Canceled" => m.sn \in refused
        BY DEF NetSound
    <2>1. CASE m \in net
        BY <2>1 DEF IInv, NetSound, Sound, IsSender
    <2>2. CASE m \in {Pkt(sn) : sn \in 0..(snd'.next - 1)}
        BY <2>2 DEF Pkt, MsgTypes
    <2>3. CASE m \in {Cancel(sn) : sn \in 0..(snd'.next - 1)}
        BY <2>3 DEF Cancel, MsgTypes
    <2> QED BY <2>1, <2>2, <2>3
<1>2. rcv'.highest_seen < snd'.next
    BY DEF IInv, Represents, Sound, IsSender
<1> QED BY <1>1, <1>2 DEF IInv, history

\* A new session, whose receiver counts everything before packet 0 as received.
LEMMA InitIInv == Init => IInv
<1> SUFFICES ASSUME Init PROVE IInv
    OBVIOUS
<1>1. Sound(snd, delivered, refused)
    BY WindowAssumption DEF Init, new_sender, NoEntries, Sound, IsSender, SeqNums
<1>2. Represents(rcv, delivered, refused)
    BY WindowAssumption DEF Init, new_receiver, Represents, Positions
<1>3. rcv.highest_seen < snd.next
    BY DEF Init, new_receiver, new_sender
<1>4. /\ NetSound(net, snd.next, delivered, refused)
      /\ told_acked \subseteq delivered /\ told_canceled \subseteq refused
      /\ redelivered = {} /\ errors \subseteq {"InvalidAck"}
    BY DEF Init, NetSound
<1>5. queued \in 0..QueueSize
    BY ZdprAssumption DEF Init
<1>6. armed \in BOOLEAN /\ permit \in BOOLEAN
    BY DEF Init
<1> QED BY <1>1, <1>2, <1>3, <1>4, <1>5, <1>6 DEF IInv

\* send_mgmt_helper: a packet enters the window with a number nobody has used.
LEMMA SendMgmtStep == ASSUME IInv, SendMgmt PROVE IInv'
<1>1. Sound(snd, delivered, refused) /\ snd.next \in Nat
    BY DEF IInv, Sound, IsSender
<1>2. /\ Sound(snd', delivered, refused)
      /\ snd'.next \in Nat /\ snd'.next >= snd.next
    BY <1>1, EnqueueSound DEF SendMgmt
<1>3. snd.next..(snd'.next - 1) \subseteq 0..(snd'.next - 1)
    BY <1>1, <1>2
<1>4. permit' \in BOOLEAN /\ armed' \in BOOLEAN
    BY DEF SendMgmt, IInv
<1>5. net' \subseteq net \cup {Pkt(sn) : sn \in 0..(snd'.next - 1)}
                        \cup {Cancel(sn) : sn \in 0..(snd'.next - 1)}
    BY <1>3 DEF SendMgmt
<1> QED BY <1>2, <1>4, <1>5, SenderStep DEF SendMgmt

\* process_window_size_tlv: the window only grows to what the receiver accepts.
LEMMA WindowSizeStep == ASSUME IInv, process_window_size_tlv PROVE IInv'
<1>1. /\ Sound(adjust_window_size(snd, Window), delivered, refused)
      /\ adjust_window_size(snd, Window).next = snd.next
      /\ snd.next \in Nat
    BY DEF IInv, Sound, IsSender, SeqNums, adjust_window_size
<1> QED BY <1>1, SenderStep DEF process_window_size_tlv, IInv

\* Canceling a packet that still waits for the window.
LEMMA CancelQueuedStep == ASSUME IInv, NEW id, CancelQueued(id) PROVE IInv'
<1>1. /\ Sound(snd', delivered, refused)
      /\ snd'.next = snd.next /\ snd.next \in Nat
    <2>1. Sound(snd, delivered, refused) /\ snd.next \in Nat
        BY DEF IInv, Sound, IsSender
    <2> QED BY <2>1, CancelQueuedSound DEF CancelQueued
<1> QED BY <1>1, SenderStep DEF CancelQueued, IInv

\* Canceling a packet that was sent.
LEMMA RequestCancelStep ==
    ASSUME IInv, NEW sn \in SeqNums(snd), RequestCancel(sn) PROVE IInv'
<1>1. /\ Sound(snd', delivered, refused)
      /\ snd'.next = snd.next /\ snd.next \in Nat
    <2>1. Sound(snd, delivered, refused) /\ snd.next \in Nat
        BY DEF IInv, Sound, IsSender
    <2> QED BY <2>1, CancelSentHarmless DEF RequestCancel, Harmless
<1>2. sn \in 0..(snd'.next - 1)
    BY <1>1 DEF SeqNums, IInv, Sound, IsSender
<1> QED BY <1>1, <1>2, SenderStep DEF RequestCancel, IInv

\* Limiting the retries of a packet that was sent or waits.
LEMMA LimitRetriesStep == ASSUME IInv, LimitRetries PROVE IInv'
<1>1. \E limit, x : \/ snd' = limit_retries_by_seq_num(snd, x, limit)
                    \/ snd' = limit_retries_by_id(snd, x, limit)
    BY DEF LimitRetries
<1>2. Harmless(snd, snd', delivered, refused)
    BY <1>1, LimitHarmless DEF IInv
<1>3. Sound(snd', delivered, refused) /\ snd'.next = snd.next /\ snd.next \in Nat
    BY <1>2 DEF Harmless, IInv, Sound, IsSender
<1> QED BY <1>3, SenderStep DEF LimitRetries, IInv

\* Dropping an AckedOrCanceled handle, which forgets its packet.
LEMMA ForgetStep ==
    ASSUME IInv, NEW sn \in SeqNums(snd), Forget(sn) PROVE IInv'
<1>1. Harmless(snd, snd', delivered, refused)
    BY ForgetHarmless DEF IInv, Forget
<1>2. Sound(snd', delivered, refused) /\ snd'.next = snd.next /\ snd.next \in Nat
    BY <1>1 DEF Harmless, IInv, Sound, IsSender
<1> QED BY <1>2, SenderStep DEF Forget, IInv

\* A tick of the retry worker repeats only what is still outstanding.
LEMMA RetryTickStep == ASSUME IInv, RetryTick PROVE IInv'
<1> DEFINE u == [sn \in SeqNums(snd) |-> age(snd.unacked[sn])]
<1>1. \A sn \in SeqNums(snd) :
         /\ IsUnackedState(u[sn])
         /\ Outstanding(u[sn]) <=> Outstanding(snd.unacked[sn])
         /\ u[sn].st = "CancelAcked" => snd.unacked[sn].st = "CancelAcked"
    BY EntrySteps DEF IInv, Sound, IsSender
<1>2. snd' = [snd EXCEPT !.unacked = u]
    BY DEF RetryTick, age_retries
<1>3. u = [sn \in SeqNums(snd) |-> u[sn]]
    OBVIOUS
<1> HIDE DEF u
<1>4. Sound(snd', delivered, refused) /\ snd'.next = snd.next /\ snd.next \in Nat
    <2>1. Sound(snd, delivered, refused) /\ snd.next \in Nat
        BY DEF IInv, Sound, IsSender
    <2> QED BY <2>1, <1>1, <1>2, <1>3, EntriesSound
<1>5. SeqNums(snd') \subseteq 0..(snd'.next - 1)
    BY <1>4 DEF Sound, IsSender, SeqNums
<1>6. retry_packets(snd') \subseteq SeqNums(snd') /\ retry_cancels(snd') \subseteq SeqNums(snd')
    BY DEF retry_packets, retry_cancels
<1>7. net' \subseteq net \cup {Pkt(sn) : sn \in 0..(snd'.next - 1)}
                        \cup {Cancel(sn) : sn \in 0..(snd'.next - 1)}
    BY <1>5, <1>6 DEF RetryTick
<1>8. armed' \in BOOLEAN /\ permit' \in BOOLEAN
    BY DEF RetryTick, IInv, retry_needed
<1>9. snd'.next \in Nat /\ snd'.next >= snd.next
    BY <1>4
<1> QED BY <1>4, <1>7, <1>8, <1>9, SenderStep DEF RetryTick

\* The retry worker is notified.
LEMMA RetryResetStep == ASSUME IInv, RetryReset PROVE IInv'
BY DEF RetryReset, IInv, session, history, retry_needed

(* The effect of an answer on the sender and on what it knows.             *)
LEMMA AnswerStep ==
    ASSUME IInv, NEW m \in net, HandleAckOrCanceled(m)
    PROVE  /\ IInv'
           /\ snd'.next \in Nat /\ snd'.next >= snd.next
           /\ m.sn \in 0..(snd.next - 1)
           /\ m.type = "Canceled" => told_acked' = told_acked /\ m.sn \in refused
           /\ m.type # "Canceled" => told_canceled' = told_canceled /\ m.sn \in delivered
<1> DEFINE c == m.type = "Canceled"
<1>1. /\ m.type \in {"Acknowledgement", "Canceled"}
      /\ m.sn \in Nat /\ m.sn < snd.next /\ snd.next \in Nat
      /\ IF c THEN m.sn \in refused ELSE m.sn \in delivered
    BY DEF HandleAckOrCanceled, IInv, NetSound, Sound, IsSender
<1>2. PICK s : /\ s = IF c THEN process_canceled(snd, m.sn) ELSE process_ack(snd, m.sn)
               /\ snd' = unblock(s)
               /\ net' = Taken(m) \cup {Pkt(sn) : sn \in s.next..(snd'.next - 1)}
               /\ permit' = (permit \/ (~retry_needed(s) /\ retry_needed(snd')))
    BY DEF HandleAckOrCanceled
<1>3. Harmless(snd, s, delivered, refused)
    BY <1>1, <1>2, AnswerHarmless DEF IInv
<1>4. Sound(s, delivered, refused) /\ s.next = snd.next
    BY <1>3 DEF Harmless
<1>5. /\ Sound(snd', delivered, refused)
      /\ snd'.next \in Nat /\ snd'.next >= snd.next
    BY <1>2, <1>4, UnblockSound
<1>6. net' \subseteq net \cup {Pkt(sn) : sn \in 0..(snd'.next - 1)}
    <2>1. s.next..(snd'.next - 1) \subseteq 0..(snd'.next - 1)
        BY <1>1, <1>4, <1>5
    <2> QED BY <1>2, <2>1 DEF Taken
<1>7. NetSound(net', snd'.next, delivered, refused)
    <2> SUFFICES ASSUME NEW x \in net'
                 PROVE  /\ x = [type |-> x.type, sn |-> x.sn]
                        /\ x.type \in MsgTypes /\ x.sn \in Nat /\ x.sn < snd'.next
                        /\ x.type = "Acknowledgement" => x.sn \in delivered
                        /\ x.type = "Canceled" => x.sn \in refused
        BY DEF NetSound
    <2>1. CASE x \in net
        BY <2>1, <1>1, <1>5 DEF IInv, NetSound
    <2>2. CASE x \in {Pkt(sn) : sn \in 0..(snd'.next - 1)}
        BY <2>2, <1>5 DEF Pkt, MsgTypes
    <2> QED BY <2>1, <2>2, <1>6
<1>8. ack_stat(snd, m.sn, c) # "TooNewAck" /\ ack_stat(snd, m.sn, c) # "TooNew"
    <2>1. ~(m.sn >= snd.next)
        BY <1>1
    <2> QED BY <2>1 DEF ack_stat
<1>9. errors' \subseteq {"InvalidAck"}
    BY <1>8 DEF HandleAckOrCanceled, ProtocolErrors, IInv
<1>10. told_acked' \subseteq delivered /\ told_canceled' \subseteq refused
    BY <1>1 DEF HandleAckOrCanceled, IInv
<1>11. armed' \in BOOLEAN /\ permit' \in BOOLEAN
    BY <1>2 DEF HandleAckOrCanceled, IInv
<1>12. rcv'.highest_seen < snd'.next
    BY <1>1, <1>5 DEF HandleAckOrCanceled, IInv, Represents
<1>13. IInv'
    BY <1>5, <1>7, <1>9, <1>10, <1>11, <1>12 DEF HandleAckOrCanceled, IInv
<1>14. /\ c => told_acked' = told_acked
       /\ ~c => told_canceled' = told_canceled
    BY DEF HandleAckOrCanceled
<1> QED BY <1>1, <1>5, <1>13, <1>14

(* The receiving side: what deciding a packet does.                        *)
LEMMA DecideStep ==
    ASSUME Window < Bits, IInv, NEW sn \in Nat, sn < snd.next,
           ~too_old(rcv, sn), ~was_recvd(rcv, sn), NEW is_cancel \in BOOLEAN
    PROVE  LET d2 == IF is_cancel THEN delivered ELSE delivered \cup {sn}
               f2 == IF is_cancel THEN refused \cup {sn} ELSE refused
               r2 == process_packet_or_cancel(rcv, sn, is_cancel)
           IN  /\ Represents(r2, d2, f2) /\ r2.highest_seen < snd.next
               /\ Sound(snd, d2, f2) /\ sn \notin delivered \cup refused
               /\ \A ms : NetSound(ms, snd.next, delivered, refused)
                            => NetSound(ms, snd.next, d2, f2)
<1> DEFINE d2 == IF is_cancel THEN delivered ELSE delivered \cup {sn}
           f2 == IF is_cancel THEN refused \cup {sn} ELSE refused
           r2 == process_packet_or_cancel(rcv, sn, is_cancel)
<1>1. Sound(snd, delivered, refused) /\ Represents(rcv, delivered, refused)
      /\ rcv.highest_seen < snd.next
    BY DEF IInv
<1>2. ~too_new(rcv, sn)
    BY <1>1, NotTooNew
<1>3. /\ Represents(r2, d2, f2)
      /\ r2.highest_seen = IF sn > rcv.highest_seen THEN sn ELSE rcv.highest_seen
    BY <1>1, <1>2, AcceptRepresents
<1>4. sn \notin delivered \cup refused
    BY <1>1, <1>2, AcceptedIsNew
<1>5. delivered \subseteq d2 /\ refused \subseteq f2
    OBVIOUS
<1> HIDE DEF d2, f2, r2
<1>6. Sound(snd, d2, f2)
    BY <1>1, <1>5 DEF Sound
<1>7. \A ms : NetSound(ms, snd.next, delivered, refused)
                => NetSound(ms, snd.next, d2, f2)
    BY <1>5 DEF NetSound
<1>8. r2.highest_seen < snd.next
    BY <1>1, <1>3
<1> QED BY <1>3, <1>4, <1>6, <1>7, <1>8 DEF d2, f2, r2

(* An answer that is true may be put on the network.                       *)
LEMMA AnswerSound ==
    ASSUME NEW ms, NEW next, NEW del, NEW ref, NetSound(ms, next, del, ref),
           NEW sn \in Nat, sn < next, NEW disp,
           disp = "AckCancelDoNotProcess" => sn \in ref,
           disp \notin {"Ignore", "AckCancelDoNotProcess"} => sn \in del,
           NEW m
    PROVE  NetSound((IF Lossy THEN ms \ {m} ELSE ms) \cup Answer(disp, sn), next, del, ref)
<1>1. CASE disp = "Ignore"
    BY <1>1 DEF NetSound, Answer
<1>2. CASE disp = "AckCancelDoNotProcess"
    BY <1>2 DEF NetSound, Answer, CanceledMsg, MsgTypes
<1>3. CASE disp \notin {"Ignore", "AckCancelDoNotProcess"}
    BY <1>3 DEF NetSound, Answer, Ack, MsgTypes
<1> QED BY <1>1, <1>2, <1>3

(* The two ways a packet or a cancel that reaches the receiver is taken.   *)
LEMMA ReceiverCases ==
    ASSUME IInv, NEW m \in net, NEW is_cancel \in BOOLEAN
    PROVE  LET sn == m.sn
               disp == disposition(rcv, sn, is_cancel)
           IN  /\ sn \in Nat /\ sn < snd.next /\ ~too_new(rcv, sn)
               /\ receiver_error(rcv, sn) = {}
               /\ should_process_packet(rcv, sn) =>
                    /\ ~too_old(rcv, sn) /\ ~was_recvd(rcv, sn)
                    /\ disp = IF is_cancel THEN "AckCancelDoNotProcess"
                                           ELSE "AckAndProcess"
               /\ ~should_process_packet(rcv, sn) =>
                    /\ process_packet_or_cancel(rcv, sn, is_cancel) = rcv
                    /\ disp = "AckCancelDoNotProcess" => sn \in refused
                    /\ disp \notin {"Ignore", "AckCancelDoNotProcess"} => sn \in delivered
<1> DEFINE sn == m.sn
           disp == disposition(rcv, sn, is_cancel)
<1>1. sn \in Nat /\ sn < snd.next
    BY DEF IInv, NetSound
<1>2. ~too_new(rcv, sn)
    BY <1>1, NotTooNew DEF IInv
<1>3. receiver_error(rcv, sn) = {}
    BY <1>2 DEF receiver_error
<1> HIDE DEF sn
<1>4. ASSUME should_process_packet(rcv, sn)
      PROVE  /\ ~too_old(rcv, sn) /\ ~was_recvd(rcv, sn)
             /\ disp = IF is_cancel THEN "AckCancelDoNotProcess" ELSE "AckAndProcess"
    BY <1>4 DEF should_process_packet, disposition
<1>5. ASSUME ~should_process_packet(rcv, sn)
      PROVE  /\ process_packet_or_cancel(rcv, sn, is_cancel) = rcv
             /\ disp = "AckCancelDoNotProcess" => sn \in refused
             /\ disp \notin {"Ignore", "AckCancelDoNotProcess"} => sn \in delivered
    <2>1. CASE too_old(rcv, sn)
        <3>1. disp = "Ignore"
            BY <2>1 DEF disposition
        <3> QED BY <3>1, <1>5 DEF process_packet_or_cancel
    <2>2. CASE ~too_old(rcv, sn) /\ was_recvd(rcv, sn)
        <3>1. disp = IF rcv.highest_seen - sn \in rcv.canceled
                     THEN "AckCancelDoNotProcess" ELSE "AckDoNotProcess"
            BY <2>2, <1>2 DEF disposition
        <3>2. process_packet_or_cancel(rcv, sn, is_cancel) = rcv
            BY <1>5 DEF process_packet_or_cancel
        <3>3. /\ rcv.highest_seen - sn \in rcv.canceled => sn \in refused
              /\ rcv.highest_seen - sn \notin rcv.canceled => sn \in delivered
            BY <1>1, <2>2, RepeatedIsDecided DEF IInv
        <3> QED BY <3>1, <3>2, <3>3
    <2> QED BY <2>1, <2>2, <1>2, <1>5 DEF should_process_packet
<1> QED BY <1>1, <1>2, <1>3, <1>4, <1>5 DEF sn

\* dispatch_mgmt_packet: the receiver takes a packet only if it is undecided.
LEMMA DispatchStep ==
    ASSUME Window < Bits, IInv, NEW m \in net, dispatch_mgmt_packet(m)
    PROVE  /\ IInv'
           /\ \/ UNCHANGED <<snd, history>>
              \/ /\ m.sn \in 0..(snd.next - 1) /\ m.sn \notin delivered \cup refused
                 /\ delivered' = delivered \cup {m.sn}
                 /\ UNCHANGED <<snd, redelivered, refused, told_acked, told_canceled>>
<1> DEFINE sn == m.sn
           disp == disposition(rcv, sn, FALSE)
           full == should_process_packet(rcv, sn) /\ queued = QueueSize
<1>0. /\ UNCHANGED <<snd, armed, permit, refused, told_acked, told_canceled>>
      /\ NetSound(net, snd.next, delivered, refused)
    BY DEF dispatch_mgmt_packet, IInv
<1>1. CASE full
    <2>1. /\ UNCHANGED <<rcv, queued, errors, delivered, redelivered>>
          /\ net' = Taken(m) \cup {}
        BY <1>1 DEF dispatch_mgmt_packet
    <2>2. net' \subseteq net
        BY <2>1 DEF Taken
    <2>3. NetSound(net', snd.next, delivered, refused)
        BY <1>0, <2>2 DEF NetSound
    <2> QED BY <1>0, <2>1, <2>3 DEF IInv, history
<1>2. CASE ~full /\ ~should_process_packet(rcv, sn)
    <2>1. /\ rcv' = process_packet_or_cancel(rcv, sn, FALSE)
          /\ errors' = errors \cup receiver_error(rcv, sn)
          /\ UNCHANGED <<queued, delivered, redelivered>>
          /\ net' = Taken(m) \cup Answer(disp, sn)
        BY <1>2 DEF dispatch_mgmt_packet
    <2>2. /\ sn \in Nat /\ sn < snd.next /\ receiver_error(rcv, sn) = {}
          /\ process_packet_or_cancel(rcv, sn, FALSE) = rcv
          /\ disp = "AckCancelDoNotProcess" => sn \in refused
          /\ disp \notin {"Ignore", "AckCancelDoNotProcess"} => sn \in delivered
        BY <1>2, ReceiverCases
    <2> HIDE DEF disp, sn
    <2>3. NetSound(net', snd.next, delivered, refused)
        BY <1>0, <2>1, <2>2, AnswerSound DEF Taken
    <2> QED BY <1>0, <2>1, <2>2, <2>3 DEF IInv, history
<1>3. CASE ~full /\ should_process_packet(rcv, sn)
    <2>1. /\ rcv' = process_packet_or_cancel(rcv, sn, FALSE)
          /\ errors' = errors \cup receiver_error(rcv, sn)
          /\ queued' = queued + 1
          /\ delivered' = delivered \cup {sn}
          /\ redelivered' = redelivered \cup (delivered \cap {sn})
          /\ net' = Taken(m) \cup Answer(disp, sn)
          /\ queued # QueueSize
        BY <1>3 DEF dispatch_mgmt_packet
    <2>2. /\ sn \in Nat /\ sn < snd.next /\ receiver_error(rcv, sn) = {}
          /\ ~too_old(rcv, sn) /\ ~was_recvd(rcv, sn)
          /\ disp = "AckAndProcess"
        BY <1>3, ReceiverCases
    <2> HIDE DEF disp, sn, full
    <2>3. /\ Represents(rcv', delivered', refused) /\ rcv'.highest_seen < snd.next
          /\ Sound(snd, delivered', refused) /\ sn \notin delivered \cup refused
          /\ NetSound(net, snd.next, delivered', refused)
        BY <1>0, <2>1, <2>2, DecideStep
    <2>4. NetSound(net', snd.next, delivered', refused)
        BY <2>1, <2>2, <2>3, AnswerSound DEF Taken
    <2>5. queued' \in 0..QueueSize
        BY <2>1, ZdprAssumption DEF IInv
    <2>6. redelivered' = {}
        BY <2>1, <2>3 DEF IInv
    <2>7. IInv'
        BY <1>0, <2>1, <2>2, <2>3, <2>4, <2>5, <2>6 DEF IInv
    <2>8. sn \in 0..(snd.next - 1)
        BY <2>2 DEF IInv, Sound, IsSender
    <2> QED BY <1>0, <2>1, <2>3, <2>6, <2>7, <2>8 DEF IInv, sn
<1> QED BY <1>1, <1>2, <1>3

\* handle_cancel: the receiver gives a packet up only if it is undecided.
LEMMA CancelStep ==
    ASSUME Window < Bits, IInv, NEW m \in net, handle_cancel(m)
    PROVE  /\ IInv'
           /\ \/ UNCHANGED <<snd, history>>
              \/ /\ m.sn \in 0..(snd.next - 1) /\ m.sn \notin delivered \cup refused
                 /\ refused' = refused \cup {m.sn}
                 /\ UNCHANGED <<snd, delivered, redelivered, told_acked, told_canceled>>
<1> DEFINE sn == m.sn
           disp == disposition(rcv, sn, TRUE)
<1>1. /\ rcv' = process_packet_or_cancel(rcv, sn, TRUE)
      /\ net' = Taken(m) \cup Answer(disp, sn)
      /\ errors' = errors \cup receiver_error(rcv, sn)
      /\ refused' = IF disp = "AckCancelDoNotProcess" THEN refused \cup {sn} ELSE refused
      /\ UNCHANGED <<snd, queued, armed, permit, delivered, redelivered,
                     told_acked, told_canceled>>
      /\ NetSound(net, snd.next, delivered, refused)
    BY DEF handle_cancel, IInv
<1>2. CASE ~should_process_packet(rcv, sn)
    <2>2. /\ sn \in Nat /\ sn < snd.next /\ receiver_error(rcv, sn) = {}
          /\ process_packet_or_cancel(rcv, sn, TRUE) = rcv
          /\ disp = "AckCancelDoNotProcess" => sn \in refused
          /\ disp \notin {"Ignore", "AckCancelDoNotProcess"} => sn \in delivered
        BY <1>2, ReceiverCases
    <2> HIDE DEF disp, sn
    <2>3. NetSound(net', snd.next, delivered, refused)
        BY <1>1, <2>2, AnswerSound DEF Taken
    <2>4. refused' = refused
        BY <1>1, <2>2
    <2> QED BY <1>1, <2>2, <2>3, <2>4 DEF IInv, history
<1>3. CASE should_process_packet(rcv, sn)
    <2>2. /\ sn \in Nat /\ sn < snd.next /\ receiver_error(rcv, sn) = {}
          /\ ~too_old(rcv, sn) /\ ~was_recvd(rcv, sn)
          /\ disp = "AckCancelDoNotProcess"
        BY <1>3, ReceiverCases
    <2> HIDE DEF disp, sn
    <2>3. /\ Represents(rcv', delivered, refused') /\ rcv'.highest_seen < snd.next
          /\ Sound(snd, delivered, refused') /\ sn \notin delivered \cup refused
          /\ NetSound(net, snd.next, delivered, refused')
        BY <1>1, <2>2, DecideStep
    <2>4. NetSound(net', snd.next, delivered, refused')
        BY <1>1, <2>2, <2>3, AnswerSound DEF Taken
    <2>7. IInv'
        BY <1>1, <2>2, <2>3, <2>4 DEF IInv
    <2>8. sn \in 0..(snd.next - 1)
        BY <2>2 DEF IInv, Sound, IsSender
    <2> QED BY <1>1, <2>2, <2>3, <2>7, <2>8 DEF sn
<1> QED BY <1>2, <1>3

\* The management processor and the network change no decision.
LEMMA QuietSteps ==
    ASSUME IInv, ProcessNext \/ \E m \in net : Lose(m)
    PROVE  IInv' /\ UNCHANGED <<snd, history>>
<1>1. CASE ProcessNext
    <2>1. queued' \in 0..QueueSize
        BY <1>1, ZdprAssumption DEF ProcessNext, IInv
    <2> QED BY <1>1, <2>1 DEF ProcessNext, IInv, history
<1>2. CASE \E m \in net : Lose(m)
    <2>1. net' \subseteq net /\ UNCHANGED <<snd, rcv, queued, armed, permit, errors, history>>
        BY <1>2 DEF Lose
    <2>2. NetSound(net', snd.next, delivered, refused)
        BY <2>1 DEF IInv, NetSound
    <2> QED BY <2>1, <2>2 DEF IInv, history
<1> QED BY <1>1, <1>2

-----------------------------------------------------------------------------
\* Every step of the session keeps the inductive invariant.
LEMMA StepIInv ==
    ASSUME Window < Bits, IInv, [Next]_vars
    PROVE  IInv'
<1>1. CASE SendMgmt
    BY <1>1, SendMgmtStep
<1>2. CASE process_window_size_tlv
    BY <1>2, WindowSizeStep
<1>3. CASE \E id \in BlockedIds(snd) : CancelQueued(id)
    BY <1>3, CancelQueuedStep
<1>4. CASE \E sn \in SeqNums(snd) : RequestCancel(sn)
    BY <1>4, RequestCancelStep
<1>5. CASE LimitRetries
    BY <1>5, LimitRetriesStep
<1>6. CASE \E sn \in SeqNums(snd) : Forget(sn)
    BY <1>6, ForgetStep
<1>7. CASE RetryTick
    BY <1>7, RetryTickStep
<1>8. CASE RetryReset
    BY <1>8, RetryResetStep
<1>9. CASE \E m \in net : HandleAckOrCanceled(m)
    BY <1>9, AnswerStep
<1>10. CASE \E m \in net : dispatch_mgmt_packet(m)
    BY <1>10, DispatchStep
<1>11. CASE \E m \in net : handle_cancel(m)
    BY <1>11, CancelStep
<1>12. CASE ProcessNext \/ \E m \in net : Lose(m)
    BY <1>12, QuietSteps
<1>13. CASE UNCHANGED vars
    BY <1>13 DEF vars, session, history, IInv
<1> QED BY <1>1, <1>2, <1>3, <1>4, <1>5, <1>6, <1>7, <1>8, <1>9, <1>10,
           <1>11, <1>12, <1>13 DEF Next

(* The inductive invariant holds throughout every behaviour.               *)
THEOREM Invariance == ASSUME Window < Bits PROVE Spec => []IInv
<1>1. Init => IInv
    BY InitIInv
<1>2. IInv /\ [Next]_vars => IInv'
    BY StepIInv
<1> QED BY <1>1, <1>2, PTL DEF Spec

(* Type correctness.                                                       *)
THEOREM TypeCorrect == ASSUME Window < Bits PROVE Spec => []TypeOK
<1>1. IInv => TypeOK
    <2> SUFFICES ASSUME IInv PROVE TypeOK
        OBVIOUS
    <2>1. /\ snd.window_size \in {1, Window}
          /\ snd.base \in Nat /\ snd.next \in Nat /\ snd.base <= snd.next
          /\ DOMAIN snd.unacked = SeqNums(snd)
          /\ \A sn \in SeqNums(snd) : IsUnackedState(snd.unacked[sn])
          /\ snd.first_sent \in Nat /\ snd.first_blocked \in Nat /\ snd.next_id \in Nat
          /\ snd.first_sent <= snd.first_blocked /\ snd.first_blocked <= snd.next_id
        BY DEF IInv, Sound, IsSender
    <2>2. /\ rcv.highest_seen \in Nat \cup {-1}
          /\ rcv.recvd \subseteq Positions /\ rcv.canceled \subseteq Positions
        BY DEF IInv, Represents
    <2>3. \A m \in net : m.type \in MsgTypes /\ m.sn \in Nat
        BY DEF IInv, NetSound
    <2>4. errors \subseteq ProtocolErrors
        BY DEF IInv, ProtocolErrors
    <2> QED BY <2>1, <2>2, <2>3, <2>4 DEF IInv, TypeOK
<1> QED BY <1>1, Invariance, PTL

(* Each packet is delivered at most once and never after its cancellation  *)
(* was acknowledged.                                                       *)
THEOREM DeliveredAtMostOnce == ASSUME Window < Bits PROVE Spec => []AtMostOnce
<1>1. IInv => AtMostOnce
    BY DEF IInv, Represents, AtMostOnce
<1> QED BY <1>1, Invariance, PTL

(* What the sender reports to its callers is what happened at the peer.    *)
THEOREM TrueReports == ASSUME Window < Bits PROVE Spec => []ReportsAreTrue
<1>1. IInv => ReportsAreTrue
    BY DEF IInv, Sound, ReportsAreTrue
<1> QED BY <1>1, Invariance, PTL

(* The window never slides past a packet the peer has not decided.         *)
THEOREM WindowIsSafe == ASSUME Window < Bits PROVE Spec => []WindowCoversUndecided
<1>1. IInv => WindowCoversUndecided
    BY DEF IInv, Sound, WindowCoversUndecided
<1> QED BY <1>1, Invariance, PTL

(* The receiver accepts every packet that is still outstanding.            *)
THEOREM Acceptable == ASSUME Window < Bits PROVE Spec => []OutstandingIsAcceptable
<1>1. IInv => OutstandingIsAcceptable
    <2> SUFFICES ASSUME IInv, NEW sn \in SeqNums(snd)
                 PROVE  ~too_old(rcv, sn) /\ ~too_new(rcv, sn)
        BY DEF OutstandingIsAcceptable
    <2>1. sn \in Nat /\ sn < snd.next
        BY DEF IInv, Sound, IsSender, SeqNums
    <2> QED BY <2>1, NotTooNew, NotTooOld DEF IInv
<1> QED BY <1>1, Invariance, PTL

(* Neither peer ever counts a packet beyond the window or an answer to a   *)
(* packet that was not sent.                                               *)
THEOREM NoErrors == ASSUME Window < Bits PROVE Spec => []NoWindowErrors
<1>1. IInv => NoWindowErrors
    BY DEF IInv, NoWindowErrors
<1> QED BY <1>1, Invariance, PTL

-----------------------------------------------------------------------------
(* The retry worker never sleeps with packets outstanding.                 *)
LEMMA RetryStep ==
    ASSUME IInv, RetryIsScheduled, [Next]_vars
    PROVE  RetryIsScheduled'
<1>0. Sound(snd, delivered, refused)
    BY DEF IInv
<1>1. CASE SendMgmt
    <2>1. CASE sends_at_once(snd)
        BY <1>1, <2>1 DEF SendMgmt, RetryIsScheduled
    <2>2. CASE ~sends_at_once(snd)
        <3>1. snd'.unacked = snd.unacked /\ SeqNums(snd') = SeqNums(snd)
            BY <1>0, <1>1, <2>2 DEF SendMgmt, enqueue_packet, SeqNums, Sound, IsSender
        <3> QED BY <1>1, <3>1 DEF SendMgmt, RetryIsScheduled, retry_needed
    <2> QED BY <2>1, <2>2
<1>2. CASE process_window_size_tlv
    <2>1. snd'.unacked = snd.unacked /\ SeqNums(snd') = SeqNums(snd)
        BY <1>0, <1>2 DEF process_window_size_tlv, adjust_window_size, SeqNums,
                          Sound, IsSender
    <2> QED BY <1>2, <2>1 DEF process_window_size_tlv, RetryIsScheduled, retry_needed
<1>3. CASE \E id \in BlockedIds(snd) : CancelQueued(id)
    <2>1. snd'.unacked = snd.unacked /\ snd'.base = snd.base /\ snd'.next = snd.next
        BY <1>0, <1>3, CancelQueuedSound DEF CancelQueued
    <2> QED BY <1>3, <2>1 DEF CancelQueued, RetryIsScheduled, retry_needed, SeqNums
<1>4. CASE \E sn \in SeqNums(snd) : RequestCancel(sn)
    <2>1. Harmless(snd, snd', delivered, refused)
        BY <1>0, <1>4, CancelSentHarmless DEF RequestCancel
    <2> QED BY <1>4, <2>1 DEF RequestCancel, Harmless, RetryIsScheduled
<1>5. CASE LimitRetries
    <2>1. \E limit, x : \/ snd' = limit_retries_by_seq_num(snd, x, limit)
                        \/ snd' = limit_retries_by_id(snd, x, limit)
        BY <1>5 DEF LimitRetries
    <2>2. Harmless(snd, snd', delivered, refused)
        BY <1>0, <2>1, LimitHarmless
    <2> QED BY <1>5, <2>2 DEF LimitRetries, Harmless, RetryIsScheduled
<1>6. CASE \E sn \in SeqNums(snd) : Forget(sn)
    <2>1. Harmless(snd, snd', delivered, refused)
        BY <1>0, <1>6, ForgetHarmless DEF Forget
    <2> QED BY <1>6, <2>1 DEF Forget, Harmless, RetryIsScheduled
<1>7. CASE RetryTick
    BY <1>7 DEF RetryTick, RetryIsScheduled
<1>8. CASE RetryReset
    BY <1>8 DEF RetryReset, RetryIsScheduled, session
<1>9. CASE \E m \in net : HandleAckOrCanceled(m)
    <2>1. PICK m \in net : HandleAckOrCanceled(m)
        BY <1>9
    <2>2. PICK s : /\ s = IF m.type = "Canceled" THEN process_canceled(snd, m.sn)
                                                 ELSE process_ack(snd, m.sn)
                   /\ permit' = (permit \/ (~retry_needed(s) /\ retry_needed(snd')))
        BY <2>1 DEF HandleAckOrCanceled
    <2>3. IF m.type = "Canceled" THEN m.sn \in refused ELSE m.sn \in delivered
        BY <2>1 DEF HandleAckOrCanceled, IInv, NetSound
    <2>4. retry_needed(s) => retry_needed(snd)
        BY <1>0, <2>2, <2>3, AnswerHarmless DEF Harmless
    <2> QED BY <2>1, <2>2, <2>4 DEF HandleAckOrCanceled, RetryIsScheduled
<1>10. CASE \/ \E m \in net : dispatch_mgmt_packet(m) \/ handle_cancel(m) \/ Lose(m)
            \/ ProcessNext \/ UNCHANGED vars
    BY <1>10 DEF dispatch_mgmt_packet, handle_cancel, Lose, ProcessNext, vars, session,
                 RetryIsScheduled
<1> QED BY <1>1, <1>2, <1>3, <1>4, <1>5, <1>6, <1>7, <1>8, <1>9, <1>10 DEF Next

(* Whenever a packet is outstanding, the retry worker's timer runs or a    *)
(* notification that will start it is pending.                             *)
THEOREM RetryScheduled == ASSUME Window < Bits PROVE Spec => []RetryIsScheduled
<1>1. Init => RetryIsScheduled
    BY DEF Init, RetryIsScheduled, retry_needed, new_sender, SeqNums
<1>2. IInv /\ RetryIsScheduled /\ [Next]_vars => RetryIsScheduled'
    BY RetryStep
<1> QED BY <1>1, <1>2, Invariance, PTL DEF Spec

-----------------------------------------------------------------------------
(* The refinement.                                                         *)

\* A step that sends packets, or none, and decides and reports nothing.
LEMMA SendingStep ==
    ASSUME IInv, snd'.next \in Nat, snd'.next >= snd.next, UNCHANGED history
    PROVE  [Service!SNext]_(Service!svars)
<1>0. snd.next \in Nat
    BY DEF IInv, Sound, IsSender
<1>1. CASE snd'.next = snd.next
    BY <1>1 DEF Service!svars, history
<1>2. CASE snd'.next > snd.next
    <2>1. Service!SSend
        BY <1>2 DEF Service!SSend, history
    <2> QED BY <2>1 DEF Service!SNext
<1> QED BY <1>0, <1>1, <1>2

\* Every step of the session is a step of ZdprService, or a stutter.
LEMMA ServiceStep ==
    ASSUME Window < Bits, IInv, IInv', [Next]_vars
    PROVE  [Service!SNext]_(Service!svars)
<1>0. /\ Sound(snd, delivered, refused)
      /\ snd.next \in Nat /\ snd'.next \in Nat
    BY DEF IInv, Sound, IsSender
<1>1. CASE SendMgmt
    <2>1. snd'.next >= snd.next
        BY <1>0, <1>1, EnqueueSound DEF SendMgmt
    <2> QED BY <1>0, <1>1, <2>1, SendingStep DEF SendMgmt
<1>2. CASE process_window_size_tlv
    <2>1. snd'.next = snd.next
        BY <1>0, <1>2 DEF process_window_size_tlv, adjust_window_size, Sound, IsSender
    <2> QED BY <1>0, <1>2, <2>1, SendingStep DEF process_window_size_tlv
<1>3. CASE \E id \in BlockedIds(snd) : CancelQueued(id)
    <2>1. snd'.next = snd.next
        BY <1>0, <1>3, CancelQueuedSound DEF CancelQueued
    <2> QED BY <1>0, <1>3, <2>1, SendingStep DEF CancelQueued
<1>4. CASE \E sn \in SeqNums(snd) : RequestCancel(sn)
    <2>1. snd'.next = snd.next
        BY <1>0, <1>4, CancelSentHarmless DEF RequestCancel, Harmless
    <2> QED BY <1>0, <1>4, <2>1, SendingStep DEF RequestCancel
<1>5. CASE LimitRetries
    <2>1. \E limit, x : \/ snd' = limit_retries_by_seq_num(snd, x, limit)
                        \/ snd' = limit_retries_by_id(snd, x, limit)
        BY <1>5 DEF LimitRetries
    <2>2. snd'.next = snd.next
        BY <1>0, <2>1, LimitHarmless DEF Harmless
    <2> QED BY <1>0, <1>5, <2>2, SendingStep DEF LimitRetries
<1>6. CASE \E sn \in SeqNums(snd) : Forget(sn)
    <2>1. snd'.next = snd.next
        BY <1>0, <1>6, ForgetHarmless DEF Forget, Harmless
    <2> QED BY <1>0, <1>6, <2>1, SendingStep DEF Forget
<1>7. CASE RetryTick
    <2>1. snd'.next = snd.next
        BY <1>0, <1>7 DEF RetryTick, age_retries, Sound, IsSender
    <2> QED BY <1>0, <1>7, <2>1, SendingStep DEF RetryTick
<1>8. CASE RetryReset
    BY <1>0, <1>8, SendingStep DEF RetryReset, session
<1>9. CASE \E m \in net : HandleAckOrCanceled(m)
    <2>1. PICK m \in net : HandleAckOrCanceled(m)
        BY <1>9
    <2>2. /\ snd'.next \in Nat /\ snd'.next >= snd.next
          /\ m.sn \in 0..(snd.next - 1)
          /\ m.type = "Canceled" => told_acked' = told_acked /\ m.sn \in refused
          /\ m.type # "Canceled" => told_canceled' = told_canceled /\ m.sn \in delivered
        BY <2>1, AnswerStep
    <2>3. UNCHANGED <<delivered, redelivered, refused>>
        BY <2>1 DEF HandleAckOrCanceled
    <2>4. /\ told_acked' = told_acked \/ told_acked' = told_acked \cup {m.sn}
          /\ told_canceled' = told_canceled \/ told_canceled' = told_canceled \cup {m.sn}
        BY <2>1 DEF HandleAckOrCanceled
    <2>5. CASE UNCHANGED <<told_acked, told_canceled>>
        BY <2>2, <2>3, <2>5, SendingStep DEF history
    <2>6. CASE ~UNCHANGED <<told_acked, told_canceled>>
        <3>1. Service!SLearn(m.sn)
            BY <2>2, <2>3, <2>4, <2>6 DEF Service!SLearn
        <3> QED BY <2>2, <3>1 DEF Service!SNext
    <2> QED BY <2>5, <2>6
<1>10. CASE \E m \in net : dispatch_mgmt_packet(m)
    <2>1. PICK m \in net :
             \/ UNCHANGED <<snd, history>>
             \/ /\ m.sn \in 0..(snd.next - 1) /\ m.sn \notin delivered \cup refused
                /\ delivered' = delivered \cup {m.sn}
                /\ UNCHANGED <<snd, redelivered, refused, told_acked, told_canceled>>
        BY <1>10, DispatchStep
    <2>2. CASE UNCHANGED <<snd, history>>
        BY <1>0, <2>2, SendingStep
    <2>3. CASE ~UNCHANGED <<snd, history>>
        <3>1. Service!SDeliver(m.sn)
            BY <2>1, <2>3 DEF Service!SDeliver, Service!SUndecided
        <3> QED BY <2>1, <2>3, <3>1 DEF Service!SNext
    <2> QED BY <2>2, <2>3
<1>11. CASE \E m \in net : handle_cancel(m)
    <2>1. PICK m \in net :
             \/ UNCHANGED <<snd, history>>
             \/ /\ m.sn \in 0..(snd.next - 1) /\ m.sn \notin delivered \cup refused
                /\ refused' = refused \cup {m.sn}
                /\ UNCHANGED <<snd, delivered, redelivered, told_acked, told_canceled>>
        BY <1>11, CancelStep
    <2>2. CASE UNCHANGED <<snd, history>>
        BY <1>0, <2>2, SendingStep
    <2>3. CASE ~UNCHANGED <<snd, history>>
        <3>1. Service!SRefuse(m.sn)
            BY <2>1, <2>3 DEF Service!SRefuse, Service!SUndecided
        <3> QED BY <2>1, <2>3, <3>1 DEF Service!SNext
    <2> QED BY <2>2, <2>3
<1>12. CASE ProcessNext \/ (\E m \in net : Lose(m)) \/ UNCHANGED vars
    <2>1. UNCHANGED <<snd, history>>
        BY <1>12 DEF ProcessNext, Lose, vars, session
    <2> QED BY <1>0, <2>1, SendingStep
<1> QED BY <1>1, <1>2, <1>3, <1>4, <1>5, <1>6, <1>7, <1>8, <1>9, <1>10,
           <1>11, <1>12 DEF Next

(* The session with its windows, retries, cancels and lossy network        *)
(* implements the delivery service of module ZdprService.                  *)
THEOREM Refinement == ASSUME Window < Bits PROVE Spec => ServiceSpec
<1>1. Init => Service!SInit
    BY DEF Init, new_sender, Service!SInit
<1>2. IInv /\ IInv' /\ [Next]_vars => [Service!SNext]_(Service!svars)
    BY ServiceStep
<1> QED BY <1>1, <1>2, Invariance, PTL DEF Spec, ServiceSpec, Service!SSpec

=============================================================================
