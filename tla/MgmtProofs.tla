----------------------------- MODULE MgmtProofs -----------------------------
(***************************************************************************)
(* What a management connection keeps on the sending side: the futures of  *)
(* mgmt/core.rs over the sender of zdpr.rs, for every set of futures,      *)
(* window and retry limit, and the transaction manager of mgmt/txn_mgr.rs, *)
(* for every number of ids, tasks and handles.                             *)
(***************************************************************************)
EXTENDS MgmtSend, TxnMgr, FiniteSetTheorems, WellFoundedInduction, TLAPS

-----------------------------------------------------------------------------
(* The sender.                                                             *)

IsBlockedState(b) ==
    /\ b = [st |-> b.st, limit |-> b.limit, waker |-> b.waker]
    /\ b.st \in {"Blocked", "Canceled"} /\ b.waker \in BOOLEAN

SentIds(s) == s.first_sent..(s.first_blocked - 1)

\* The counters are in order, and each deque has an entry for each of its
\* numbers.
Counters(s) ==
    /\ DOMAIN s = {"window_size", "base", "next", "unacked", "first_sent",
                   "first_blocked", "next_id", "sent", "blocked"}
    /\ s.window_size \in Nat
    /\ s.base \in Nat /\ s.next \in Nat /\ s.base <= s.next
    /\ s.first_sent \in Nat /\ s.first_blocked \in Nat /\ s.next_id \in Nat
    /\ s.first_sent <= s.first_blocked /\ s.first_blocked <= s.next_id

Deques(s) ==
    /\ s.unacked = [sn \in SeqNums(s) |-> s.unacked[sn]]
    /\ \A sn \in SeqNums(s) : IsUnackedState(s.unacked[sn])
    /\ s.blocked = [id \in BlockedIds(s) |-> s.blocked[id]]
    /\ \A id \in BlockedIds(s) : IsBlockedState(s.blocked[id])
    /\ s.sent = [id \in SentIds(s) |-> s.sent[id]]
    /\ \A id \in SentIds(s) : s.sent[id] \in (0..(s.next - 1)) \cup {NoSeq}

\* What has left the window or is marked as answered was decided by the peer,
\* which took the packets del and refused the packets ref.
Decided(s, del, ref) ==
    /\ \A sn \in 0..(s.base - 1) : sn \in del \cup ref
    /\ \A sn \in SeqNums(s) :
         /\ ~Outstanding(s.unacked[sn]) => sn \in del \cup ref
         /\ s.unacked[sn].st = "CancelAcked" => sn \in ref

SenderOK(s, del, ref) == Counters(s) /\ Deques(s) /\ Decided(s, del, ref)

-----------------------------------------------------------------------------
(* A future g.                                                             *)

IsLive(g) == g.kind \in {"Sent", "Acked", "AckedOrCanceled"}

PacketIds == ({"Queued", "Sent"} \X Nat) \cup {IdAcked, IdCanceled}

FutureType == [kind : Kinds, packet_id : PacketIds, parked : BOOLEAN, out : Outcomes,
               id : Nat \cup {NoSeq}, sn : Nat \cup {NoSeq}]

\* What it has resolved to, or will, and why.
Results(g, del, ref) ==
    /\ g.out = "Acked" => g.sn \in del \cup ref
    /\ g.out = "Canceled" =>
         g.sn \in ref \/ (g.sn = NoSeq /\ (IsLive(g) => g.packet_id = IdCanceled))
    /\ g.out = "Packet" => g.sn = NoSeq /\ ~IsLive(g)
    /\ IsLive(g) /\ g.packet_id = IdAcked => g.sn \in del \cup ref
    /\ IsLive(g) /\ g.packet_id = IdCanceled => g.sn = NoSeq /\ g.kind = "AckedOrCanceled"
    /\ ~IsLive(g) => g.id = NoSeq

\* Where its packet is, which was queued under its id: in `blocked`, in `sent`
\* under the sequence number that it has, or out of both.
Place(g, s, del, ref) ==
    /\ g.id < s.next_id
    /\ g.id >= s.first_blocked => /\ g.sn = NoSeq
                                  /\ g.id \in Waiting(s) <=> g.packet_id # IdCanceled
    /\ g.id < s.first_blocked =>
         /\ g.sn = NoSeq <=> g.packet_id = IdCanceled
         /\ g.id >= s.first_sent => g.sn = s.sent[g.id]
         /\ g.id < s.first_sent => g.sn = NoSeq \/ g.sn \in del \cup ref

\* What it knows of its packet is so.
Knows(g, s) ==
    /\ g.packet_id[1] = "Sent" => g.packet_id[2] = g.sn /\ g.sn \in 0..(s.next - 1)
    /\ g.packet_id[1] = "Queued" => g.packet_id[2] = g.id /\ g.id # NoSeq

Waker(s, id, sn) ==
    \/ id \in Waiting(s) /\ s.blocked[id].waker
    \/ sn \in SeqNums(s) /\ Outstanding(s.unacked[sn]) /\ s.unacked[sn].waker

FutureOK(g, s, lnk, del, ref) ==
    /\ g \in FutureType
    /\ Results(g, del, ref)
    /\ lnk /\ IsLive(g) => (g.id # NoSeq => Place(g, s, del, ref)) /\ Knows(g, s)
    /\ g.parked => lnk /\ IsLive(g) /\ Waker(s, g.id, g.sn)

Peer ==
    /\ delivered \subseteq Nat /\ refused \subseteq Nat /\ delivered \cap refused = {}
    /\ link \in BOOLEAN
    /\ ~link => snd = new_sender

Unshared == \A f, h \in Futures : f # h /\ fut[f].id # NoSeq => fut[f].id # fut[h].id

\* The inductive invariant.
SendInv ==
    /\ SenderOK(snd, delivered, refused)
    /\ Peer
    /\ fut = [f \in Futures |-> fut[f]]
    /\ \A f \in Futures : FutureOK(fut[f], snd, link, delivered, refused)
    /\ Unshared
    /\ PollsNeverPanic
-----------------------------------------------------------------------------
(* What the operations of the sender do for those who have sent packets.   *)

\* From s to t the packets C were canceled in `blocked`.  Others that wait go on
\* waiting, with their wakers, or are sent; what was sent stays where it is until
\* it is decided; and what is unanswered has been so, and keeps its waker.
Keeps(s, t, C, del, ref) ==
    /\ SenderOK(t, del, ref)
    /\ t.next >= s.next /\ t.next_id >= s.next_id
    /\ t.first_blocked >= s.first_blocked /\ t.first_sent >= s.first_sent
    /\ \A id \in Waiting(s) \ C :
         \/ id \in Waiting(t) /\ (s.blocked[id].waker => t.blocked[id].waker)
         \/ id \in SentIds(t) /\ t.sent[id] # NoSeq
    /\ \A id \in BlockedIds(s) \ (Waiting(s) \ C) :
         \/ id \in BlockedIds(t) \ Waiting(t)
         \/ id \in SentIds(t) /\ t.sent[id] = NoSeq
    /\ \A id \in SentIds(s) :
         \/ id \in SentIds(t) /\ t.sent[id] = s.sent[id]
         \/ id < t.first_sent /\ s.sent[id] \in del \cup ref \cup {NoSeq}
    /\ \A sn \in SeqNums(t) : sn < s.next /\ Outstanding(t.unacked[sn]) =>
         /\ sn \in SeqNums(s) /\ Outstanding(s.unacked[sn])
         /\ s.unacked[sn].waker => t.unacked[sn].waker

\* A non-empty set of naturals has a least element: where a scan stops.
LEMMA LeastNat ==
    ASSUME NEW T, T \subseteq Nat, T # {}
    PROVE  \E k \in T : \A m \in T : k <= m
<1>1. PICK k \in T : \A m \in T : ~(<<m, k>> \in OpToRel(<, Nat))
  BY NatLessThanWellFounded, WFMin
<1>2. \A m \in T : ~(m < k)
  BY <1>1 DEF OpToRel
<1> QED BY <1>2

\* The loops of the sender that pop the front of a deque stop where First says.
LEMMA FirstExists ==
    ASSUME NEW lo \in Int, NEW hi \in Int, lo <= hi, NEW S
    PROVE  /\ First(lo, hi, S) \in lo..hi
           /\ First(lo, hi, S) = hi \/ First(lo, hi, S) \in S
           /\ \A j \in lo..(First(lo, hi, S) - 1) : j \notin S
<1> DEFINE T == {k \in Nat : lo + k <= hi /\ (lo + k = hi \/ lo + k \in S)}
<1>1. hi - lo \in T
  OBVIOUS
<1>2. PICK k \in T : \A m \in T : k <= m
  BY <1>1, LeastNat
<1>3. \A j \in lo..(lo + k - 1) : j \notin S
  <2> SUFFICES ASSUME NEW j \in lo..(lo + k - 1), j \in S PROVE FALSE
    OBVIOUS
  <2>1. j - lo \in T
    OBVIOUS
  <2> QED BY <2>1, <1>2
<1>4. lo + k \in lo..hi /\ (lo + k = hi \/ lo + k \in S)
  OBVIOUS
<1>5. \E i \in lo..hi : (i = hi \/ i \in S) /\ \A j \in lo..(i - 1) : j \notin S
  BY <1>3, <1>4
<1> QED BY <1>5 DEF First

\* The entries that packets begin and end with.
LEMMA NewEntries ==
    ASSUME NEW limit
    PROVE  /\ IsUnackedState(Unacked(limit)) /\ Outstanding(Unacked(limit))
           /\ Unacked(limit).st = "Unacked"
           /\ IsUnackedState(Acked) /\ Acked.st = "Acked" /\ ~Outstanding(Acked)
           /\ IsUnackedState(CancelAcked) /\ CancelAcked.st = "CancelAcked"
           /\ ~Outstanding(CancelAcked)
           /\ IsBlockedState(Blocked) /\ Blocked.st = "Blocked"
           /\ IsBlockedState(Canceled) /\ Canceled.st = "Canceled"
<1>1. IsUnackedState(Unacked(limit)) /\ Outstanding(Unacked(limit)) /\ Unacked(limit).st = "Unacked"
  BY RetryMaxAssumption DEF IsUnackedState, UnackedStates, Unacked, Entry, Outstanding
<1>2. IsUnackedState(Acked) /\ Acked.st = "Acked" /\ ~Outstanding(Acked)
  BY RetryMaxAssumption DEF IsUnackedState, UnackedStates, Acked, Entry, Outstanding
<1>3. IsUnackedState(CancelAcked) /\ CancelAcked.st = "CancelAcked" /\ ~Outstanding(CancelAcked)
  BY RetryMaxAssumption DEF IsUnackedState, UnackedStates, CancelAcked, Entry, Outstanding
<1>4. /\ IsBlockedState(Blocked) /\ Blocked.st = "Blocked"
      /\ IsBlockedState(Canceled) /\ Canceled.st = "Canceled"
  <2>1. IsBlockedState(Blocked) /\ Blocked.st = "Blocked"
    BY DEF Blocked, IsBlockedState
  <2>2. ASSUME NEW b, IsBlockedState(b), NEW c, c = [b EXCEPT !.st = "Canceled"]
        PROVE  IsBlockedState(c) /\ c.st = "Canceled"
    BY <2>2 DEF IsBlockedState
  <2> QED BY <2>1, <2>2 DEF Canceled
<1> QED BY <1>1, <1>2, <1>3, <1>4

\* An entry e of the window that becomes f without an answer.
Alike(e, f) ==
    /\ IsUnackedState(f)
    /\ Outstanding(f) <=> Outstanding(e)
    /\ f.st = "CancelAcked" => e.st = "CancelAcked"
    /\ Outstanding(e) /\ e.waker => f.waker

\* None but an answer changes whether an entry is outstanding, and its waker stays
\* as long as it is.
LEMMA EntryKept ==
    ASSUME NEW e, IsUnackedState(e), NEW limit
    PROVE  /\ Alike(e, cancel(e)) /\ Alike(e, limit_retries(e, limit)) /\ Alike(e, age(e))
           /\ Alike(e, forget(e)) /\ Alike(e, [e EXCEPT !.waker = TRUE])
<1> USE RetryMaxAssumption DEF Alike, IsUnackedState, UnackedStates, Outstanding
<1>1. Alike(e, cancel(e))
  BY DEF cancel, CancelRequested, Entry
<1>2. Alike(e, limit_retries(e, limit))
  BY DEF limit_retries
<1>3. Alike(e, age(e))
  <2>1. CASE e.st = "Unacked" /\ e.limit # NoLimit /\ e.count >= e.limit
    BY <2>1 DEF age, CancelRequested, Entry
  <2>2. CASE e.st # "Unacked"
    BY <2>2 DEF age
  <2>3. CASE e.st = "Unacked" /\ ~(e.limit # NoLimit /\ e.count >= e.limit)
    <3>1. age(e) = [e EXCEPT !.count = Lower(e.count + 1, RetryMax)]
      BY <2>3 DEF age
    <3>2. Lower(e.count + 1, RetryMax) \in 0..RetryMax
      BY DEF Lower
    <3> QED BY <2>3, <3>1, <3>2
  <2> QED BY <2>1, <2>2, <2>3
<1>4. Alike(e, forget(e))
  <2>1. CASE e.st \in {"Unacked", "CancelRequested"}
    BY <2>1 DEF forget
  <2>2. CASE e.st = "CancelAcked"
    <3>1. forget(e) = Acked
      BY <2>2 DEF forget
    <3> QED BY <2>2, <3>1, NewEntries
  <2>3. CASE e.st = "Acked"
    BY <2>3 DEF forget
  <2> QED BY <2>1, <2>2, <2>3
<1>5. Alike(e, [e EXCEPT !.waker = TRUE])
  <2>1. ASSUME NEW w \in BOOLEAN, e.waker => w PROVE Alike(e, [e EXCEPT !.waker = w])
    BY <2>1
  <2> QED BY <2>1
<1> QED BY <1>1, <1>2, <1>3, <1>4, <1>5

\* A sender that stays as it is.
LEMMA SameKeeps ==
    ASSUME NEW s, NEW del, NEW ref, SenderOK(s, del, ref)
    PROVE  Keeps(s, s, {}, del, ref)
BY DEF Keeps, SenderOK, Counters, SentIds, Waiting

\* A sender of which only the entries of the window change.
LEMMA EntriesKeep ==
    ASSUME NEW s, NEW del, NEW ref, SenderOK(s, del, ref), NEW u,
           u = [sn \in SeqNums(s) |-> u[sn]],
           \A sn \in SeqNums(s) : Alike(s.unacked[sn], u[sn])
    PROVE  Keeps(s, [s EXCEPT !.unacked = u], {}, del, ref)
<1> DEFINE t == [s EXCEPT !.unacked = u]
<1>1. /\ DOMAIN t = DOMAIN s /\ t.window_size = s.window_size
      /\ t.base = s.base /\ t.next = s.next /\ t.unacked = u
      /\ t.first_sent = s.first_sent /\ t.first_blocked = s.first_blocked
      /\ t.next_id = s.next_id /\ t.sent = s.sent /\ t.blocked = s.blocked
  BY DEF SenderOK, Counters
<1> HIDE DEF t
<1>2. /\ SeqNums(t) = SeqNums(s) /\ BlockedIds(t) = BlockedIds(s) /\ Waiting(t) = Waiting(s)
      /\ SentIds(t) = SentIds(s)
  BY <1>1 DEF SeqNums, BlockedIds, Waiting, SentIds
<1>3. SenderOK(t, del, ref)
  <2>1. Counters(t)
    BY <1>1 DEF SenderOK, Counters
  <2>2. Deques(t)
    BY <1>1, <1>2 DEF SenderOK, Deques, Alike
  <2>3. Decided(t, del, ref)
    BY <1>1, <1>2 DEF SenderOK, Decided, Alike
  <2> QED BY <2>1, <2>2, <2>3 DEF SenderOK
<1> QED BY <1>1, <1>2, <1>3, SameKeeps DEF Keeps, Alike, t

\* A sender of which only `blocked` changes, and nothing in it is canceled.
LEMMA BlockedKeep ==
    ASSUME NEW s, NEW del, NEW ref, SenderOK(s, del, ref), NEW b,
           b = [id \in BlockedIds(s) |-> b[id]],
           \A id \in BlockedIds(s) :
             /\ IsBlockedState(b[id]) /\ b[id].st = s.blocked[id].st
             /\ s.blocked[id].waker => b[id].waker
    PROVE  Keeps(s, [s EXCEPT !.blocked = b], {}, del, ref)
<1> DEFINE t == [s EXCEPT !.blocked = b]
<1>1. /\ DOMAIN t = DOMAIN s /\ t.window_size = s.window_size
      /\ t.base = s.base /\ t.next = s.next /\ t.unacked = s.unacked
      /\ t.first_sent = s.first_sent /\ t.first_blocked = s.first_blocked
      /\ t.next_id = s.next_id /\ t.sent = s.sent /\ t.blocked = b
  BY DEF SenderOK, Counters
<1> HIDE DEF t
<1>2. /\ SeqNums(t) = SeqNums(s) /\ BlockedIds(t) = BlockedIds(s)
      /\ SentIds(t) = SentIds(s)
  BY <1>1 DEF SeqNums, BlockedIds, SentIds
<1>3. Waiting(t) = Waiting(s)
  BY <1>1, <1>2 DEF Waiting
<1>4. SenderOK(t, del, ref)
  <2>1. Counters(t)
    BY <1>1 DEF SenderOK, Counters
  <2>2. Deques(t)
    BY <1>1, <1>2 DEF SenderOK, Deques
  <2>3. Decided(t, del, ref)
    BY <1>1, <1>2 DEF SenderOK, Decided
  <2> QED BY <2>1, <2>2, <2>3 DEF SenderOK
<1>5. \A id \in Waiting(s) : id \in BlockedIds(s)
  BY DEF Waiting
<1> QED BY <1>1, <1>2, <1>3, <1>4, <1>5, SameKeeps DEF Keeps, t

\* enqueue_packet: the packet is sent at once or waits under the next id.
LEMMA EnqueueKeeps ==
    ASSUME NEW s, NEW del, NEW ref, SenderOK(s, del, ref)
    PROVE  /\ Keeps(s, enqueue_packet(s), {}, del, ref)
           /\ sends_at_once(s) => enqueue_packet(s).next = s.next + 1
           /\ ~sends_at_once(s) => /\ enqueue_packet(s).next_id = s.next_id + 1
                                   /\ enqueue_packet(s).first_blocked = s.first_blocked
                                   /\ s.next_id \in Waiting(enqueue_packet(s))
<1> DEFINE t == enqueue_packet(s)
<1>0. Counters(s) /\ Deques(s) /\ Decided(s, del, ref)
  BY DEF SenderOK
<1>1. CASE sends_at_once(s)
  <2> DEFINE u == [sn \in s.base..s.next |->
                     IF sn = s.next THEN Unacked(NoLimit) ELSE s.unacked[sn]]
  <2>1. /\ DOMAIN t = DOMAIN s /\ t.window_size = s.window_size
        /\ t.base = s.base /\ t.next = s.next + 1 /\ t.unacked = u
        /\ t.first_sent = s.first_sent /\ t.first_blocked = s.first_blocked
        /\ t.next_id = s.next_id /\ t.sent = s.sent /\ t.blocked = s.blocked
    BY <1>0, <1>1 DEF enqueue_packet, Counters
  <2>2. SeqNums(t) = s.base..s.next
    BY <1>0, <2>1 DEF SeqNums, Counters
  <2>3. \A sn \in s.base..s.next :
          \/ u[sn] = Unacked(NoLimit) /\ sn = s.next
          \/ u[sn] = s.unacked[sn] /\ sn \in SeqNums(s)
    BY <1>0 DEF SeqNums, Counters
  <2>4. u = [sn \in s.base..s.next |-> u[sn]]
    OBVIOUS
  <2> HIDE DEF t, u
  <2>5. /\ BlockedIds(t) = BlockedIds(s) /\ Waiting(t) = Waiting(s)
        /\ SentIds(t) = SentIds(s)
    BY <2>1 DEF BlockedIds, Waiting, SentIds
  <2>6. Counters(t)
    BY <1>0, <2>1 DEF Counters
  <2>7. Deques(t)
    <3>1. \A sn \in SeqNums(t) : IsUnackedState(t.unacked[sn])
      BY <1>0, <2>1, <2>2, <2>3, NewEntries DEF Deques
    <3>2. \A id \in SentIds(t) : t.sent[id] \in (0..(t.next - 1)) \cup {NoSeq}
      <4>1. 0..(s.next - 1) \subseteq 0..(t.next - 1)
        BY <1>0, <2>1 DEF Counters
      <4> QED BY <1>0, <2>1, <2>5, <4>1 DEF Deques
    <3> QED BY <1>0, <2>1, <2>2, <2>4, <2>5, <3>1, <3>2 DEF Deques
  <2>8. Decided(t, del, ref)
    BY <1>0, <2>1, <2>2, <2>3, NewEntries DEF Decided
  <2>9. \A sn \in SeqNums(t) : sn < s.next => sn \in SeqNums(s) /\ t.unacked[sn] = s.unacked[sn]
    BY <1>0, <2>1, <2>2, <2>3 DEF Counters
  <2>10. SenderOK(t, del, ref) /\ t.next >= s.next
    BY <1>0, <2>1, <2>6, <2>7, <2>8 DEF SenderOK, Counters
  <2>11. Keeps(s, t, {}, del, ref)
    BY <2>1, <2>5, <2>9, <2>10, SameKeeps DEF Keeps
  <2> QED BY <1>1, <2>1, <2>11 DEF t
<1>2. CASE ~sends_at_once(s)
  <2> DEFINE b == [id \in s.first_blocked..s.next_id |->
                     IF id = s.next_id THEN Blocked ELSE s.blocked[id]]
  <2>1. /\ DOMAIN t = DOMAIN s /\ t.window_size = s.window_size
        /\ t.base = s.base /\ t.next = s.next /\ t.unacked = s.unacked
        /\ t.first_sent = s.first_sent /\ t.first_blocked = s.first_blocked
        /\ t.next_id = s.next_id + 1 /\ t.sent = s.sent /\ t.blocked = b
    BY <1>0, <1>2 DEF enqueue_packet, Counters
  <2> HIDE DEF t
  <2>2. BlockedIds(t) = s.first_blocked..s.next_id
    BY <1>0, <2>1 DEF BlockedIds, Counters
  <2>3. /\ \A id \in BlockedIds(s) : id \in BlockedIds(t) /\ b[id] = s.blocked[id]
        /\ \A id \in BlockedIds(t) : id \in BlockedIds(s) \/ id = s.next_id
        /\ s.next_id \in BlockedIds(t) \ BlockedIds(s) /\ b[s.next_id] = Blocked
    <3>1. /\ BlockedIds(s) = s.first_blocked..(s.next_id - 1)
          /\ s.next_id \in Nat /\ s.first_blocked \in Nat /\ s.first_blocked <= s.next_id
      BY <1>0 DEF BlockedIds, Counters
    <3> QED BY <2>2, <3>1
  <2>4. b = [id \in s.first_blocked..s.next_id |-> b[id]]
    OBVIOUS
  <2> HIDE DEF b
  <2>5. SeqNums(t) = SeqNums(s) /\ SentIds(t) = SentIds(s)
    BY <2>1 DEF SeqNums, SentIds
  <2>6. /\ Waiting(s) \subseteq Waiting(t) /\ s.next_id \in Waiting(t)
        /\ \A id \in BlockedIds(s) : id \notin Waiting(s) => id \notin Waiting(t)
    BY <2>1, <2>3, NewEntries DEF Waiting
  <2>7. Counters(t)
    BY <1>0, <2>1 DEF Counters
  <2>8. Deques(t)
    <3>1. \A id \in BlockedIds(t) : IsBlockedState(t.blocked[id])
      BY <1>0, <2>1, <2>3, NewEntries DEF Deques
    <3> QED BY <1>0, <2>1, <2>2, <2>4, <2>5, <3>1 DEF Deques
  <2>9. Decided(t, del, ref)
    BY <1>0, <2>1, <2>5 DEF Decided
  <2>10. SenderOK(t, del, ref) /\ t.next_id >= s.next_id
    BY <1>0, <2>1, <2>7, <2>8, <2>9 DEF SenderOK, Counters
  <2>11. \A id \in Waiting(s) : id \in BlockedIds(s)
    BY DEF Waiting
  <2>12. Keeps(s, t, {}, del, ref)
    BY <2>1, <2>3, <2>5, <2>6, <2>10, <2>11, SameKeeps DEF Keeps
  <2> QED BY <1>2, <2>1, <2>6, <2>12 DEF t
<1> QED BY <1>1, <1>2

\* clean_blocked_queue pops canceled packets off the front of `blocked`.
LEMMA CleanBlocked ==
    ASSUME NEW s, NEW del, NEW ref, SenderOK(s, del, ref)
    PROVE  /\ Keeps(s, clean_blocked_queue(s), {}, del, ref)
           /\ Waiting(clean_blocked_queue(s)) = Waiting(s)
<1> DEFINE S == {i \in BlockedIds(s) : s.blocked[i].st # "Canceled"}
           b == First(s.first_blocked, s.next_id, S)
           t == clean_blocked_queue(s)
           q == [id \in s.first_sent..(b - 1) |->
                   IF id < s.first_blocked THEN s.sent[id] ELSE NoSeq]
<1>0. Counters(s) /\ Deques(s) /\ Decided(s, del, ref)
  BY DEF SenderOK
<1>1. b \in s.first_blocked..s.next_id /\ \A j \in s.first_blocked..(b - 1) : j \notin S
  <2> HIDE DEF S
  <2> QED BY <1>0, FirstExists DEF Counters
<1>2. \A j \in s.first_blocked..(b - 1) : j \in BlockedIds(s) /\ s.blocked[j].st = "Canceled"
  <2> HIDE DEF b
  <2> QED BY <1>0, <1>1 DEF Counters, BlockedIds
<1>3. /\ DOMAIN t = DOMAIN s /\ t.window_size = s.window_size
      /\ t.base = s.base /\ t.next = s.next /\ t.unacked = s.unacked
      /\ t.first_sent = s.first_sent /\ t.first_blocked = b /\ t.next_id = s.next_id
      /\ t.sent = q /\ t.blocked = [i \in b..(s.next_id - 1) |-> s.blocked[i]]
  BY <1>0 DEF clean_blocked_queue, Counters, From
<1> HIDE DEF S, b, t
<1>4. SeqNums(t) = SeqNums(s) /\ BlockedIds(t) = b..(s.next_id - 1) /\ SentIds(t) = s.first_sent..(b - 1)
  BY <1>3 DEF SeqNums, BlockedIds, SentIds
<1>5. /\ BlockedIds(t) \subseteq BlockedIds(s)
      /\ \A id \in BlockedIds(t) : t.blocked[id] = s.blocked[id]
      /\ \A id \in BlockedIds(s) \ BlockedIds(t) :
           id \in SentIds(t) /\ id \notin SentIds(s) /\ s.blocked[id].st = "Canceled"
      /\ SentIds(s) \subseteq SentIds(t)
      /\ \A id \in SentIds(t) : id \in SentIds(s) \/ (id \in BlockedIds(s) /\ ~(id < s.first_blocked))
  BY <1>0, <1>1, <1>2, <1>3, <1>4 DEF Counters, BlockedIds, SentIds
<1>6. /\ \A id \in SentIds(s) : t.sent[id] = s.sent[id]
      /\ \A id \in BlockedIds(s) \ BlockedIds(t) : t.sent[id] = NoSeq
      /\ \A id \in SentIds(t) : t.sent[id] = NoSeq \/ (id \in SentIds(s) /\ t.sent[id] = s.sent[id])
  <2>1. /\ \A id \in SentIds(s) : id < s.first_blocked
        /\ \A id \in BlockedIds(s) : ~(id < s.first_blocked)
    BY <1>0 DEF Counters, SentIds, BlockedIds
  <2>2. \A id \in SentIds(t) : t.sent[id] = IF id < s.first_blocked THEN s.sent[id] ELSE NoSeq
    BY <1>3, <1>4
  <2> HIDE DEF q
  <2> QED BY <1>5, <2>1, <2>2
<1>7. Waiting(t) = Waiting(s)
  BY <1>5 DEF Waiting
<1>8. t.sent = [id \in SentIds(t) |-> t.sent[id]]
  BY <1>3, <1>4
<1> HIDE DEF q
<1>9. SenderOK(t, del, ref)
  <2>1. Counters(t)
    BY <1>0, <1>1, <1>3 DEF Counters
  <2>2. Deques(t)
    <3>1. \A id \in BlockedIds(t) : IsBlockedState(t.blocked[id])
      BY <1>0, <1>5 DEF Deques
    <3>2. \A id \in SentIds(t) : t.sent[id] \in (0..(t.next - 1)) \cup {NoSeq}
      BY <1>0, <1>3, <1>6 DEF Deques
    <3>3. t.blocked = [id \in BlockedIds(t) |-> t.blocked[id]]
      BY <1>3, <1>4
    <3> QED BY <1>0, <1>3, <1>4, <1>8, <3>1, <3>2, <3>3 DEF Deques
  <2>3. Decided(t, del, ref)
    BY <1>0, <1>3, <1>4 DEF Decided
  <2> QED BY <2>1, <2>2, <2>3 DEF SenderOK
<1>10. \A id \in Waiting(s) : id \in BlockedIds(t)
  BY <1>7 DEF Waiting
<1>11. /\ t.next >= s.next /\ t.next_id >= s.next_id
       /\ t.first_blocked >= s.first_blocked /\ t.first_sent >= s.first_sent
  BY <1>0, <1>1, <1>3 DEF Counters
<1>12. Keeps(s, t, {}, del, ref)
  BY <1>3, <1>4, <1>5, <1>6, <1>7, <1>9, <1>10, <1>11 DEF Keeps
<1> QED BY <1>7, <1>12 DEF t

\* Two operations in a row, of which the first does not move the front of
\* `blocked`.
LEMMA KeepsBoth ==
    ASSUME NEW s, NEW t, NEW u, NEW C, NEW del, NEW ref,
           SenderOK(s, del, ref), Keeps(s, t, C, del, ref), Keeps(t, u, {}, del, ref),
           t.first_blocked = s.first_blocked, t.next_id = s.next_id
    PROVE  Keeps(s, u, C, del, ref)
<1>0. Counters(s) /\ Counters(t) /\ Counters(u)
  BY DEF Keeps, SenderOK
<1>1. BlockedIds(t) = BlockedIds(s)
  BY DEF BlockedIds
<1>2. /\ u.next >= s.next /\ u.next_id >= s.next_id
      /\ u.first_blocked >= s.first_blocked /\ u.first_sent >= s.first_sent
  BY <1>0 DEF Keeps, Counters
<1>3. ASSUME NEW id \in Waiting(s) \ C
      PROVE  \/ id \in Waiting(u) /\ (s.blocked[id].waker => u.blocked[id].waker)
             \/ id \in SentIds(u) /\ u.sent[id] # NoSeq
  <2>1. id \in BlockedIds(s) /\ id \notin SentIds(t)
    BY <1>0 DEF Waiting, BlockedIds, SentIds, Counters
  <2>2. id \in Waiting(t) /\ (s.blocked[id].waker => t.blocked[id].waker)
    BY <2>1 DEF Keeps
  <2> QED BY <2>2 DEF Keeps
<1>4. ASSUME NEW id \in BlockedIds(s) \ (Waiting(s) \ C)
      PROVE  \/ id \in BlockedIds(u) \ Waiting(u)
             \/ id \in SentIds(u) /\ u.sent[id] = NoSeq
  <2>1. id \notin SentIds(t)
    BY <1>0 DEF BlockedIds, SentIds, Counters
  <2>2. id \in BlockedIds(t) \ Waiting(t)
    BY <2>1 DEF Keeps
  <2> QED BY <2>2 DEF Keeps
<1>5. ASSUME NEW id \in SentIds(s)
      PROVE  \/ id \in SentIds(u) /\ u.sent[id] = s.sent[id]
             \/ id < u.first_sent /\ s.sent[id] \in del \cup ref \cup {NoSeq}
  <2>1. CASE id \in SentIds(t) /\ t.sent[id] = s.sent[id]
    BY <2>1 DEF Keeps
  <2>2. CASE id < t.first_sent /\ s.sent[id] \in del \cup ref \cup {NoSeq}
    <3>1. id < u.first_sent
      BY <1>0, <2>2 DEF Keeps, SentIds, Counters
    <3> QED BY <2>2, <3>1
  <2> QED BY <2>1, <2>2 DEF Keeps
<1>6. ASSUME NEW sn \in SeqNums(u), sn < s.next, Outstanding(u.unacked[sn])
      PROVE  /\ sn \in SeqNums(s) /\ Outstanding(s.unacked[sn])
             /\ s.unacked[sn].waker => u.unacked[sn].waker
  <2>1. sn < t.next
    BY <1>0, <1>6 DEF Keeps, SeqNums, Counters
  <2>2. /\ sn \in SeqNums(t) /\ Outstanding(t.unacked[sn])
        /\ t.unacked[sn].waker => u.unacked[sn].waker
    BY <1>6, <2>1 DEF Keeps
  <2> QED BY <1>6, <2>2 DEF Keeps
<1>7. SenderOK(u, del, ref)
  BY DEF Keeps
<1> QED BY <1>2, <1>3, <1>4, <1>5, <1>6, <1>7 DEF Keeps

\* cancel_queued_packet cancels the packet, if it still waits, and no other.
LEMMA CancelQueuedKeeps ==
    ASSUME NEW s, NEW del, NEW ref, SenderOK(s, del, ref), NEW id, cancels_queued(s, id)
    PROVE  Keeps(s, cancel_queued_packet(s, id), {id}, del, ref)
<1> DEFINE t == [s EXCEPT !.blocked[id] = Canceled]
<1>0. Counters(s) /\ Deques(s) /\ Decided(s, del, ref) /\ id \in BlockedIds(s)
  BY DEF SenderOK, cancels_queued
<1>1. /\ DOMAIN t = DOMAIN s /\ t.window_size = s.window_size
      /\ t.base = s.base /\ t.next = s.next /\ t.unacked = s.unacked
      /\ t.first_sent = s.first_sent /\ t.first_blocked = s.first_blocked
      /\ t.next_id = s.next_id /\ t.sent = s.sent
      /\ t.blocked = [s.blocked EXCEPT ![id] = Canceled]
  BY <1>0 DEF Counters
<1>2. cancel_queued_packet(s, id) = IF id = s.first_blocked THEN clean_blocked_queue(t) ELSE t
  BY DEF cancel_queued_packet
<1> HIDE DEF t
<1>3. /\ SeqNums(t) = SeqNums(s) /\ BlockedIds(t) = BlockedIds(s)
      /\ SentIds(t) = SentIds(s)
  BY <1>1 DEF SeqNums, BlockedIds, SentIds
<1>4. \A i \in BlockedIds(s) : t.blocked[i] = IF i = id THEN Canceled ELSE s.blocked[i]
  BY <1>0, <1>1 DEF Deques
<1>5. Waiting(t) = Waiting(s) \ {id}
  BY <1>3, <1>4, NewEntries DEF Waiting
<1>6. SenderOK(t, del, ref)
  <2>1. Counters(t)
    BY <1>0, <1>1 DEF Counters
  <2>2. t.blocked = [i \in BlockedIds(t) |-> t.blocked[i]]
    BY <1>0, <1>1, <1>3 DEF Deques
  <2>3. \A i \in BlockedIds(t) : IsBlockedState(t.blocked[i])
    BY <1>0, <1>3, <1>4, NewEntries DEF Deques
  <2>4. Deques(t)
    BY <1>0, <1>1, <1>3, <2>2, <2>3 DEF Deques
  <2>5. Decided(t, del, ref)
    BY <1>0, <1>1, <1>3 DEF Decided
  <2> QED BY <2>1, <2>4, <2>5 DEF SenderOK
<1>7. Keeps(s, t, {id}, del, ref)
  <2>1. \A i \in Waiting(s) : i \in BlockedIds(s)
    BY DEF Waiting
  <2>2. \A i \in Waiting(s) \ {id} : i \in Waiting(t) /\ t.blocked[i] = s.blocked[i]
    BY <1>4, <1>5, <2>1
  <2>3. \A i \in BlockedIds(s) \ (Waiting(s) \ {id}) : i \in BlockedIds(t) \ Waiting(t)
    BY <1>3, <1>5
  <2> QED BY <1>1, <1>3, <1>6, <2>2, <2>3, SameKeeps DEF Keeps
<1> QED BY <1>1, <1>2, <1>6, <1>7, CleanBlocked, KeepsBoth

\* What an answer or forget_canceled_packet does to the entry of the packet; the
\* fronts of the window and of `sent` move on.
LEMMA SettleKeeps ==
    ASSUME NEW s, NEW del, NEW ref, SenderOK(s, del, ref), NEW sn \in SeqNums(s),
           NEW e, IsUnackedState(e),
           ~Outstanding(e) => sn \in del \cup ref, e.st = "CancelAcked" => sn \in ref,
           Outstanding(e) => /\ Outstanding(s.unacked[sn])
                             /\ s.unacked[sn].waker => e.waker
    PROVE  /\ Keeps(s, settle(s, sn, e), {}, del, ref)
           /\ settle(s, sn, e).first_blocked = s.first_blocked
           /\ settle(s, sn, e).next_id = s.next_id
<1> DEFINE u == [s.unacked EXCEPT ![sn] = e]
           base == IF sn = s.base THEN clean_unacked_queue(s, u) ELSE s.base
           fs == clean_sent_queue(s, u, base)
           t == settle(s, sn, e)
<1>0. Counters(s) /\ Deques(s) /\ Decided(s, del, ref)
  BY DEF SenderOK
<1>1. \A i \in SeqNums(s) : u[i] = IF i = sn THEN e ELSE s.unacked[i]
  BY <1>0 DEF Deques
<1> HIDE DEF u
<1>2. \A i \in SeqNums(s) :
        /\ IsUnackedState(u[i])
        /\ ~Outstanding(u[i]) => i \in del \cup ref
        /\ u[i].st = "CancelAcked" => i \in ref
        /\ Outstanding(u[i]) => Outstanding(s.unacked[i]) /\ (s.unacked[i].waker => u[i].waker)
  BY <1>0, <1>1 DEF Deques, Decided
<1>3. base \in s.base..s.next /\ \A i \in s.base..(base - 1) : u[i].st = "Acked"
  <2>1. CASE sn = s.base
    <3> DEFINE S == {i \in SeqNums(s) : u[i].st # "Acked"}
    <3>1. base = First(s.base, s.next, S)
      BY <2>1 DEF clean_unacked_queue
    <3> HIDE DEF base, S
    <3>2. base \in s.base..s.next /\ \A i \in s.base..(base - 1) : i \notin S
      BY <1>0, <3>1, FirstExists DEF Counters
    <3> QED BY <1>0, <3>2 DEF S, SeqNums, Counters
  <2>2. CASE sn # s.base
    BY <1>0, <2>2 DEF Counters
  <2> QED BY <2>1, <2>2
<1>4. \A i \in 0..(base - 1) : i \in del \cup ref
  <2> HIDE DEF base
  <2> SUFFICES ASSUME NEW i \in 0..(base - 1), ~(i \in 0..(s.base - 1)) PROVE i \in del \cup ref
    BY <1>0 DEF Decided
  <2>1. i \in s.base..(base - 1) /\ i \in SeqNums(s)
    BY <1>0, <1>3 DEF SeqNums, Counters
  <2> QED BY <1>2, <1>3, <2>1 DEF Outstanding
<1> HIDE DEF base
<1>5. /\ fs \in s.first_sent..s.first_blocked
      /\ \A id \in s.first_sent..(fs - 1) : s.sent[id] \in del \cup ref \cup {NoSeq}
  <2> DEFINE S == {id \in s.first_sent..(s.first_blocked - 1) :
                     /\ s.sent[id] # NoSeq /\ s.sent[id] >= base
                     /\ Outstanding(u[s.sent[id]])}
  <2>1. fs = First(s.first_sent, s.first_blocked, S)
    BY DEF clean_sent_queue
  <2> HIDE DEF fs, S
  <2>2. fs \in s.first_sent..s.first_blocked /\ \A id \in s.first_sent..(fs - 1) : id \notin S
    BY <1>0, <2>1, FirstExists DEF Counters
  <2>3. ASSUME NEW id \in s.first_sent..(fs - 1), s.sent[id] # NoSeq
        PROVE  s.sent[id] \in del \cup ref
    <3>1. id \in s.first_sent..(s.first_blocked - 1) /\ id \notin S
      BY <1>0, <2>2 DEF Counters
    <3>2. s.sent[id] \in 0..(s.next - 1)
      BY <1>0, <2>3, <3>1 DEF Deques, SentIds
    <3>3. CASE s.sent[id] < base
      BY <1>0, <1>3, <1>4, <3>2, <3>3 DEF Counters
    <3>4. CASE s.sent[id] >= base
      <4>1. s.sent[id] \in SeqNums(s)
        BY <1>0, <1>3, <3>2, <3>4 DEF Counters, SeqNums
      <4>2. ~Outstanding(u[s.sent[id]])
        BY <2>3, <3>1, <3>4 DEF S
      <4> QED BY <1>2, <4>1, <4>2
    <3> QED BY <1>0, <1>3, <3>2, <3>3, <3>4 DEF Counters
  <2> QED BY <2>2, <2>3
<1> HIDE DEF fs
<1>6. /\ DOMAIN t = DOMAIN s /\ t.window_size = s.window_size
      /\ t.base = base /\ t.next = s.next /\ t.unacked = [i \in base..(s.next - 1) |-> u[i]]
      /\ t.first_sent = fs /\ t.first_blocked = s.first_blocked /\ t.next_id = s.next_id
      /\ t.sent = [id \in fs..(s.first_blocked - 1) |-> s.sent[id]] /\ t.blocked = s.blocked
  BY <1>0 DEF settle, From, u, base, fs, Counters
<1> HIDE DEF t
<1>7. /\ SeqNums(t) = base..(s.next - 1) /\ SeqNums(t) \subseteq SeqNums(s)
      /\ SentIds(t) = fs..(s.first_blocked - 1) /\ SentIds(t) \subseteq SentIds(s)
      /\ \A id \in SentIds(s) : id \in SentIds(t) \/ (id \in s.first_sent..(fs - 1) /\ id < t.first_sent)
      /\ BlockedIds(t) = BlockedIds(s)
  BY <1>0, <1>3, <1>5, <1>6 DEF SeqNums, SentIds, BlockedIds, Counters
<1>8. /\ \A i \in SeqNums(t) : t.unacked[i] = u[i]
      /\ \A id \in SentIds(t) : t.sent[id] = s.sent[id]
  BY <1>6, <1>7
<1>9. Waiting(t) = Waiting(s)
  BY <1>6, <1>7 DEF Waiting
<1>10. SenderOK(t, del, ref)
  <2>1. Counters(t)
    BY <1>0, <1>3, <1>5, <1>6 DEF Counters
  <2>2. /\ t.unacked = [i \in SeqNums(t) |-> t.unacked[i]]
        /\ t.sent = [id \in SentIds(t) |-> t.sent[id]]
    BY <1>6, <1>7
  <2>3. Deques(t)
    BY <1>0, <1>2, <1>6, <1>7, <1>8, <2>2 DEF Deques
  <2>4. Decided(t, del, ref)
    BY <1>2, <1>4, <1>6, <1>7, <1>8 DEF Decided
  <2> QED BY <2>1, <2>3, <2>4 DEF SenderOK
<1>11. /\ t.next >= s.next /\ t.next_id >= s.next_id
       /\ t.first_blocked >= s.first_blocked /\ t.first_sent >= s.first_sent
  BY <1>0, <1>5, <1>6 DEF Counters
<1>12. \A id \in SentIds(s) :
         \/ id \in SentIds(t) /\ t.sent[id] = s.sent[id]
         \/ id < t.first_sent /\ s.sent[id] \in del \cup ref \cup {NoSeq}
  BY <1>5, <1>7, <1>8
<1>13. \A i \in SeqNums(t) : Outstanding(t.unacked[i]) =>
         /\ i \in SeqNums(s) /\ Outstanding(s.unacked[i])
         /\ s.unacked[i].waker => t.unacked[i].waker
  BY <1>2, <1>7, <1>8
<1>14. Keeps(s, t, {}, del, ref)
  BY <1>6, <1>7, <1>9, <1>10, <1>11, <1>12, <1>13, SameKeeps DEF Keeps
<1> QED BY <1>6, <1>14 DEF t

\* unblock: the packets at the front of `blocked` are sent, each under a sequence
\* number of its own, and canceled ones on the way are dropped.
LEMMA UnblockKeeps ==
    ASSUME NEW s, NEW del, NEW ref, SenderOK(s, del, ref)
    PROVE  Keeps(s, unblock(s), {}, del, ref)
<1> DEFINE n     == UnblockCount(s)
           S     == {id \in Waiting(s) : Ahead(s, id) >= n}
           front == First(s.first_blocked, s.next_id, S)
           Moved(k) == CHOOSE id \in Waiting(s) : Ahead(s, id) = k
           lim(sn) == s.blocked[Moved(sn - s.next)].limit
           u == [sn \in s.base..(s.next + n - 1) |->
                   IF sn < s.next THEN s.unacked[sn] ELSE Unacked(lim(sn))]
           q == [id \in s.first_sent..(front - 1) |->
                   CASE id < s.first_blocked -> s.sent[id]
                     [] id \in Waiting(s)    -> s.next + Ahead(s, id)
                     [] OTHER                -> NoSeq]
           t == unblock(s)
<1>0. Counters(s) /\ Deques(s) /\ Decided(s, del, ref)
  BY DEF SenderOK
<1>1. IsFiniteSet(Waiting(s)) /\ \A id : Ahead(s, id) \in Nat
  <2>1. IsFiniteSet(BlockedIds(s))
    BY <1>0, FS_Interval DEF BlockedIds, Counters
  <2>2. Waiting(s) \in SUBSET BlockedIds(s)
    BY DEF Waiting
  <2>3. IsFiniteSet(Waiting(s))
    BY <2>1, <2>2, FS_Subset
  <2>4. \A id : {j \in Waiting(s) : j < id} \in SUBSET Waiting(s)
    OBVIOUS
  <2>5. \A id : IsFiniteSet({j \in Waiting(s) : j < id})
    BY <2>3, <2>4, FS_Subset
  <2> QED BY <2>3, <2>5, FS_CardinalityType DEF Ahead
<1>2. n \in Nat
  BY <1>0, <1>1, FS_CardinalityType DEF UnblockCount, Lower, Counters
<1> HIDE DEF n
<1>3. front \in s.first_blocked..s.next_id /\ \A j \in s.first_blocked..(front - 1) : j \notin S
  <2> HIDE DEF S
  <2> QED BY <1>0, FirstExists DEF Counters
<1> HIDE DEF front
<1>4. /\ DOMAIN t = DOMAIN s /\ t.window_size = s.window_size
      /\ t.base = s.base /\ t.next = s.next + n /\ t.unacked = u
      /\ t.first_sent = s.first_sent /\ t.first_blocked = front /\ t.next_id = s.next_id
      /\ t.sent = q /\ t.blocked = [i \in front..(s.next_id - 1) |-> s.blocked[i]]
  <2>1. t = [s EXCEPT !.next = s.next + n, !.unacked = u, !.first_blocked = front,
                      !.blocked = From(s.blocked, front, s.next_id), !.sent = q]
    BY DEF unblock, n, front
  <2> HIDE DEF t, u, q
  <2> QED BY <1>0, <2>1 DEF Counters, From
<1> HIDE DEF t
<1>5. /\ SeqNums(t) = s.base..(s.next + n - 1)
      /\ BlockedIds(t) = front..(s.next_id - 1) /\ SentIds(t) = s.first_sent..(front - 1)
  <2> HIDE DEF u, q
  <2> QED BY <1>0, <1>2, <1>4 DEF SeqNums, BlockedIds, SentIds, Counters
<1>6. \A sn \in SeqNums(t) :
        \/ u[sn] = Unacked(lim(sn)) /\ ~(sn < s.next)
        \/ u[sn] = s.unacked[sn] /\ sn \in SeqNums(s)
  <2> HIDE DEF lim
  <2>1. \A sn \in s.base..(s.next + n - 1) :
          \/ u[sn] = Unacked(lim(sn)) /\ ~(sn < s.next)
          \/ u[sn] = s.unacked[sn] /\ sn \in s.base..(s.next - 1)
    BY <1>0, <1>2 DEF Counters
  <2> HIDE DEF u
  <2>2. SeqNums(s) = s.base..(s.next - 1)
    BY DEF SeqNums
  <2> QED BY <1>5, <2>1, <2>2
<1>7. u = [sn \in SeqNums(t) |-> u[sn]] /\ q = [id \in SentIds(t) |-> q[id]]
  <2> HIDE DEF lim
  <2> QED BY <1>5
<1> HIDE DEF u, lim
<1>8. /\ BlockedIds(t) \subseteq BlockedIds(s)
      /\ \A id \in BlockedIds(t) : t.blocked[id] = s.blocked[id]
      /\ \A id \in BlockedIds(s) \ BlockedIds(t) :
           id \in SentIds(t) /\ ~(id < s.first_blocked) /\ id \notin S
      /\ \A id \in SentIds(s) : id \in SentIds(t) /\ id < s.first_blocked
      /\ \A id \in SentIds(t) : id \in SentIds(s) \/ id \in BlockedIds(s) \ BlockedIds(t)
  <2> HIDE DEF q, S
  <2> QED BY <1>0, <1>3, <1>4, <1>5 DEF Counters, BlockedIds, SentIds
<1>9. /\ \A id \in SentIds(s) : t.sent[id] = s.sent[id]
      /\ \A id \in BlockedIds(s) \ BlockedIds(t) :
           t.sent[id] = IF id \in Waiting(s) THEN s.next + Ahead(s, id) ELSE NoSeq
  <2>1. \A id \in SentIds(t) :
          t.sent[id] = CASE id < s.first_blocked -> s.sent[id]
                         [] id \in Waiting(s)    -> s.next + Ahead(s, id)
                         [] OTHER                -> NoSeq
    BY <1>4, <1>5
  <2> HIDE DEF q
  <2>2. ASSUME NEW id \in SentIds(s) PROVE t.sent[id] = s.sent[id]
    BY <1>0, <1>8, <2>1, <2>2 DEF SentIds, BlockedIds, Waiting, Counters
  <2>3. ASSUME NEW id \in BlockedIds(s) \ BlockedIds(t)
        PROVE  t.sent[id] = IF id \in Waiting(s) THEN s.next + Ahead(s, id) ELSE NoSeq
    BY <1>8, <2>1, <2>3
  <2> QED BY <2>2, <2>3
<1> HIDE DEF q
<1>10. \A id \in BlockedIds(s) \ BlockedIds(t) : id \in Waiting(s) =>
         t.sent[id] \in 0..(t.next - 1) /\ t.sent[id] # NoSeq
  <2> SUFFICES ASSUME NEW id \in BlockedIds(s) \ BlockedIds(t), id \in Waiting(s)
               PROVE  t.sent[id] \in 0..(t.next - 1) /\ t.sent[id] # NoSeq
    OBVIOUS
  <2>1. Ahead(s, id) < n /\ Ahead(s, id) \in Nat
    BY <1>1, <1>2, <1>8 DEF S
  <2>2. t.sent[id] = s.next + Ahead(s, id)
    BY <1>9
  <2> QED BY <1>0, <1>2, <1>4, <2>1, <2>2 DEF Counters, NoSeq
<1>11. Waiting(t) \subseteq Waiting(s) /\ \A id \in Waiting(s) : id \in BlockedIds(t) => id \in Waiting(t)
  BY <1>8 DEF Waiting
<1>12. \A id \in Waiting(s) : id \in BlockedIds(s)
  BY DEF Waiting
<1> HIDE DEF S
<1>13. SenderOK(t, del, ref)
  <2>1. Counters(t)
    BY <1>0, <1>2, <1>3, <1>4 DEF Counters
  <2>2. \A sn \in SeqNums(t) : IsUnackedState(t.unacked[sn])
    <3>1. \A limit : IsUnackedState(Unacked(limit))
      BY NewEntries
    <3>2. \A sn \in SeqNums(s) : IsUnackedState(s.unacked[sn])
      BY <1>0 DEF Deques
    <3> QED BY <1>4, <1>6, <3>1, <3>2
  <2>3. \A id \in BlockedIds(t) : IsBlockedState(t.blocked[id])
    BY <1>0, <1>8 DEF Deques
  <2>4. t.blocked = [id \in BlockedIds(t) |-> t.blocked[id]]
    BY <1>4, <1>5
  <2>5. \A id \in SentIds(t) : t.sent[id] \in (0..(t.next - 1)) \cup {NoSeq}
    <3>1. 0..(s.next - 1) \subseteq 0..(t.next - 1)
      BY <1>0, <1>2, <1>4 DEF Counters
    <3> QED BY <1>0, <1>8, <1>9, <1>10, <3>1 DEF Deques
  <2>6. Deques(t)
    BY <1>4, <1>7, <2>2, <2>3, <2>4, <2>5 DEF Deques
  <2>7. \A sn \in SeqNums(t) :
          /\ ~Outstanding(t.unacked[sn]) => sn \in del \cup ref
          /\ t.unacked[sn].st = "CancelAcked" => sn \in ref
    BY <1>0, <1>4, <1>6, NewEntries DEF Decided
  <2>8. Decided(t, del, ref)
    BY <1>0, <1>4, <2>7 DEF Decided
  <2> QED BY <2>1, <2>6, <2>8 DEF SenderOK
<1>14. /\ t.next >= s.next /\ t.next_id >= s.next_id
       /\ t.first_blocked >= s.first_blocked /\ t.first_sent >= s.first_sent
  BY <1>0, <1>2, <1>3, <1>4 DEF Counters
<1>15. \A id \in Waiting(s) :
         \/ id \in Waiting(t) /\ t.blocked[id] = s.blocked[id]
         \/ id \in SentIds(t) /\ t.sent[id] # NoSeq
  BY <1>8, <1>10, <1>11, <1>12
<1>16. \A id \in BlockedIds(s) \ Waiting(s) :
         \/ id \in BlockedIds(t) \ Waiting(t)
         \/ id \in SentIds(t) /\ t.sent[id] = NoSeq
  BY <1>8, <1>9, <1>11
<1>17. \A sn \in SeqNums(t) : sn < s.next => sn \in SeqNums(s) /\ t.unacked[sn] = s.unacked[sn]
  BY <1>4, <1>6
<1> QED BY <1>8, <1>9, <1>13, <1>14, <1>15, <1>16, <1>17 DEF Keeps, t

\* The operations that change a packet's entry, by sequence number.
LEMMA EntryOps ==
    ASSUME NEW s, NEW del, NEW ref, SenderOK(s, del, ref), NEW x, NEW limit
    PROVE  /\ Keeps(s, cancel_sent_packet(s, x), {}, del, ref)
           /\ Keeps(s, limit_retries_by_seq_num(s, x, limit), {}, del, ref)
           /\ Keeps(s, poll_ack(s, x), {}, del, ref)
           /\ Keeps(s, age_retries(s), {}, del, ref)
<1>0. Counters(s) /\ Deques(s)
  BY DEF SenderOK
<1>1. ASSUME x \in SeqNums(s), NEW e, Alike(s.unacked[x], e)
      PROVE  Keeps(s, [s EXCEPT !.unacked[x] = e], {}, del, ref)
  <2> DEFINE u == [s.unacked EXCEPT ![x] = e]
  <2>1. /\ u = [sn \in SeqNums(s) |-> u[sn]]
        /\ \A sn \in SeqNums(s) : u[sn] = IF sn = x THEN e ELSE s.unacked[sn]
    BY <1>0 DEF Deques
  <2>2. [s EXCEPT !.unacked[x] = e] = [s EXCEPT !.unacked = u]
    OBVIOUS
  <2> HIDE DEF u
  <2>3. \A sn \in SeqNums(s) : Alike(s.unacked[sn], s.unacked[sn])
    BY <1>0 DEF Deques, Alike
  <2>4. Keeps(s, [s EXCEPT !.unacked = u], {}, del, ref)
    BY <1>1, <2>1, <2>3, EntriesKeep
  <2> QED BY <2>2, <2>4
<1>2. \A sn \in SeqNums(s) : IsUnackedState(s.unacked[sn])
  BY <1>0 DEF Deques
<1>3. Keeps(s, cancel_sent_packet(s, x), {}, del, ref)
  BY <1>1, <1>2, EntryKept, SameKeeps DEF cancel_sent_packet
<1>4. Keeps(s, limit_retries_by_seq_num(s, x, limit), {}, del, ref)
  BY <1>1, <1>2, EntryKept, SameKeeps DEF limit_retries_by_seq_num
<1>5. Keeps(s, poll_ack(s, x), {}, del, ref)
  <2>1. [s EXCEPT !.unacked[x].waker = TRUE] =
           [s EXCEPT !.unacked[x] = [s.unacked[x] EXCEPT !.waker = TRUE]]
    OBVIOUS
  <2> QED BY <1>1, <1>2, <2>1, EntryKept, SameKeeps DEF poll_ack
<1>6. Keeps(s, age_retries(s), {}, del, ref)
  <2> DEFINE u == [sn \in SeqNums(s) |-> age(s.unacked[sn])]
  <2>1. \A sn \in SeqNums(s) : Alike(s.unacked[sn], u[sn])
    BY <1>2, EntryKept
  <2>2. u = [sn \in SeqNums(s) |-> u[sn]] /\ age_retries(s) = [s EXCEPT !.unacked = u]
    BY DEF age_retries
  <2> HIDE DEF u
  <2> QED BY <2>1, <2>2, EntriesKeep
<1> QED BY <1>3, <1>4, <1>5, <1>6

\* The operations that change a packet by its id, while it waits.
LEMMA BlockedOps ==
    ASSUME NEW s, NEW del, NEW ref, SenderOK(s, del, ref), NEW id, NEW limit
    PROVE  /\ Keeps(s, limit_retries_by_id(s, id, limit), {}, del, ref)
           /\ Keeps(s, poll_send(s, id), {}, del, ref)
<1>0. Counters(s) /\ Deques(s)
  BY DEF SenderOK
<1>1. ASSUME id \in BlockedIds(s), NEW c, IsBlockedState(c), c.st = s.blocked[id].st,
             s.blocked[id].waker => c.waker
      PROVE  Keeps(s, [s EXCEPT !.blocked[id] = c], {}, del, ref)
  <2> DEFINE b == [s.blocked EXCEPT ![id] = c]
  <2>1. /\ b = [i \in BlockedIds(s) |-> b[i]]
        /\ \A i \in BlockedIds(s) : b[i] = IF i = id THEN c ELSE s.blocked[i]
    BY <1>0 DEF Deques
  <2>2. [s EXCEPT !.blocked[id] = c] = [s EXCEPT !.blocked = b]
    OBVIOUS
  <2> HIDE DEF b
  <2>3. \A i \in BlockedIds(s) : IsBlockedState(s.blocked[i])
    BY <1>0 DEF Deques
  <2>4. Keeps(s, [s EXCEPT !.blocked = b], {}, del, ref)
    BY <1>1, <2>1, <2>3, BlockedKeep
  <2> QED BY <2>2, <2>4
<1>2. ASSUME id \in BlockedIds(s), NEW l
      PROVE  /\ Keeps(s, [s EXCEPT !.blocked[id].limit = l], {}, del, ref)
             /\ Keeps(s, [s EXCEPT !.blocked[id].waker = TRUE], {}, del, ref)
  <2> DEFINE c == s.blocked[id]
  <2>1. IsBlockedState(c)
    BY <1>0, <1>2 DEF Deques
  <2>2. /\ [s EXCEPT !.blocked[id].limit = l] = [s EXCEPT !.blocked[id] = [c EXCEPT !.limit = l]]
        /\ [s EXCEPT !.blocked[id].waker = TRUE] = [s EXCEPT !.blocked[id] = [c EXCEPT !.waker = TRUE]]
    OBVIOUS
  <2>3. /\ IsBlockedState([c EXCEPT !.limit = l]) /\ [c EXCEPT !.limit = l].st = c.st
        /\ c.waker => [c EXCEPT !.limit = l].waker
        /\ IsBlockedState([c EXCEPT !.waker = TRUE]) /\ [c EXCEPT !.waker = TRUE].st = c.st
        /\ c.waker => [c EXCEPT !.waker = TRUE].waker
    <3> HIDE DEF c
    <3>1. /\ IsBlockedState([c EXCEPT !.limit = l]) /\ [c EXCEPT !.limit = l].st = c.st
          /\ c.waker => [c EXCEPT !.limit = l].waker
      BY <2>1 DEF IsBlockedState
    <3>2. ASSUME NEW w \in BOOLEAN
          PROVE  /\ IsBlockedState([c EXCEPT !.waker = w]) /\ [c EXCEPT !.waker = w].st = c.st
                 /\ [c EXCEPT !.waker = w].waker = w
      BY <2>1 DEF IsBlockedState
    <3> QED BY <3>1, <3>2
  <2> QED BY <1>1, <1>2, <2>2, <2>3
<1>3. Keeps(s, limit_retries_by_id(s, id, limit), {}, del, ref)
  <2>1. CASE is_sent(s, id)
    BY <2>1, EntryOps DEF limit_retries_by_id
  <2>2. CASE ~is_sent(s, id)
    BY <1>2, <2>2, SameKeeps DEF limit_retries_by_id
  <2> QED BY <2>1, <2>2
<1>4. Keeps(s, poll_send(s, id), {}, del, ref)
  BY <1>2, SameKeeps DEF poll_send, Waiting
<1> QED BY <1>3, <1>4

\* forget_canceled_packet, and the answers with what they unblock.
LEMMA AnswerOps ==
    ASSUME NEW s, NEW del, NEW ref, SenderOK(s, del, ref), NEW sn
    PROVE  /\ Keeps(s, forget_canceled_packet(s, sn), {}, del, ref)
           /\ sn \in del => Keeps(s, unblock(process_ack(s, sn)), {}, del, ref)
           /\ sn \in ref => Keeps(s, unblock(process_canceled(s, sn)), {}, del, ref)
<1> DEFINE Quiet(t) == /\ Keeps(s, t, {}, del, ref)
                       /\ t.first_blocked = s.first_blocked /\ t.next_id = s.next_id
<1>0. Counters(s) /\ Deques(s) /\ Decided(s, del, ref)
  BY DEF SenderOK
<1>1. Keeps(s, forget_canceled_packet(s, sn), {}, del, ref)
  <2>1. CASE sn \in SeqNums(s)
    <3> DEFINE e == forget(s.unacked[sn])
    <3>1. IsUnackedState(s.unacked[sn])
      BY <1>0, <2>1 DEF Deques
    <3>2. Alike(s.unacked[sn], e)
      BY <3>1, EntryKept
    <3> HIDE DEF e
    <3>3. Keeps(s, settle(s, sn, e), {}, del, ref)
      BY <1>0, <2>1, <3>2, SettleKeeps DEF Decided, Alike
    <3> QED BY <2>1, <3>3 DEF forget_canceled_packet, e
  <2>2. CASE sn \notin SeqNums(s)
    BY <2>2, SameKeeps DEF forget_canceled_packet
  <2> QED BY <2>1, <2>2
<1>2. Quiet(s)
  BY SameKeeps
<1>3. ASSUME NEW t, Quiet(t) PROVE Keeps(s, unblock(t), {}, del, ref)
  <2>1. SenderOK(t, del, ref)
    BY <1>3 DEF Keeps
  <2> QED BY <1>3, <2>1, UnblockKeeps, KeepsBoth
<1>4. ASSUME sn \in SeqNums(s), NEW e \in {Acked, CancelAcked}, sn \in del \cup ref,
             e = CancelAcked => sn \in ref
      PROVE  Quiet(settle(s, sn, e))
  BY <1>4, NewEntries, SettleKeeps
<1>5. ASSUME sn \in del PROVE Quiet(process_ack(s, sn))
  <2>1. Acked = CancelAcked => FALSE
    BY NewEntries
  <2> QED BY <1>2, <1>4, <1>5, <2>1 DEF process_ack
<1>6. ASSUME sn \in ref PROVE Quiet(process_canceled(s, sn))
  BY <1>2, <1>4, <1>6 DEF process_canceled
<1> HIDE DEF Quiet
<1> QED BY <1>1, <1>3, <1>5, <1>6

-----------------------------------------------------------------------------
(* Futures follow the sender.                                              *)

WokenBy(s, t, id, sn) ==
    /\ Waker(s, id, sn)
    /\ \/ id \in Waiting(s) \ Waiting(t)
       \/ sn \in SeqNums(s) /\ ~(sn \in SeqNums(t) /\ Outstanding(t.unacked[sn]))

\* The sequence number of a packet that the sender has sent between s and t.
Numbered(g, s, t) ==
    IF g.id \in Waiting(s) \ Waiting(t) /\ g.id \in DOMAIN t.sent THEN t.sent[g.id] ELSE g.sn

Followed(g, s, t, woken) == [g EXCEPT !.sn = Numbered(g, s, t), !.parked = @ /\ ~woken]

\* What Follow makes of a future.
LEMMA FollowIs ==
    ASSUME NEW fs, NEW s, NEW t, NEW f \in Futures
    PROVE  Follow(fs, s, t)[f] = Followed(fs[f], s, t, WokenBy(s, t, fut[f].id, fut[f].sn))
BY DEF Follow, Followed, Numbered, WokenBy, Woken, HasWaker, Waker

\* The four forms of a PacketId.
LEMMA PacketIdForms ==
    ASSUME NEW p \in PacketIds
    PROVE  \/ p = Queued(p[2]) /\ p[2] \in Nat /\ p[1] = "Queued" /\ p \notin {IdAcked, IdCanceled}
           \/ p = Sent(p[2]) /\ p[2] \in Nat /\ p[1] = "Sent" /\ p \notin {IdAcked, IdCanceled}
           \/ p = IdAcked /\ p # IdCanceled /\ p[1] = "Acked"
           \/ p = IdCanceled /\ p # IdAcked /\ p[1] = "Canceled"
BY DEF PacketIds, Queued, Sent, IdAcked, IdCanceled

\* The record of a future that has followed the sender.
LEMMA FollowedFields ==
    ASSUME NEW g, g \in FutureType, NEW s, NEW t, NEW w,
           Numbered(g, s, t) \in Nat \cup {NoSeq}
    PROVE  LET h == Followed(g, s, t, w)
           IN  /\ h \in FutureType
               /\ h.kind = g.kind /\ h.packet_id = g.packet_id /\ h.out = g.out /\ h.id = g.id
               /\ h.sn = Numbered(g, s, t) /\ (h.parked <=> g.parked /\ ~w)
<1> DEFINE pk == g.parked /\ ~w
<1>1. pk \in BOOLEAN
  OBVIOUS
<1>2. Followed(g, s, t, w) = [g EXCEPT !.sn = Numbered(g, s, t), !.parked = pk]
  BY DEF Followed
<1> HIDE DEF pk
<1>3. LET h == [g EXCEPT !.sn = Numbered(g, s, t), !.parked = pk]
      IN  /\ h \in FutureType
          /\ h.kind = g.kind /\ h.packet_id = g.packet_id /\ h.out = g.out /\ h.id = g.id
          /\ h.sn = Numbered(g, s, t) /\ h.parked = pk
  BY <1>1 DEF FutureType
<1> QED BY <1>2, <1>3 DEF pk

\* A future stays in order when the sender moves from s to t, unless its packet
\* was canceled meanwhile.
LEMMA FollowOK ==
    ASSUME NEW s, NEW t, NEW C, NEW del, NEW ref, NEW g,
           SenderOK(s, del, ref), Keeps(s, t, C, del, ref), NoSeq \notin del \cup ref,
           FutureOK(g, s, TRUE, del, ref), g.id \notin C
    PROVE  FutureOK(Followed(g, s, t, WokenBy(s, t, g.id, g.sn)), t, TRUE, del, ref)
<1> DEFINE w == WokenBy(s, t, g.id, g.sn)
           h == Followed(g, s, t, w)
<1>0. /\ Counters(s) /\ Deques(s) /\ Counters(t) /\ Deques(t) /\ SenderOK(t, del, ref)
      /\ g \in FutureType /\ g.packet_id \in PacketIds /\ g.id \in Nat \cup {NoSeq}
  BY DEF SenderOK, Keeps, FutureOK, FutureType
<1>1. NoSeq \notin BlockedIds(s) /\ NoSeq \notin SeqNums(s) /\ NoSeq \notin SeqNums(t)
  BY <1>0 DEF BlockedIds, SeqNums, Counters, NoSeq
<1>2. DOMAIN t.sent = SentIds(t)
  BY <1>0 DEF Deques
<1>3. Numbered(g, s, t) \in Nat \cup {NoSeq}
  <2>1. \A id \in SentIds(t) : t.sent[id] \in Nat \cup {NoSeq}
    BY <1>0 DEF Deques
  <2> QED BY <1>0, <1>2, <2>1 DEF Numbered, FutureType
<1> HIDE DEF w
<1>4. /\ h \in FutureType
      /\ h.kind = g.kind /\ h.packet_id = g.packet_id /\ h.out = g.out /\ h.id = g.id
      /\ h.sn = Numbered(g, s, t) /\ (h.parked <=> g.parked /\ ~w)
  BY <1>0, <1>3, FollowedFields
<1> HIDE DEF h
<1>5. IsLive(h) <=> IsLive(g)
  BY <1>4 DEF IsLive
<1>6. \A id \in Waiting(s) : id \in BlockedIds(s) /\ id >= s.first_blocked /\ id # NoSeq
  BY <1>0, <1>1 DEF Waiting, BlockedIds, Counters
<1>7. CASE ~IsLive(g)
  <2>1. h.sn = g.sn
    BY <1>4, <1>6, <1>7 DEF Numbered, FutureOK, Results
  <2>2. Results(h, del, ref)
    BY <1>4, <1>5, <1>7, <2>1 DEF Results, FutureOK
  <2> QED BY <1>4, <1>5, <1>7, <2>2 DEF FutureOK, h, w
<1>8. CASE IsLive(g)
  <2>1. Results(g, del, ref) /\ Knows(g, s) /\ (g.id # NoSeq => Place(g, s, del, ref))
    BY <1>8 DEF FutureOK
  <2>2. CASE g.id \in Waiting(s) \ Waiting(t)
    <3>1. /\ g.id \in SentIds(t) /\ t.sent[g.id] # NoSeq /\ g.id # NoSeq
          /\ g.sn = NoSeq /\ g.packet_id # IdCanceled
      BY <1>6, <2>1, <2>2 DEF Keeps, Place
    <3>2. h.sn = t.sent[g.id] /\ h.sn # NoSeq
      BY <1>2, <1>4, <2>2, <3>1 DEF Numbered
    <3>3. /\ g.id < t.first_blocked /\ g.id >= t.first_sent /\ g.id < t.next_id
          /\ ~(g.id >= t.first_blocked) /\ ~(g.id < t.first_sent)
      BY <1>0, <3>1 DEF SentIds, Counters
    <3>4. Place(h, t, del, ref)
      BY <1>4, <3>1, <3>2, <3>3 DEF Place
    <3>5. g.packet_id[1] # "Sent"
      BY <1>1, <2>1, <3>1, <1>0 DEF Knows, Counters, NoSeq
    <3>6. Knows(h, t)
      BY <1>4, <2>1, <3>1, <3>5 DEF Knows
    <3>7. g.out \notin {"Acked", "Canceled", "Packet"} /\ g.packet_id # IdAcked
      <4>1. CASE g.out = "Packet"
        BY <1>8, <2>1, <4>1 DEF Results
      <4> QED BY <1>8, <2>1, <3>1, <4>1 DEF Results
    <3>8. Results(h, del, ref)
      BY <1>4, <1>5, <1>8, <3>1, <3>7 DEF Results
    <3>9. g.parked => w
      BY <2>2 DEF FutureOK, w, WokenBy
    <3> QED BY <1>4, <1>5, <3>4, <3>6, <3>8, <3>9 DEF FutureOK, h, w
  <2>3. CASE g.id \notin Waiting(s) \ Waiting(t)
    <3>1. h.sn = g.sn
      BY <1>4, <2>3 DEF Numbered
    <3>2. Results(h, del, ref)
      BY <1>4, <1>5, <2>1, <3>1 DEF Results
    <3>3. Knows(h, t)
      <4>1. 0..(s.next - 1) \subseteq 0..(t.next - 1)
        BY <1>0 DEF Keeps, Counters
      <4> QED BY <1>4, <2>1, <3>1, <4>1 DEF Knows
    <3>4. g.id # NoSeq => Place(h, t, del, ref)
      <4> SUFFICES ASSUME g.id # NoSeq PROVE Place(h, t, del, ref)
        OBVIOUS
      <4>0. g.id \in Nat /\ Place(g, s, del, ref)
        BY <1>0, <2>1
      <4>1. g.id < t.next_id
        BY <1>0, <4>0 DEF Place, Keeps, Counters
      <4>2. CASE g.id \in Waiting(s)
        <5>1. g.id \in Waiting(t)
          BY <2>3, <4>2
        <5>2. ~(g.id < t.first_blocked)
          BY <1>0, <5>1 DEF Waiting, BlockedIds, Counters
        <5>3. g.sn = NoSeq /\ g.packet_id # IdCanceled
          BY <1>6, <4>0, <4>2 DEF Place
        <5> QED BY <1>4, <3>1, <4>1, <5>1, <5>2, <5>3 DEF Place
      <4>3. CASE g.id \in BlockedIds(s) \ Waiting(s)
        <5>1. g.sn = NoSeq /\ g.packet_id = IdCanceled
          BY <1>0, <4>0, <4>3 DEF Place, BlockedIds, Counters
        <5>2. \/ g.id \in BlockedIds(t) \ Waiting(t)
              \/ g.id \in SentIds(t) /\ t.sent[g.id] = NoSeq
          BY <4>3 DEF Keeps
        <5>3. CASE g.id \in BlockedIds(t) \ Waiting(t)
          <6>1. ~(g.id < t.first_blocked)
            BY <1>0, <5>3 DEF BlockedIds, Counters
          <6> QED BY <1>4, <3>1, <4>1, <5>1, <5>3, <6>1 DEF Place
        <5>4. CASE g.id \in SentIds(t) /\ t.sent[g.id] = NoSeq
          <6>1. ~(g.id >= t.first_blocked) /\ ~(g.id < t.first_sent)
            BY <1>0, <5>4 DEF SentIds, Counters
          <6> QED BY <1>4, <3>1, <4>1, <5>1, <5>4, <6>1 DEF Place
        <5> QED BY <5>2, <5>3, <5>4
      <4>4. CASE g.id \in SentIds(s)
        <5>1. g.sn = s.sent[g.id] /\ (g.sn = NoSeq <=> g.packet_id = IdCanceled)
          BY <1>0, <4>0, <4>4 DEF Place, SentIds, Counters
        <5>2. \/ g.id \in SentIds(t) /\ t.sent[g.id] = s.sent[g.id]
              \/ g.id < t.first_sent /\ s.sent[g.id] \in del \cup ref \cup {NoSeq}
          BY <4>4 DEF Keeps
        <5>3. CASE g.id \in SentIds(t) /\ t.sent[g.id] = s.sent[g.id]
          <6>1. ~(g.id >= t.first_blocked) /\ ~(g.id < t.first_sent)
            BY <1>0, <5>3 DEF SentIds, Counters
          <6> QED BY <1>4, <3>1, <4>1, <5>1, <5>3, <6>1 DEF Place
        <5>4. CASE g.id < t.first_sent /\ s.sent[g.id] \in del \cup ref \cup {NoSeq}
          <6>1. ~(g.id >= t.first_blocked) /\ ~(g.id >= t.first_sent)
            BY <1>0, <4>0, <5>4 DEF Counters
          <6> QED BY <1>4, <3>1, <4>1, <5>1, <5>4, <6>1 DEF Place
        <5> QED BY <5>2, <5>3, <5>4
      <4>5. CASE g.id < s.first_sent
        <5>1. ~(g.id >= t.first_blocked) /\ ~(g.id >= t.first_sent) /\ g.id < s.first_blocked
          BY <1>0, <4>0, <4>5 DEF Keeps, Counters
        <5> QED BY <1>4, <3>1, <4>0, <4>1, <4>5, <5>1 DEF Place
      <4>6. \/ g.id \in BlockedIds(s) \/ g.id \in SentIds(s) \/ g.id < s.first_sent
        BY <1>0, <4>0 DEF Place, BlockedIds, SentIds, Counters
      <4> QED BY <4>2, <4>3, <4>4, <4>5, <4>6
    <3>5. h.parked => Waker(t, h.id, h.sn)
      <4> SUFFICES ASSUME g.parked, ~w PROVE Waker(t, g.id, g.sn)
        BY <1>4, <3>1
      <4>1. Waker(s, g.id, g.sn)
        BY DEF FutureOK
      <4>2. CASE g.id \in Waiting(s) /\ s.blocked[g.id].waker
        <5>1. g.id \in Waiting(t) /\ g.id \notin SentIds(t)
          BY <1>0, <2>3, <4>2 DEF Waiting, BlockedIds, SentIds, Counters
        <5> QED BY <4>2, <5>1 DEF Keeps, Waker
      <4>3. CASE /\ g.sn \in SeqNums(s) /\ Outstanding(s.unacked[g.sn])
                 /\ s.unacked[g.sn].waker
        <5>1. g.sn \in SeqNums(t) /\ Outstanding(t.unacked[g.sn])
          BY <4>1, <4>3 DEF w, WokenBy
        <5>2. g.sn < s.next
          BY <1>0, <4>3 DEF SeqNums, Counters
        <5> QED BY <4>3, <5>1, <5>2 DEF Keeps, Waker
      <4> QED BY <4>1, <4>2, <4>3 DEF Waker
    <3>6. g.parked => IsLive(g)
      BY DEF FutureOK
    <3> QED BY <1>4, <1>5, <3>2, <3>3, <3>4, <3>5, <3>6 DEF FutureOK, h, w
  <2> QED BY <2>2, <2>3
<1> QED BY <1>7, <1>8


-----------------------------------------------------------------------------
(* Steps of the futures.                                                   *)

\* NoSeq is no sequence number that the peer has decided.
LEMMA PeerNumbers ==
    ASSUME Peer
    PROVE  NoSeq \notin delivered \cup refused
BY DEF Peer, NoSeq

\* Announcing a window leaves every packet where it is.
LEMMA AdjustKeeps ==
    ASSUME NEW s, NEW del, NEW ref, SenderOK(s, del, ref), NEW w \in Nat
    PROVE  Keeps(s, adjust_window_size(s, w), {}, del, ref)
<1> DEFINE t == adjust_window_size(s, w)
<1>1. Counters(s) /\ Deques(s) /\ Decided(s, del, ref)
  BY DEF SenderOK
<1>2. /\ t.window_size = w /\ DOMAIN t = DOMAIN s
      /\ t.base = s.base /\ t.next = s.next /\ t.unacked = s.unacked
      /\ t.first_sent = s.first_sent /\ t.first_blocked = s.first_blocked
      /\ t.next_id = s.next_id /\ t.sent = s.sent /\ t.blocked = s.blocked
  BY <1>1 DEF adjust_window_size, Counters
<1> HIDE DEF t
<1>3. SeqNums(t) = SeqNums(s) /\ BlockedIds(t) = BlockedIds(s) /\ SentIds(t) = SentIds(s)
  BY <1>2 DEF SeqNums, BlockedIds, SentIds
<1>4. Waiting(t) = Waiting(s)
  BY <1>2, <1>3 DEF Waiting
<1>5. SenderOK(t, del, ref)
  <2>1. Counters(t)
    BY <1>1, <1>2 DEF Counters
  <2>2. Deques(t)
    BY <1>1, <1>2, <1>3 DEF Deques
  <2>3. Decided(t, del, ref)
    BY <1>1, <1>2, <1>3 DEF Decided
  <2> QED BY <2>1, <2>2, <2>3 DEF SenderOK
<1>6. \A id \in SentIds(s) : id \in SentIds(t) /\ t.sent[id] = s.sent[id]
  BY <1>2, <1>3
<1>7. \A id \in BlockedIds(s) \ Waiting(s) : id \in BlockedIds(t) \ Waiting(t)
  BY <1>3, <1>4
<1>8. \A id \in Waiting(s) : id \in Waiting(t) /\ (s.blocked[id].waker => t.blocked[id].waker)
  BY <1>2, <1>4
<1>9. t.next >= s.next /\ t.next_id >= s.next_id
      /\ t.first_blocked >= s.first_blocked /\ t.first_sent >= s.first_sent
  BY <1>1, <1>2 DEF Counters
<1>10. Keeps(s, t, {}, del, ref)
  BY <1>2, <1>3, <1>5, <1>6, <1>7, <1>8, <1>9 DEF Keeps
<1> QED BY <1>10 DEF t

\* A future stays in order while the sender does nothing.
LEMMA StayOK ==
    ASSUME NEW g, NEW s, NEW lnk, NEW del, NEW ref, NEW w, FutureOK(g, s, lnk, del, ref)
    PROVE  FutureOK(Followed(g, s, s, w), s, lnk, del, ref)
<1> DEFINE h == Followed(g, s, s, w)
<1>1. g \in FutureType /\ Numbered(g, s, s) = g.sn /\ g.sn \in Nat \cup {NoSeq}
  BY DEF FutureOK, Numbered, FutureType
<1>2. /\ h \in FutureType
      /\ h.kind = g.kind /\ h.packet_id = g.packet_id /\ h.out = g.out /\ h.id = g.id
      /\ h.sn = g.sn /\ (h.parked <=> g.parked /\ ~w)
  BY <1>1, FollowedFields
<1> HIDE DEF h
<1>3. IsLive(h) <=> IsLive(g)
  BY <1>2 DEF IsLive
<1>4. Results(h, del, ref)
  BY <1>2, <1>3 DEF FutureOK, Results
<1>5. (g.id # NoSeq => Place(g, s, del, ref)) => (h.id # NoSeq => Place(h, s, del, ref))
  BY <1>2 DEF Place
<1>6. Knows(g, s) => Knows(h, s)
  BY <1>2 DEF Knows
<1> QED BY <1>2, <1>3, <1>4, <1>5, <1>6 DEF FutureOK, h

\* When each future is in order after a step of one of them, the step keeps the
\* invariant, unless the future has taken the id of another's packet.
LEMMA Assemble ==
    ASSUME SendInv, NEW f \in Futures, NEW t, NEW g, Step(t, f, g), PollsNeverPanic',
           SenderOK(t, delivered, refused), ~link => t = new_sender, g \in FutureType,
           \A h \in Futures \ {f} :
             FutureOK(Followed(fut[h], snd, t, WokenBy(snd, t, fut[h].id, fut[h].sn)),
                      t, link, delivered, refused),
           FutureOK(Followed(g, snd, t, WokenBy(snd, t, fut[f].id, fut[f].sn)),
                    t, link, delivered, refused),
           g.id \in {fut[f].id, NoSeq} \/ \A h \in Futures : fut[h].id # g.id
    PROVE  SendInv'
<1> DEFINE fs == [fut EXCEPT ![f] = g]
<1>1. /\ snd' = t /\ fut' = Follow(fs, snd, t)
      /\ link' = link /\ delivered' = delivered /\ refused' = refused
  BY DEF Step
<1>2. fs[f] = g /\ \A h \in Futures \ {f} : fs[h] = fut[h]
  <2>1. fut = [h \in Futures |-> fut[h]]
    BY DEF SendInv
  <2> QED BY <2>1
<1> HIDE DEF fs
<1>3. \A h \in Futures : fut'[h] = Followed(fs[h], snd, t, WokenBy(snd, t, fut[h].id, fut[h].sn))
  BY <1>1, FollowIs
<1>4. fut' = [h \in Futures |-> fut'[h]]
  BY <1>1 DEF Follow
<1>5. \A h \in Futures : FutureOK(fut'[h], t, link, delivered, refused)
  BY <1>2, <1>3
<1>6. \A h \in Futures : fs[h] \in FutureType
  BY <1>2 DEF SendInv, FutureOK
<1>7. \A h \in Futures : fut'[h].id = fs[h].id
  <2> SUFFICES ASSUME NEW h \in Futures PROVE fut'[h].id = fs[h].id
    OBVIOUS
  <2>1. fs[h] \in FutureType
    BY <1>6
  <2> QED BY <1>3, <2>1 DEF Followed, FutureType
<1>8. \A h, k \in Futures : h # k /\ fs[h].id # NoSeq => fs[h].id # fs[k].id
  <2> SUFFICES ASSUME NEW h \in Futures, NEW k \in Futures, h # k, fs[h].id # NoSeq
               PROVE  fs[h].id # fs[k].id
    OBVIOUS
  <2>1. \A x, y \in Futures : x # y /\ fut[x].id # NoSeq => fut[x].id # fut[y].id
    BY DEF SendInv, Unshared
  <2>2. CASE h = f
    BY <1>2, <2>1, <2>2
  <2>3. CASE k = f
    <3>1. fs[h] = fut[h] /\ fs[k] = g
      BY <1>2, <2>3
    <3> QED BY <2>1, <2>3, <3>1
  <2>4. CASE h # f /\ k # f
    BY <1>2, <2>1, <2>4
  <2> QED BY <2>2, <2>3, <2>4
<1>9. Unshared'
  BY <1>7, <1>8 DEF Unshared
<1>10. Peer'
  BY <1>1 DEF Peer, SendInv
<1> QED BY <1>1, <1>4, <1>5, <1>9, <1>10 DEF SendInv

\* A call that leaves the sender alone.
LEMMA StillInv ==
    ASSUME SendInv, NEW f \in Futures, NEW g, Step(snd, f, g), UNCHANGED panicked,
           FutureOK(g, snd, link, delivered, refused), g.id \in {fut[f].id, NoSeq}
    PROVE  SendInv'
<1>1. PollsNeverPanic'
  BY DEF SendInv, PollsNeverPanic
<1>2. SenderOK(snd, delivered, refused) /\ (~link => snd = new_sender)
  BY DEF SendInv, Peer
<1>3. \A h \in Futures : FutureOK(fut[h], snd, link, delivered, refused)
  BY DEF SendInv
<1>4. g \in FutureType
  BY DEF FutureOK
<1> QED BY <1>1, <1>2, <1>3, <1>4, StayOK, Assemble

\* When the sender moves, the futures of others follow.
LEMMA OthersOK ==
    ASSUME SendInv, link, NEW f \in Futures, NEW t, NEW C,
           Keeps(snd, t, C, delivered, refused), C \subseteq {fut[f].id} \ {NoSeq},
           NEW h \in Futures \ {f}
    PROVE  FutureOK(Followed(fut[h], snd, t, WokenBy(snd, t, fut[h].id, fut[h].sn)),
                    t, link, delivered, refused)
<1>1. fut[h].id \notin C
  BY DEF SendInv, Unshared
<1>2. NoSeq \notin delivered \cup refused
  BY PeerNumbers DEF SendInv
<1>3. link = TRUE
  BY DEF SendInv, Peer
<1>4. FutureOK(fut[h], snd, TRUE, delivered, refused) /\ SenderOK(snd, delivered, refused)
  BY <1>3 DEF SendInv
<1>5. FutureOK(Followed(fut[h], snd, t, WokenBy(snd, t, fut[h].id, fut[h].sn)),
               t, TRUE, delivered, refused)
  BY <1>1, <1>2, <1>4, FollowOK
<1> QED BY <1>3, <1>5

\* A call that moves the sender, and leaves a future that was in order before.
LEMMA MoveInv ==
    ASSUME SendInv, link, NEW f \in Futures, NEW t, NEW C,
           Keeps(snd, t, C, delivered, refused), C \subseteq {fut[f].id} \ {NoSeq},
           NEW g, Step(t, f, g), UNCHANGED panicked,
           FutureOK(g, snd, link, delivered, refused), g.id \notin C,
           g.id \in {fut[f].id, NoSeq},
           g.parked => g.id = fut[f].id /\ g.sn = fut[f].sn
    PROVE  SendInv'
<1>1. PollsNeverPanic'
  BY DEF SendInv, PollsNeverPanic
<1>2. link = TRUE
  BY DEF SendInv, Peer
<1>3. \A h \in Futures \ {f} :
         FutureOK(Followed(fut[h], snd, t, WokenBy(snd, t, fut[h].id, fut[h].sn)),
                  t, link, delivered, refused)
  BY OthersOK
<1>4. NoSeq \notin delivered \cup refused /\ SenderOK(snd, delivered, refused)
  BY PeerNumbers DEF SendInv
<1>5. FutureOK(g, snd, TRUE, delivered, refused)
  BY <1>2
<1>6. FutureOK(Followed(g, snd, t, WokenBy(snd, t, g.id, g.sn)), t, TRUE, delivered, refused)
  BY <1>4, <1>5, FollowOK
<1>7. Followed(g, snd, t, WokenBy(snd, t, g.id, g.sn))
        = Followed(g, snd, t, WokenBy(snd, t, fut[f].id, fut[f].sn))
  <2>1. CASE g.parked
    BY <2>1
  <2>2. CASE ~g.parked
    <3>1. g.parked = FALSE
      BY <2>2 DEF FutureOK, FutureType
    <3>2. ASSUME NEW w PROVE (g.parked /\ ~w) = FALSE
      BY <3>1
    <3> QED BY <3>2 DEF Followed
  <2> QED BY <2>1, <2>2
<1>8. SenderOK(t, delivered, refused) /\ g \in FutureType
  BY DEF Keeps, FutureOK
<1>9. FutureOK(Followed(g, snd, t, WokenBy(snd, t, fut[f].id, fut[f].sn)),
                    t, link, delivered, refused)
  BY <1>2, <1>6, <1>7
<1> QED BY <1>1, <1>2, <1>3, <1>8, <1>9, Assemble

\* Such a call that cancels nothing.
LEMMA KeepInv ==
    ASSUME SendInv, link, NEW f \in Futures, NEW t, Keeps(snd, t, {}, delivered, refused),
           NEW g, Step(t, f, g), UNCHANGED panicked,
           FutureOK(g, snd, link, delivered, refused), g.id = fut[f].id, g.sn = fut[f].sn
    PROVE  SendInv'
<1> DEFINE C == {}
<1>1. /\ C \subseteq {fut[f].id} \ {NoSeq} /\ g.id \notin C /\ g.id \in {fut[f].id, NoSeq}
      /\ Keeps(snd, t, C, delivered, refused)
  OBVIOUS
<1> HIDE DEF C
<1> QED BY <1>1, MoveInv

-----------------------------------------------------------------------------
(* What calls make of a future.                                            *)

\* A future that changes its kind, is woken or resolves to what has happened.
LEMMA ChangeOK ==
    ASSUME NEW g, NEW h, NEW s, NEW lnk, NEW del, NEW ref,
           FutureOK(g, s, lnk, del, ref), IsLive(g), IsLive(h), h \in FutureType,
           h.id = g.id, h.sn = g.sn, h.packet_id = g.packet_id, h.parked => g.parked,
           h.packet_id = IdCanceled => h.kind = "AckedOrCanceled",
           \/ h.out = g.out
           \/ h.out = "LinkClosed"
           \/ h.out = "Acked" /\ h.sn \in del \cup ref
           \/ h.out = "Canceled" /\ (h.sn \in ref \/ (h.sn = NoSeq /\ h.packet_id = IdCanceled))
    PROVE  FutureOK(h, s, lnk, del, ref)
<1>1. Results(h, del, ref)
  BY DEF FutureOK, Results
<1>2. Place(g, s, del, ref) => Place(h, s, del, ref)
  BY DEF Place
<1>3. Knows(g, s) => Knows(h, s)
  BY DEF Knows
<1>4. Waker(s, g.id, g.sn) => Waker(s, h.id, h.sn)
  OBVIOUS
<1> QED BY <1>1, <1>2, <1>3, <1>4 DEF FutureOK

\* A future that has not been made yet.
LEMMA UnusedFields ==
    /\ Unused \in FutureType
    /\ Unused.kind = "unused" /\ Unused.packet_id = IdAcked /\ Unused.parked = FALSE
    /\ Unused.out = "none" /\ Unused.id = NoSeq /\ Unused.sn = NoSeq
<1>1. IdAcked \in PacketIds /\ "unused" \in Kinds /\ "none" \in Outcomes
  BY DEF PacketIds, Kinds, Outcomes
<1>2. ASSUME NEW b \in BOOLEAN, NEW p \in PacketIds, NEW i \in Nat \cup {NoSeq}
      PROVE  LET u == [kind |-> "unused", packet_id |-> p, parked |-> b, out |-> "none",
                       id |-> i, sn |-> i]
             IN  /\ u \in FutureType
                 /\ u.kind = "unused" /\ u.packet_id = p /\ u.parked = b
                 /\ u.out = "none" /\ u.id = i /\ u.sn = i
  BY <1>1 DEF FutureType
<1> QED BY <1>1, <1>2, Zenon DEF Unused

\* What is left of a future that is dropped, or whose packet was taken back.
LEMMA GoneOK ==
    ASSUME NEW g, NEW s, NEW lnk, NEW del, NEW ref, g \in FutureType,
           Results(g, del, ref) \/ (g.out = "Packet" /\ g.sn = NoSeq)
    PROVE  /\ FutureOK(Gone(g), s, lnk, del, ref)
           /\ Gone(g).id = NoSeq /\ Gone(g).parked = FALSE
<1> DEFINE h == Gone(g)
           n == IF g.out = "none" THEN NoSeq ELSE g.sn
           u == Unused
<1>1. g.out \in Outcomes /\ n \in Nat \cup {NoSeq} /\ "gone" \in Kinds
  BY DEF FutureType, Kinds
<1>2. u \in FutureType /\ u.id = NoSeq /\ u.parked = FALSE
  BY UnusedFields
<1>3. h = [u EXCEPT !.kind = "gone", !.out = g.out, !.sn = n]
  BY DEF Gone
<1> HIDE DEF h, n, u
<1>4. /\ h \in FutureType /\ h.kind = "gone" /\ h.out = g.out /\ h.id = NoSeq
      /\ h.parked = FALSE /\ h.sn = n
  BY <1>1, <1>2, <1>3 DEF FutureType
<1>5. ~IsLive(h)
  BY <1>4 DEF IsLive
<1>6. Results(h, del, ref)
  <2>1. g.out # "none" => h.sn = g.sn
    BY <1>4 DEF n
  <2> QED BY <1>4, <1>5, <2>1 DEF Results
<1>7. FutureOK(h, s, lnk, del, ref) /\ h.id = NoSeq /\ h.parked = FALSE
  BY <1>4, <1>5, <1>6 DEF FutureOK
<1> QED BY <1>7 DEF h

\* What a future that calls its packet Queued can say of it.
LEMMA QueuedFacts ==
    ASSUME SendInv, link, NEW g, FutureOK(g, snd, link, delivered, refused), IsLive(g),
           IsQueued(g)
    PROVE  /\ g.packet_id[2] = g.id /\ g.id \in Nat /\ g.id # NoSeq
           /\ g.packet_id \notin {IdAcked, IdCanceled}
           /\ Place(g, snd, delivered, refused)
           /\ is_sent(snd, g.id) =>
                /\ g.sn # NoSeq
                /\ \/ lookup_seq_num(snd, g.id) = NoSeq /\ g.sn \in delivered \cup refused
                   \/ lookup_seq_num(snd, g.id) = g.sn /\ g.sn \in 0..(snd.next - 1)
           /\ ~is_sent(snd, g.id) => g.id \in Waiting(snd) /\ cancels_queued(snd, g.id)
<1>1. g.packet_id \in PacketIds /\ g.id \in Nat \cup {NoSeq} /\ Counters(snd) /\ Deques(snd)
  BY DEF FutureOK, FutureType, SendInv, SenderOK
<1>2. g.packet_id[1] = "Queued" /\ g.packet_id \notin {IdAcked, IdCanceled}
  BY <1>1, PacketIdForms DEF IsQueued
<1>3. Knows(g, snd) /\ (g.id # NoSeq => Place(g, snd, delivered, refused))
  BY DEF FutureOK
<1>4. /\ g.packet_id[2] = g.id /\ g.id \in Nat /\ g.id # NoSeq
      /\ Place(g, snd, delivered, refused)
  BY <1>1, <1>2, <1>3 DEF Knows
<1>5. ASSUME is_sent(snd, g.id)
      PROVE  /\ g.sn # NoSeq
             /\ \/ lookup_seq_num(snd, g.id) = NoSeq /\ g.sn \in delivered \cup refused
                \/ lookup_seq_num(snd, g.id) = g.sn /\ g.sn \in 0..(snd.next - 1)
  <2>1. g.id < snd.first_blocked
    BY <1>5 DEF is_sent
  <2>2. g.sn # NoSeq
    BY <1>2, <1>4, <2>1 DEF Place
  <2>3. CASE g.id < snd.first_sent
    BY <1>4, <2>1, <2>2, <2>3 DEF Place, lookup_seq_num
  <2>4. CASE ~(g.id < snd.first_sent)
    <3>1. g.id \in SentIds(snd) /\ g.id >= snd.first_sent
      BY <1>1, <1>4, <2>1, <2>4 DEF SentIds, Counters
    <3>2. g.sn = snd.sent[g.id]
      BY <1>4, <2>1, <3>1 DEF Place
    <3> QED BY <1>1, <2>2, <2>4, <3>1, <3>2 DEF lookup_seq_num, Deques
  <2> QED BY <2>2, <2>3, <2>4
<1>6. ASSUME ~is_sent(snd, g.id)
      PROVE  g.id \in Waiting(snd) /\ cancels_queued(snd, g.id)
  <2>1. g.id >= snd.first_blocked
    BY <1>1, <1>4, <1>6 DEF is_sent, Counters
  <2>2. g.id \in Waiting(snd)
    BY <1>2, <1>4, <2>1 DEF Place
  <2> QED BY <2>2 DEF Waiting, cancels_queued
<1> QED BY <1>2, <1>4, <1>5, <1>6

\* The lookup of a packet that was queued finds where it went.
LEMMA AfterTryOK ==
    ASSUME SendInv, NEW g, FutureOK(g, snd, link, delivered, refused), IsLive(g)
    PROVE  LET h == after_try(g)
           IN  /\ FutureOK(h, snd, link, delivered, refused)
               /\ h.id = g.id /\ h.sn = g.sn /\ h.kind = g.kind /\ h.out = g.out
               /\ h.parked = g.parked
               /\ link /\ IsQueued(g) /\ is_sent(snd, g.packet_id[2]) =>
                    h.packet_id = IF lookup_seq_num(snd, g.packet_id[2]) = NoSeq
                                  THEN IdAcked ELSE Sent(g.sn)
               /\ ~(link /\ IsQueued(g) /\ is_sent(snd, g.packet_id[2])) => h = g
<1>1. CASE ~(link /\ IsQueued(g) /\ is_sent(snd, g.packet_id[2]))
  <2>1. after_try(g) = g
    BY <1>1 DEF after_try
  <2> QED BY <1>1, <2>1
<1>2. CASE link /\ IsQueued(g) /\ is_sent(snd, g.packet_id[2])
  <2> DEFINE l == lookup_seq_num(snd, g.id)
             p == update_sent_packet_id(l)
             h == [g EXCEPT !.packet_id = p]
  <2>1. /\ g.packet_id[2] = g.id /\ g.id \in Nat /\ g.sn # NoSeq
        /\ g.packet_id \notin {IdAcked, IdCanceled}
        /\ Place(g, snd, delivered, refused)
        /\ \/ l = NoSeq /\ g.sn \in delivered \cup refused
           \/ l = g.sn /\ g.sn \in 0..(snd.next - 1)
    BY <1>2, QueuedFacts
  <2>2. after_try(g) = h
    BY <1>2, <2>1 DEF after_try
  <2>3. g \in FutureType /\ Counters(snd)
    BY DEF FutureOK, SendInv, SenderOK
  <2>4. p \in PacketIds /\ p # IdCanceled /\ p[1] # "Queued"
        /\ (p = IdAcked => g.sn \in delivered \cup refused)
        /\ (p[1] = "Sent" => p[2] = g.sn /\ g.sn \in 0..(snd.next - 1))
        /\ p = IF l = NoSeq THEN IdAcked ELSE Sent(g.sn)
    BY <2>1, <2>3 DEF update_sent_packet_id, PacketIds, Sent, IdAcked, IdCanceled, Counters
  <2> HIDE DEF p, l
  <2>5. /\ h \in FutureType /\ h.kind = g.kind /\ h.parked = g.parked /\ h.out = g.out
        /\ h.id = g.id /\ h.sn = g.sn /\ h.packet_id = p
    BY <2>3, <2>4 DEF FutureType
  <2> HIDE DEF h
  <2>6. IsLive(h)
    BY <2>5 DEF IsLive
  <2>7. Results(h, delivered, refused)
    BY <2>1, <2>4, <2>5, <2>6 DEF FutureOK, Results
  <2>8. Place(h, snd, delivered, refused)
    BY <2>1, <2>4, <2>5 DEF Place
  <2>9. Knows(h, snd)
    BY <2>4, <2>5 DEF Knows
  <2>10. FutureOK(h, snd, link, delivered, refused)
    BY <2>5, <2>6, <2>7, <2>8, <2>9 DEF FutureOK
  <2>11. h.packet_id = IF lookup_seq_num(snd, g.packet_id[2]) = NoSeq THEN IdAcked ELSE Sent(g.sn)
    BY <2>1, <2>4, <2>5 DEF l
  <2> QED BY <1>2, <2>2, <2>5, <2>10, <2>11
<1> QED BY <1>1, <1>2

-----------------------------------------------------------------------------
(* One lemma per action of the futures.                                    *)

\* A new future, before the sender has taken its packet.
LEMMA NewFields ==
    LET new == [Unused EXCEPT !.kind = "Sent"]
    IN  /\ new \in FutureType /\ new.kind = "Sent" /\ new.parked = FALSE
        /\ new.out = "none" /\ new.id = NoSeq /\ new.sn = NoSeq
<1> DEFINE u == Unused
<1>1. /\ u \in FutureType /\ u.parked = FALSE
      /\ u.out = "none" /\ u.id = NoSeq /\ u.sn = NoSeq
  BY UnusedFields
<1> HIDE DEF u
<1>2. "Sent" \in Kinds
  BY DEF Kinds
<1>3. LET new == [u EXCEPT !.kind = "Sent"]
      IN  /\ new \in FutureType /\ new.kind = "Sent" /\ new.parked = FALSE
          /\ new.out = "none" /\ new.id = NoSeq /\ new.sn = NoSeq
  BY <1>1, <1>2 DEF FutureType
<1> QED BY <1>3 DEF u

\* Sending a packet.
LEMMA SendStep ==
    ASSUME SendInv, NEW f \in Futures, send_mgmt_helper(f)
    PROVE  SendInv'
<1> DEFINE new == [Unused EXCEPT !.kind = "Sent"]
           t == enqueue_packet(snd)
<1>0. /\ new \in FutureType /\ new.kind = "Sent" /\ new.parked = FALSE
      /\ new.out = "none" /\ new.id = NoSeq /\ new.sn = NoSeq
  BY NewFields
<1> HIDE DEF new
<1>1. fut[f].kind = "unused" /\ UNCHANGED panicked
  BY DEF send_mgmt_helper
<1>2. /\ SenderOK(snd, delivered, refused) /\ Counters(snd) /\ Deques(snd)
      /\ snd.next \in Nat /\ snd.next_id \in Nat
  BY DEF SendInv, SenderOK, Counters
<1>3. NoSeq \notin Nat /\ PollsNeverPanic'
  BY <1>1 DEF NoSeq, SendInv, PollsNeverPanic
<1>4. CASE ~link
  <2> DEFINE g == [new EXCEPT !.packet_id = Queued(0)]
  <2>1. Queued(0) \in PacketIds /\ Queued(0) \notin {IdAcked, IdCanceled}
    BY DEF PacketIds, Queued, IdAcked, IdCanceled
  <2>2. Step(snd, f, g)
    BY <1>4 DEF send_mgmt_helper, new
  <2>3. /\ g \in FutureType /\ g.kind = "Sent" /\ g.packet_id = Queued(0) /\ g.parked = FALSE
        /\ g.out = "none" /\ g.id = NoSeq /\ g.sn = NoSeq
    BY <1>0, <2>1 DEF FutureType
  <2> HIDE DEF g
  <2>4. Results(g, delivered, refused) /\ IsLive(g)
    BY <2>1, <2>3 DEF Results, IsLive
  <2>5. FutureOK(g, snd, link, delivered, refused)
    BY <1>4, <2>3, <2>4 DEF FutureOK
  <2> QED BY <1>1, <2>2, <2>3, <2>5, StillInv
<1>5. CASE link
  <2>1. Keeps(snd, t, {}, delivered, refused)
    BY <1>2, EnqueueKeeps
  <2>2. SenderOK(t, delivered, refused) /\ Counters(t)
    BY <2>1 DEF Keeps, SenderOK
  <2>3. \A h \in Futures \ {f} :
           FutureOK(Followed(fut[h], snd, t, WokenBy(snd, t, fut[h].id, fut[h].sn)),
                    t, link, delivered, refused)
    BY <1>5, <2>1, OthersOK
  <2>4. NoSeq \notin Waiting(snd) /\ snd.next_id \notin Waiting(snd)
    BY <1>2 DEF Waiting, BlockedIds, Counters, NoSeq
  <2>5. CASE sends_at_once(snd)
    <3> DEFINE g == [new EXCEPT !.packet_id = Sent(snd.next), !.sn = snd.next]
               w == WokenBy(snd, t, fut[f].id, fut[f].sn)
               h == Followed(g, snd, t, w)
    <3>1. Sent(snd.next) \in PacketIds /\ Sent(snd.next) \notin {IdAcked, IdCanceled}
          /\ Sent(snd.next)[1] = "Sent" /\ Sent(snd.next)[2] = snd.next
      BY <1>2 DEF PacketIds, Sent, IdAcked, IdCanceled
    <3>2. Step(t, f, g)
      BY <1>5, <2>5 DEF send_mgmt_helper, new
    <3>3. /\ g \in FutureType /\ g.kind = "Sent" /\ g.packet_id = Sent(snd.next)
          /\ g.parked = FALSE /\ g.out = "none" /\ g.id = NoSeq /\ g.sn = snd.next
      BY <1>0, <1>2, <3>1 DEF FutureType
    <3>4. t.next = snd.next + 1
      BY <1>2, <2>5, EnqueueKeeps
    <3> HIDE DEF g, w, t
    <3>5. Numbered(g, snd, t) = snd.next
      BY <2>4, <3>3 DEF Numbered
    <3>6. /\ h \in FutureType /\ h.kind = "Sent" /\ h.packet_id = Sent(snd.next)
          /\ h.out = "none" /\ h.id = NoSeq /\ h.sn = snd.next /\ ~h.parked
      BY <1>2, <3>3, <3>5, FollowedFields
    <3> HIDE DEF h
    <3>7. Results(h, delivered, refused) /\ IsLive(h)
      BY <3>1, <3>6 DEF Results, IsLive
    <3>8. Knows(h, t)
      BY <1>2, <3>1, <3>4, <3>6 DEF Knows
    <3>9. FutureOK(h, t, link, delivered, refused)
      BY <3>6, <3>7, <3>8 DEF FutureOK
    <3>10. FutureOK(Followed(g, snd, t, WokenBy(snd, t, fut[f].id, fut[f].sn)),
                    t, link, delivered, refused)
      BY <3>9 DEF h, w
    <3>11. g.id \in {fut[f].id, NoSeq}
      BY <3>3
    <3>12. g \in FutureType
      BY <3>3
    <3> QED BY <1>3, <1>5, <2>2, <2>3, <3>2, <3>10, <3>11, <3>12, Assemble
  <2>6. CASE ~sends_at_once(snd)
    <3> DEFINE p == Queued(snd.next_id)
               g == [new EXCEPT !.packet_id = p, !.id = snd.next_id]
               w == WokenBy(snd, t, fut[f].id, fut[f].sn)
               h == Followed(g, snd, t, w)
    <3>1. /\ p \in PacketIds /\ p \notin {IdAcked, IdCanceled}
          /\ p[1] = "Queued" /\ p[2] = snd.next_id
      BY <1>2 DEF PacketIds, Queued, IdAcked, IdCanceled
    <3>2. Step(t, f, g)
      BY <1>5, <2>6 DEF send_mgmt_helper, new
    <3> HIDE DEF p
    <3>3. /\ g \in FutureType /\ g.kind = "Sent" /\ g.packet_id = p
          /\ g.parked = FALSE /\ g.out = "none" /\ g.id = snd.next_id /\ g.sn = NoSeq
      BY <1>0, <1>2, <3>1 DEF FutureType
    <3>4. /\ t.next_id = snd.next_id + 1 /\ t.first_blocked = snd.first_blocked
          /\ snd.next_id \in Waiting(t)
      BY <1>2, <2>6, EnqueueKeeps
    <3> HIDE DEF g, w, t
    <3>5. Numbered(g, snd, t) = NoSeq
      BY <2>4, <3>3 DEF Numbered
    <3>6. /\ h \in FutureType /\ h.kind = "Sent" /\ h.packet_id = p
          /\ h.out = "none" /\ h.id = snd.next_id /\ h.sn = NoSeq /\ ~h.parked
      BY <1>2, <3>3, <3>5, FollowedFields
    <3> HIDE DEF h
    <3>7. Results(h, delivered, refused) /\ IsLive(h)
      BY <3>1, <3>6, <1>2 DEF Results, IsLive
    <3>8. Knows(h, t)
      BY <1>2, <1>3, <3>1, <3>6 DEF Knows
    <3>9. Place(h, t, delivered, refused)
      <4>1. h.id < t.next_id /\ ~(h.id < t.first_blocked)
        BY <1>2, <3>4, <3>6 DEF Counters
      <4> QED BY <3>1, <3>4, <3>6, <4>1 DEF Place
    <3>10. FutureOK(h, t, link, delivered, refused)
      BY <3>6, <3>7, <3>8, <3>9 DEF FutureOK
    <3>11. FutureOK(Followed(g, snd, t, WokenBy(snd, t, fut[f].id, fut[f].sn)),
                    t, link, delivered, refused)
      BY <3>10 DEF h, w
    <3>12. \A k \in Futures : fut[k].id # g.id
      <4> SUFFICES ASSUME NEW k \in Futures, fut[k].id = snd.next_id PROVE FALSE
        BY <3>3
      <4>1. FutureOK(fut[k], snd, link, delivered, refused)
        BY DEF SendInv
      <4>2. IsLive(fut[k]) /\ fut[k].id # NoSeq
        BY <1>2, <1>3, <4>1 DEF FutureOK, Results
      <4>3. fut[k].id < snd.next_id
        BY <1>5, <4>1, <4>2 DEF FutureOK, Place
      <4> QED BY <1>2, <4>3
    <3>13. g \in FutureType
      BY <3>3
    <3> QED BY <1>3, <1>5, <2>2, <2>3, <3>2, <3>11, <3>12, <3>13, Assemble
  <2> QED BY <2>5, <2>6
<1> QED BY <1>4, <1>5

\* Converting a future.
LEMMA ConvertStep ==
    ASSUME SendInv, NEW f \in Futures, Convert(f)
    PROVE  SendInv'
<1>1. PICK k \in {"Acked", "AckedOrCanceled"} :
         /\ fut[f].kind \in {"Sent", "Acked"}
         /\ fut' = [fut EXCEPT ![f].kind = k]
  BY DEF Convert
<1> DEFINE h == [fut[f] EXCEPT !.kind = k]
<1>2. /\ snd' = snd /\ link' = link /\ delivered' = delivered /\ refused' = refused
      /\ panicked' = panicked
  BY DEF Convert
<1>3. fut = [x \in Futures |-> fut[x]] /\ FutureOK(fut[f], snd, link, delivered, refused)
  BY DEF SendInv
<1>4. fut' = [x \in Futures |-> fut'[x]] /\ fut'[f] = h
      /\ \A x \in Futures \ {f} : fut'[x] = fut[x]
  BY <1>1, <1>3
<1>5. fut[f] \in FutureType /\ k \in Kinds /\ IsLive(fut[f]) /\ fut[f].packet_id # IdCanceled
  BY <1>1, <1>3 DEF FutureOK, Kinds, IsLive, Results
<1>6. /\ h \in FutureType /\ h.kind = k /\ h.parked = fut[f].parked /\ h.out = fut[f].out
      /\ h.id = fut[f].id /\ h.sn = fut[f].sn /\ h.packet_id = fut[f].packet_id
  BY <1>5 DEF FutureType
<1> HIDE DEF h
<1>7. IsLive(h)
  BY <1>6 DEF IsLive
<1>8. FutureOK(h, snd, link, delivered, refused)
  BY <1>3, <1>5, <1>6, <1>7, ChangeOK
<1>9. \A x \in Futures : FutureOK(fut'[x], snd, link, delivered, refused)
  BY <1>4, <1>8 DEF SendInv
<1>10. \A x \in Futures : fut'[x].id = fut[x].id
  BY <1>4, <1>6
<1>11. Unshared' /\ Peer' /\ PollsNeverPanic'
  BY <1>2, <1>10 DEF SendInv, Unshared, Peer, PollsNeverPanic
<1> QED BY <1>2, <1>4, <1>9, <1>11 DEF SendInv

\* A panic of one of the calls that may panic leaves all as it was.
LEMMA PanicStep ==
    ASSUME SendInv, panicked = {}, NEW site \in {"try_cancel", "request_cancel"}, Panic(site)
    PROVE  SendInv'
<1>1. /\ snd' = snd /\ link' = link /\ delivered' = delivered /\ refused' = refused
      /\ fut' = fut /\ panicked' = {site}
  BY DEF Panic
<1> QED BY <1>1 DEF SendInv, Unshared, Peer, PollsNeverPanic

\* Sent::try_cancel.
LEMMA TryCancelStep ==
    ASSUME SendInv, panicked = {}, NEW f \in Futures, try_cancel(f)
    PROVE  SendInv'
<1> DEFINE g == fut[f]
           s == cancel_queued_packet(snd, g.packet_id[2])
<1>1. /\ FutureOK(g, snd, link, delivered, refused) /\ g \in FutureType /\ IsLive(g)
      /\ g.kind = "Sent" /\ SenderOK(snd, delivered, refused)
  BY DEF SendInv, FutureOK, try_cancel, IsLive
<1>2. CASE try_cancels(g) /\ ~is_sent(s, g.packet_id[2]) /\ Panic("try_cancel")
  BY <1>2, PanicStep
<1>3. CASE lookup_panics(g) /\ Panic("try_cancel")
  BY <1>3, PanicStep
<1>4. CASE /\ try_cancels(g) /\ UNCHANGED panicked
           /\ Step(s, f, Gone([g EXCEPT !.out = "Packet"]))
  <2> DEFINE k == [g EXCEPT !.out = "Packet"]
  <2>1. link /\ IsQueued(g) /\ cancels_queued(snd, g.packet_id[2])
    BY <1>4 DEF try_cancels
  <2>2. g.packet_id[2] = g.id /\ g.id # NoSeq /\ Place(g, snd, delivered, refused)
    BY <1>1, <2>1, QueuedFacts
  <2>3. g.sn = NoSeq
    BY <1>1, <2>1, <2>2 DEF cancels_queued, BlockedIds, Place, SenderOK, Counters
  <2>4. k \in FutureType /\ k.out = "Packet" /\ k.sn = NoSeq
    BY <1>1, <2>3 DEF FutureType, Outcomes
  <2> HIDE DEF k
  <2>5. /\ FutureOK(Gone(k), snd, link, delivered, refused)
        /\ Gone(k).id = NoSeq /\ Gone(k).parked = FALSE
    BY <2>4, GoneOK
  <2>6. Keeps(snd, s, {g.id}, delivered, refused)
    BY <1>1, <2>1, <2>2, CancelQueuedKeeps
  <2>7. Step(s, f, Gone(k)) /\ UNCHANGED panicked
    BY <1>4 DEF k
  <2> DEFINE d == Gone(k)
             C == {g.id}
  <2>8. /\ C \subseteq {fut[f].id} \ {NoSeq} /\ d.id \notin C /\ d.id \in {fut[f].id, NoSeq}
        /\ d.parked => d.id = fut[f].id /\ d.sn = fut[f].sn
    BY <2>2, <2>5
  <2> HIDE DEF s, d, C
  <2>9. /\ Keeps(snd, s, C, delivered, refused) /\ FutureOK(d, snd, link, delivered, refused)
        /\ Step(s, f, d) /\ UNCHANGED panicked
    BY <2>5, <2>6, <2>7 DEF C, d
  <2> QED BY <2>1, <2>8, <2>9, MoveInv
<1>5. CASE Step(snd, f, [after_try(g) EXCEPT !.kind = "Acked"]) /\ UNCHANGED panicked
  <2> DEFINE h == after_try(g)
             k == [h EXCEPT !.kind = "Acked"]
  <2>1. /\ FutureOK(h, snd, link, delivered, refused)
        /\ h.id = g.id /\ h.kind = "Sent"
    BY <1>1, AfterTryOK
  <2> HIDE DEF h
  <2>2. h \in FutureType /\ IsLive(h) /\ h.packet_id # IdCanceled
    BY <2>1 DEF FutureOK, IsLive, Results
  <2>3. /\ k \in FutureType /\ k.kind = "Acked" /\ k.parked = h.parked /\ k.out = h.out
        /\ k.id = h.id /\ k.sn = h.sn /\ k.packet_id = h.packet_id
    BY <2>2 DEF FutureType, Kinds
  <2>4. Step(snd, f, k)
    BY <1>5 DEF h
  <2> HIDE DEF k
  <2>5. IsLive(k)
    BY <2>3 DEF IsLive
  <2>6. FutureOK(k, snd, link, delivered, refused)
    BY <2>1, <2>2, <2>3, <2>5, ChangeOK
  <2> QED BY <1>5, <2>1, <2>3, <2>4, <2>6, StillInv
<1> QED BY <1>2, <1>3, <1>4, <1>5 DEF try_cancel

\* request_cancel of any of the three futures.
LEMMA RequestCancelStep ==
    ASSUME SendInv, panicked = {}, NEW f \in Futures, request_cancel(f)
    PROVE  SendInv'
<1> DEFINE g == fut[f]
           a == after_try(g)
           h == [a EXCEPT !.kind = "AckedOrCanceled"]
           s == cancel_queued_packet(snd, g.packet_id[2])
<1>1. /\ FutureOK(g, snd, link, delivered, refused) /\ g \in FutureType /\ IsLive(g)
      /\ SenderOK(snd, delivered, refused)
  BY DEF SendInv, FutureOK, request_cancel, IsLive, Live
<1>2. /\ FutureOK(a, snd, link, delivered, refused)
      /\ a.id = g.id /\ a.sn = g.sn /\ a.kind = g.kind /\ a.out = g.out /\ a.parked = g.parked
      /\ ~(link /\ IsQueued(g) /\ is_sent(snd, g.packet_id[2])) => a = g
  BY <1>1, AfterTryOK
<1>3. CASE Panic("request_cancel")
  BY <1>3, PanicStep
<1> HIDE DEF a
<1>4. a \in FutureType /\ IsLive(a)
  BY <1>1, <1>2 DEF FutureOK, IsLive
<1>5. /\ h \in FutureType /\ h.kind = "AckedOrCanceled" /\ h.parked = a.parked
      /\ h.out = a.out /\ h.id = a.id /\ h.sn = a.sn /\ h.packet_id = a.packet_id
  BY <1>4 DEF FutureType, Kinds
<1>6. CASE Step(snd, f, [g EXCEPT !.kind = "AckedOrCanceled"]) /\ UNCHANGED panicked
  <2> DEFINE k == [g EXCEPT !.kind = "AckedOrCanceled"]
  <2>1. /\ k \in FutureType /\ k.kind = "AckedOrCanceled" /\ k.parked = g.parked
        /\ k.out = g.out /\ k.id = g.id /\ k.sn = g.sn /\ k.packet_id = g.packet_id
    BY <1>1 DEF FutureType, Kinds
  <2>2. Step(snd, f, k) /\ UNCHANGED panicked
    BY <1>6
  <2> HIDE DEF k
  <2>3. IsLive(k)
    BY <2>1 DEF IsLive
  <2>4. FutureOK(k, snd, link, delivered, refused)
    BY <1>1, <2>1, <2>3, ChangeOK
  <2> QED BY <2>1, <2>2, <2>4, StillInv
<1>7. CASE /\ link /\ try_cancels(g) /\ UNCHANGED panicked
           /\ Step(s, f, [h EXCEPT !.packet_id = IdCanceled])
  <2> DEFINE k == [h EXCEPT !.packet_id = IdCanceled]
             w == WokenBy(snd, s, g.id, g.sn)
             r == Followed(k, snd, s, w)
  <2>1. link /\ IsQueued(g) /\ cancels_queued(snd, g.packet_id[2])
    BY <1>7 DEF try_cancels
  <2>2. /\ g.packet_id[2] = g.id /\ g.id # NoSeq /\ g.id \in Nat
        /\ Place(g, snd, delivered, refused) /\ g.packet_id \notin {IdAcked, IdCanceled}
    BY <1>1, <2>1, QueuedFacts
  <2>3. g.sn = NoSeq /\ g.id \in BlockedIds(snd)
    BY <1>1, <2>1, <2>2 DEF cancels_queued, BlockedIds, Place, SenderOK, Counters
  <2>4. Keeps(snd, s, {g.id}, delivered, refused)
    BY <1>1, <2>1, <2>2, CancelQueuedKeeps
  <2>5. Step(s, f, k) /\ UNCHANGED panicked
    BY <1>7
  <2>6. /\ k \in FutureType /\ k.kind = "AckedOrCanceled" /\ k.parked = g.parked
        /\ k.out = g.out /\ k.id = g.id /\ k.sn = NoSeq /\ k.packet_id = IdCanceled
    <3>1. IdCanceled \in PacketIds
      BY DEF PacketIds
    <3> HIDE DEF h
    <3> QED BY <1>2, <1>5, <2>3, <3>1 DEF FutureType
  <2> HIDE DEF k, s, w
  <2>7. SenderOK(s, delivered, refused) /\ Counters(s) /\ Deques(s) /\ DOMAIN s.sent = SentIds(s)
    BY <2>4 DEF Keeps, SenderOK, Deques
  <2>8. /\ \/ g.id \in BlockedIds(s) \ Waiting(s)
           \/ g.id \in SentIds(s) /\ s.sent[g.id] = NoSeq
        /\ g.id < s.next_id
    BY <1>1, <2>2, <2>3, <2>4, <2>7 DEF Keeps, Counters, SenderOK, BlockedIds
  <2>9. g.id \in DOMAIN s.sent => g.id \in SentIds(s) /\ s.sent[g.id] = NoSeq
    BY <2>7, <2>8 DEF BlockedIds, SentIds, Counters
  <2>10. Numbered(k, snd, s) = NoSeq
    BY <2>6, <2>9 DEF Numbered
  <2>11. /\ r \in FutureType /\ r.kind = "AckedOrCanceled" /\ r.packet_id = IdCanceled
         /\ r.out = g.out /\ r.id = g.id /\ r.sn = NoSeq /\ (r.parked <=> g.parked /\ ~w)
    BY <2>6, <2>10, FollowedFields
  <2> HIDE DEF r
  <2>12. IsLive(r)
    BY <2>11 DEF IsLive
  <2>13. Results(r, delivered, refused)
    <3>1. g.out \notin {"Acked", "Packet"} /\ NoSeq \notin delivered \cup refused
      BY <1>1, <2>3, PeerNumbers DEF FutureOK, Results, SendInv
    <3>2. IdCanceled # IdAcked
      BY DEF IdCanceled, IdAcked
    <3> QED BY <2>11, <2>12, <3>1, <3>2 DEF Results
  <2>14. Knows(r, s)
    BY <2>11 DEF Knows, IdCanceled
  <2>15. Place(r, s, delivered, refused)
    <3>1. CASE g.id \in BlockedIds(s) \ Waiting(s)
      <4>1. ~(g.id < s.first_blocked)
        BY <2>7, <3>1 DEF BlockedIds, Counters
      <4> QED BY <2>8, <2>11, <3>1, <4>1 DEF Place
    <3>2. CASE g.id \in SentIds(s) /\ s.sent[g.id] = NoSeq
      <4>1. ~(g.id >= s.first_blocked) /\ ~(g.id < s.first_sent)
        BY <2>7, <3>2 DEF SentIds, Counters
      <4> QED BY <2>8, <2>11, <3>2, <4>1 DEF Place
    <3> QED BY <2>8, <3>1, <3>2
  <2>16. g.parked => w
    <3> SUFFICES ASSUME g.parked PROVE w
      OBVIOUS
    <3>1. Waker(snd, g.id, g.sn)
      BY <1>1 DEF FutureOK
    <3>2. g.id \in Waiting(snd)
      BY <2>1, <2>2 DEF cancels_queued, Waiting
    <3>3. g.id \notin Waiting(s)
      BY <2>7, <2>8 DEF Waiting, BlockedIds, SentIds, Counters
    <3> QED BY <3>1, <3>2, <3>3 DEF w, WokenBy
  <2>17. FutureOK(r, s, link, delivered, refused)
    BY <2>11, <2>12, <2>13, <2>14, <2>15, <2>16 DEF FutureOK
  <2>18. FutureOK(Followed(k, snd, s, WokenBy(snd, s, fut[f].id, fut[f].sn)),
                  s, link, delivered, refused)
    BY <2>17 DEF r, w
  <2>19. \A x \in Futures \ {f} :
           FutureOK(Followed(fut[x], snd, s, WokenBy(snd, s, fut[x].id, fut[x].sn)),
                    s, link, delivered, refused)
    BY <2>1, <2>2, <2>4, OthersOK
  <2>20. PollsNeverPanic' /\ k \in FutureType /\ k.id \in {fut[f].id, NoSeq}
    BY <2>5, <2>6 DEF SendInv, PollsNeverPanic
  <2> QED BY <2>1, <2>5, <2>7, <2>18, <2>19, <2>20, Assemble
<1>8. CASE /\ link /\ Step(cancel_sent_packet(snd, h.packet_id[2]), f, h)
           /\ UNCHANGED panicked
  <2> DEFINE t == cancel_sent_packet(snd, h.packet_id[2])
  <2>1. Keeps(snd, t, {}, delivered, refused)
    BY <1>1, EntryOps
  <2>2. Step(t, f, h) /\ UNCHANGED panicked
    BY <1>8
  <2> HIDE DEF h, t
  <2>3. IsLive(h)
    BY <1>5 DEF IsLive
  <2>4. FutureOK(h, snd, link, delivered, refused)
    BY <1>2, <1>4, <1>5, <2>3, ChangeOK
  <2> QED BY <1>2, <1>5, <1>8, <2>1, <2>2, <2>4, MoveInv
<1>9. \/ Panic("request_cancel")
      \/ Step(snd, f, [g EXCEPT !.kind = "AckedOrCanceled"]) /\ UNCHANGED panicked
      \/ /\ link /\ try_cancels(g) /\ UNCHANGED panicked
         /\ Step(s, f, [h EXCEPT !.packet_id = IdCanceled])
      \/ /\ link /\ Step(cancel_sent_packet(snd, h.packet_id[2]), f, h)
         /\ UNCHANGED panicked
  <2> DEFINE c1 == ~link \/ g.packet_id \in {IdAcked, IdCanceled}
             c2 == link /\ try_cancels(g)
             c3 == link /\ IsQueued(g) /\ ~try_cancels(g) /\ h.packet_id[1] # "Sent"
             a1 == Step(snd, f, [g EXCEPT !.kind = "AckedOrCanceled"]) /\ UNCHANGED panicked
             a2 == /\ Step(s, f, [h EXCEPT !.packet_id = IdCanceled]) /\ UNCHANGED panicked
             a3 == Panic("request_cancel")
             a4 == Step(cancel_sent_packet(snd, h.packet_id[2]), f, h) /\ UNCHANGED panicked
  <2>1. (CASE c1 -> a1 [] c2 -> a2 [] c3 -> a3 [] OTHER -> a4)
    BY DEF request_cancel, a
  <2>2. ~(c1 /\ c2)
    BY DEF try_cancels, IsQueued, IdAcked, IdCanceled
  <2>3. ~c1 => link
    OBVIOUS
  <2> HIDE DEF c1, c2, c3, a1, a2, a3, a4
  <2>4. a1 \/ (c2 /\ a2) \/ a3 \/ (~c1 /\ a4)
    BY <2>1
  <2> QED BY <2>3, <2>4 DEF c2, a1, a2, a3, a4
<1> QED BY <1>3, <1>6, <1>7, <1>8, <1>9

\* limit_retries of any of the three futures.
LEMMA LimitRetriesStep ==
    ASSUME SendInv, NEW f \in Futures, NEW limit, limit_retries_of(f, limit)
    PROVE  SendInv'
<1> DEFINE g == fut[f]
           h == [g EXCEPT !.kind = "AckedOrCanceled"]
           q == limit_retries_by_id(snd, g.packet_id[2], limit)
           n == limit_retries_by_seq_num(snd, g.packet_id[2], limit)
           c1 == ~link \/ g.packet_id \in {IdAcked, IdCanceled}
           c2 == link /\ IsQueued(g)
           s == CASE c1 -> snd [] c2 -> q [] OTHER -> n
<1>1. /\ FutureOK(g, snd, link, delivered, refused) /\ g \in FutureType /\ IsLive(g)
      /\ SenderOK(snd, delivered, refused)
  BY DEF SendInv, FutureOK, limit_retries_of, IsLive, Live
<1>2. Step(s, f, h) /\ UNCHANGED panicked
  BY DEF limit_retries_of
<1>3. Keeps(snd, q, {}, delivered, refused) /\ Keeps(snd, n, {}, delivered, refused)
  BY <1>1, BlockedOps, EntryOps
<1>4. s = snd \/ (link /\ s \in {q, n})
  <2>1. (~c1 => link) /\ (c2 => link)
    OBVIOUS
  <2> HIDE DEF c1, c2, q, n
  <2> QED BY <2>1
<1> HIDE DEF s
<1>5. /\ h \in FutureType /\ h.kind = "AckedOrCanceled" /\ h.parked = g.parked
      /\ h.out = g.out /\ h.id = g.id /\ h.sn = g.sn /\ h.packet_id = g.packet_id
  BY <1>1 DEF FutureType, Kinds
<1> HIDE DEF h
<1>6. IsLive(h)
  BY <1>5 DEF IsLive
<1>7. FutureOK(h, snd, link, delivered, refused)
  BY <1>1, <1>5, <1>6, ChangeOK
<1>8. CASE s = snd
  BY <1>2, <1>5, <1>7, <1>8, StillInv
<1>9. CASE link /\ s \in {q, n}
  <2>1. Keeps(snd, s, {}, delivered, refused)
    BY <1>3, <1>9
  <2> QED BY <1>2, <1>5, <1>7, <1>9, <2>1, KeepInv
<1> QED BY <1>4, <1>8, <1>9

-----------------------------------------------------------------------------
(* Polling.                                                                *)

\* A poll that returns Pending leaves the waker where the packet is.
LEMMA PendStep ==
    ASSUME SendInv, link, NEW f \in Futures, NEW t, NEW g,
           FutureOK(g, snd, link, delivered, refused), IsLive(g), g.id = fut[f].id,
           Keeps(snd, t, {}, delivered, refused), Waiting(t) = Waiting(snd),
           Waker(t, g.id, g.sn), Pend(f, g, t)
    PROVE  SendInv'
<1> DEFINE k == [g EXCEPT !.parked = TRUE]
           o == [g EXCEPT !.parked = FALSE]
           w == WokenBy(snd, t, fut[f].id, fut[f].sn)
           v == WokenBy(snd, t, o.id, o.sn)
           r == Followed(k, snd, t, w)
           p == Followed(o, snd, t, v)
<1>1. link = TRUE /\ NoSeq \notin delivered \cup refused /\ SenderOK(snd, delivered, refused)
  BY PeerNumbers DEF SendInv, Peer
<1>2. g \in FutureType
  BY DEF FutureOK
<1>3. ASSUME NEW b \in BOOLEAN
      PROVE  LET z == [g EXCEPT !.parked = b]
             IN  /\ z \in FutureType /\ z.kind = g.kind /\ z.parked = b /\ z.out = g.out
                 /\ z.id = g.id /\ z.sn = g.sn /\ z.packet_id = g.packet_id
  BY <1>2 DEF FutureType
<1>4. /\ k \in FutureType /\ k.kind = g.kind /\ k.parked = TRUE /\ k.out = g.out
      /\ k.id = g.id /\ k.sn = g.sn /\ k.packet_id = g.packet_id
  BY <1>3, Zenon
<1>5. /\ o \in FutureType /\ o.kind = g.kind /\ o.parked = FALSE /\ o.out = g.out
      /\ o.id = g.id /\ o.sn = g.sn /\ o.packet_id = g.packet_id
  BY <1>3, Zenon
<1>6. Step(t, f, k) /\ UNCHANGED panicked
  BY DEF Pend
<1> HIDE DEF k, o, w, v
<1>7. IsLive(o)
  BY <1>5 DEF IsLive
<1>8. g.packet_id = IdCanceled => g.kind = "AckedOrCanceled"
  BY DEF FutureOK, Results
<1>9. FutureOK(o, snd, TRUE, delivered, refused)
  BY <1>1, <1>5, <1>7, <1>8, ChangeOK
<1>10. FutureOK(p, t, TRUE, delivered, refused)
  BY <1>1, <1>9, FollowOK DEF v
<1>11. Numbered(k, snd, t) = g.sn /\ Numbered(o, snd, t) = g.sn /\ g.sn \in Nat \cup {NoSeq}
  BY <1>2, <1>4, <1>5 DEF Numbered, FutureType
<1>12. /\ r \in FutureType /\ r.kind = g.kind /\ r.packet_id = g.packet_id
       /\ r.out = g.out /\ r.id = g.id /\ r.sn = g.sn
  BY <1>4, <1>11, FollowedFields
<1>13. /\ p \in FutureType /\ p.kind = g.kind /\ p.packet_id = g.packet_id
       /\ p.out = g.out /\ p.id = g.id /\ p.sn = g.sn
  BY <1>5, <1>11, FollowedFields
<1> HIDE DEF r, p
<1>14. IsLive(r) /\ IsLive(p)
  BY <1>12, <1>13 DEF IsLive
<1>15. Results(r, delivered, refused)
  BY <1>10, <1>12, <1>13, <1>14 DEF FutureOK, Results
<1>16. Knows(r, t) /\ (r.id # NoSeq => Place(r, t, delivered, refused))
  <2>1. Knows(p, t) => Knows(r, t)
    BY <1>12, <1>13 DEF Knows
  <2>2. Place(p, t, delivered, refused) => Place(r, t, delivered, refused)
    BY <1>12, <1>13 DEF Place
  <2> QED BY <1>10, <1>12, <1>13, <1>14, <2>1, <2>2 DEF FutureOK
<1>17. FutureOK(r, t, link, delivered, refused)
  BY <1>12, <1>14, <1>15, <1>16 DEF FutureOK
<1>18. FutureOK(Followed(k, snd, t, WokenBy(snd, t, fut[f].id, fut[f].sn)),
                t, link, delivered, refused)
  BY <1>17 DEF r, w
<1>19. \A x \in Futures \ {f} :
         FutureOK(Followed(fut[x], snd, t, WokenBy(snd, t, fut[x].id, fut[x].sn)),
                  t, link, delivered, refused)
  BY OthersOK
<1>20. PollsNeverPanic' /\ SenderOK(t, delivered, refused) /\ k.id \in {fut[f].id, NoSeq}
  BY <1>4, <1>6 DEF SendInv, PollsNeverPanic, Keeps
<1> QED BY <1>4, <1>6, <1>18, <1>19, <1>20, Assemble

\* A poll that is Ready with what has happened.
LEMMA ResolveStep ==
    ASSUME SendInv, NEW f \in Futures, NEW g, NEW out,
           FutureOK(g, snd, link, delivered, refused), IsLive(g), g.id = fut[f].id,
           \/ out = "LinkClosed"
           \/ out = "Acked" /\ g.sn \in delivered \cup refused
           \/ out = "Canceled" /\ (g.sn \in refused \/ (g.sn = NoSeq /\ g.packet_id = IdCanceled)),
           Resolve(f, g, out)
    PROVE  SendInv'
<1> DEFINE k == [g EXCEPT !.out = out, !.parked = FALSE]
<1>1. g \in FutureType /\ out \in Outcomes
  BY DEF FutureOK, Outcomes
<1>2. ASSUME NEW b \in BOOLEAN
      PROVE  LET z == [g EXCEPT !.out = out, !.parked = b]
             IN  /\ z \in FutureType /\ z.kind = g.kind /\ z.parked = b /\ z.out = out
                 /\ z.id = g.id /\ z.sn = g.sn /\ z.packet_id = g.packet_id
  BY <1>1 DEF FutureType
<1>3. /\ k \in FutureType /\ k.kind = g.kind /\ k.parked = FALSE /\ k.out = out
      /\ k.id = g.id /\ k.sn = g.sn /\ k.packet_id = g.packet_id
  BY <1>2, Zenon
<1>4. Step(snd, f, k) /\ UNCHANGED panicked
  BY DEF Resolve
<1> HIDE DEF k
<1>5. IsLive(k)
  BY <1>3 DEF IsLive
<1>6. g.packet_id = IdCanceled => g.kind = "AckedOrCanceled"
  BY DEF FutureOK, Results
<1>7. FutureOK(k, snd, link, delivered, refused)
  BY <1>3, <1>5, <1>6, ChangeOK
<1> QED BY <1>3, <1>4, <1>7, StillInv

\* Registering a waker leaves every packet where it is.
LEMMA WakerSet ==
    ASSUME NEW s, NEW del, NEW ref, SenderOK(s, del, ref), NEW id, NEW sn
    PROVE  /\ Waiting(poll_send(s, id)) = Waiting(s) /\ Waiting(poll_ack(s, sn)) = Waiting(s)
           /\ id \in Waiting(s) => poll_send(s, id).blocked[id].waker
           /\ sn \in SeqNums(s) /\ Outstanding(s.unacked[sn]) =>
                LET t == poll_ack(s, sn)
                IN  sn \in SeqNums(t) /\ Outstanding(t.unacked[sn]) /\ t.unacked[sn].waker
<1>1. Counters(s) /\ Deques(s)
  BY DEF SenderOK
<1>2. ASSUME id \in Waiting(s)
      PROVE  /\ Waiting(poll_send(s, id)) = Waiting(s)
             /\ poll_send(s, id).blocked[id].waker
  <2> DEFINE t == poll_send(s, id)
             c == [s.blocked[id] EXCEPT !.waker = TRUE]
  <2>1. id \in BlockedIds(s) /\ s.blocked[id].st = "Blocked"
    BY <1>2 DEF Waiting
  <2>2. IsBlockedState(s.blocked[id])
    BY <1>1, <2>1 DEF Deques
  <2>3. c.st = "Blocked" /\ c.waker
    BY <2>1, <2>2 DEF IsBlockedState
  <2>4. t = [s EXCEPT !.blocked = [s.blocked EXCEPT ![id] = c]]
    BY <1>2 DEF poll_send
  <2> HIDE DEF c, t
  <2>5. /\ t.blocked = [s.blocked EXCEPT ![id] = c]
        /\ t.first_blocked = s.first_blocked /\ t.next_id = s.next_id
    BY <1>1, <2>4 DEF Counters
  <2>6. BlockedIds(t) = BlockedIds(s)
    BY <2>5 DEF BlockedIds
  <2>7. \A i \in BlockedIds(s) : t.blocked[i] = IF i = id THEN c ELSE s.blocked[i]
    BY <1>1, <2>5 DEF Deques
  <2>8. Waiting(t) = Waiting(s)
    BY <2>1, <2>3, <2>6, <2>7 DEF Waiting
  <2>9. t.blocked[id].waker
    BY <2>1, <2>3, <2>7
  <2> QED BY <2>8, <2>9 DEF t
<1>3. id \notin Waiting(s) => poll_send(s, id) = s
  BY DEF poll_send
<1>4. ASSUME sn \in SeqNums(s), Outstanding(s.unacked[sn])
      PROVE  LET t == poll_ack(s, sn)
             IN  /\ Waiting(t) = Waiting(s) /\ sn \in SeqNums(t)
                 /\ Outstanding(t.unacked[sn]) /\ t.unacked[sn].waker
  <2> DEFINE t == poll_ack(s, sn)
             e == [s.unacked[sn] EXCEPT !.waker = TRUE]
  <2>2. IsUnackedState(s.unacked[sn])
    BY <1>1, <1>4 DEF Deques
  <2>3. e.st = s.unacked[sn].st /\ e.waker
    BY <2>2 DEF IsUnackedState
  <2>4. t = [s EXCEPT !.unacked = [s.unacked EXCEPT ![sn] = e]]
    BY <1>4 DEF poll_ack
  <2> HIDE DEF e, t
  <2>5. /\ t.unacked = [s.unacked EXCEPT ![sn] = e] /\ t.blocked = s.blocked
        /\ t.base = s.base /\ t.next = s.next
        /\ t.first_blocked = s.first_blocked /\ t.next_id = s.next_id
    BY <1>1, <2>4 DEF Counters
  <2>6. BlockedIds(t) = BlockedIds(s) /\ SeqNums(t) = SeqNums(s)
    BY <2>5 DEF BlockedIds, SeqNums
  <2>7. t.unacked[sn] = e
    BY <1>1, <1>4, <2>5 DEF Deques
  <2>8. Waiting(t) = Waiting(s)
    BY <2>5, <2>6 DEF Waiting
  <2>9. Outstanding(t.unacked[sn])
    BY <1>4, <2>3, <2>7 DEF Outstanding
  <2> QED BY <1>4, <2>3, <2>6, <2>7, <2>8, <2>9 DEF t
<1>5. ~(sn \in SeqNums(s) /\ Outstanding(s.unacked[sn])) => poll_ack(s, sn) = s
  BY DEF poll_ack
<1> QED BY <1>2, <1>3, <1>4, <1>5

\* A future that knows the sequence number of its packet waits for the answer,
\* or learns it.
LEMMA AnswerStep ==
    ASSUME SendInv, link, NEW f \in Futures, NEW g, NEW sn,
           FutureOK(g, snd, link, delivered, refused), IsLive(g), g.id = fut[f].id,
           g.packet_id = Sent(sn), poll_answer(f, g, sn)
    PROVE  SendInv'
<1>1. SenderOK(snd, delivered, refused) /\ Counters(snd) /\ Decided(snd, delivered, refused)
  BY DEF SendInv, SenderOK
<1>2. g.sn = sn /\ sn \in 0..(snd.next - 1)
  <2>1. g.packet_id[1] = "Sent" /\ g.packet_id[2] = sn
    BY DEF Sent
  <2> QED BY <2>1 DEF FutureOK, Knows
<1>3. CASE ~AckReady(snd, sn)
  <2> DEFINE t == poll_ack(snd, sn)
  <2>1. sn \in SeqNums(snd) /\ Outstanding(snd.unacked[sn])
    BY <1>3 DEF AckReady
  <2>2. /\ Waiting(t) = Waiting(snd) /\ sn \in SeqNums(t) /\ Outstanding(t.unacked[sn])
        /\ t.unacked[sn].waker
    BY <1>1, <2>1, WakerSet
  <2>3. Keeps(snd, t, {}, delivered, refused)
    BY <1>1, EntryOps
  <2>4. Pend(f, g, t)
    BY <1>3 DEF poll_answer
  <2> HIDE DEF t
  <2>5. Waker(t, g.id, g.sn)
    BY <1>2, <2>2 DEF Waker
  <2> QED BY <2>2, <2>3, <2>4, <2>5, PendStep
<1>4. CASE AckReady(snd, sn)
  <2>1. ~(sn \in SeqNums(snd) /\ Outstanding(snd.unacked[sn]))
    BY <1>4 DEF AckReady
  <2>2. g.sn \in delivered \cup refused
    <3>1. CASE sn \in SeqNums(snd)
      BY <1>1, <1>2, <2>1, <3>1 DEF Decided
    <3>2. CASE sn \notin SeqNums(snd)
      <4>1. sn \in 0..(snd.base - 1)
        BY <1>1, <1>2, <3>2 DEF SeqNums, Counters
      <4> QED BY <1>1, <1>2, <4>1 DEF Decided
    <3> QED BY <3>1, <3>2
  <2>3. is_cancel_acked(snd, sn) => g.sn \in refused
    BY <1>1, <1>2 DEF is_cancel_acked, Decided
  <2> DEFINE o == IF is_cancel_acked(snd, sn) THEN "Canceled" ELSE "Acked"
  <2>4. Resolve(f, g, "Acked") \/ Resolve(f, g, o)
    BY <1>4, <2>1 DEF poll_answer
  <2>5. o = "Acked" \/ (o = "Canceled" /\ g.sn \in refused)
    BY <2>3
  <2> HIDE DEF o
  <2>6. CASE Resolve(f, g, "Acked")
    BY <2>2, <2>6, ResolveStep
  <2>7. CASE Resolve(f, g, "Canceled") /\ g.sn \in refused
    BY <2>7, ResolveStep
  <2> QED BY <2>4, <2>5, <2>6, <2>7
<1> QED BY <1>3, <1>4

\* A future whose packet waits is parked with it.
LEMMA WaitStep ==
    ASSUME SendInv, link, NEW f \in Futures, IsLive(fut[f]), IsQueued(fut[f]),
           fut[f].packet_id[2] \in Waiting(snd),
           Pend(f, fut[f], poll_send(snd, fut[f].packet_id[2]))
    PROVE  SendInv'
<1> DEFINE g == fut[f]
           t == poll_send(snd, g.packet_id[2])
<1>1. FutureOK(g, snd, link, delivered, refused) /\ SenderOK(snd, delivered, refused)
  BY DEF SendInv
<1>2. g.packet_id[2] = g.id
  BY <1>1, QueuedFacts
<1>3. Keeps(snd, t, {}, delivered, refused) /\ Waiting(t) = Waiting(snd) /\ t.blocked[g.id].waker
  BY <1>1, <1>2, BlockedOps, WakerSet
<1>4. Pend(f, g, t)
  OBVIOUS
<1> HIDE DEF t
<1>5. Waker(t, g.id, g.sn)
  BY <1>2, <1>3 DEF Waker
<1> QED BY <1>1, <1>3, <1>4, <1>5, PendStep

\* Sent::poll.
LEMMA PollSentStep ==
    ASSUME SendInv, NEW f \in Futures, fut[f].kind = "Sent", poll_sent(f)
    PROVE  SendInv'
<1> DEFINE g == fut[f]
           id == g.packet_id[2]
           a == after_try(g)
           k == [a EXCEPT !.kind = "Acked", !.parked = FALSE]
<1>1. /\ FutureOK(g, snd, link, delivered, refused) /\ g \in FutureType /\ IsLive(g)
      /\ g.packet_id # IdCanceled /\ link \in BOOLEAN
  BY DEF SendInv, FutureOK, IsLive, Results, Peer
<1>2. /\ FutureOK(a, snd, link, delivered, refused)
      /\ a.id = g.id /\ a.sn = g.sn /\ a.kind = g.kind
      /\ ~(link /\ IsQueued(g) /\ is_sent(snd, g.packet_id[2])) => a = g
  BY <1>1, AfterTryOK
<1>3. CASE Step(snd, f, k) /\ UNCHANGED panicked
  <2> HIDE DEF a
  <2>1. a \in FutureType /\ IsLive(a) /\ a.packet_id # IdCanceled
    BY <1>2 DEF FutureOK, IsLive, Results
  <2>2. "Acked" \in Kinds
    BY DEF Kinds
  <2>3. ASSUME NEW b \in BOOLEAN
        PROVE  LET z == [a EXCEPT !.kind = "Acked", !.parked = b]
               IN  /\ z \in FutureType /\ z.kind = "Acked" /\ z.parked = b /\ z.out = a.out
                   /\ z.id = a.id /\ z.sn = a.sn /\ z.packet_id = a.packet_id
    BY <2>1, <2>2 DEF FutureType
  <2>4. /\ k \in FutureType /\ k.kind = "Acked" /\ k.parked = FALSE /\ k.out = a.out
        /\ k.id = a.id /\ k.sn = a.sn /\ k.packet_id = a.packet_id
    BY <2>3, Zenon
  <2>5. Step(snd, f, k)
    BY <1>3
  <2> HIDE DEF k
  <2>6. IsLive(k)
    BY <2>4 DEF IsLive
  <2>7. FutureOK(k, snd, link, delivered, refused)
    BY <1>2, <2>1, <2>4, <2>6, ChangeOK
  <2> QED BY <1>2, <1>3, <2>4, <2>5, <2>7, StillInv
<1>4. CASE ~IsQueued(g)
  <2>1. Step(snd, f, [g EXCEPT !.kind = "Acked", !.parked = FALSE]) /\ UNCHANGED panicked
    BY <1>4 DEF poll_sent
  <2> QED BY <1>2, <1>3, <1>4, <2>1
<1>5. CASE IsQueued(g) /\ ~link
  <2>1. Resolve(f, g, "LinkClosed")
    BY <1>5 DEF poll_sent
  <2> QED BY <1>1, <2>1, ResolveStep
<1>6. CASE IsQueued(g) /\ link
  <2>1. id = g.id /\ (~is_sent(snd, id) => id \in Waiting(snd))
    BY <1>1, <1>6, QueuedFacts
  <2>2. ~(id \in Waiting(snd) /\ is_sent(snd, id))
    BY <2>1 DEF SendInv, SenderOK, Counters, Waiting, BlockedIds, is_sent
  <2>3. CASE id \in Waiting(snd)
    <3>1. Pend(f, g, poll_send(snd, id))
      BY <1>6, <2>2, <2>3 DEF poll_sent
    <3> QED BY <1>1, <1>6, <2>3, <3>1, WaitStep
  <2>4. CASE is_sent(snd, id)
    <3>1. Step(snd, f, k) /\ UNCHANGED panicked
      BY <1>6, <2>2, <2>4 DEF poll_sent
    <3> QED BY <1>3, <3>1
  <2> QED BY <2>1, <2>3, <2>4
<1> QED BY <1>1, <1>4, <1>5, <1>6

\* Acked::poll and AckedOrCanceled::poll.
LEMMA PollAckedStep ==
    ASSUME SendInv, NEW f \in Futures, fut[f].kind \in {"Acked", "AckedOrCanceled"},
           poll_acked(f)
    PROVE  SendInv'
<1> DEFINE g == fut[f]
           id == g.packet_id[2]
           a == after_try(g)
<1>1. /\ FutureOK(g, snd, link, delivered, refused) /\ g \in FutureType /\ IsLive(g)
      /\ g.packet_id \in PacketIds /\ link \in BOOLEAN
  BY DEF SendInv, FutureOK, FutureType, IsLive, Peer
<1>2. \/ g.packet_id = Sent(id) /\ g.packet_id[1] = "Sent" /\ ~IsQueued(g)
                                /\ g.packet_id \notin {IdAcked, IdCanceled}
      \/ IsQueued(g) /\ g.packet_id[1] # "Sent" /\ g.packet_id \notin {IdAcked, IdCanceled}
      \/ g.packet_id = IdAcked /\ g.packet_id # IdCanceled /\ g.packet_id[1] # "Sent" /\ ~IsQueued(g)
      \/ g.packet_id = IdCanceled /\ g.packet_id # IdAcked /\ g.packet_id[1] # "Sent" /\ ~IsQueued(g)
  BY <1>1, PacketIdForms DEF IsQueued
<1>3. CASE g.packet_id = IdAcked
  <2>1. Resolve(f, g, "Acked")
    BY <1>2, <1>3 DEF poll_acked
  <2>2. g.sn \in delivered \cup refused
    BY <1>1, <1>3 DEF FutureOK, Results
  <2> QED BY <1>1, <2>1, <2>2, ResolveStep
<1>4. CASE g.packet_id = IdCanceled
  <2>1. g.kind = "AckedOrCanceled" /\ g.sn = NoSeq
    BY <1>1, <1>4 DEF FutureOK, Results
  <2>2. Resolve(f, g, "Canceled")
    BY <1>2, <1>4, <2>1 DEF poll_acked
  <2> QED BY <1>1, <1>4, <2>1, <2>2, ResolveStep
<1>5. CASE g.packet_id \notin {IdAcked, IdCanceled} /\ ~link
  <2>1. Resolve(f, g, "LinkClosed")
    BY <1>5 DEF poll_acked
  <2> QED BY <1>1, <2>1, ResolveStep
<1>6. CASE link /\ g.packet_id = Sent(id)
  <2>1. poll_answer(f, g, id)
    BY <1>2, <1>6 DEF poll_acked, IsQueued, Sent
  <2> QED BY <1>1, <1>6, <2>1, AnswerStep
<1>7. CASE link /\ IsQueued(g)
  <2>1. /\ id = g.id /\ g.packet_id \notin {IdAcked, IdCanceled}
        /\ (~is_sent(snd, id) => id \in Waiting(snd))
        /\ is_sent(snd, id) =>
             \/ lookup_seq_num(snd, id) = NoSeq /\ g.sn \in delivered \cup refused
             \/ lookup_seq_num(snd, id) = g.sn
    BY <1>1, <1>7, QueuedFacts
  <2>2. ~(id \in Waiting(snd) /\ is_sent(snd, id))
    BY <2>1 DEF SendInv, SenderOK, Counters, Waiting, BlockedIds, is_sent
  <2>3. CASE id \in Waiting(snd)
    <3>1. Pend(f, g, poll_send(snd, id))
      BY <1>2, <1>7, <2>2, <2>3 DEF poll_acked
    <3> QED BY <1>1, <1>7, <2>3, <3>1, WaitStep
  <2>4. CASE is_sent(snd, id)
    <3>1. /\ lookup_seq_num(snd, id) = NoSeq => Resolve(f, g, "Acked")
          /\ lookup_seq_num(snd, id) # NoSeq => poll_answer(f, a, lookup_seq_num(snd, id))
      BY <1>2, <1>7, <2>2, <2>4 DEF poll_acked
    <3>2. CASE lookup_seq_num(snd, id) = NoSeq
      <4>1. g.sn \in delivered \cup refused
        <5>1. g.sn # NoSeq
          BY <1>1, <1>7, <2>1, <2>4, QueuedFacts
        <5> QED BY <2>1, <2>4, <3>2, <5>1
      <4> QED BY <1>1, <3>1, <3>2, <4>1, ResolveStep
    <3>3. CASE lookup_seq_num(snd, id) # NoSeq
      <4>1. /\ FutureOK(a, snd, link, delivered, refused)
            /\ a.id = g.id /\ a.sn = g.sn /\ a.kind = g.kind
            /\ a.packet_id = Sent(g.sn)
        BY <1>1, <1>7, <2>4, <3>3, AfterTryOK
      <4>2. lookup_seq_num(snd, id) = g.sn /\ poll_answer(f, a, g.sn)
        BY <2>1, <2>4, <3>1, <3>3
      <4> HIDE DEF a
      <4>3. IsLive(a)
        BY <4>1 DEF IsLive
      <4> QED BY <1>7, <4>1, <4>2, <4>3, AnswerStep
    <3> QED BY <3>2, <3>3
  <2> QED BY <2>1, <2>3, <2>4
<1> QED BY <1>1, <1>2, <1>3, <1>4, <1>5, <1>6, <1>7

\* Polling a future.
LEMMA PollStep ==
    ASSUME SendInv, NEW f \in Futures, Poll(f)
    PROVE  SendInv'
<1>1. CASE fut[f].kind = "Sent"
  BY <1>1, PollSentStep DEF Poll
<1>2. CASE fut[f].kind # "Sent"
  <2>1. fut[f].kind \in {"Acked", "AckedOrCanceled"} /\ poll_acked(f)
    BY <1>2 DEF Poll, Live
  <2> QED BY <2>1, PollAckedStep
<1> QED BY <1>1, <1>2

-----------------------------------------------------------------------------
(* The end of a future, and the sender's side of the link.                 *)

\* A future that is dropped, with the sender at t.
LEMMA GoneStep ==
    ASSUME SendInv, NEW f \in Futures, IsLive(fut[f]), NEW t, Step(t, f, Gone(fut[f])),
           UNCHANGED panicked,
           \/ t = snd
           \/ link /\ Keeps(snd, t, {}, delivered, refused)
           \/ link /\ Keeps(snd, t, {fut[f].id}, delivered, refused) /\ fut[f].id # NoSeq
    PROVE  SendInv'
<1> DEFINE d == Gone(fut[f])
<1>1. FutureOK(fut[f], snd, link, delivered, refused)
  BY DEF SendInv
<1>2. fut[f] \in FutureType /\ Results(fut[f], delivered, refused)
  BY <1>1 DEF FutureOK
<1>3. FutureOK(d, snd, link, delivered, refused) /\ d.id = NoSeq /\ d.parked = FALSE
  BY <1>2, GoneOK
<1>4. Step(t, f, d)
  OBVIOUS
<1> HIDE DEF d
<1>5. CASE t = snd
  BY <1>3, <1>4, <1>5, StillInv
<1>6. ASSUME link, NEW C, Keeps(snd, t, C, delivered, refused),
             C \subseteq {fut[f].id} \ {NoSeq}
      PROVE  SendInv'
  <2>1. d.id \notin C /\ d.id \in {fut[f].id, NoSeq}
        /\ (d.parked => d.id = fut[f].id /\ d.sn = fut[f].sn)
    BY <1>3, <1>6
  <2> QED BY <1>3, <1>4, <1>6, <2>1, MoveInv
<1>7. CASE link /\ Keeps(snd, t, {}, delivered, refused)
  <2>1. {} \subseteq {fut[f].id} \ {NoSeq}
    OBVIOUS
  <2> QED BY <1>6, <1>7, <2>1
<1>8. CASE link /\ Keeps(snd, t, {fut[f].id}, delivered, refused) /\ fut[f].id # NoSeq
  <2>1. {fut[f].id} \subseteq {fut[f].id} \ {NoSeq}
    BY <1>8
  <2> QED BY <1>6, <1>8, <2>1
<1> QED BY <1>5, <1>7, <1>8

\* Forgetting a packet moves the sender only as the others allow.
LEMMA ForgetKeeps ==
    ASSUME SendInv, NEW g
    PROVE  \/ after_forget(g) = snd
           \/ link /\ Keeps(snd, after_forget(g), {}, delivered, refused)
<1>1. SenderOK(snd, delivered, refused)
  BY DEF SendInv
<1>2. Keeps(snd, forget_canceled_packet(snd, g.packet_id[2]), {}, delivered, refused)
  BY <1>1, AnswerOps
<1> QED BY <1>2 DEF after_forget, forgets

\* Dropping a future.
LEMMA DropStep ==
    ASSUME SendInv, NEW f \in Futures, Drop(f)
    PROVE  SendInv'
<1> DEFINE g == fut[f]
           c == cancel_queued_packet(snd, g.packet_id[2])
           t == IF try_cancels(g) THEN c ELSE after_forget(g)
<1>1. /\ FutureOK(g, snd, link, delivered, refused) /\ IsLive(g)
      /\ SenderOK(snd, delivered, refused)
  BY DEF SendInv, Drop, IsLive, Live
<1>2. ~lookup_panics(g)
  <2> SUFFICES ASSUME lookup_panics(g) PROVE FALSE
    OBVIOUS
  <2>1. link /\ IsQueued(g) /\ ~is_sent(snd, g.packet_id[2]) /\ ~try_cancels(g)
    BY DEF lookup_panics
  <2>2. cancels_queued(snd, g.packet_id[2])
    BY <1>1, <2>1, QueuedFacts
  <2> QED BY <2>1, <2>2 DEF try_cancels
<1>3. Step(t, f, Gone(g)) /\ UNCHANGED panicked
  BY <1>2 DEF Drop
<1>4. CASE try_cancels(g)
  <2>1. link /\ IsQueued(g) /\ cancels_queued(snd, g.packet_id[2])
    BY <1>4 DEF try_cancels
  <2>2. g.packet_id[2] = g.id /\ g.id # NoSeq
    BY <1>1, <2>1, QueuedFacts
  <2>3. Keeps(snd, c, {g.id}, delivered, refused)
    BY <1>1, <2>1, <2>2, CancelQueuedKeeps
  <2>4. t = c
    BY <1>4
  <2> HIDE DEF c, t
  <2> QED BY <1>1, <1>3, <2>1, <2>2, <2>3, <2>4, GoneStep
<1>5. CASE ~try_cancels(g)
  <2>1. t = after_forget(g)
    BY <1>5
  <2> HIDE DEF t
  <2> QED BY <1>1, <1>3, <2>1, ForgetKeeps, GoneStep
<1> QED BY <1>4, <1>5

\* enqueue.
LEMMA EnqueueStep ==
    ASSUME SendInv, NEW f \in Futures, enqueue(f)
    PROVE  SendInv'
<1>1. IsLive(fut[f]) /\ Step(after_forget(fut[f]), f, Gone(fut[f])) /\ UNCHANGED panicked
  BY DEF enqueue, IsLive, Live
<1> QED BY <1>1, ForgetKeeps, GoneStep

\* A step of the sender that no future has asked for.
LEMMA HearStep ==
    ASSUME SendInv, link, NEW t, Hear(t), UNCHANGED <<delivered, refused>>,
           Keeps(snd, t, {}, delivered, refused)
    PROVE  SendInv'
<1>1. /\ snd' = t /\ fut' = Follow(fut, snd, t)
      /\ link' = link /\ delivered' = delivered /\ refused' = refused /\ panicked' = panicked
  BY DEF Hear
<1>2. \A h \in Futures : fut'[h] = Followed(fut[h], snd, t, WokenBy(snd, t, fut[h].id, fut[h].sn))
  BY <1>1, FollowIs
<1>3. link = TRUE /\ NoSeq \notin delivered \cup refused /\ SenderOK(snd, delivered, refused)
  BY PeerNumbers DEF SendInv, Peer
<1>4. \A h \in Futures : FutureOK(fut'[h], t, link, delivered, refused)
  <2> SUFFICES ASSUME NEW h \in Futures PROVE FutureOK(fut'[h], t, TRUE, delivered, refused)
    BY <1>3
  <2>1. FutureOK(fut[h], snd, TRUE, delivered, refused)
    BY <1>3 DEF SendInv
  <2>2. FutureOK(Followed(fut[h], snd, t, WokenBy(snd, t, fut[h].id, fut[h].sn)),
                 t, TRUE, delivered, refused)
    <3>1. fut[h].id \notin {}
      OBVIOUS
    <3> QED BY <1>3, <2>1, <3>1, FollowOK
  <2> QED BY <1>2, <2>2
<1>5. fut' = [h \in Futures |-> fut'[h]]
  BY <1>1 DEF Follow
<1>6. \A h \in Futures : fut'[h].id = fut[h].id
  <2> SUFFICES ASSUME NEW h \in Futures PROVE fut'[h].id = fut[h].id
    OBVIOUS
  <2>1. fut[h] \in FutureType
    BY DEF SendInv, FutureOK
  <2> QED BY <1>2, <2>1 DEF Followed, FutureType
<1>7. Unshared' /\ Peer' /\ PollsNeverPanic'
  BY <1>1, <1>6 DEF SendInv, Unshared, Peer, PollsNeverPanic
<1>8. SenderOK(t, delivered, refused)
  BY DEF Keeps
<1> QED BY <1>1, <1>4, <1>5, <1>7, <1>8 DEF SendInv

\* The peer decides a packet: what was decided stays so.
LEMMA DecideStep ==
    ASSUME SendInv, NEW sn \in SeqNums(snd), Decide(sn)
    PROVE  SendInv'
<1>1. /\ snd' = snd /\ link' = link /\ fut' = fut /\ panicked' = panicked
      /\ delivered \subseteq delivered' /\ refused \subseteq refused'
      /\ delivered' \cap refused' = {} /\ delivered' \subseteq Nat /\ refused' \subseteq Nat
  <2>1. sn \in Nat
    BY DEF SendInv, SenderOK, Counters, SeqNums
  <2>2. sn \notin delivered \cup refused
    BY DEF Decide
  <2> QED BY <2>1, <2>2 DEF Decide, SendInv, Peer
<1>2. delivered \cup refused \subseteq delivered' \cup refused'
  BY <1>1
<1>3. SenderOK(snd, delivered', refused')
  BY <1>1, <1>2 DEF SendInv, SenderOK, Decided
<1>4. ASSUME NEW f \in Futures
      PROVE  FutureOK(fut[f], snd, link, delivered', refused')
  <2>1. FutureOK(fut[f], snd, link, delivered, refused)
    BY DEF SendInv
  <2>2. Results(fut[f], delivered', refused')
    BY <1>1, <1>2, <2>1 DEF FutureOK, Results
  <2>3. Place(fut[f], snd, delivered, refused) => Place(fut[f], snd, delivered', refused')
    BY <1>2 DEF Place
  <2> QED BY <2>1, <2>2, <2>3 DEF FutureOK
<1>5. Peer' /\ Unshared' /\ PollsNeverPanic'
  BY <1>1 DEF SendInv, Peer, Unshared, PollsNeverPanic
<1> QED BY <1>1, <1>3, <1>4, <1>5 DEF SendInv

\* A new sender.
LEMMA NewSenderOK ==
    ASSUME NEW del, NEW ref
    PROVE  SenderOK(new_sender, del, ref)
<1> DEFINE s == new_sender
<1>1. /\ DOMAIN s = {"window_size", "base", "next", "unacked", "first_sent",
                     "first_blocked", "next_id", "sent", "blocked"}
      /\ s.window_size = 1 /\ s.base = 0 /\ s.next = 0 /\ s.first_sent = 0
      /\ s.first_blocked = 0 /\ s.next_id = 0
      /\ s.unacked = NoEntries /\ s.sent = NoEntries /\ s.blocked = NoEntries
  BY DEF new_sender
<1> HIDE DEF s
<1>2. SeqNums(s) = {} /\ BlockedIds(s) = {} /\ SentIds(s) = {} /\ 0..(s.base - 1) = {}
  BY <1>1 DEF SeqNums, BlockedIds, SentIds
<1>3. Counters(s)
  BY <1>1 DEF Counters
<1>4. Deques(s)
  <2>1. /\ s.unacked = [i \in {} |-> s.unacked[i]] /\ s.blocked = [i \in {} |-> s.blocked[i]]
        /\ s.sent = [i \in {} |-> s.sent[i]]
    BY <1>1 DEF NoEntries
  <2> QED BY <1>2, <2>1 DEF Deques
<1>5. Decided(s, del, ref)
  BY <1>2 DEF Decided
<1>6. SenderOK(s, del, ref)
  BY <1>3, <1>4, <1>5 DEF SenderOK
<1> QED BY <1>6 DEF s

\* Closing the link wakes every future that is parked.
LEMMA CloseStep ==
    ASSUME SendInv, LinkClosed
    PROVE  SendInv'
<1>1. /\ link /\ link' = FALSE /\ snd' = new_sender
      /\ fut' = [f \in Futures |-> [fut[f] EXCEPT !.parked = @ /\ ~HasWaker(snd, f)]]
      /\ delivered' = delivered /\ refused' = refused /\ panicked' = panicked
  BY DEF LinkClosed
<1>2. ASSUME NEW f \in Futures
      PROVE  /\ FutureOK(fut'[f], new_sender, FALSE, delivered, refused)
             /\ fut'[f].id = fut[f].id
  <2> DEFINE g == fut[f]
             b == g.parked /\ ~HasWaker(snd, f)
             h == [g EXCEPT !.parked = b]
  <2>1. FutureOK(g, snd, link, delivered, refused) /\ g \in FutureType
    BY DEF SendInv, FutureOK
  <2>2. fut'[f] = h
    BY <1>1
  <2>3. b = FALSE
    BY <2>1 DEF FutureOK, HasWaker, Waker
  <2> HIDE DEF b
  <2>4. /\ h \in FutureType /\ h.kind = g.kind /\ h.parked = b /\ h.out = g.out
        /\ h.id = g.id /\ h.sn = g.sn /\ h.packet_id = g.packet_id
    <3>1. b \in BOOLEAN
      BY <2>3
    <3> HIDE <2>3
    <3> QED BY <2>1, <3>1 DEF FutureType
  <2> HIDE DEF h
  <2>5. IsLive(h) <=> IsLive(g)
    BY <2>4 DEF IsLive
  <2>6. Results(h, delivered, refused)
    BY <2>1, <2>4, <2>5 DEF FutureOK, Results
  <2>7. FutureOK(h, new_sender, FALSE, delivered, refused)
    BY <2>3, <2>4, <2>6 DEF FutureOK
  <2> QED BY <2>2, <2>4, <2>7
<1>3. fut' = [f \in Futures |-> fut'[f]]
  BY <1>1
<1>4. Unshared' /\ Peer' /\ PollsNeverPanic'
  <2>1. \A f \in Futures : fut'[f].id = fut[f].id
    BY <1>2
  <2>2. Unshared'
    BY <2>1 DEF SendInv, Unshared
  <2>3. Peer' /\ PollsNeverPanic'
    <3> HIDE <1>2
    <3> QED BY <1>1 DEF SendInv, Peer, PollsNeverPanic
  <2> QED BY <2>2, <2>3
<1>5. SenderOK(new_sender, delivered, refused)
  BY NewSenderOK
<1> QED BY <1>1, <1>2, <1>3, <1>4, <1>5 DEF SendInv

-----------------------------------------------------------------------------
(* The theorems about the futures.                                         *)

\* The invariant holds at the start.
LEMMA SendInit == Init => SendInv
<1> SUFFICES ASSUME Init PROVE SendInv
  OBVIOUS
<1>1. /\ snd = new_sender /\ link = TRUE /\ fut = [f \in Futures |-> Unused]
      /\ delivered = {} /\ refused = {} /\ panicked = {}
  BY DEF Init
<1>2. SenderOK(snd, delivered, refused)
  BY <1>1, NewSenderOK
<1>3. ASSUME NEW f \in Futures
      PROVE  FutureOK(fut[f], snd, link, delivered, refused) /\ fut[f].id = NoSeq
  <2>1. fut[f] = Unused
    BY <1>1
  <2>2. /\ fut[f] \in FutureType /\ fut[f].kind = "unused" /\ fut[f].parked = FALSE
        /\ fut[f].out = "none" /\ fut[f].id = NoSeq
    BY <2>1, UnusedFields
  <2>3. ~IsLive(fut[f])
    BY <2>2 DEF IsLive
  <2>4. Results(fut[f], delivered, refused)
    BY <2>2, <2>3 DEF Results
  <2> QED BY <2>2, <2>3, <2>4 DEF FutureOK
<1>4. fut = [f \in Futures |-> fut[f]]
  BY <1>1
<1>5. Peer /\ Unshared /\ PollsNeverPanic
  BY <1>1, <1>3 DEF Peer, Unshared, PollsNeverPanic
<1> QED BY <1>2, <1>3, <1>4, <1>5 DEF SendInv

\* Every step of the futures and of the sender keeps the invariant.
LEMMA SendNext == SendInv /\ [Next]_vars => SendInv'
<1> SUFFICES ASSUME SendInv, [Next]_vars PROVE SendInv'
  OBVIOUS
<1>1. CASE UNCHANGED vars
  BY <1>1 DEF vars, SendInv, Peer, Unshared, PollsNeverPanic
<1>2. CASE Next
  <2>1. panicked = {}
    BY <1>2 DEF Next
  <2>2. SenderOK(snd, delivered, refused)
    BY DEF SendInv
  <2>3. ASSUME NEW f \in Futures, send_mgmt_helper(f) PROVE SendInv'
    BY <2>3, SendStep
  <2>4. ASSUME NEW f \in Futures, Convert(f) PROVE SendInv'
    BY <2>4, ConvertStep
  <2>5. ASSUME NEW f \in Futures, try_cancel(f) PROVE SendInv'
    BY <2>1, <2>5, TryCancelStep
  <2>6. ASSUME NEW f \in Futures, request_cancel(f) PROVE SendInv'
    BY <2>1, <2>6, RequestCancelStep
  <2>7. ASSUME NEW f \in Futures, NEW limit \in RetryLimits, limit_retries_of(f, limit)
        PROVE  SendInv'
    BY <2>7, LimitRetriesStep
  <2>8. ASSUME NEW f \in Futures, Poll(f) PROVE SendInv'
    BY <2>8, PollStep
  <2>9. ASSUME NEW f \in Futures, Drop(f) PROVE SendInv'
    BY <2>9, DropStep
  <2>10. ASSUME NEW f \in Futures, enqueue(f) PROVE SendInv'
    BY <2>10, EnqueueStep
  <2>11. ASSUME NEW sn \in SeqNums(snd), Decide(sn) PROVE SendInv'
    BY <2>11, DecideStep
  <2>12. ASSUME NEW sn \in SeqNums(snd), Answered(sn) PROVE SendInv'
    <3>1. link /\ UNCHANGED <<delivered, refused>>
      BY <2>12 DEF Answered
    <3>2. CASE sn \in delivered /\ Hear(unblock(process_ack(snd, sn)))
      <4>1. Keeps(snd, unblock(process_ack(snd, sn)), {}, delivered, refused)
        BY <2>2, <3>2, AnswerOps
      <4> QED BY <3>1, <3>2, <4>1, HearStep
    <3>3. CASE sn \in refused /\ Hear(unblock(process_canceled(snd, sn)))
      <4>1. Keeps(snd, unblock(process_canceled(snd, sn)), {}, delivered, refused)
        BY <2>2, <3>3, AnswerOps
      <4> QED BY <3>1, <3>3, <4>1, HearStep
    <3> QED BY <2>12, <3>2, <3>3 DEF Answered
  <2>13. CASE RetryTick
    <3>1. Keeps(snd, age_retries(snd), {}, delivered, refused)
      BY <2>2, EntryOps
    <3>2. link /\ UNCHANGED <<delivered, refused>> /\ Hear(age_retries(snd))
      BY <2>13 DEF RetryTick
    <3> QED BY <3>1, <3>2, HearStep
  <2>14. CASE process_window_size_tlv
    <3>1. Keeps(snd, adjust_window_size(snd, Window), {}, delivered, refused)
      BY <2>2, AdjustKeeps, MgmtSendAssumption
    <3>2. /\ link /\ UNCHANGED <<delivered, refused>>
          /\ Hear(adjust_window_size(snd, Window))
      BY <2>14 DEF process_window_size_tlv
    <3> QED BY <3>1, <3>2, HearStep
  <2>15. CASE LinkClosed
    BY <2>15, CloseStep
  <2> QED BY <1>2, <2>3, <2>4, <2>5, <2>6, <2>7, <2>8, <2>9, <2>10, <2>11, <2>12, <2>13,
             <2>14, <2>15 DEF Next
<1> QED BY <1>1, <1>2

\* The invariant of the futures, the sender under them and the peer.
THEOREM SendInvariance == Spec => []SendInv
<1> QED BY SendInit, SendNext, PTL DEF Spec

\* No future of mgmt/core.rs that has returned Pending is left behind: the waker
\* it registered is in the entry of its packet, wherever calls on other packets,
\* retries and answers have moved that entry, until it is woken.
THEOREM FuturesAreWoken == Spec => []NoLostWakeup
<1>1. SendInv => NoLostWakeup
  BY DEF SendInv, FutureOK, NoLostWakeup, HasWaker, Waker
<1> QED BY <1>1, SendInvariance, PTL

\* A future resolves only to what has happened to its packet: Acked once the peer
\* has decided it, Canceled when the peer will never act on it, and a packet that
\* try_cancel hands back was never sent.
THEOREM ResultsAreTrue == Spec => []ResultsHappened
<1>1. SendInv => ResultsHappened
  <2> SUFFICES ASSUME SendInv, NEW f \in Futures
               PROVE  /\ fut[f].out = "Acked" => fut[f].sn \in delivered \cup refused
                      /\ fut[f].out = "Canceled" => fut[f].sn \notin delivered
                      /\ fut[f].out = "Packet" => fut[f].sn = NoSeq
    BY DEF ResultsHappened
  <2>1. Results(fut[f], delivered, refused)
    BY DEF SendInv, FutureOK
  <2>2. NoSeq \notin delivered /\ delivered \cap refused = {}
    BY PeerNumbers DEF SendInv, Peer
  <2> QED BY <2>1, <2>2 DEF Results
<1> QED BY <1>1, SendInvariance, PTL

\* Polling or dropping a future reaches no panic!() or unreachable!(), and no
\* failing assertion, whatever calls came before.
THEOREM PollingNeverPanics == Spec => []PollsNeverPanic
<1>1. SendInv => PollsNeverPanic
  BY DEF SendInv
<1> QED BY <1>1, SendInvariance, PTL

-----------------------------------------------------------------------------
(* The transaction manager.                                                *)

\* The inductive invariant: RefcountExact is kept because no handle outlives
\* its entry, and NoMissedNotify because an id whose last handle goes is free.
TxnInv == TxnTypeOK /\ RefcountExact /\ NoMissedNotify

\* The first state of a manager: nothing is open and nobody waits.
LEMMA TxnInitInv == TxnInit => TxnInv
  BY TxnMgrAssumption DEF TxnInit, TxnInv, TxnTypeOK, RefcountExact, NoMissedNotify, Ids, None, Closed

\* Every operation leaves the fields of the manager with their types.
LEMMA TxnStepTypeOK == TxnTypeOK /\ [TxnNext]_txn_vars => TxnTypeOK'
<1> SUFFICES ASSUME TxnTypeOK, [TxnNext]_txn_vars PROVE TxnTypeOK'
  OBVIOUS
<1> USE TxnMgrAssumption DEF TxnTypeOK, Ids, None
<1>1. CASE try_open
  BY <1>1 DEF try_open, TakeNext, Closed
<1>2. ASSUME NEW t \in Tasks, open_raw(t) PROVE TxnTypeOK'
  <2>1. task' \in [Tasks -> {"idle", "registered", "notified"}]
    BY <1>2 DEF open_raw
  <2>2. CASE TakeNext
    BY <1>2, <2>1, <2>2 DEF open_raw, TakeNext, Closed
  <2>3. CASE UNCHANGED <<next_free, open, handles>>
    BY <1>2, <2>1, <2>3 DEF open_raw
  <2> QED BY <1>2, <2>2, <2>3 DEF open_raw
<1>3. ASSUME NEW t \in Tasks, open_dropped(t) PROVE TxnTypeOK'
  BY <1>3 DEF open_dropped
<1>4. ASSUME NEW id \in Ids, get(id) PROVE TxnTypeOK'
  <2>1. open[id] \in Nat
    BY <1>4 DEF get, Closed
  <2>2. open[id] + 1 \in Nat \cup {None} /\ handles[id] + 1 \in Nat
    BY <2>1
  <2>3. /\ open' = [open EXCEPT ![id] = open[id] + 1]
        /\ handles' = [handles EXCEPT ![id] = handles[id] + 1]
    BY <1>4 DEF get
  <2>4. open' \in [Ids -> Nat \cup {None}]
    BY <2>2, <2>3
  <2>5. handles' \in [Ids -> Nat]
    BY <2>2, <2>3
  <2> QED BY <1>4, <2>4, <2>5 DEF get
<1>5. ASSUME NEW id \in Ids, ref_txn(id) PROVE TxnTypeOK'
  <2>1. CASE alive /\ open[id] # None
    <3>1. open[id] \in Nat
      BY <2>1
    <3>2. open[id] + 1 \in Nat \cup {None} /\ handles[id] + 1 \in Nat
      BY <3>1
    <3>3. /\ open' = [open EXCEPT ![id] = open[id] + 1]
          /\ handles' = [handles EXCEPT ![id] = handles[id] + 1]
      BY <1>5, <2>1 DEF ref_txn
    <3>4. open' \in [Ids -> Nat \cup {None}]
      BY <3>2, <3>3
    <3>5. handles' \in [Ids -> Nat]
      BY <3>2, <3>3
    <3> QED BY <1>5, <3>4, <3>5 DEF ref_txn
  <2>2. CASE alive /\ open[id] = None
    BY <1>5, <2>2 DEF ref_txn
  <2>3. CASE ~alive
    BY <1>5, <2>3 DEF ref_txn
  <2> QED BY <2>1, <2>2, <2>3
<1>6. ASSUME NEW id \in Ids, deref_txn(id) PROVE TxnTypeOK'
  <2>1. dereferenced(id) \in Nat \cup {None}
    <3>1. open[id] \in Nat \cup {-1}
      OBVIOUS
    <3>2. open[id] > 0 => open[id] - 1 \in Nat
      BY <3>1
    <3> QED BY <3>2 DEF dereferenced
  <2> QED BY <1>6, <2>1 DEF deref_txn
<1>7. CASE notify_waiters
  BY <1>7 DEF notify_waiters
<1>8. CASE MgrDropped
  BY <1>8 DEF MgrDropped
<1>9. CASE UNCHANGED txn_vars
  BY <1>9 DEF txn_vars
<1> QED
  BY <1>1, <1>2, <1>3, <1>4, <1>5, <1>6, <1>7, <1>8, <1>9 DEF TxnNext

\* Every operation keeps the refcounts exact.
LEMMA TxnStepRefcount == TxnTypeOK /\ RefcountExact /\ [TxnNext]_txn_vars => RefcountExact'
<1> SUFFICES ASSUME TxnTypeOK, RefcountExact, [TxnNext]_txn_vars PROVE RefcountExact'
  OBVIOUS
<1> USE TxnMgrAssumption DEF TxnTypeOK, RefcountExact, Ids, None
<1>1. CASE TakeNext /\ UNCHANGED alive
  BY <1>1 DEF TakeNext, Closed
<1>2. ASSUME NEW id \in Ids, get(id) PROVE RefcountExact'
  BY <1>2 DEF get, Closed
<1>3. ASSUME NEW id \in Ids, ref_txn(id) PROVE RefcountExact'
  BY <1>3 DEF ref_txn
<1>4. ASSUME NEW id \in Ids, deref_txn(id) PROVE RefcountExact'
  <2> SUFFICES ASSUME alive PROVE RefcountExact'
    BY <1>4 DEF deref_txn
  <2>1. open[id] \in Nat
    BY <1>4 DEF deref_txn
  <2>2. handles'[id] = open[id]
    BY <1>4, <2>1 DEF deref_txn
  <2>3. open'[id] = IF open[id] > 0 THEN open[id] - 1 ELSE None
    BY <1>4 DEF deref_txn, dereferenced
  <2>4. \A i \in Ids \ {id} : open'[i] = open[i] /\ handles'[i] = handles[i]
    BY <1>4 DEF deref_txn
  <2> QED BY <2>1, <2>2, <2>3, <2>4
<1>5. CASE UNCHANGED <<open, handles>> /\ (alive' => alive)
  BY <1>5
<1>6. ASSUME NEW t \in Tasks, open_raw(t) PROVE RefcountExact'
  BY <1>1, <1>5, <1>6 DEF open_raw
<1> QED
  BY <1>1, <1>2, <1>3, <1>4, <1>5, <1>6
     DEF TxnNext, try_open, open_dropped, notify_waiters, MgrDropped, txn_vars

\* Every operation keeps NoMissedNotify: next_free becomes free only with a
\* notification on its way, and moves only when it was free.
LEMMA TxnStepNotify == TxnInv /\ [TxnNext]_txn_vars => NoMissedNotify'
<1> SUFFICES ASSUME TxnInv, [TxnNext]_txn_vars PROVE NoMissedNotify'
  OBVIOUS
<1> USE TxnMgrAssumption DEF TxnInv, TxnTypeOK, NoMissedNotify, Ids, None, Closed
<1>1. CASE try_open
  BY <1>1 DEF try_open, TakeNext
<1>2. ASSUME NEW t \in Tasks, open_raw(t) PROVE NoMissedNotify'
  <2>1. CASE TakeNext /\ task' = [task EXCEPT ![t] = "idle"]
    BY <1>2, <2>1 DEF open_raw, TakeNext
  <2>2. CASE next_free \notin Closed /\ UNCHANGED <<next_free, open, handles>>
    BY <1>2, <2>2 DEF open_raw
  <2> QED BY <1>2, <2>1, <2>2 DEF open_raw
<1>3. ASSUME NEW t \in Tasks, open_dropped(t) PROVE NoMissedNotify'
  BY <1>3 DEF open_dropped
<1>4. ASSUME NEW id \in Ids, get(id) PROVE NoMissedNotify'
  BY <1>4 DEF get
<1>5. ASSUME NEW id \in Ids, ref_txn(id) PROVE NoMissedNotify'
  BY <1>5 DEF ref_txn, RefcountExact
<1>6. ASSUME NEW id \in Ids, deref_txn(id) PROVE NoMissedNotify'
  <2>1. CASE alive /\ open'[id] = None /\ next_free = id
    BY <1>6, <2>1 DEF deref_txn, need_notify
  <2>2. CASE alive /\ open'[id] = None /\ next_free # id
    BY <1>6, <2>2 DEF deref_txn, need_notify
  <2>3. CASE alive /\ open'[id] # None
    BY <1>6, <2>3 DEF deref_txn, RefcountExact
  <2>4. CASE ~alive
    BY <1>6, <2>4 DEF deref_txn
  <2> QED BY <2>1, <2>2, <2>3, <2>4
<1>7. CASE notify_waiters
  BY <1>7 DEF notify_waiters
<1>8. CASE MgrDropped
  BY <1>8 DEF MgrDropped
<1>9. CASE UNCHANGED txn_vars
  BY <1>9 DEF txn_vars
<1> QED
  BY <1>1, <1>2, <1>3, <1>4, <1>5, <1>6, <1>7, <1>8, <1>9 DEF TxnNext

\* The inductive invariant holds of every reachable state.
THEOREM TxnInvariance == TxnSpec => []TxnInv
<1>1. TxnInit => TxnInv
  BY TxnInitInv
<1>2. TxnInv /\ [TxnNext]_txn_vars => TxnInv'
  BY TxnStepTypeOK, TxnStepRefcount, TxnStepNotify DEF TxnInv
<1> QED
  BY <1>1, <1>2, PTL DEF TxnSpec

\* The refcounts of txn_mgr.rs are exact, and ref_txn and deref_txn never
\* find a transaction closed.
THEOREM RefcountsExact == TxnSpec => []RefcountExact
<1>1. TxnInv => RefcountExact
  BY DEF TxnInv
<1> QED
  BY <1>1, TxnInvariance, PTL

\* No task waits in open() with the next id free and no notification on its
\* way, although deref_txn notifies only for next_free and after unlocking.
THEOREM NotifyNotMissed == TxnSpec => []NoMissedNotify
<1>1. TxnInv => NoMissedNotify
  BY DEF TxnInv
<1> QED
  BY <1>1, TxnInvariance, PTL

\* try_open and open give out an id only when no handle of it is left.
THEOREM IdsNotShared == TxnSpec => NoSharedIds
<1>1. ASSUME TxnInv, [TxnNext]_txn_vars, NEW id \in Ids, open[id] = None, open'[id] # None
      PROVE  handles[id] = 0
  <2>1. CASE alive
    BY <1>1, <2>1 DEF TxnInv, RefcountExact
  <2>2. CASE ~alive
    BY <1>1, <2>2 DEF TxnNext, txn_vars, try_open, open_raw, open_dropped, get, ref_txn,
                      deref_txn, notify_waiters, MgrDropped
  <2> QED BY <2>1, <2>2
<1>2. TxnInv /\ [TxnNext]_txn_vars =>
        [\A id \in Ids : open[id] = None /\ open'[id] # None => handles[id] = 0]_txn_vars
  BY <1>1
<1> QED
  BY <1>2, TxnInvariance, PTL DEF TxnSpec, NoSharedIds

=============================================================================
