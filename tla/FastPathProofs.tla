--------------------------- MODULE FastPathProofs ---------------------------
(***************************************************************************)
(* The fast path worker, for every configuration: buffers, batches, queue  *)
(* depths and engines, and any number of packets (FastPath); and what it   *)
(* does to a packet, for every packet and size of buffer (Wire).           *)
(***************************************************************************)
EXTENDS FastPath, Wire, FiniteSetTheorems, SequenceTheorems, WellFoundedInduction, TLAPS

Slots == Notified \cup Devices \cup {"pollout"}

\* Where the worker may be.
Places ==
    ({"out", "poll", "pollout"} \cup Devices) \X {""}
    \cup Notified \X {"consume", "len", "recv"}

\* The parts of the state have their types: in particular there is never less
\* than no free buffer, and a service's queue holds no more than it may.
TypeOK ==
    /\ config \in Configs
    /\ buffers \in Nat /\ actor_input_q \in Nat /\ substrate_egress_q \in Seq(0 .. issued)
    /\ pc \in Places /\ revents \subseteq Slots /\ avail \in Nat
    /\ queue \in [PacketQueues -> Seq(0 .. issued)]
    /\ return_q \in Nat
    /\ notify \in [Notified -> BOOLEAN] /\ posting \in [Notified -> Nat]
    /\ service \in [Services -> [len : 0 .. ServiceDepth, guard : BOOLEAN]]
    /\ ready \in [Devices -> Nat]
    /\ issued \in Nat /\ sent \subseteq 1 .. issued /\ removed \subseteq 1 .. issued

\* The worker reads only when it has a buffer to read into.
HasBuffer == pc[1] \in PacketQueues \cup Devices => buffers > 0

\* Someone will tell the worker, or it has been told.
Told(n) == notify[n] \/ posting[n] > 0

\* What is in a queue was told of, except while the worker is in the middle of
\* a receive from it; then what came after it looked was told of.
Wakeups ==
    /\ \A q \in PacketQueues :
         /\ pc \notin {<<q, "len">>, <<q, "recv">>} /\ queue[q] # <<>> => Told(q)
         /\ pc = <<q, "recv">> => /\ avail \in 1 .. Len(queue[q])
                                  /\ Len(queue[q]) > avail => Told(q)
    /\ pc \notin {<<"returns", "len">>, <<"returns", "recv">>} /\ return_q > 0 => Told("returns")

Holds(s, p) == \E i \in DOMAIN s : s[i] = p

\* No PRIORITY packet is twice in s.
Once(s) == \A i, j \in DOMAIN s : s[i] = s[j] /\ s[i] # 0 => i = j

\* A PRIORITY packet is in one of its places, and there once.
Kept ==
    /\ Once(queue["mgmt"]) /\ Once(substrate_egress_q)
    /\ \A i \in DOMAIN queue["requeue"] : queue["requeue"][i] = 0
    /\ \A p \in 1 .. issued :
         \/ Holds(queue["mgmt"], p) /\ ~Holds(substrate_egress_q, p) /\ p \notin sent \cup removed
         \/ ~Holds(queue["mgmt"], p) /\ Holds(substrate_egress_q, p) /\ p \notin sent \cup removed
         \/ ~Holds(queue["mgmt"], p) /\ ~Holds(substrate_egress_q, p) /\ p \in sent \ removed
         \/ ~Holds(queue["mgmt"], p) /\ ~Holds(substrate_egress_q, p) /\ p \in removed \ sent

\* The inductive invariant.
IInv == TypeOK /\ HasBuffer /\ BuffersConserved /\ Wakeups /\ Kept

-----------------------------------------------------------------------------
(* The tally of what was sent.                                             *)

\* A non-empty set of naturals has a least element: induction on the steps of
\* a loop takes the first one that goes wrong.
LEMMA FirstNat ==
    ASSUME NEW T, T \subseteq Nat, T # {}
    PROVE  \E k \in T : \A m \in T : k <= m
<1>1. PICK k \in T : \A m \in T : ~(<<m, k>> \in OpToRel(<, Nat))
  BY NatLessThanWellFounded, WFMin
<1>2. \A m \in T : ~(m < k)
  BY <1>1 DEF OpToRel
<1> QED BY <1>2

\* One step of the loop, as tally takes it.
Step(f, done, i) == retain(f[i - 1][1], done, f[i - 1][2], i)

\* f is what the loop over q has computed, up to n.
Loop(f, q, done, n) ==
    f = [i \in 0 .. n |-> IF i = 0 THEN <<q, 0>> ELSE Step(f, done, i)]

\* The loop computes something, however long the queue is.
LEMMA LoopExists ==
    ASSUME NEW q, NEW done, NEW n \in Nat
    PROVE  \E f : Loop(f, q, done, n)
<1> DEFINE Bad == {m \in Nat : ~\E f : Loop(f, q, done, m)}
<1> SUFFICES ASSUME Bad # {} PROVE FALSE
  OBVIOUS
<1>1. PICK k \in Bad : \A m \in Bad : k <= m
  BY FirstNat
<1>2. CASE k = 0
  <2> DEFINE f == [i \in 0 .. 0 |-> <<q, 0>>]
  <2>1. f = [i \in 0 .. 0 |-> IF i = 0 THEN <<q, 0>> ELSE Step(f, done, i)]
    <3>1. \A i \in 0 .. 0 : i = 0
      OBVIOUS
    <3> QED BY <3>1
  <2>2. Loop(f, q, done, 0)
    BY <2>1 DEF Loop
  <2> QED BY <1>2, <2>2
<1>3. CASE k # 0
  <2>1. k \in Nat /\ k - 1 \in Nat /\ k - 1 \notin Bad
    BY <1>1, <1>3
  <2>2. PICK g : Loop(g, q, done, k - 1)
    BY <2>1
  <2> DEFINE f == [i \in 0 .. k |-> IF i = k THEN Step(g, done, k) ELSE g[i]]
  <2>3. \A i \in 0 .. (k - 1) : f[i] = g[i]
    BY <2>1
  <2>4. \A i \in 0 .. k : i # 0 => Step(f, done, i) = Step(g, done, i)
    BY <2>1, <2>3 DEF Step
  <2>5. \A i \in 0 .. (k - 1) : g[i] = IF i = 0 THEN <<q, 0>> ELSE Step(g, done, i)
    BY <2>2 DEF Loop
  <2>6. \A i \in 0 .. k : f[i] = IF i = 0 THEN <<q, 0>> ELSE Step(f, done, i)
    <3> SUFFICES ASSUME NEW i \in 0 .. k
                 PROVE  f[i] = IF i = 0 THEN <<q, 0>> ELSE Step(f, done, i)
      OBVIOUS
    <3>1. CASE i = k
      <4>1. f[i] = Step(g, done, k) /\ i # 0
        BY <1>3, <3>1
      <4> QED BY <2>4, <3>1, <4>1
    <3>2. CASE i # k
      <4>1. i \in 0 .. (k - 1) /\ f[i] = g[i]
        BY <2>1, <2>3, <3>2
      <4> QED BY <2>4, <2>5, <4>1
    <3> QED BY <3>1, <3>2
  <2>7. f = [i \in 0 .. k |-> f[i]]
    OBVIOUS
  <2> HIDE DEF f
  <2>8. f = [i \in 0 .. k |-> IF i = 0 THEN <<q, 0>> ELSE Step(f, done, i)]
    BY <2>6, <2>7
  <2>9. Loop(f, q, done, k)
    BY <2>8 DEF Loop
  <2> QED BY <2>9
<1> QED BY <1>2, <1>3

\* So tally is the end of such a loop.
LEMMA TallyLoop ==
    ASSUME NEW q, NEW done, Len(q) \in Nat
    PROVE  \E f : Loop(f, q, done, Len(q)) /\ tally(q, done) = f[Len(q)]
<1>1. \E f : Loop(f, q, done, Len(q))
  BY LoopExists
<1> DEFINE f == CHOOSE f : Loop(f, q, done, Len(q))
<1>2. Loop(f, q, done, Len(q))
  BY <1>1
<1>3. tally(q, done) = f[Len(q)]
  BY DEF tally, Loop, Step
<1> QED BY <1>2, <1>3

\* After i steps the first r packets are the PRIORITY ones among the first i
\* that were not sent, each once, and those after i are where they were.
LoopInv(s, r, q, done, i) ==
    /\ s \in [1 .. Len(q) -> Nat] /\ r \in 0 .. i
    /\ \A j \in (i + 1) .. Len(q) : s[j] = q[j]
    /\ \A j \in 1 .. r : s[j] # 0 /\ \E k \in (1 .. i) \ done : q[k] = s[j]
    /\ \A k \in (1 .. i) \ done : q[k] # 0 => \E j \in 1 .. r : s[j] = q[k]
    /\ \A j, k \in 1 .. r : s[j] = s[k] => j = k

\* A step of the loop keeps LoopInv, whether the packet stays or goes.
LEMMA RetainKeeps ==
    ASSUME NEW q \in Seq(Nat), Once(q), NEW done, NEW i \in 1 .. Len(q), NEW s, NEW r,
           LoopInv(s, r, q, done, i - 1)
    PROVE  LoopInv(retain(s, done, r, i)[1], retain(s, done, r, i)[2], q, done, i)
<1> DEFINE n == Len(q)
<1>0. n \in Nat /\ i \in Nat /\ i >= 1 /\ i <= n /\ r \in Nat /\ r <= i - 1
  BY DEF LoopInv
<1>1. s[i] = q[i] /\ s \in [1 .. n -> Nat] /\ DOMAIN q = 1 .. n
  BY DEF LoopInv
<1>2. CASE i \in done \/ s[i] = 0
  <2>1. retain(s, done, r, i)[1] = s /\ retain(s, done, r, i)[2] = r
    BY <1>2 DEF retain
  <2>2. \A k \in (1 .. i) \ done : q[k] # 0 => k \in (1 .. (i - 1)) \ done
    BY <1>0, <1>1, <1>2
  <2>3. LoopInv(s, r, q, done, i)
    <3>1. r \in 0 .. i /\ \A j \in (i + 1) .. Len(q) : s[j] = q[j]
      BY <1>0 DEF LoopInv
    <3>2. \A j \in 1 .. r : s[j] # 0 /\ \E k \in (1 .. i) \ done : q[k] = s[j]
      BY <1>0 DEF LoopInv
    <3>3. \A k \in (1 .. i) \ done : q[k] # 0 => \E j \in 1 .. r : s[j] = q[k]
      BY <2>2 DEF LoopInv
    <3> QED BY <3>1, <3>2, <3>3 DEF LoopInv
  <2> QED BY <2>1, <2>3
<1>3. CASE i \notin done /\ s[i] # 0
  <2> DEFINE t == [s EXCEPT ![i] = s[r + 1], ![r + 1] = s[i]]
  <2>1. retain(s, done, r, i)[1] = t /\ retain(s, done, r, i)[2] = r + 1
    BY <1>3 DEF retain
  <2>2. /\ t \in [1 .. n -> Nat] /\ t[r + 1] = q[i]
        /\ \A j \in 1 .. r : t[j] = s[j]
        /\ \A j \in (i + 1) .. n : t[j] = s[j]
    <3>1. i \in 1 .. n /\ r + 1 \in 1 .. n /\ s[r + 1] \in Nat /\ s[i] \in Nat
      <4>1. i \in 1 .. n /\ r + 1 \in 1 .. n
        BY <1>0
      <4>2. \A j \in 1 .. n : s[j] \in Nat
        BY <1>1
      <4> QED BY <4>1, <4>2
    <3>2. t \in [1 .. n -> Nat]
      <4> DEFINE x == s[i]  y == s[r + 1]  k == r + 1  m == n
      <4>1. s \in [1 .. m -> Nat] /\ i \in 1 .. m /\ k \in 1 .. m /\ x \in Nat /\ y \in Nat
        BY <1>1, <3>1
      <4> HIDE DEF x, y, k, m
      <4>2. [s EXCEPT ![i] = y, ![k] = x] \in [1 .. m -> Nat]
        BY <4>1
      <4> QED BY <4>2 DEF x, y, k, m
    <3>3. \A j \in 1 .. n : t[j] = IF j = r + 1 THEN s[i] ELSE IF j = i THEN s[r + 1] ELSE s[j]
      BY <1>1, <3>1
    <3> HIDE DEF t
    <3>4. t[r + 1] = q[i]
      BY <1>1, <3>1, <3>3
    <3>5. \A j \in 1 .. r : t[j] = s[j]
      BY <1>0, <3>3
    <3>6. \A j \in (i + 1) .. n : t[j] = s[j]
      BY <1>0, <3>3
    <3> QED BY <3>2, <3>4, <3>5, <3>6
  <2> HIDE DEF t
  <2>3. \A j \in (i + 1) .. n : t[j] = q[j]
    BY <1>0, <2>2 DEF LoopInv
  <2>4. \A j \in 1 .. (r + 1) : j = r + 1 \/ j \in 1 .. r
    BY <1>0
  <2>5. ASSUME NEW j \in 1 .. (r + 1)
        PROVE  t[j] # 0 /\ \E k \in (1 .. i) \ done : q[k] = t[j]
    <3>1. CASE j = r + 1
      BY <1>0, <1>1, <1>3, <2>2, <3>1
    <3>2. CASE j \in 1 .. r
      BY <1>0, <2>2, <3>2 DEF LoopInv
    <3> QED BY <2>4, <3>1, <3>2
  <2>6. ASSUME NEW k \in (1 .. i) \ done, q[k] # 0
        PROVE  \E j \in 1 .. (r + 1) : t[j] = q[k]
    <3>1. CASE k = i
      BY <1>0, <2>2, <3>1
    <3>2. CASE k # i
      <4>1. k \in (1 .. (i - 1)) \ done
        BY <1>0, <3>2
      <4>2. PICK j \in 1 .. r : s[j] = q[k]
        BY <2>6, <4>1 DEF LoopInv
      <4> QED BY <1>0, <2>2, <4>2
    <3> QED BY <3>1, <3>2
  <2>7. ASSUME NEW j \in 1 .. r PROVE t[j] # t[r + 1]
    <3>1. PICK k \in (1 .. (i - 1)) \ done : q[k] = s[j] /\ s[j] # 0
      BY DEF LoopInv
    <3>2. q[k] # q[i]
      <4>1. k \in DOMAIN q /\ i \in DOMAIN q /\ k # i
        BY <1>0, <1>1
      <4> QED BY <3>1, <4>1 DEF Once
    <3> QED BY <2>2, <3>1, <3>2
  <2>8. \A j, k \in 1 .. (r + 1) : t[j] = t[k] => j = k
    BY <2>2, <2>4, <2>7 DEF LoopInv
  <2>9. r + 1 \in 0 .. i
    BY <1>0
  <2>10. LoopInv(t, r + 1, q, done, i)
    BY <2>2, <2>3, <2>5, <2>6, <2>8, <2>9 DEF LoopInv
  <2> QED BY <2>1, <2>10
<1> QED BY <1>2, <1>3

\* The tally of process_substrate_egress_queue leaves, for any queue, the
\* PRIORITY packets that were not sent, each once, and nothing else.
THEOREM TallyKeeps ==
    ASSUME NEW q \in Seq(Nat), Once(q), NEW done
    PROVE  LET kept == SubSeq(tally(q, done)[1], 1, tally(q, done)[2])
           IN  /\ kept \in Seq(Nat) /\ Once(kept) /\ Len(kept) <= Len(q)
               /\ \A p : Holds(kept, p) <=> p # 0 /\ \E k \in DOMAIN q \ done : q[k] = p
<1> DEFINE n == Len(q)
<1>1. n \in Nat /\ DOMAIN q = 1 .. n
  OBVIOUS
<1>2. PICK f : Loop(f, q, done, n) /\ tally(q, done) = f[n]
  BY <1>1, TallyLoop
<1>3. \A i \in 0 .. n : f[i] = IF i = 0 THEN <<q, 0>> ELSE Step(f, done, i)
  BY <1>2 DEF Loop
<1> DEFINE Bad == {i \in 0 .. n : ~LoopInv(f[i][1], f[i][2], q, done, i)}
<1>4. Bad = {}
  <2> SUFFICES ASSUME Bad # {} PROVE FALSE
    OBVIOUS
  <2>1. PICK i \in Bad : \A m \in Bad : i <= m
    <3>1. Bad \subseteq Nat
      BY <1>1
    <3> HIDE DEF Bad
    <3> QED BY <3>1, FirstNat
  <2>2. CASE i = 0
    <3>1. f[i][1] = q /\ f[i][2] = 0
      BY <1>1, <1>3, <2>2
    <3>2. LoopInv(q, 0, q, done, 0)
      BY <1>1 DEF LoopInv
    <3> QED BY <2>1, <2>2, <3>1, <3>2
  <2>3. CASE i # 0
    <3>1. i \in 1 .. n /\ i - 1 \in 0 .. n /\ i - 1 \notin Bad
      BY <1>1, <2>1, <2>3
    <3>2. LoopInv(f[i - 1][1], f[i - 1][2], q, done, i - 1)
      BY <3>1
    <3>3. f[i] = retain(f[i - 1][1], done, f[i - 1][2], i)
      BY <1>3, <2>3, <3>1 DEF Step
    <3>4. LoopInv(f[i][1], f[i][2], q, done, i)
      BY <3>1, <3>2, <3>3, RetainKeeps
    <3> QED BY <2>1, <3>4
  <2> QED BY <2>2, <2>3
<1> DEFINE s == f[n][1]  r == f[n][2]  kept == SubSeq(s, 1, r)
<1>5. LoopInv(s, r, q, done, n)
  BY <1>1, <1>4
<1> HIDE DEF s, r
<1>6. r \in 0 .. n /\ s \in Seq(Nat) /\ Len(s) = n
  <2>1. r \in 0 .. n /\ s \in [1 .. n -> Nat]
    BY <1>5 DEF LoopInv
  <2> QED BY <1>1, <2>1
<1>7. /\ kept \in Seq(Nat) /\ Len(kept) = r /\ DOMAIN kept = 1 .. r
      /\ \A j \in 1 .. r : kept[j] = s[j]
  BY <1>1, <1>6
<1> HIDE DEF kept
<1>8. Once(kept)
  <2>1. \A j, k \in 1 .. r : s[j] = s[k] => j = k
    BY <1>5 DEF LoopInv
  <2> QED BY <1>7, <2>1 DEF Once
<1>9. \A p : Holds(kept, p) <=> p # 0 /\ \E k \in DOMAIN q \ done : q[k] = p
  <2>1. \A j \in 1 .. r : s[j] # 0 /\ \E k \in (1 .. n) \ done : q[k] = s[j]
    BY <1>5 DEF LoopInv
  <2>2. \A k \in (1 .. n) \ done : q[k] # 0 => \E j \in 1 .. r : s[j] = q[k]
    BY <1>5 DEF LoopInv
  <2>3. DOMAIN q = 1 .. n /\ DOMAIN kept = 1 .. r
    BY <1>1, <1>7
  <2>4. ASSUME NEW p, Holds(kept, p)
        PROVE  p # 0 /\ \E k \in DOMAIN q \ done : q[k] = p
    <3>1. PICK j \in 1 .. r : s[j] = p
      BY <1>7, <2>3, <2>4 DEF Holds
    <3> QED BY <2>1, <2>3, <3>1
  <2>5. ASSUME NEW p, p # 0, NEW k \in DOMAIN q \ done, q[k] = p
        PROVE  Holds(kept, p)
    <3>1. PICK j \in 1 .. r : s[j] = p
      BY <2>2, <2>3, <2>5
    <3> QED BY <1>7, <2>3, <3>1 DEF Holds
  <2> QED BY <2>4, <2>5
<1>10. kept = SubSeq(tally(q, done)[1], 1, tally(q, done)[2])
  BY <1>2 DEF kept, s, r
<1> QED BY <1>6, <1>7, <1>8, <1>9, <1>10

-----------------------------------------------------------------------------
(* Packets in queues, and places of the worker.                            *)

\* A function on 1 .. n is a sequence.
LEMMA SeqOf ==
    ASSUME NEW S, NEW n \in Nat, NEW s \in [1 .. n -> S] PROVE s \in Seq(S)
  OBVIOUS

\* And a sequence is a function on 1 .. n.
LEMMA SeqElements ==
    ASSUME NEW S, NEW s \in Seq(S)
    PROVE  /\ Len(s) \in Nat /\ DOMAIN s = 1 .. Len(s) /\ s = [i \in 1 .. Len(s) |-> s[i]]
           /\ \A i \in 1 .. Len(s) : s[i] \in S
<1>1. Len(s) \in Nat /\ DOMAIN s = 1 .. Len(s)
  OBVIOUS
<1>2. \A i \in 1 .. Len(s) : s[i] \in S
  OBVIOUS
<1>3. s = [i \in DOMAIN s |-> s[i]]
  OBVIOUS
<1> QED BY <1>1, <1>2, <1>3

\* A packet is put at the end of a queue.
LEMMA AppendHolds ==
    ASSUME NEW S, NEW s \in Seq(S), NEW x \in S
    PROVE  /\ \A p : Holds(Append(s, x), p) <=> Holds(s, p) \/ p = x
           /\ Once(s) /\ (x = 0 \/ ~Holds(s, x)) => Once(Append(s, x))
<1> DEFINE t == Append(s, x)  n == Len(s)
<1>1. /\ n \in Nat /\ DOMAIN s = 1 .. n /\ DOMAIN t = 1 .. (n + 1)
      /\ t[n + 1] = x /\ \A i \in 1 .. n : t[i] = s[i]
  OBVIOUS
<1> HIDE DEF t, n
<1>2. \A i \in 1 .. (n + 1) : i = n + 1 \/ i \in 1 .. n
  BY <1>1
<1>3. n + 1 \in 1 .. (n + 1) /\ \A i \in 1 .. n : i \in 1 .. (n + 1)
  BY <1>1
<1>4. \A p : Holds(t, p) <=> Holds(s, p) \/ p = x
  BY <1>1, <1>2, <1>3 DEF Holds
<1>5. Once(s) /\ (x = 0 \/ ~Holds(s, x)) => Once(t)
  BY <1>1, <1>2 DEF Holds, Once
<1> QED BY <1>4, <1>5 DEF t

\* A packet is taken from the front of a queue.
LEMMA TailHolds ==
    ASSUME NEW S, NEW s \in Seq(S), s # <<>>
    PROVE  /\ \A p : Holds(s, p) <=> Holds(Tail(s), p) \/ p = Head(s)
           /\ Once(s) => Once(Tail(s)) /\ (Head(s) # 0 => ~Holds(Tail(s), Head(s)))
<1> DEFINE t == Tail(s)  n == Len(s)
<1>1. /\ n \in Nat \ {0} /\ DOMAIN s = 1 .. n /\ DOMAIN t = 1 .. (n - 1)
      /\ Head(s) = s[1] /\ \A i \in 1 .. (n - 1) : t[i] = s[i + 1]
  OBVIOUS
<1> HIDE DEF t, n
<1>2. \A i \in 1 .. n : i = 1 \/ i - 1 \in 1 .. (n - 1)
  BY <1>1
<1>3. 1 \in 1 .. n /\ \A i \in 1 .. (n - 1) : i + 1 \in 1 .. n /\ i + 1 # 1
  BY <1>1
<1>4. \A i \in 1 .. n : i # 1 => t[i - 1] = s[i]
  BY <1>1, <1>2
<1>5. \A p : Holds(s, p) <=> Holds(t, p) \/ p = Head(s)
  BY <1>1, <1>2, <1>3, <1>4 DEF Holds
<1>6. Once(s) => Once(t) /\ (Head(s) # 0 => ~Holds(t, Head(s)))
  <2> SUFFICES ASSUME Once(s) PROVE Once(t) /\ (Head(s) # 0 => ~Holds(t, Head(s)))
    OBVIOUS
  <2>1. ASSUME NEW i \in DOMAIN t, NEW j \in DOMAIN t, t[i] = t[j], t[i] # 0 PROVE i = j
    <3>1. i + 1 = j + 1
      BY <1>1, <1>3, <2>1 DEF Once
    <3> QED BY <1>1, <3>1
  <2>2. Head(s) # 0 => ~Holds(t, Head(s))
    BY <1>1, <1>3 DEF Once, Holds
  <2> QED BY <2>1, <2>2 DEF Once
<1> QED BY <1>5, <1>6 DEF t

\* Packets that are not PRIORITY are put at the end of a queue.
LEMMA ZerosHold ==
    ASSUME NEW s \in Seq(Nat), NEW k \in Nat, NEW z, z = [i \in 1 .. k |-> 0]
    PROVE  /\ Len(s \o z) = Len(s) + k /\ (Once(s) => Once(s \o z))
           /\ \A p : p # 0 => (Holds(s \o z, p) <=> Holds(s, p))
           /\ \A m \in Nat : s \in Seq(0 .. m) => s \o z \in Seq(0 .. m)
<1> DEFINE t == s \o z  n == Len(s)
<1>0. z \in Seq({0}) /\ z \in Seq(Nat) /\ Len(z) = k /\ \A i \in 1 .. k : z[i] = 0
  OBVIOUS
<1>1. /\ n \in Nat /\ DOMAIN s = 1 .. n /\ DOMAIN t = 1 .. (n + k) /\ Len(t) = n + k
      /\ \A i \in 1 .. n : t[i] = s[i]
      /\ \A i \in 1 .. (n + k) : i > n => t[i] = z[i - n] /\ i - n \in 1 .. k
  BY <1>0
<1>2. \A i \in 1 .. (n + k) : (i \in 1 .. n /\ t[i] = s[i]) \/ t[i] = 0
  <2> SUFFICES ASSUME NEW i \in 1 .. (n + k)
               PROVE  (i \in 1 .. n /\ t[i] = s[i]) \/ t[i] = 0
    OBVIOUS
  <2>1. CASE i > n
    BY <1>0, <1>1, <2>1
  <2>2. CASE ~(i > n)
    BY <1>1, <2>2
  <2> QED BY <2>1, <2>2
<1>3. \A i \in 1 .. n : i \in 1 .. (n + k)
  BY <1>1
<1>4. ASSUME NEW m \in Nat, s \in Seq(0 .. m) PROVE t \in Seq(0 .. m)
  <2>1. z \in Seq(0 .. m)
    OBVIOUS
  <2> QED BY <1>4, <2>1
<1> HIDE DEF t, n
<1>5. Once(s) => Once(t)
  BY <1>1, <1>2 DEF Once
<1>6. \A p : p # 0 => (Holds(t, p) <=> Holds(s, p))
  BY <1>1, <1>2, <1>3 DEF Holds
<1> QED BY <1>1, <1>4, <1>5, <1>6 DEF t, n

\* The loop goes to the first of the events, or back to the start.
LEMMA GotoPlace ==
    ASSUME NEW events, events \subseteq Slots, goto(events)
    PROVE  /\ pc' \in Places /\ revents' = events /\ pc'[2] \notin {"len", "recv"}
           /\ pc'[1] \in events \cup {"out"}
<1>1. CASE events = {}
  <2>1. pc' = <<"out", "">> /\ revents' = events
    BY <1>1 DEF goto
  <2> QED BY <2>1 DEF Places
<1>2. CASE events # {}
  <2> DEFINE first(e) == \A f \in events : position[e] <= position[f]
             slot == CHOOSE e \in events : first(e)
             T == {position[e] : e \in events}
  <2>1. \A e \in events : position[e] \in Nat
    BY DEF position, Slots, Notified, PacketQueues, Devices
  <2>2. \E e \in events : first(e)
    <3>1. T \subseteq Nat /\ T # {}
      BY <1>2, <2>1
    <3> HIDE DEF T
    <3>2. PICK k \in T : \A m \in T : k <= m
      BY <3>1, FirstNat
    <3> USE DEF T
    <3>3. PICK e \in events : k = position[e]
      OBVIOUS
    <3> QED BY <3>2, <3>3
  <2>3. slot \in events
    BY <2>2
  <2>4. /\ pc' = <<slot, IF slot \in Notified THEN "consume" ELSE "">>
        /\ revents' = events
    BY <1>2 DEF goto
  <2> HIDE DEF slot
  <2>5. pc' \in Places
    BY <2>3, <2>4 DEF Places, Slots
  <2> QED BY <2>3, <2>4, <2>5
<1> QED BY <1>1, <1>2

\* It leaves a source for one further on, and for one that it reads only with
\* a free buffer.
LEMMA LeavePlace ==
    ASSUME TypeOK, NEW slot, NEW free, leave(slot, free)
    PROVE  /\ pc' \in Places /\ revents' \subseteq Slots /\ pc'[2] \notin {"len", "recv"}
           /\ pc'[1] \in PacketQueues \cup Devices => free > 0
<1> DEFINE events == events_after(slot, revents, free)
<1>1. events \subseteq Slots /\ goto(events)
  BY DEF leave, events_after, TypeOK
<1>2. \A e \in events : e \in {"returns", "pollout"} \/ free > 0
  BY DEF events_after
<1> HIDE DEF events
<1>3. /\ pc' \in Places /\ revents' = events /\ pc'[2] \notin {"len", "recv"}
      /\ pc'[1] \in events \cup {"out"}
  BY <1>1, GotoPlace
<1> QED BY <1>1, <1>2, <1>3 DEF PacketQueues, Devices

\* How many guards there are.
LEMMA GuardCount ==
    ASSUME NEW sv
    PROVE  Cardinality({s \in Services : sv[s].guard}) =
             (IF sv["dispatch"].guard THEN 1 ELSE 0)
               + (IF sv["adapter_manager"].guard THEN 1 ELSE 0)
<1> DEFINE G == {s \in Services : sv[s].guard}  d == "dispatch"  a == "adapter_manager"
<1>1. G = (IF sv[d].guard THEN {d} ELSE {}) \cup (IF sv[a].guard THEN {a} ELSE {})
  BY DEF Services
<1>2. d # a
  OBVIOUS
<1> HIDE DEF G, d, a
<1>3. CASE sv[d].guard /\ sv[a].guard
  <2>1. G = {d} \cup {a} /\ a \notin {d}
    BY <1>1, <1>2, <1>3
  <2>2. IsFiniteSet({d}) /\ Cardinality({d}) = 1
    BY FS_Singleton
  <2>3. Cardinality({d} \cup {a}) = 2
    BY <2>1, <2>2, FS_AddElement
  <2>4. Cardinality(G) = 2
    BY <2>1, <2>3
  <2> QED BY <1>3, <2>4 DEF G, d, a
<1>4. CASE sv[d].guard /\ ~sv[a].guard
  <2>1. G = {d}
    BY <1>1, <1>4
  <2>2. Cardinality(G) = 1
    BY <2>1, FS_Singleton
  <2> QED BY <1>4, <2>2 DEF G, d, a
<1>5. CASE ~sv[d].guard /\ sv[a].guard
  <2>1. G = {a}
    BY <1>1, <1>5
  <2>2. Cardinality(G) = 1
    BY <2>1, FS_Singleton
  <2> QED BY <1>5, <2>2 DEF G, d, a
<1>6. CASE ~sv[d].guard /\ ~sv[a].guard
  <2>1. Cardinality(G) = 0
    BY <1>1, <1>6, FS_EmptySet
  <2> QED BY <1>6, <2>1 DEF G, d, a
<1> QED BY <1>3, <1>4, <1>5, <1>6

-----------------------------------------------------------------------------
(* The steps of the worker and of the threads around it.                   *)

\* All buffers are free, and nothing is queued.
LEMMA InitIInv == Init => IInv
<1> SUFFICES ASSUME Init PROVE IInv
  OBVIOUS
<1>1. config \in Configs /\ config.buffers \in Nat
  BY FastPathAssumption DEF Init
<1>2. /\ queue["mgmt"] = <<>> /\ queue["requeue"] = <<>> /\ substrate_egress_q = <<>>
      /\ \A q \in PacketQueues : queue[q] = <<>>
  BY DEF Init, PacketQueues
<1>3. \A s \in Services : service[s].len = 0 /\ service[s].guard = FALSE
  BY DEF Init
<1>4. TypeOK
  <2>1. buffers \in Nat /\ actor_input_q \in Nat /\ avail \in Nat /\ return_q \in Nat
    BY <1>1 DEF Init
  <2>2. <<>> \in Seq(0 .. issued)
    OBVIOUS
  <2>3. substrate_egress_q \in Seq(0 .. issued) /\ queue \in [PacketQueues -> Seq(0 .. issued)]
    BY <2>2 DEF Init
  <2>4. pc \in Places /\ revents \subseteq Slots
    BY DEF Init, Places
  <2>5. notify \in [Notified -> BOOLEAN] /\ posting \in [Notified -> Nat]
    BY DEF Init
  <2>6. service \in [Services -> [len : 0 .. ServiceDepth, guard : BOOLEAN]]
    <3>1. 0 \in 0 .. ServiceDepth
      BY FastPathAssumption
    <3>2. service = [s \in Services |-> [len |-> 0, guard |-> FALSE]]
      BY DEF Init
    <3> QED BY <3>1, <3>2
  <2>7. ready \in [Devices -> Nat]
    BY DEF Init
  <2>8. issued \in Nat /\ sent \subseteq 1 .. issued /\ removed \subseteq 1 .. issued
    BY DEF Init
  <2> QED BY <1>1, <2>1, <2>3, <2>4, <2>5, <2>6, <2>7, <2>8 DEF TypeOK
<1>5. HasBuffer
  BY DEF Init, HasBuffer, PacketQueues, Devices
<1>6. BuffersConserved
  <2>1. Cardinality({s \in Services : service[s].guard}) = 0
    BY <1>3, GuardCount DEF Services
  <2>2. Len(substrate_egress_q) = 0
    BY <1>2
  <2>3. service["dispatch"].len = 0 /\ service["adapter_manager"].len = 0
    BY <1>3 DEF Services
  <2>4. buffers = config.buffers /\ actor_input_q = 0 /\ return_q = 0
    BY DEF Init
  <2> QED BY <1>1, <2>1, <2>2, <2>3, <2>4 DEF BuffersConserved
<1>7. Wakeups
  <2>1. pc = <<"out", "">> /\ return_q = 0
    BY DEF Init
  <2>2. \A q : pc # <<q, "recv">>
    BY <2>1
  <2>3. ~(return_q > 0)
    <3>1. return_q = 0
      BY DEF Init
    <3> QED BY <3>1
  <2>4. \A q \in PacketQueues : ~(queue[q] # <<>>) /\ pc # <<q, "recv">>
    BY <1>2, <2>2
  <2> QED BY <2>3, <2>4 DEF Wakeups
<1>8. Kept
  <2>1. DOMAIN <<>> = {}
    OBVIOUS
  <2>2. \A p \in 1 .. issued : FALSE
    <3>1. issued = 0
      BY DEF Init
    <3> QED BY <3>1
  <2> QED BY <1>2, <2>1, <2>2 DEF Kept, Once
<1> QED BY <1>4, <1>5, <1>6, <1>7, <1>8 DEF IInv

\* What is known of the configuration.
LEMMA ConfigFacts ==
    ASSUME config \in Configs
    PROVE  /\ config.batch \in Nat \ {0} /\ config.buffers \in Nat
           /\ config.engine \in {"io_uring", "posix_unbatched"}
           /\ ServiceDepth \in Nat \ {0}
  BY FastPathAssumption

\* The operations of a batch that succeed are operations of the batch.
LEMMA EngineDone ==
    ASSUME config \in Configs, NEW k \in Nat, NEW done \in do_batch_op(k)
    PROVE  done \subseteq 1 .. k
<1>1. CASE config.engine = "io_uring"
  <2>1. done \subseteq 1 .. minimum(k, config.batch)
    BY <1>1 DEF do_batch_op, io_uring_batch
  <2> QED BY <2>1, ConfigFacts DEF minimum
<1>2. CASE config.engine # "io_uring"
  <2>1. PICK n \in 0 .. k : done = 1 .. n
    BY <1>2 DEF do_batch_op, posix_unbatched_batch
  <2> QED BY <2>1
<1> QED BY <1>1, <1>2

\* A batch is sent: PRIORITY packets are sent or stay.
LEMMA SendKeeps ==
    ASSUME IInv, NEW done \in try_send_to_from_batch(Len(substrate_egress_q)),
           process_substrate_egress_queue(done), UNCHANGED <<queue, issued, removed>>
    PROVE  /\ substrate_egress_q' \in Seq(0 .. issued)
           /\ Len(substrate_egress_q') \in 0 .. Len(substrate_egress_q)
           /\ sent' \subseteq 1 .. issued /\ Kept'
<1> DEFINE q == substrate_egress_q  kept == substrate_egress_q'  mgmt == queue["mgmt"]
<1>1. /\ issued \in Nat /\ q \in Seq(0 .. issued) /\ q \in Seq(Nat) /\ Len(q) \in Nat
      /\ DOMAIN q = 1 .. Len(q) /\ Once(q)
  BY DEF IInv, TypeOK, Kept
<1>2. done \subseteq DOMAIN q
  <2>1. config \in Configs /\ done \in do_batch_op(Len(q))
    BY DEF IInv, TypeOK, try_send_to_from_batch
  <2> QED BY <1>1, <2>1, EngineDone
<1>3. kept = SubSeq(tally(q, done)[1], 1, tally(q, done)[2])
  BY DEF process_substrate_egress_queue
<1>4. /\ kept \in Seq(Nat) /\ Once(kept) /\ Len(kept) <= Len(q)
      /\ \A p : Holds(kept, p) <=> p # 0 /\ \E k \in DOMAIN q \ done : q[k] = p
  BY <1>1, <1>3, TallyKeeps
<1>5. sent' = sent \cup ({q[i] : i \in done} \ {0})
  BY DEF process_substrate_egress_queue
<1> HIDE DEF q, kept
<1>6. \A p : p # 0 => (Holds(q, p) <=> Holds(kept, p) \/ p \in {q[i] : i \in done})
  BY <1>2, <1>4 DEF Holds
<1>7. \A p : Holds(kept, p) => p \notin {q[i] : i \in done}
  BY <1>1, <1>2, <1>4 DEF Once
<1>8. Len(kept) \in 0 .. Len(q) /\ kept \in Seq(0 .. issued)
  <2>1. \A p : Holds(kept, p) => p \in 0 .. issued
    BY <1>1, <1>4
  <2>2. Len(kept) \in Nat /\ DOMAIN kept = 1 .. Len(kept)
    BY <1>4
  <2>3. \A i \in 1 .. Len(kept) : kept[i] \in 0 .. issued
    BY <2>1, <2>2 DEF Holds
  <2>4. kept \in [1 .. Len(kept) -> 0 .. issued]
    BY <1>4, <2>2, <2>3
  <2>5. kept \in Seq(0 .. issued)
    BY <2>2, <2>4, SeqOf
  <2> QED BY <1>1, <1>4, <2>2, <2>5
<1>9. sent' \subseteq 1 .. issued
  <2>1. \A i \in done : q[i] \in 0 .. issued
    BY <1>1, <1>2
  <2>2. sent \subseteq 1 .. issued
    BY DEF IInv, TypeOK
  <2>3. \A x \in 0 .. issued : x # 0 => x \in 1 .. issued
    BY <1>1
  <2>4. {q[i] : i \in done} \ {0} \subseteq 1 .. issued
    BY <2>1, <2>3
  <2> QED BY <1>5, <2>2, <2>4
<1>10. ASSUME NEW p \in 1 .. issued
       PROVE  \/ Holds(mgmt, p) /\ ~Holds(kept, p) /\ p \notin sent' \cup removed
              \/ ~Holds(mgmt, p) /\ Holds(kept, p) /\ p \notin sent' \cup removed
              \/ ~Holds(mgmt, p) /\ ~Holds(kept, p) /\ p \in sent' \ removed
              \/ ~Holds(mgmt, p) /\ ~Holds(kept, p) /\ p \in removed \ sent'
  <2>1. p # 0
    BY <1>1
  <2>2. \/ Holds(mgmt, p) /\ ~Holds(q, p) /\ p \notin sent \cup removed
        \/ ~Holds(mgmt, p) /\ Holds(q, p) /\ p \notin sent \cup removed
        \/ ~Holds(mgmt, p) /\ ~Holds(q, p) /\ p \in sent \ removed
        \/ ~Holds(mgmt, p) /\ ~Holds(q, p) /\ p \in removed \ sent
    BY DEF IInv, Kept, q
  <2>3. p \in sent' <=> p \in sent \/ p \in {q[i] : i \in done}
    BY <1>5, <2>1
  <2>4. Holds(q, p) <=> Holds(kept, p) \/ p \in {q[i] : i \in done}
    BY <1>6, <2>1
  <2>5. Holds(kept, p) => p \notin {q[i] : i \in done}
    BY <1>7
  <2> QED BY <2>2, <2>3, <2>4, <2>5
<1>11. Kept'
  BY <1>4, <1>10 DEF IInv, Kept, kept
<1> QED BY <1>8, <1>9, <1>11 DEF q, kept

\* A step that moves no packet of the queue to the substrate or of a packet
\* queue keeps PRIORITY packets where they are.
LEMMA SameKept ==
    ASSUME Kept, UNCHANGED <<queue, substrate_egress_q, issued, sent, removed>>
    PROVE  Kept'
  BY DEF Kept, Once, Holds

\* A step that puts nothing in a queue and takes no notification, and does not
\* go into a receive, leaves nothing untold.
LEMMA SameWakeups ==
    ASSUME Wakeups, pc[2] \notin {"len", "recv"}, pc'[2] \notin {"len", "recv"},
           UNCHANGED <<queue, return_q, notify, posting>>
    PROVE  Wakeups'
<1>1. \A n : <<n, "len">>[2] = "len" /\ <<n, "recv">>[2] = "recv"
  OBVIOUS
<1>2. \A n : pc \notin {<<n, "len">>, <<n, "recv">>} /\ pc' \notin {<<n, "len">>, <<n, "recv">>}
  BY <1>1
<1> QED BY <1>2 DEF Wakeups, Told

\* The buffers a service has.
HasOf(r) == r.len + (IF r.guard THEN 1 ELSE 0)
InServices(sv) == HasOf(sv["dispatch"]) + HasOf(sv["adapter_manager"])

\* They are the ones that BuffersConserved counts.
LEMMA InServicesCounts ==
    ASSUME NEW sv \in [Services -> [len : 0 .. ServiceDepth, guard : BOOLEAN]]
    PROVE  /\ InServices(sv) \in Nat
           /\ sv["dispatch"].len \in Nat /\ sv["adapter_manager"].len \in Nat
           /\ Cardinality({s \in Services : sv[s].guard}) \in Nat
           /\ InServices(sv) = sv["dispatch"].len + sv["adapter_manager"].len
                                 + Cardinality({s \in Services : sv[s].guard})
<1> DEFINE d == sv["dispatch"]  a == sv["adapter_manager"]
           C == Cardinality({s \in Services : sv[s].guard})
<1>1. ServiceDepth \in Nat
  BY FastPathAssumption
<1>2. d.len \in 0 .. ServiceDepth /\ a.len \in 0 .. ServiceDepth
  BY DEF Services
<1>3. d.len \in Nat /\ a.len \in Nat
  BY <1>1, <1>2
<1>4. C = (IF d.guard THEN 1 ELSE 0) + (IF a.guard THEN 1 ELSE 0)
  BY GuardCount
<1>5. InServices(sv) = d.len + (IF d.guard THEN 1 ELSE 0) + (a.len + (IF a.guard THEN 1 ELSE 0))
  BY DEF InServices, HasOf
<1> HIDE DEF d, a, C
<1>6. InServices(sv) \in Nat /\ C \in Nat /\ InServices(sv) = d.len + a.len + C
  BY <1>3, <1>4, <1>5
<1> QED BY <1>3, <1>6 DEF d, a, C

\* What BuffersConserved adds up are numbers.
LEMMA PartsAreNat ==
    ASSUME IInv
    PROVE  /\ buffers \in Nat /\ actor_input_q \in Nat /\ return_q \in Nat
           /\ Len(substrate_egress_q) \in Nat /\ InServices(service) \in Nat
<1>1. InServices(service) \in Nat
  BY InServicesCounts DEF IInv, TypeOK
<1>2. substrate_egress_q \in Seq(0 .. issued)
  BY DEF IInv, TypeOK
<1>3. buffers \in Nat /\ actor_input_q \in Nat /\ return_q \in Nat
  BY DEF IInv, TypeOK
<1> QED BY <1>1, <1>2, <1>3

\* A step that moves buffers between their places loses none.
LEMMA ConservedBy ==
    ASSUME IInv, TypeOK', config' = config,
           buffers' + actor_input_q' + Len(substrate_egress_q') + return_q' + InServices(service')
             = buffers + actor_input_q + Len(substrate_egress_q) + return_q + InServices(service)
    PROVE  BuffersConserved'
<1> DEFINE C == Cardinality({s \in Services : service[s].guard})
           D == Cardinality({s \in Services : service'[s].guard})
           d == service["dispatch"].len  a == service["adapter_manager"].len
           e == service'["dispatch"].len  b == service'["adapter_manager"].len
<1>1. C \in Nat /\ d \in Nat /\ a \in Nat /\ InServices(service) = d + a + C
  BY InServicesCounts DEF IInv, TypeOK
<1>2. D \in Nat /\ e \in Nat /\ b \in Nat /\ InServices(service') = e + b + D
  BY InServicesCounts DEF TypeOK
<1>3. /\ buffers \in Nat /\ actor_input_q \in Nat /\ return_q \in Nat
      /\ Len(substrate_egress_q) \in Nat
  BY DEF IInv, TypeOK
<1>4. /\ buffers' \in Nat /\ actor_input_q' \in Nat /\ return_q' \in Nat
      /\ Len(substrate_egress_q') \in Nat
  BY DEF TypeOK
<1>5. buffers + actor_input_q + Len(substrate_egress_q) + return_q + d + a + C = config.buffers
  BY DEF IInv, BuffersConserved
<1> HIDE DEF C, D, d, a, e, b
<1>6. buffers' + actor_input_q' + Len(substrate_egress_q') + return_q' + e + b + D = config.buffers
  <2> DEFINE B == buffers  A == actor_input_q  L == Len(substrate_egress_q)  R == return_q
             B1 == buffers'  A1 == actor_input_q'  L1 == Len(substrate_egress_q')
             R1 == return_q'  S == InServices(service)  S1 == InServices(service')
             T == config.buffers
  <2>1. B1 + A1 + L1 + R1 + S1 = B + A + L + R + S
    OBVIOUS
  <2>2. B + A + L + R + d + a + C = T
    BY <1>5
  <2>3. B \in Nat /\ A \in Nat /\ L \in Nat /\ R \in Nat
    BY <1>3
  <2>4. B1 \in Nat /\ A1 \in Nat /\ L1 \in Nat /\ R1 \in Nat
    BY <1>4
  <2>5. S = d + a + C /\ S1 = e + b + D
    BY <1>1, <1>2
  <2> HIDE DEF B, A, L, R, B1, A1, L1, R1, S, S1, T
  <2>6. B1 + A1 + L1 + R1 + e + b + D = T
    BY <1>1, <1>2, <2>1, <2>2, <2>3, <2>4, <2>5
  <2> QED BY <2>6 DEF B1, A1, L1, R1, T
<1> QED BY <1>6 DEF BuffersConserved, D, e, b

\* What is on its way back is not more than there is.
LEMMA ReturnsFit ==
    ASSUME IInv PROVE return_q \in Nat /\ config.buffers \in Nat /\ return_q <= config.buffers
<1> DEFINE C == Cardinality({s \in Services : service[s].guard})
           d == service["dispatch"].len  a == service["adapter_manager"].len
<1>1. C \in Nat /\ d \in Nat /\ a \in Nat
  BY InServicesCounts DEF IInv, TypeOK
<1>2. /\ buffers \in Nat /\ actor_input_q \in Nat /\ return_q \in Nat
      /\ Len(substrate_egress_q) \in Nat /\ config \in Configs
  BY DEF IInv, TypeOK
<1>3. buffers + actor_input_q + Len(substrate_egress_q) + return_q + d + a + C = config.buffers
  BY DEF IInv, BuffersConserved
<1> HIDE DEF C, d, a
<1>4. config.buffers \in Nat
  BY <1>2, ConfigFacts
<1> QED BY <1>1, <1>2, <1>3, <1>4

\* The queues are written out, and the worker polls.
LEMMA OutStep ==
    ASSUME IInv, process_out_queues \/ process_substrate_socket_out PROVE IInv'
<1>1. PICK done \in try_send_to_from_batch(Len(substrate_egress_q)) :
        process_substrate_egress_queue(done)
  BY DEF process_out_queues, process_substrate_socket_out
<1>2. UNCHANGED <<config, avail, queue, return_q, notify, posting, service, ready,
                  issued, removed>>
  BY DEF process_out_queues, process_substrate_socket_out
<1>3. /\ substrate_egress_q' \in Seq(0 .. issued)
      /\ Len(substrate_egress_q') \in 0 .. Len(substrate_egress_q)
      /\ sent' \subseteq 1 .. issued /\ Kept'
  BY <1>1, <1>2, SendKeeps
<1>4. Len(substrate_egress_q) \in Nat /\ buffers \in Nat /\ actor_input_q \in Nat
  BY DEF IInv, TypeOK
<1>5. /\ buffers' \in Nat /\ actor_input_q' \in Nat
      /\ buffers' + actor_input_q' + Len(substrate_egress_q')
           = buffers + actor_input_q + Len(substrate_egress_q)
  <2>1. CASE process_out_queues
    <3>1. /\ actor_input_q' = 0
          /\ buffers' = buffers + actor_input_q
                          + Len(substrate_egress_q) - Len(substrate_egress_q')
      BY <2>1, Zenon DEF process_out_queues, process_actor_input_queue
    <3> QED BY <1>3, <1>4, <3>1
  <2>2. CASE process_substrate_socket_out
    BY <1>3, <1>4, <2>2 DEF process_substrate_socket_out
  <2> QED BY <2>1, <2>2
<1>6. /\ pc' \in Places /\ revents' \subseteq Slots /\ pc'[2] \notin {"len", "recv"}
      /\ pc'[1] \in PacketQueues \cup Devices => buffers' > 0
      /\ pc[2] \notin {"len", "recv"}
  <2>1. CASE process_out_queues
    <3>1. pc' = <<"poll", "">> /\ revents' = revents /\ pc[1] = "out"
      BY <2>1 DEF process_out_queues
    <3> QED BY <3>1 DEF IInv, TypeOK, Places, PacketQueues, Devices, Notified
  <2>2. CASE process_substrate_socket_out
    <3>1. leave("pollout", buffers') /\ pc[1] = "pollout"
      BY <2>2 DEF process_substrate_socket_out
    <3>2. pc[2] \notin {"len", "recv"}
      BY <3>1 DEF IInv, TypeOK, Places, PacketQueues, Notified
    <3> QED BY <3>1, <3>2, LeavePlace DEF IInv
  <2> QED BY <2>1, <2>2
<1>7. TypeOK'
  BY <1>2, <1>3, <1>5, <1>6 DEF IInv, TypeOK
<1>8. HasBuffer'
  BY <1>6 DEF HasBuffer
<1>9. BuffersConserved'
  <2>1. return_q' = return_q /\ config' = config /\ service' = service
    BY <1>2
  <2> QED BY <1>5, <1>7, <2>1, ConservedBy
<1>10. Wakeups'
  BY <1>2, <1>6, SameWakeups DEF IInv
<1> QED BY <1>3, <1>7, <1>8, <1>9, <1>10 DEF IInv

\* Outside a receive the worker is nowhere in one.
LEMMA PlaceOf ==
    ASSUME pc \in Places, pc[1] \in {"out", "poll", "pollout"} \cup Devices
    PROVE  pc[2] \notin {"len", "recv"}
  BY DEF Places, Notified, PacketQueues, Devices

\* The worker is woken, and goes to the first event.
LEMMA PollStep ==
    ASSUME IInv, poll PROVE IInv'
<1>1. UNCHANGED <<config, buffers, actor_input_q, substrate_egress_q, avail, queue, return_q,
                  notify, posting, service, ready, issued, sent, removed>>
  BY DEF poll, outside, history
<1>2. polled \subseteq Slots /\ goto(polled) /\ pc[1] = "poll"
  BY DEF poll, polled, Slots
<1>3. /\ pc' \in Places /\ revents' = polled /\ pc'[2] \notin {"len", "recv"}
      /\ pc'[1] \in polled \cup {"out"}
  BY <1>2, GotoPlace
<1>4. pc[2] \notin {"len", "recv"}
  BY <1>2, PlaceOf DEF IInv, TypeOK
<1>5. TypeOK'
  BY <1>1, <1>2, <1>3 DEF IInv, TypeOK
<1>6. HasBuffer'
  <2>1. \A e \in polled : e \in PacketQueues \cup Devices => buffers > 0
    BY DEF polled, PacketQueues, Devices, Notified
  <2>2. "out" \notin PacketQueues \cup Devices
    BY DEF PacketQueues, Devices
  <2> QED BY <1>1, <1>3, <2>1, <2>2 DEF HasBuffer
<1>7. BuffersConserved'
  BY <1>1, <1>5, ConservedBy
<1>8. Wakeups'
  BY <1>1, <1>3, <1>4, SameWakeups DEF IInv
<1>9. Kept'
  BY <1>1, SameKept DEF IInv
<1> QED BY <1>5, <1>6, <1>7, <1>8, <1>9 DEF IInv

\* A receive takes the notification before it looks at the queue.
LEMMA ConsumeStep ==
    ASSUME IInv, NEW n \in Notified, consume(n) PROVE IInv'
<1>1. UNCHANGED <<config, buffers, actor_input_q, substrate_egress_q, avail, queue, return_q,
                  posting, service, ready, issued, sent, removed>>
  BY DEF consume, history
<1>2. pc = <<n, "consume">> /\ notify' = [notify EXCEPT ![n] = FALSE]
  BY DEF consume
<1>3. notify \in [Notified -> BOOLEAN] /\ notify' \in [Notified -> BOOLEAN]
  BY <1>2 DEF IInv, TypeOK
<1>4. Kept'
  BY <1>1, SameKept DEF IInv
<1>5. CASE notify[n]
  <2>1. pc' = <<n, "len">> /\ revents' = revents
    BY <1>5 DEF consume
  <2>2. pc' \in Places
    BY <2>1 DEF Places
  <2>3. TypeOK'
    BY <1>1, <1>3, <2>1, <2>2 DEF IInv, TypeOK
  <2>4. HasBuffer'
    BY <1>1, <1>2, <2>1 DEF IInv, HasBuffer
  <2>5. BuffersConserved'
    BY <1>1, <2>3, ConservedBy
  <2>6. Wakeups'
    <3>1. \A m \in Notified : m # n => (Told(m) <=> Told(m)')
      BY <1>1, <1>2, <1>3 DEF Told
    <3>2. \A m \in Notified : /\ pc # <<m, "len">> /\ pc # <<m, "recv">> /\ pc' # <<m, "recv">>
                              /\ m = n => pc' = <<m, "len">>
      BY <1>2, <2>1
    <3>3. ASSUME NEW q \in PacketQueues, pc' \notin {<<q, "len">>, <<q, "recv">>}, queue'[q] # <<>>
          PROVE  Told(q)'
      BY <1>1, <3>1, <3>2, <3>3 DEF IInv, Wakeups, Notified
    <3>4. ASSUME pc' \notin {<<"returns", "len">>, <<"returns", "recv">>}, return_q' > 0
          PROVE  Told("returns")'
      BY <1>1, <3>1, <3>2, <3>4 DEF IInv, Wakeups, Notified
    <3>5. \A q \in PacketQueues : pc' # <<q, "recv">>
      BY <3>2 DEF Notified
    <3> QED BY <3>3, <3>4, <3>5 DEF Wakeups
  <2> QED BY <1>4, <2>3, <2>4, <2>5, <2>6 DEF IInv
<1>6. CASE ~notify[n]
  <2>1. leave(n, buffers)
    BY <1>6 DEF consume
  <2>2. /\ pc' \in Places /\ revents' \subseteq Slots /\ pc'[2] \notin {"len", "recv"}
        /\ pc'[1] \in PacketQueues \cup Devices => buffers > 0
    BY <2>1, LeavePlace DEF IInv
  <2>3. TypeOK'
    BY <1>1, <1>3, <2>2 DEF IInv, TypeOK
  <2>4. HasBuffer'
    BY <1>1, <2>2 DEF HasBuffer
  <2>5. BuffersConserved'
    BY <1>1, <2>3, ConservedBy
  <2>6. notify' = notify
    <3>1. notify[n] = FALSE
      BY <1>3, <1>6
    <3> QED BY <1>2, <1>3, <3>1
  <2>7. pc[2] \notin {"len", "recv"}
    BY <1>2
  <2>8. Wakeups'
    BY <1>1, <2>2, <2>6, <2>7, SameWakeups DEF IInv
  <2> QED BY <1>4, <2>3, <2>4, <2>5, <2>8 DEF IInv
<1> QED BY <1>5, <1>6

\* Then it looks how many there are, and leaves if there are none.
LEMMA LenStep ==
    ASSUME IInv, NEW n \in Notified, len(n) PROVE IInv'
<1> DEFINE l == IF n = "returns" THEN return_q ELSE Len(queue[n])
<1>1. UNCHANGED <<config, buffers, actor_input_q, substrate_egress_q, queue, return_q,
                  notify, posting, service, ready, issued, sent, removed>>
  BY DEF len, outside, history
<1>2. pc = <<n, "len">> /\ avail' = l
  BY DEF len
<1>3. n = "returns" \/ (n # "returns" /\ n \in PacketQueues)
  BY DEF Notified, PacketQueues
<1>4. l \in Nat /\ (n # "returns" => queue[n] \in Seq(0 .. issued))
  BY <1>3 DEF IInv, TypeOK
<1>5. Kept'
  BY <1>1, SameKept DEF IInv
<1>6. CASE l # 0
  <2>1. pc' = <<n, "recv">> /\ revents' = revents
    BY <1>6 DEF len
  <2>2. pc' \in Places
    BY <2>1 DEF Places
  <2>3. TypeOK'
    BY <1>1, <1>2, <1>4, <2>1, <2>2 DEF IInv, TypeOK
  <2>4. HasBuffer'
    BY <1>1, <1>2, <2>1 DEF IInv, HasBuffer
  <2>5. BuffersConserved'
    BY <1>1, <2>3, ConservedBy
  <2>6. Wakeups'
    <3>1. \A m \in Notified : Told(m) <=> Told(m)'
      BY <1>1 DEF Told
    <3>2. \A m : m # n => pc \notin {<<m, "len">>, <<m, "recv">>}
      BY <1>2
    <3>3. \A m : /\ pc' # <<m, "len">> /\ (pc' = <<m, "recv">> => m = n)
                 /\ (m = n => pc' = <<m, "recv">>)
      BY <2>1
    <3>4. ASSUME NEW q \in PacketQueues, pc' \notin {<<q, "len">>, <<q, "recv">>}, queue'[q] # <<>>
          PROVE  Told(q)'
      BY <1>1, <3>1, <3>2, <3>3, <3>4 DEF IInv, Wakeups, Notified
    <3>5. ASSUME pc' \notin {<<"returns", "len">>, <<"returns", "recv">>}, return_q' > 0
          PROVE  Told("returns")'
      BY <1>1, <3>1, <3>2, <3>3, <3>5 DEF IInv, Wakeups, Notified
    <3>6. ASSUME NEW q \in PacketQueues, pc' = <<q, "recv">>
          PROVE  avail' \in 1 .. Len(queue'[q]) /\ ~(Len(queue'[q]) > avail')
      <4>1. q = n /\ n # "returns"
        BY <3>3, <3>6 DEF PacketQueues
      <4>2. avail' = Len(queue'[q]) /\ avail' \in Nat /\ avail' # 0
        BY <1>1, <1>2, <1>4, <1>6, <4>1
      <4> QED BY <4>2
    <3> QED BY <3>4, <3>5, <3>6 DEF Wakeups
  <2> QED BY <1>5, <2>3, <2>4, <2>5, <2>6 DEF IInv
<1>7. CASE l = 0
  <2>1. leave(n, buffers)
    BY <1>7 DEF len
  <2>2. /\ pc' \in Places /\ revents' \subseteq Slots /\ pc'[2] \notin {"len", "recv"}
        /\ pc'[1] \in PacketQueues \cup Devices => buffers > 0
    BY <2>1, LeavePlace DEF IInv
  <2>3. TypeOK'
    BY <1>1, <1>2, <1>4, <2>2 DEF IInv, TypeOK
  <2>4. HasBuffer'
    BY <1>1, <2>2 DEF HasBuffer
  <2>5. BuffersConserved'
    BY <1>1, <2>3, ConservedBy
  <2>6. Wakeups'
    <3>1. \A m \in Notified : Told(m) <=> Told(m)'
      BY <1>1 DEF Told
    <3>2. \A m : m # n => pc \notin {<<m, "len">>, <<m, "recv">>}
      BY <1>2
    <3>3. \A m : pc' # <<m, "recv">>
      BY <2>2
    <3>4. n # "returns" => queue[n] = <<>>
      BY <1>4, <1>7
    <3>5. n = "returns" => ~(return_q > 0)
      <4>1. n = "returns" => return_q = 0
        BY <1>7
      <4> QED BY <4>1
    <3>6. ASSUME NEW q \in PacketQueues, queue'[q] # <<>>
          PROVE  Told(q)'
      <4>1. q # n /\ queue[q] # <<>> /\ q \in Notified
        BY <1>1, <3>4, <3>6 DEF PacketQueues, Notified
      <4> QED BY <3>1, <3>2, <4>1 DEF IInv, Wakeups
    <3>7. ASSUME return_q' > 0 PROVE Told("returns")'
      <4>1. "returns" # n /\ return_q > 0 /\ "returns" \in Notified
        BY <1>1, <3>5, <3>7 DEF Notified
      <4> QED BY <3>1, <3>2, <4>1 DEF IInv, Wakeups
    <3> QED BY <3>3, <3>6, <3>7 DEF Wakeups
  <2> QED BY <1>5, <2>3, <2>4, <2>5, <2>6 DEF IInv
<1> QED BY <1>6, <1>7

\* A buffer moves from one part to another.
LEMMA OneMoves ==
    \A b, a, l \in Nat : b > 0 => (b - 1) + (a + 1) + l = b + a + l
  OBVIOUS

\* All the buffers that came back are taken.
LEMMA ReturnsStep ==
    ASSUME IInv, try_recv_many_returns PROVE IInv'
<1> DEFINE taken == IF return_q < config.buffers THEN return_q ELSE config.buffers
<1>1. UNCHANGED <<config, actor_input_q, substrate_egress_q, queue, posting, service, ready,
                  issued, sent, removed>>
  BY DEF try_recv_many_returns, history
<1>2. /\ pc = <<"returns", "recv">> /\ avail' = 0 /\ leave("returns", buffers')
      /\ buffers' = buffers + taken /\ return_q' = return_q - taken
      /\ notify' = reposted("returns", taken)
  BY DEF try_recv_many_returns
<1>3. taken = return_q /\ return_q \in Nat
  BY ReturnsFit
<1> HIDE DEF taken
<1>4. buffers \in Nat
  BY DEF IInv, TypeOK
<1>5. buffers' \in Nat /\ return_q' = 0 /\ buffers' + return_q' = buffers + return_q
  BY <1>2, <1>3, <1>4
<1>6. /\ notify' \in [Notified -> BOOLEAN]
      /\ \A q \in PacketQueues : notify'[q] = notify[q]
  BY <1>2 DEF IInv, TypeOK, reposted, Notified, PacketQueues
<1>7. /\ pc' \in Places /\ revents' \subseteq Slots /\ pc'[2] \notin {"len", "recv"}
      /\ pc'[1] \in PacketQueues \cup Devices => buffers' > 0
  BY <1>2, LeavePlace DEF IInv
<1>8. TypeOK'
  BY <1>1, <1>2, <1>5, <1>6, <1>7 DEF IInv, TypeOK
<1>9. HasBuffer'
  BY <1>7 DEF HasBuffer
<1>10. BuffersConserved'
  <2>1. /\ buffers' + actor_input_q' + Len(substrate_egress_q') + return_q' + InServices(service')
             = buffers + actor_input_q + Len(substrate_egress_q) + return_q + InServices(service)
    <3> DEFINE L == Len(substrate_egress_q)  S == InServices(service)
    <3>1. L \in Nat /\ S \in Nat /\ actor_input_q \in Nat
      BY PartsAreNat
    <3>2. Len(substrate_egress_q') = L /\ InServices(service') = S /\ actor_input_q' = actor_input_q
      BY <1>1
    <3> HIDE DEF L, S
    <3>3. return_q \in Nat /\ return_q' \in Nat
      BY <1>3, <1>5
    <3>4. buffers' \in Nat /\ buffers' + return_q' = buffers + return_q
      BY <1>5
    <3>5. buffers' + actor_input_q + L + return_q' + S = buffers + actor_input_q + L + return_q + S
      <4> DEFINE B == buffers  A == actor_input_q  R == return_q  B1 == buffers'  R1 == return_q'
      <4>1. B \in Nat /\ A \in Nat /\ R \in Nat /\ B1 \in Nat /\ R1 \in Nat
        BY <1>4, <3>1, <3>3, <3>4
      <4>2. B1 + R1 = B + R
        BY <3>4
      <4> HIDE DEF B, A, R, B1, R1
      <4>3. B1 + A + L + R1 + S = B + A + L + R + S
        BY <3>1, <4>1, <4>2
      <4> QED BY <4>3 DEF B, A, R, B1, R1
    <3> QED BY <3>2, <3>5 DEF L, S
  <2> QED BY <1>1, <1>8, <2>1, ConservedBy
<1>11. Wakeups'
  <2>1. \A q \in PacketQueues : pc \notin {<<q, "len">>, <<q, "recv">>} /\ pc' # <<q, "recv">>
    BY <1>2, <1>7 DEF PacketQueues
  <2>2. \A q \in PacketQueues : queue'[q] # <<>> => Told(q)'
    BY <1>1, <1>6, <2>1 DEF IInv, Wakeups, Told
  <2>3. ~(return_q' > 0)
    BY <1>5
  <2> QED BY <2>1, <2>2, <2>3 DEF Wakeups
<1>12. Kept'
  BY <1>1, SameKept DEF IInv
<1> QED BY <1>8, <1>9, <1>10, <1>11, <1>12 DEF IInv

\* A packet is taken from a queue, and goes on or is dropped.
LEMMA PacketStep ==
    ASSUME IInv, NEW q \in PacketQueues, batch_process_packet_queue(q) PROVE IInv'
<1> DEFINE s == queue[q]  packet == Head(queue[q])  e == substrate_egress_q
<1>1. UNCHANGED <<config, return_q, posting, service, ready, issued, sent>>
  BY DEF batch_process_packet_queue
<1>2. PICK fate \in fates[q] :
        /\ enqueued(packet, fate)
        /\ removed' = IF fate = "drop" /\ packet # 0 THEN removed \cup {packet} ELSE removed
  BY DEF batch_process_packet_queue
<1>3. /\ pc = <<q, "recv">> /\ avail' = 0 /\ queue' = [queue EXCEPT ![q] = Tail(@)]
      /\ notify' = reposted(q, 1)
  BY DEF batch_process_packet_queue
<1>4. /\ issued \in Nat /\ s \in Seq(0 .. issued) /\ e \in Seq(0 .. issued)
      /\ queue \in [PacketQueues -> Seq(0 .. issued)]
      /\ notify \in [Notified -> BOOLEAN] /\ posting \in [Notified -> Nat]
  BY DEF IInv, TypeOK
<1>5. avail \in 1 .. Len(s) /\ (Len(s) > avail => Told(q))
  BY <1>3 DEF IInv, Wakeups
<1>6. /\ s # <<>> /\ packet \in 0 .. issued /\ Tail(s) \in Seq(0 .. issued)
      /\ Len(Tail(s)) = Len(s) - 1 /\ Len(s) \in Nat
  BY <1>4, <1>5
<1>7. /\ queue'[q] = Tail(s) /\ queue' \in [PacketQueues -> Seq(0 .. issued)]
      /\ \A r \in PacketQueues : r # q => queue'[r] = queue[r]
  BY <1>3, <1>4, <1>6
<1>8. /\ notify' \in [Notified -> BOOLEAN]
      /\ (notify'[q] <=> notify[q] \/ avail > 1)
      /\ \A n \in Notified : n # q => notify'[n] = notify[n]
  BY <1>3, <1>4 DEF reposted, Notified
<1>9. buffers \in Nat /\ buffers > 0 /\ actor_input_q \in Nat /\ Len(e) \in Nat
  BY <1>3, PartsAreNat DEF IInv, HasBuffer
<1>10. fate \in {"actor", "substrate", "drop"} /\ (q = "mgmt" => fate # "actor")
  BY <1>2 DEF fates, PacketQueues
<1>11. /\ actor_input_q' \in Nat /\ buffers' \in Nat /\ Len(e') \in Nat /\ e' \in Seq(0 .. issued)
       /\ buffers' + actor_input_q' + Len(e') = buffers + actor_input_q + Len(e)
  <2>1. CASE fate = "actor"
    <3>1. actor_input_q' = actor_input_q + 1 /\ e' = e /\ buffers' = buffers - 1
      BY <1>2, <2>1 DEF enqueued
    <3>2. Len(e') = Len(e) /\ e' \in Seq(0 .. issued)
      BY <1>4, <3>1
    <3>3. buffers - 1 \in Nat /\ actor_input_q + 1 \in Nat
      BY <1>9
    <3>4. (buffers - 1) + (actor_input_q + 1) + Len(e) = buffers + actor_input_q + Len(e)
      BY <1>9, OneMoves
    <3>5. /\ actor_input_q' \in Nat /\ buffers' \in Nat /\ Len(e') \in Nat
          /\ buffers' + actor_input_q' + Len(e') = (buffers - 1) + (actor_input_q + 1) + Len(e)
      BY <1>9, <3>1, <3>2, <3>3, Zenon
    <3> QED BY <3>2, <3>4, <3>5
  <2>2. CASE fate = "substrate"
    <3>1. actor_input_q' = actor_input_q /\ e' = Append(e, packet) /\ buffers' = buffers - 1
      BY <1>2, <2>2 DEF enqueued
    <3>2. Append(e, packet) \in Seq(0 .. issued) /\ Len(Append(e, packet)) = Len(e) + 1
      BY <1>4, <1>6
    <3>3. buffers - 1 \in Nat /\ Len(e) + 1 \in Nat
      BY <1>9
    <3>4. (buffers - 1) + actor_input_q + (Len(e) + 1) = buffers + actor_input_q + Len(e)
      BY <1>9
    <3>5. /\ actor_input_q' \in Nat /\ buffers' \in Nat /\ Len(e') \in Nat
          /\ e' \in Seq(0 .. issued)
          /\ buffers' + actor_input_q' + Len(e') = (buffers - 1) + actor_input_q + (Len(e) + 1)
      BY <1>9, <3>1, <3>2, <3>3, Zenon
    <3> QED BY <3>4, <3>5, Zenon
  <2>3. CASE fate = "drop"
    <3>1. actor_input_q' = actor_input_q /\ e' = e /\ buffers' = buffers
      BY <1>2, <2>3 DEF enqueued
    <3> QED BY <1>4, <1>9, <3>1
  <2> QED BY <1>10, <2>1, <2>2, <2>3
<1>12. removed' \subseteq 1 .. issued
  <2>1. packet # 0 => packet \in 1 .. issued
    BY <1>4, <1>6
  <2>2. removed \subseteq 1 .. issued
    BY DEF IInv, TypeOK
  <2> QED BY <1>2, <2>1, <2>2
<1>13. /\ pc' \in Places /\ revents' \subseteq Slots /\ pc'[2] \notin {"len", "recv"}
       /\ pc'[1] \in PacketQueues \cup Devices => buffers' > 0
  <2>1. CASE todo > 1 /\ buffers' > 0
    <3>1. pc' = <<q, "consume">> /\ revents' = revents
      BY <2>1 DEF batch_process_packet_queue
    <3>2. pc' \in Places /\ pc'[2] \notin {"len", "recv"}
      BY <3>1 DEF Places, Notified
    <3> QED BY <2>1, <3>1, <3>2 DEF IInv, TypeOK
  <2>2. CASE ~(todo > 1 /\ buffers' > 0)
    <3>1. leave(q, buffers')
      BY <2>2 DEF batch_process_packet_queue
    <3> QED BY <3>1, LeavePlace DEF IInv
  <2> QED BY <2>1, <2>2
<1>14. TypeOK'
  BY <1>1, <1>3, <1>7, <1>8, <1>11, <1>12, <1>13 DEF IInv, TypeOK
<1>15. HasBuffer'
  BY <1>13 DEF HasBuffer
<1>16. BuffersConserved'
  <2> DEFINE R == return_q  S == InServices(service)  L == Len(e)  M == Len(e')
  <2>1. R \in Nat /\ S \in Nat /\ return_q' = R /\ InServices(service') = S
    BY <1>1, PartsAreNat
  <2> HIDE DEF R, S
  <2>2. buffers' + actor_input_q' + Len(e') + R + S = buffers + actor_input_q + Len(e) + R + S
    BY <1>9, <1>11, <2>1
  <2>3. buffers' + actor_input_q' + Len(e') + return_q' + InServices(service')
          = buffers + actor_input_q + Len(e) + return_q + InServices(service)
    BY <2>1, <2>2 DEF R, S
  <2> QED BY <1>1, <1>14, <2>3, ConservedBy
<1>17. Wakeups'
  <2>1. \A n : pc' # <<n, "recv">> /\ pc' # <<n, "len">>
    BY <1>13
  <2>2. \A n : n # q => pc \notin {<<n, "len">>, <<n, "recv">>}
    BY <1>3
  <2>3. \A n \in Notified : n # q => (Told(n) <=> Told(n)')
    BY <1>1, <1>8 DEF Told
  <2>4. queue'[q] # <<>> => Told(q)'
    <3> SUFFICES ASSUME queue'[q] # <<>> PROVE Told(q)'
      OBVIOUS
    <3>1. Len(s) > 1 /\ avail \in Nat
      BY <1>5, <1>6, <1>7
    <3>2. CASE avail > 1
      BY <1>8, <3>2 DEF Told
    <3>3. CASE ~(avail > 1)
      <4>1. Len(s) > avail
        BY <1>6, <3>1, <3>3
      <4>2. Told(q)
        BY <1>5, <4>1
      <4> QED BY <1>1, <1>8, <4>2 DEF Told
    <3> QED BY <3>2, <3>3
  <2>5. ASSUME NEW r \in PacketQueues, r # q, queue'[r] # <<>> PROVE Told(r)'
    <3>1. r \in Notified /\ queue[r] # <<>>
      BY <1>7, <2>5 DEF Notified
    <3> QED BY <2>2, <2>3, <2>5, <3>1 DEF IInv, Wakeups
  <2>6. return_q' > 0 => Told("returns")'
    <3>1. "returns" \in Notified /\ "returns" # q
      BY DEF Notified, PacketQueues
    <3> QED BY <1>1, <2>2, <2>3, <3>1 DEF IInv, Wakeups
  <2> QED BY <2>1, <2>4, <2>5, <2>6 DEF Wakeups
<1>18. Kept'
  <2> DEFINE mgmt == queue["mgmt"]
  <2>1. /\ \A p : Holds(s, p) <=> Holds(Tail(s), p) \/ p = packet
        /\ Once(s) => Once(Tail(s)) /\ (packet # 0 => ~Holds(Tail(s), packet))
    BY <1>4, <1>6, TailHolds
  <2>2. /\ Once(mgmt) /\ Once(e) /\ "mgmt" \in PacketQueues /\ "requeue" \in PacketQueues
        /\ \A i \in DOMAIN queue["requeue"] : queue["requeue"][i] = 0
    BY DEF IInv, Kept, PacketQueues
  <2>3. \A p \in 1 .. issued :
          \/ Holds(mgmt, p) /\ ~Holds(e, p) /\ p \notin sent \cup removed
          \/ ~Holds(mgmt, p) /\ Holds(e, p) /\ p \notin sent \cup removed
          \/ ~Holds(mgmt, p) /\ ~Holds(e, p) /\ p \in sent \ removed
          \/ ~Holds(mgmt, p) /\ ~Holds(e, p) /\ p \in removed \ sent
    BY DEF IInv, Kept
  <2>4. \A p \in 1 .. issued : p # 0
    BY <1>4
  <2>5. packet # 0 => packet \in 1 .. issued
    BY <1>4, <1>6
  <2>6. /\ \A p : Holds(Append(e, packet), p) <=> Holds(e, p) \/ p = packet
        /\ packet = 0 \/ ~Holds(e, packet) => Once(Append(e, packet))
    BY <1>4, <1>6, <2>2, AppendHolds
  <2>7. CASE q = "requeue"
    <3>1. s[1] = 0 /\ packet = 0 /\ \A i \in DOMAIN Tail(s) : Tail(s)[i] = 0
      <4>1. /\ packet = s[1] /\ 1 \in DOMAIN s /\ DOMAIN Tail(s) = 1 .. (Len(s) - 1)
            /\ DOMAIN s = 1 .. Len(s)
            /\ \A i \in 1 .. (Len(s) - 1) : Tail(s)[i] = s[i + 1] /\ i + 1 \in 1 .. Len(s)
        BY <1>4, <1>6
      <4> QED BY <2>2, <2>7, <4>1
    <3>2. queue'["mgmt"] = mgmt /\ queue'["requeue"] = Tail(s) /\ removed' = removed
      BY <1>2, <1>7, <2>2, <2>7, <3>1
    <3>3. e' = e \/ e' = Append(e, packet)
      BY <1>2 DEF enqueued
    <3>4. Once(e') /\ \A p : p # 0 => (Holds(e', p) <=> Holds(e, p))
      BY <2>2, <2>6, <3>1, <3>3
    <3>5. \A p \in 1 .. issued : Holds(e', p) <=> Holds(e, p)
      BY <2>4, <3>4
    <3> HIDE DEF mgmt, e, s, packet
    <3>6. \A i \in DOMAIN queue'["requeue"] : queue'["requeue"][i] = 0
      BY <3>1, <3>2
    <3>7. \A p \in 1 .. issued :
          \/ Holds(mgmt, p) /\ ~Holds(e', p) /\ p \notin sent \cup removed
          \/ ~Holds(mgmt, p) /\ Holds(e', p) /\ p \notin sent \cup removed
          \/ ~Holds(mgmt, p) /\ ~Holds(e', p) /\ p \in sent \ removed
          \/ ~Holds(mgmt, p) /\ ~Holds(e', p) /\ p \in removed \ sent
      BY <2>3, <3>5
    <3> QED BY <1>1, <2>2, <3>2, <3>4, <3>6, <3>7 DEF Kept, e
  <2>8. CASE q = "mgmt"
    <3>1. queue'["mgmt"] = Tail(s) /\ queue'["requeue"] = queue["requeue"] /\ s = mgmt
      BY <1>7, <2>2, <2>8
    <3>2. \A p \in 1 .. issued : Holds(mgmt, p) <=> Holds(Tail(s), p) \/ p = packet
      BY <2>1, <3>1
    <3>3. Once(Tail(s)) /\ (packet # 0 => ~Holds(Tail(s), packet))
      BY <2>1, <2>2, <3>1
    <3>4. packet # 0 => Holds(mgmt, packet)
      BY <2>1, <3>1
    <3>5. packet # 0 => ~Holds(e, packet)
      BY <2>3, <2>5, <3>4
    <3>6. CASE fate = "substrate"
      <4>1. e' = Append(e, packet) /\ removed' = removed
        BY <1>2, <3>6 DEF enqueued
      <4>2. Once(e') /\ \A p : Holds(e', p) <=> Holds(e, p) \/ p = packet
        BY <2>6, <3>5, <4>1
      <4> HIDE DEF mgmt, e, s, packet
      <4>3. ASSUME NEW p \in 1 .. issued
            PROVE
          \/ Holds(Tail(s), p) /\ ~Holds(e', p) /\ p \notin sent \cup removed'
          \/ ~Holds(Tail(s), p) /\ Holds(e', p) /\ p \notin sent \cup removed'
          \/ ~Holds(Tail(s), p) /\ ~Holds(e', p) /\ p \in sent \ removed'
          \/ ~Holds(Tail(s), p) /\ ~Holds(e', p) /\ p \in removed' \ sent
        BY <2>3, <2>4, <3>2, <3>3, <3>4, <4>1, <4>2
      <4> QED BY <1>1, <2>2, <3>1, <3>3, <4>2, <4>3 DEF Kept, e
    <3>7. CASE fate = "drop"
      <4>1. e' = e /\ removed' = IF packet # 0 THEN removed \cup {packet} ELSE removed
        BY <1>2, <3>7 DEF enqueued
      <4> HIDE DEF mgmt, e, s, packet
      <4>2. \A p \in 1 .. issued : p \in removed' <=> p \in removed \/ p = packet
        BY <2>4, <4>1
      <4>3. ASSUME NEW p \in 1 .. issued
            PROVE
          \/ Holds(Tail(s), p) /\ ~Holds(e', p) /\ p \notin sent \cup removed'
          \/ ~Holds(Tail(s), p) /\ Holds(e', p) /\ p \notin sent \cup removed'
          \/ ~Holds(Tail(s), p) /\ ~Holds(e', p) /\ p \in sent \ removed'
          \/ ~Holds(Tail(s), p) /\ ~Holds(e', p) /\ p \in removed' \ sent
        BY <2>3, <2>4, <3>2, <3>3, <3>4, <4>1, <4>2
      <4>4. Once(e')
        BY <2>2, <4>1
      <4> QED BY <1>1, <2>2, <3>1, <3>3, <4>3, <4>4 DEF Kept, e
    <3> QED BY <1>10, <2>8, <3>6, <3>7
  <2> QED BY <2>7, <2>8 DEF PacketQueues
<1> QED BY <1>14, <1>15, <1>16, <1>17, <1>18 DEF IInv

\* A batch is read into fresh buffers: every packet of it goes somewhere, and
\* a full service gives its buffer back.
LEMMA ReadStep ==
    ASSUME IInv, NEW d \in Devices, pc[1] = d, NEW read, read_batch(d, read),
           read.got \in 0 .. buffers, read.left \in Nat
    PROVE  IInv'
<1> DEFINE s == slow_path[d]  n == read.got  e == substrate_egress_q  k == service[s].len
<1>1. UNCHANGED <<config, avail, queue, return_q, notify, posting, issued, sent, removed>>
  BY DEF read_batch, history
<1>2. PICK actor \in 0 .. n, substrate \in 0 .. n, slow \in 0 .. n :
        /\ actor + substrate + slow <= n
        /\ actor_input_q' = actor_input_q + actor
        /\ substrate_egress_q' = substrate_egress_q \o [i \in 1 .. substrate |-> 0]
        /\ service' = [service EXCEPT ![s].len = @ + slow - refused(s, slow)]
        /\ buffers' = buffers - n + drop_and_count(s, n - actor - substrate - slow, slow)
  BY Zenon DEF read_batch
<1>3. ready' = [ready EXCEPT ![d] = read.left] /\ leave(d, buffers')
  BY DEF read_batch
<1>4. /\ buffers \in Nat /\ actor_input_q \in Nat /\ return_q \in Nat /\ Len(e) \in Nat
      /\ n \in Nat /\ n <= buffers /\ actor \in Nat /\ substrate \in Nat /\ slow \in Nat
  BY PartsAreNat
<1>5. s \in Services /\ ServiceDepth \in Nat
  BY FastPathAssumption DEF slow_path, Devices, Services
<1>6. service \in [Services -> [len : 0 .. ServiceDepth, guard : BOOLEAN]]
  BY DEF IInv, TypeOK
<1>7. k \in 0 .. ServiceDepth
  BY <1>5, <1>6
<1> DEFINE back == refused(s, slow)  rest == n - actor - substrate - slow
<1>8. back \in Nat /\ back <= slow /\ k + slow - back \in 0 .. ServiceDepth
  <2>1. back = IF slow <= ServiceDepth - k THEN 0 ELSE slow - (ServiceDepth - k)
    BY DEF refused
  <2> HIDE DEF back, k
  <2> QED BY <1>4, <1>5, <1>7, <2>1
<1>9. buffers' = buffers - n + (rest + back)
  BY <1>2 DEF drop_and_count
<1> HIDE DEF back, n
<1>10. /\ buffers' \in Nat /\ buffers' = buffers - actor - substrate - (slow - back)
  <2>1. actor + substrate + slow <= n
    BY <1>2
  <2>2. rest \in Nat /\ rest = n - actor - substrate - slow
    BY <1>4, <2>1
  <2> HIDE DEF rest
  <2>3. buffers - n + (rest + back) \in Nat
    BY <1>4, <1>8, <2>2
  <2>4. buffers - n + (rest + back) = buffers - actor - substrate - (slow - back)
    BY <1>4, <1>8, <2>2
  <2> QED BY <1>9, <2>3, <2>4
<1>11. /\ e' \in Seq(0 .. issued) /\ Len(e') = Len(e) + substrate /\ Once(e')
       /\ \A p : p # 0 => (Holds(e', p) <=> Holds(e, p))
  <2>1. issued \in Nat /\ e \in Seq(0 .. issued) /\ e \in Seq(Nat) /\ Once(e)
    BY DEF IInv, TypeOK, Kept
  <2> DEFINE z == [i \in 1 .. substrate |-> 0]
  <2>2. e' = e \o z
    BY <1>2
  <2> HIDE DEF e
  <2>3. /\ Len(e \o z) = Len(e) + substrate /\ (Once(e) => Once(e \o z))
        /\ \A p : p # 0 => (Holds(e \o z, p) <=> Holds(e, p))
        /\ \A m \in Nat : e \in Seq(0 .. m) => e \o z \in Seq(0 .. m)
    BY <1>4, <2>1, ZerosHold
  <2> HIDE DEF z
  <2> QED BY <2>1, <2>2, <2>3
<1>12. /\ service'[s].len = k + slow - back /\ service'[s].guard = service[s].guard
       /\ \A t \in Services : t # s => service'[t] = service[t]
       /\ service' \in [Services -> [len : 0 .. ServiceDepth, guard : BOOLEAN]]
  <2>1. service' = [service EXCEPT ![s].len = k + slow - back]
    BY <1>2 DEF back
  <2> HIDE DEF k, s
  <2> QED BY <1>5, <1>6, <1>8, <2>1
<1>13. /\ pc' \in Places /\ revents' \subseteq Slots /\ pc'[2] \notin {"len", "recv"}
       /\ pc'[1] \in PacketQueues \cup Devices => buffers' > 0
  BY <1>3, LeavePlace DEF IInv
<1>14. ready' \in [Devices -> Nat]
  BY <1>3 DEF IInv, TypeOK
<1>15. actor_input_q' = actor_input_q + actor /\ actor_input_q' \in Nat
  <2>1. actor_input_q' = actor_input_q + actor
    BY <1>2
  <2>2. actor_input_q \in Nat /\ actor \in Nat
    BY <1>4
  <2> QED BY <2>1, <2>2
<1>16. TypeOK'
  <2>1. /\ config' \in Configs /\ avail' \in Nat /\ return_q' \in Nat
        /\ notify' \in [Notified -> BOOLEAN] /\ posting' \in [Notified -> Nat]
    BY <1>1 DEF IInv, TypeOK
  <2>2. /\ issued' \in Nat /\ sent' \subseteq 1 .. issued' /\ removed' \subseteq 1 .. issued'
        /\ queue' \in [PacketQueues -> Seq(0 .. issued')] /\ issued' = issued
    BY <1>1 DEF IInv, TypeOK
  <2>3. /\ buffers' \in Nat /\ actor_input_q' \in Nat
        /\ substrate_egress_q' \in Seq(0 .. issued')
    BY <1>10, <1>11, <1>15, <2>2
  <2> QED BY <1>12, <1>13, <1>14, <2>1, <2>2, <2>3 DEF TypeOK
<1>17. HasBuffer'
  BY <1>13 DEF HasBuffer
<1>18. InServices(service') = InServices(service) + (slow - back)
  <2> DEFINE x == "dispatch"  y == "adapter_manager"
  <2>1. s \in {x, y} /\ x \in Services /\ y \in Services /\ x # y
    BY <1>5 DEF Services
  <2>2. HasOf(service'[s]) = HasOf(service[s]) + (slow - back)
    <3> DEFINE g == IF service[s].guard THEN 1 ELSE 0
    <3>1. HasOf(service[s]) = k + g /\ HasOf(service'[s]) = (k + slow - back) + g
      BY <1>12 DEF HasOf
    <3>2. g \in Nat /\ k \in Nat
      BY <1>5, <1>7
    <3> HIDE DEF g, k
    <3>3. (k + slow - back) + g = (k + g) + (slow - back)
      BY <1>4, <1>8, <3>2
    <3> QED BY <3>1, <3>3
  <2>3. HasOf(service[x]) \in Nat /\ HasOf(service[y]) \in Nat
    <3>1. /\ service[x].len \in 0 .. ServiceDepth /\ service[y].len \in 0 .. ServiceDepth
      BY <1>6, <2>1
    <3>2. service[x].len \in Nat /\ service[y].len \in Nat
      BY <1>5, <3>1
    <3> QED BY <3>2 DEF HasOf
  <2>4. slow - back \in Nat
    BY <1>4, <1>8
  <2> DEFINE p == HasOf(service[x])  q == HasOf(service[y])  m == slow - back
             p1 == HasOf(service'[x])  q1 == HasOf(service'[y])
  <2>5. CASE s = x
    <3>1. p1 = p + m /\ q1 = q
      BY <1>12, <2>1, <2>2, <2>5
    <3> HIDE DEF p, q, p1, q1, m, x, y
    <3>2. p1 + q1 = p + q + m
      BY <2>3, <2>4, <3>1 DEF p, q, m
    <3> QED BY <3>2 DEF InServices, p, q, p1, q1, m, x, y
  <2>6. CASE s = y
    <3>1. p1 = p /\ q1 = q + m
      BY <1>12, <2>1, <2>2, <2>6
    <3> HIDE DEF p, q, p1, q1, m, x, y
    <3>2. p1 + q1 = p + q + m
      BY <2>3, <2>4, <3>1 DEF p, q, m
    <3> QED BY <3>2 DEF InServices, p, q, p1, q1, m, x, y
  <2> QED BY <2>1, <2>5, <2>6
<1>19. BuffersConserved'
  <2> DEFINE B == buffers  A == actor_input_q  R == return_q  L == Len(e)  S == InServices(service)
             B1 == buffers'  A1 == actor_input_q'  L1 == Len(e')  S1 == InServices(service')
  <2>1. B \in Nat /\ A \in Nat /\ R \in Nat /\ L \in Nat /\ S \in Nat
    BY PartsAreNat
  <2>2. /\ B1 = B - actor - substrate - (slow - back) /\ A1 = A + actor
        /\ L1 = L + substrate /\ S1 = S + (slow - back)
    BY <1>10, <1>11, <1>15, <1>18
  <2>3. return_q' = R
    BY <1>1
  <2> HIDE DEF B, A, R, L, S, B1, A1, L1, S1
  <2>4. B1 + A1 + L1 + R + S1 = B + A + L + R + S
    BY <1>4, <1>8, <2>1, <2>2
  <2>5. buffers' + actor_input_q' + Len(e') + return_q' + InServices(service')
          = buffers + actor_input_q + Len(e) + return_q + InServices(service)
    BY <2>3, <2>4 DEF B, A, R, L, S, B1, A1, L1, S1
  <2> QED BY <1>1, <1>16, <2>5, ConservedBy
<1>20. Wakeups'
  <2>1. pc[2] \notin {"len", "recv"}
    BY PlaceOf DEF IInv, TypeOK
  <2> QED BY <1>1, <1>13, <2>1, SameWakeups DEF IInv
<1>21. Kept'
  <2>1. \A p \in 1 .. issued : Holds(e', p) <=> Holds(e, p)
    <3>1. \A p \in 1 .. issued : p # 0
      BY DEF IInv, TypeOK
    <3> QED BY <1>11, <3>1
  <2>2. \A p \in 1 .. issued :
          \/ Holds(queue["mgmt"], p) /\ ~Holds(e', p) /\ p \notin sent \cup removed
          \/ ~Holds(queue["mgmt"], p) /\ Holds(e', p) /\ p \notin sent \cup removed
          \/ ~Holds(queue["mgmt"], p) /\ ~Holds(e', p) /\ p \in sent \ removed
          \/ ~Holds(queue["mgmt"], p) /\ ~Holds(e', p) /\ p \in removed \ sent
    BY <2>1 DEF IInv, Kept
  <2>3. /\ Once(queue["mgmt"]) /\ Once(e')
        /\ \A i \in DOMAIN queue["requeue"] : queue["requeue"][i] = 0
    BY <1>11 DEF IInv, Kept
  <2> QED BY <1>1, <2>2, <2>3 DEF Kept
<1> QED BY <1>16, <1>17, <1>19, <1>20, <1>21 DEF IInv

\* The two devices.
LEMMA DeviceStep ==
    ASSUME IInv, process_actor_tun_in \/ process_substrate_socket_in PROVE IInv'
<1>1. get_fresh_packets \in 0 .. buffers
  <2>1. buffers \in Nat /\ config.batch \in Nat
    BY ConfigFacts DEF IInv, TypeOK
  <2> QED BY <2>1 DEF get_fresh_packets, minimum
<1>2. \A i \in Nat, m \in 0 .. buffers : minimum(i, m) \in 0 .. buffers /\ i - minimum(i, m) \in Nat
  <2>1. buffers \in Nat
    BY DEF IInv, TypeOK
  <2> QED BY <2>1 DEF minimum
<1>3. "tun" \in Devices /\ "substrate" \in Devices
  BY DEF Devices
<1>4. ready["tun"] \in Nat /\ ready["substrate"] \in Nat
  BY <1>3 DEF IInv, TypeOK
<1>5. CASE process_actor_tun_in
  <2>1. PICK read \in try_read_buf_batch(get_fresh_packets) : read_batch("tun", read)
    BY <1>5 DEF process_actor_tun_in
  <2>2. read.got \in 0 .. buffers /\ read.left \in Nat
    <3>1. /\ read.got = minimum(ready["tun"], get_fresh_packets)
          /\ read.left = ready["tun"] - minimum(ready["tun"], get_fresh_packets)
      BY <2>1 DEF try_read_buf_batch
    <3> QED BY <1>1, <1>2, <1>4, <3>1
  <2>3. pc[1] = "tun"
    BY <1>5 DEF process_actor_tun_in
  <2> QED BY <1>3, <2>1, <2>2, <2>3, ReadStep
<1>6. CASE process_substrate_socket_in
  <2>1. PICK read \in try_recv_buf_from_to_batch(get_fresh_packets) : read_batch("substrate", read)
    BY <1>6 DEF process_substrate_socket_in
  <2>2. PICK i \in 0 .. ready["substrate"] :
          read = [got |-> minimum(i, get_fresh_packets), left |-> i - minimum(i, get_fresh_packets)]
    BY <2>1 DEF try_recv_buf_from_to_batch
  <2>3. i \in Nat
    BY <1>4
  <2>4. read.got \in 0 .. buffers /\ read.left \in Nat
    <3>1. read.got = minimum(i, get_fresh_packets) /\ read.left = i - minimum(i, get_fresh_packets)
      BY <2>2
    <3> QED BY <1>1, <1>2, <2>3, <3>1
  <2>5. pc[1] = "substrate"
    BY <1>6 DEF process_substrate_socket_in
  <2> QED BY <1>3, <2>1, <2>4, <2>5, ReadStep
<1> QED BY <1>5, <1>6

\* A put outside a receive's look is told of by the post that follows it.
LEMMA PutWakeups ==
    ASSUME IInv, NEW q \in PacketQueues, NEW x, put(q, x),
           queue[q] \in Seq(0 .. issued'), x \in 0 .. issued',
           UNCHANGED <<pc, avail, return_q, notify>>
    PROVE  Wakeups' /\ posting' \in [Notified -> Nat]
<1>1. /\ queue \in [PacketQueues -> Seq(0 .. issued)] /\ posting \in [Notified -> Nat]
      /\ q \in Notified
  BY DEF IInv, TypeOK, Notified
<1>2. queue' = [queue EXCEPT ![q] = Append(@, x)] /\ posting' = [posting EXCEPT ![q] = @ + 1]
  BY DEF put
<1>3. posting' \in [Notified -> Nat] /\ posting'[q] > 0
  <2>1. posting[q] \in Nat
    BY <1>1
  <2> QED BY <1>1, <1>2, <2>1
<1>4. \A n \in Notified : n # q => posting'[n] = posting[n]
  BY <1>1, <1>2
<1>5. /\ queue'[q] = Append(queue[q], x) /\ Len(queue'[q]) = Len(queue[q]) + 1
      /\ Len(queue[q]) \in Nat
      /\ \A r \in PacketQueues : r # q => queue'[r] = queue[r]
  BY <1>1, <1>2
<1>6. Told(q)'
  BY <1>3 DEF Told
<1>7. \A n \in Notified : n # q => (Told(n) <=> Told(n)')
  BY <1>4 DEF Told
<1>8. ASSUME NEW r \in PacketQueues, r # q
      PROVE  /\ pc' \notin {<<r, "len">>, <<r, "recv">>} /\ queue'[r] # <<>> => Told(r)'
             /\ pc' = <<r, "recv">> => /\ avail' \in 1 .. Len(queue'[r])
                                       /\ Len(queue'[r]) > avail' => Told(r)'
  <2>1. r \in Notified
    BY DEF Notified
  <2>2. queue'[r] = queue[r] /\ pc' = pc /\ avail' = avail /\ (Told(r) <=> Told(r)')
    BY <1>5, <1>7, <1>8, <2>1
  <2> QED BY <2>2 DEF IInv, Wakeups
<1>9. pc' = <<q, "recv">> => avail' \in 1 .. Len(queue'[q])
  <2>1. pc' = <<q, "recv">> => avail' \in 1 .. Len(queue[q])
    BY DEF IInv, Wakeups
  <2> QED BY <1>5, <2>1
<1>10. pc' \notin {<<"returns", "len">>, <<"returns", "recv">>} /\ return_q' > 0 => Told("returns")'
  <2>1. "returns" \in Notified /\ "returns" # q
    BY DEF Notified, PacketQueues
  <2> QED BY <1>7, <2>1 DEF IInv, Wakeups
<1> QED BY <1>3, <1>6, <1>8, <1>9, <1>10 DEF Wakeups

\* A management thread puts a PRIORITY packet.
LEMMA EnqueueStep ==
    ASSUME IInv, enqueue_packet PROVE IInv'
<1> DEFINE m == queue["mgmt"]  e == substrate_egress_q  added == issued + 1
<1>1. UNCHANGED <<config, buffers, actor_input_q, substrate_egress_q, pc, revents, avail,
                  return_q, notify, service, ready, sent, removed>>
  BY DEF enqueue_packet, worker
<1>2. put("mgmt", added) /\ issued' = added
  BY DEF enqueue_packet
<1>3. /\ issued \in Nat /\ queue \in [PacketQueues -> Seq(0 .. issued)] /\ e \in Seq(0 .. issued)
      /\ "mgmt" \in PacketQueues /\ "requeue" \in PacketQueues
  BY DEF IInv, TypeOK, PacketQueues
<1>4. /\ issued' \in Nat /\ added \in 0 .. issued' /\ added \notin 0 .. issued /\ added # 0
      /\ \A i \in 0 .. issued : i \in 0 .. issued'
      /\ \A i \in 1 .. issued' : i = added \/ i \in 1 .. issued
      /\ \A i \in 1 .. issued : i \in 1 .. issued' /\ i \in 0 .. issued
  BY <1>2, <1>3
<1>5. \A t \in Seq(0 .. issued) : t \in Seq(0 .. issued')
  <2> SUFFICES ASSUME NEW t \in Seq(0 .. issued) PROVE t \in Seq(0 .. issued')
    OBVIOUS
  <2>1. /\ Len(t) \in Nat /\ t = [i \in 1 .. Len(t) |-> t[i]]
        /\ \A i \in 1 .. Len(t) : t[i] \in 0 .. issued
    BY SeqElements
  <2>2. t \in [1 .. Len(t) -> 0 .. issued']
    BY <1>4, <2>1
  <2> QED BY <2>1, <2>2, SeqOf
<1>6. m \in Seq(0 .. issued) /\ m \in Seq(0 .. issued') /\ queue["requeue"] \in Seq(0 .. issued')
  BY <1>3, <1>5
<1>7. Wakeups' /\ posting' \in [Notified -> Nat]
  <2>1. pc' = pc /\ avail' = avail /\ return_q' = return_q /\ notify' = notify
    BY <1>1
  <2> QED BY <1>2, <1>3, <1>4, <1>6, <2>1, PutWakeups
<1>8. queue' = [queue EXCEPT !["mgmt"] = Append(m, added)]
  BY <1>2 DEF put
<1>9. queue'["mgmt"] = Append(m, added) /\ queue'["requeue"] = queue["requeue"]
  BY <1>3, <1>8
<1>10. queue' \in [PacketQueues -> Seq(0 .. issued')]
  <2>1. Append(m, added) \in Seq(0 .. issued')
    BY <1>4, <1>6
  <2>2. queue \in [PacketQueues -> Seq(0 .. issued')]
    BY <1>3, <1>5
  <2> QED BY <1>8, <2>1, <2>2
<1>11. sent' \subseteq 1 .. issued' /\ removed' \subseteq 1 .. issued'
  BY <1>1, <1>4 DEF IInv, TypeOK
<1>12. e' \in Seq(0 .. issued')
  BY <1>1, <1>3, <1>5
<1>13. TypeOK'
  BY <1>1, <1>4, <1>7, <1>10, <1>11, <1>12 DEF IInv, TypeOK
<1>14. HasBuffer'
  BY <1>1 DEF IInv, HasBuffer
<1>15. BuffersConserved'
  BY <1>1, <1>13, ConservedBy
<1>16. Kept'
  <2>1. ASSUME NEW t \in Seq(0 .. issued) PROVE ~Holds(t, added)
    <3>1. \A i \in DOMAIN t : t[i] \in 0 .. issued
      BY SeqElements
    <3> QED BY <1>4, <3>1 DEF Holds
  <2>2. ~Holds(m, added) /\ ~Holds(e, added) /\ added \notin sent /\ added \notin removed
    <3>1. sent \subseteq 1 .. issued /\ removed \subseteq 1 .. issued
      BY DEF IInv, TypeOK
    <3> QED BY <1>3, <1>4, <1>6, <2>1, <3>1
  <2>3. /\ \A p : Holds(Append(m, added), p) <=> Holds(m, p) \/ p = added
        /\ Once(m) => Once(Append(m, added))
    BY <1>4, <1>6, <2>2, AppendHolds
  <2>4. /\ Once(m) /\ Once(e) /\ \A i \in DOMAIN queue["requeue"] : queue["requeue"][i] = 0
    BY DEF IInv, Kept
  <2>5. \A p \in 1 .. issued :
          \/ Holds(m, p) /\ ~Holds(e, p) /\ p \notin sent \cup removed
          \/ ~Holds(m, p) /\ Holds(e, p) /\ p \notin sent \cup removed
          \/ ~Holds(m, p) /\ ~Holds(e, p) /\ p \in sent \ removed
          \/ ~Holds(m, p) /\ ~Holds(e, p) /\ p \in removed \ sent
    BY DEF IInv, Kept
  <2> HIDE DEF added
  <2>6. \A p \in 1 .. issued : p # added
    BY <1>4
  <2>7. ASSUME NEW p \in 1 .. issued'
        PROVE
          \/ Holds(Append(m, added), p) /\ ~Holds(e, p) /\ p \notin sent \cup removed
          \/ ~Holds(Append(m, added), p) /\ Holds(e, p) /\ p \notin sent \cup removed
          \/ ~Holds(Append(m, added), p) /\ ~Holds(e, p) /\ p \in sent \ removed
          \/ ~Holds(Append(m, added), p) /\ ~Holds(e, p) /\ p \in removed \ sent
    <3> HIDE DEF m, e
    <3>1. CASE p = added
      BY <2>2, <2>3, <3>1
    <3>2. CASE p # added
      <4>1. p \in 1 .. issued
        BY <1>4, <3>2
      <4>2. Holds(Append(m, added), p) <=> Holds(m, p)
        BY <2>3, <3>2
      <4> QED BY <2>5, <4>1, <4>2
    <3> QED BY <3>1, <3>2
  <2> QED BY <1>1, <1>9, <2>3, <2>4, <2>7 DEF Kept
<1> QED BY <1>7, <1>13, <1>14, <1>15, <1>16 DEF IInv

\* A management thread puts another packet.
LEMMA TryEnqueueStep ==
    ASSUME IInv, NEW q \in PacketQueues, try_enqueue_packet(q) PROVE IInv'
<1> DEFINE s == queue[q]
<1>1. UNCHANGED <<config, buffers, actor_input_q, substrate_egress_q, pc, revents, avail,
                  return_q, notify, service, ready, issued, sent, removed>>
  BY DEF try_enqueue_packet, worker
<1>2. put(q, 0)
  BY DEF try_enqueue_packet
<1>3. /\ issued \in Nat /\ queue \in [PacketQueues -> Seq(0 .. issued)] /\ 0 \in 0 .. issued
      /\ "mgmt" \in PacketQueues /\ "requeue" \in PacketQueues
  BY DEF IInv, TypeOK, PacketQueues
<1>4. Wakeups' /\ posting' \in [Notified -> Nat]
  <2>1. /\ pc' = pc /\ avail' = avail /\ return_q' = return_q /\ notify' = notify
        /\ queue[q] \in Seq(0 .. issued') /\ 0 \in 0 .. issued'
    BY <1>1, <1>3
  <2> QED BY <1>2, <2>1, PutWakeups
<1>5. queue' = [queue EXCEPT ![q] = Append(s, 0)]
  BY <1>2 DEF put
<1>6. /\ queue'[q] = Append(s, 0) /\ \A r \in PacketQueues : r # q => queue'[r] = queue[r]
      /\ queue' \in [PacketQueues -> Seq(0 .. issued)]
  BY <1>3, <1>5
<1>7. TypeOK'
  BY <1>1, <1>4, <1>6 DEF IInv, TypeOK
<1>8. HasBuffer'
  BY <1>1 DEF IInv, HasBuffer
<1>9. BuffersConserved'
  BY <1>1, <1>7, ConservedBy
<1>10. Kept'
  <2>1. s \in Seq(0 .. issued)
    BY <1>3
  <2>2. /\ \A p : Holds(Append(s, 0), p) <=> Holds(s, p) \/ p = 0
        /\ Once(s) => Once(Append(s, 0))
    BY <1>3, <2>1, AppendHolds
  <2>3. Once(queue["mgmt"]) /\ Once(substrate_egress_q)
    BY DEF IInv, Kept
  <2>4. Once(queue'["mgmt"]) /\ \A p : p # 0 => (Holds(queue'["mgmt"], p) <=> Holds(queue["mgmt"], p))
    <3>1. CASE q = "mgmt"
      BY <1>6, <2>2, <2>3, <3>1
    <3>2. CASE q # "mgmt"
      BY <1>3, <1>6, <2>3, <3>2
    <3> QED BY <3>1, <3>2
  <2>5. \A i \in DOMAIN queue'["requeue"] : queue'["requeue"][i] = 0
    <3>1. \A i \in DOMAIN queue["requeue"] : queue["requeue"][i] = 0
      BY DEF IInv, Kept
    <3>2. CASE q = "requeue"
      <4>1. /\ DOMAIN Append(s, 0) = 1 .. (Len(s) + 1) /\ DOMAIN s = 1 .. Len(s) /\ Len(s) \in Nat
            /\ \A i \in 1 .. (Len(s) + 1) : Append(s, 0)[i] = IF i = Len(s) + 1 THEN 0 ELSE s[i]
        BY <2>1
      <4>2. \A i \in 1 .. (Len(s) + 1) : i = Len(s) + 1 \/ i \in 1 .. Len(s)
        BY <4>1
      <4> QED BY <1>6, <3>1, <3>2, <4>1, <4>2
    <3>3. CASE q # "requeue"
      BY <1>3, <1>6, <3>1, <3>3
    <3> QED BY <3>2, <3>3
  <2>6. \A p \in 1 .. issued : Holds(queue'["mgmt"], p) <=> Holds(queue["mgmt"], p)
    <3>1. \A p \in 1 .. issued : p # 0
      BY <1>3
    <3> QED BY <2>4, <3>1
  <2>7. \A p \in 1 .. issued :
          \/ Holds(queue'["mgmt"], p) /\ ~Holds(substrate_egress_q, p) /\ p \notin sent \cup removed
          \/ ~Holds(queue'["mgmt"], p) /\ Holds(substrate_egress_q, p) /\ p \notin sent \cup removed
          \/ ~Holds(queue'["mgmt"], p) /\ ~Holds(substrate_egress_q, p) /\ p \in sent \ removed
          \/ ~Holds(queue'["mgmt"], p) /\ ~Holds(substrate_egress_q, p) /\ p \in removed \ sent
    BY <2>6 DEF IInv, Kept
  <2> QED BY <1>1, <2>3, <2>4, <2>5, <2>7 DEF Kept
<1> QED BY <1>4, <1>7, <1>8, <1>9, <1>10 DEF IInv

\* A thread posts what it has put.
LEMMA PostStep ==
    ASSUME IInv, NEW n \in Notified, post(n) PROVE IInv'
<1>1. UNCHANGED <<config, buffers, actor_input_q, substrate_egress_q, pc, revents, avail, queue,
                  return_q, service, ready, issued, sent, removed>>
  BY DEF post, worker, history
<1>2. /\ posting[n] > 0 /\ posting' = [posting EXCEPT ![n] = @ - 1]
      /\ notify' = [notify EXCEPT ![n] = TRUE]
      /\ notify \in [Notified -> BOOLEAN] /\ posting \in [Notified -> Nat]
  BY DEF post, IInv, TypeOK
<1>3. /\ notify' \in [Notified -> BOOLEAN] /\ notify'[n] = TRUE
      /\ \A m \in Notified : m # n => notify'[m] = notify[m] /\ posting'[m] = posting[m]
  BY <1>2
<1>4. posting' \in [Notified -> Nat]
  <2>1. posting[n] - 1 \in Nat
    BY <1>2
  <2> QED BY <1>2, <2>1
<1>5. TypeOK'
  BY <1>1, <1>3, <1>4 DEF IInv, TypeOK
<1>6. HasBuffer'
  BY <1>1 DEF IInv, HasBuffer
<1>7. BuffersConserved'
  BY <1>1, <1>5, ConservedBy
<1>8. Wakeups'
  <2>1. \A m \in Notified : Told(m) => Told(m)'
    BY <1>3 DEF Told
  <2>2. "returns" \in Notified /\ \A q \in PacketQueues : q \in Notified
    BY DEF Notified
  <2>3. pc' = pc /\ queue' = queue /\ return_q' = return_q /\ avail' = avail
    BY <1>1
  <2> QED BY <2>1, <2>2, <2>3 DEF IInv, Wakeups
<1>9. Kept'
  BY <1>1, SameKept DEF IInv
<1> QED BY <1>5, <1>6, <1>7, <1>8, <1>9 DEF IInv

\* One service gains or loses as many as it says, and the other one none.
LEMMA ServiceMoves ==
    ASSUME NEW sv \in [Services -> [len : 0 .. ServiceDepth, guard : BOOLEAN]],
           NEW s \in Services, NEW r, NEW m \in Int, HasOf(r) = HasOf(sv[s]) + m
    PROVE  InServices([sv EXCEPT ![s] = r]) = InServices(sv) + m
<1> DEFINE sw == [sv EXCEPT ![s] = r]  x == "dispatch"  y == "adapter_manager"
<1>1. s \in {x, y} /\ x \in Services /\ y \in Services /\ x # y
  BY DEF Services
<1>2. sw[s] = r /\ \A t \in Services : t # s => sw[t] = sv[t]
  OBVIOUS
<1>3. HasOf(sv[x]) \in Nat /\ HasOf(sv[y]) \in Nat
  <2>1. ServiceDepth \in Nat
    BY FastPathAssumption
  <2>2. sv[x].len \in 0 .. ServiceDepth /\ sv[y].len \in 0 .. ServiceDepth
    BY <1>1
  <2>3. sv[x].len \in Nat /\ sv[y].len \in Nat
    BY <2>1, <2>2
  <2> QED BY <2>3 DEF HasOf
<1> DEFINE p == HasOf(sv[x])  q == HasOf(sv[y])  p1 == HasOf(sw[x])  q1 == HasOf(sw[y])
<1>4. (s = x => p1 = p + m /\ q1 = q) /\ (s = y => p1 = p /\ q1 = q + m)
  BY <1>1, <1>2
<1>5. p \in Nat /\ q \in Nat
  BY <1>3
<1>6. InServices(sw) = p1 + q1 /\ InServices(sv) = p + q
  BY DEF InServices
<1> HIDE DEF p, q, p1, q1, x, y, sw
<1>7. p1 + q1 = p + q + m
  BY <1>1, <1>4, <1>5
<1> QED BY <1>6, <1>7 DEF sw

\* A service takes an item under its guard.
LEMMA RecvStep ==
    ASSUME IInv, NEW s \in Services, recv(s) PROVE IInv'
<1> DEFINE r == [len |-> service[s].len - 1, guard |-> TRUE]
<1>1. UNCHANGED <<config, buffers, actor_input_q, substrate_egress_q, pc, revents, avail, queue,
                  return_q, notify, posting, ready, issued, sent, removed>>
  BY DEF recv, worker, history
<1>2. ~service[s].guard /\ service[s].len > 0 /\ service' = [service EXCEPT ![s] = r]
  BY DEF recv
<1>3. service \in [Services -> [len : 0 .. ServiceDepth, guard : BOOLEAN]]
  BY DEF IInv, TypeOK
<1>4. service[s].len \in 0 .. ServiceDepth /\ ServiceDepth \in Nat
  BY <1>3, FastPathAssumption
<1>5. service[s].len - 1 \in 0 .. ServiceDepth
  BY <1>2, <1>4
<1>6. service' \in [Services -> [len : 0 .. ServiceDepth, guard : BOOLEAN]]
  BY <1>2, <1>3, <1>5
<1>7. HasOf(r) = HasOf(service[s]) + 0
  <2>1. HasOf(r) = (service[s].len - 1) + 1 /\ HasOf(service[s]) = service[s].len + 0
    BY <1>2 DEF HasOf
  <2>2. (service[s].len - 1) + 1 = (service[s].len + 0) + 0
    BY <1>4
  <2> QED BY <2>1, <2>2
<1> HIDE DEF r
<1>8. InServices(service') = InServices(service)
  <2>1. InServices(service') = InServices(service) + 0
    <3>1. 0 \in Int
      OBVIOUS
    <3>2. InServices([service EXCEPT ![s] = r]) = InServices(service) + 0
      BY <1>3, <1>7, <3>1, ServiceMoves, Zenon
    <3> QED BY <1>2, <3>2
  <2>2. InServices(service) \in Nat
    BY PartsAreNat
  <2> QED BY <2>1, <2>2
<1>9. TypeOK'
  BY <1>1, <1>6 DEF IInv, TypeOK
<1>10. HasBuffer'
  BY <1>1 DEF IInv, HasBuffer
<1>11. BuffersConserved'
  BY <1>1, <1>8, <1>9, ConservedBy
<1>12. Wakeups'
  BY <1>1 DEF IInv, Wakeups, Told
<1>13. Kept'
  BY <1>1, SameKept DEF IInv
<1> QED BY <1>9, <1>10, <1>11, <1>12, <1>13 DEF IInv

\* A guard is dropped, and its buffer is on its way back.
LEMMA DropGuardStep ==
    ASSUME IInv, NEW s \in Services, drop_guard(s) PROVE IInv'
<1> DEFINE r == [service[s] EXCEPT !.guard = FALSE]
<1>1. UNCHANGED <<config, buffers, actor_input_q, substrate_egress_q, pc, revents, avail, queue,
                  notify, ready, issued, sent, removed>>
  BY DEF drop_guard, worker, history
<1>2. /\ service[s].guard /\ service' = [service EXCEPT ![s].guard = FALSE]
      /\ return_q' = return_q + 1
      /\ posting' = [posting EXCEPT !["returns"] = @ + 1]
  BY DEF drop_guard
<1>3. /\ service \in [Services -> [len : 0 .. ServiceDepth, guard : BOOLEAN]]
      /\ return_q \in Nat /\ posting \in [Notified -> Nat] /\ "returns" \in Notified
  BY DEF IInv, TypeOK, Notified
<1>4. service[s].len \in 0 .. ServiceDepth /\ ServiceDepth \in Nat
  BY <1>3, FastPathAssumption
<1>5. service' \in [Services -> [len : 0 .. ServiceDepth, guard : BOOLEAN]]
  BY <1>2, <1>3
<1>6. service' = [service EXCEPT ![s] = r]
  BY <1>2, <1>3
<1>7. HasOf(r) = HasOf(service[s]) + (-1)
  <2>1. r.len = service[s].len /\ ~r.guard
    BY <1>3
  <2> HIDE DEF r
  <2>2. HasOf(r) = service[s].len + 0 /\ HasOf(service[s]) = service[s].len + 1
    BY <1>2, <2>1 DEF HasOf
  <2>3. service[s].len + 0 = (service[s].len + 1) + (-1)
    BY <1>4
  <2> QED BY <2>2, <2>3
<1> HIDE DEF r
<1>8. InServices(service') = InServices(service) + (-1)
  <2>1. -1 \in Int
    OBVIOUS
  <2>2. InServices([service EXCEPT ![s] = r]) = InServices(service) + (-1)
    BY <1>3, <1>7, <2>1, ServiceMoves, Zenon
  <2> QED BY <1>6, <2>2
<1>9. posting' \in [Notified -> Nat] /\ posting'["returns"] > 0
  <2>1. posting["returns"] \in Nat
    BY <1>3
  <2> QED BY <1>2, <1>3, <2>1
<1>10. return_q' \in Nat
  BY <1>2, <1>3
<1>11. TypeOK'
  BY <1>1, <1>5, <1>9, <1>10 DEF IInv, TypeOK
<1>12. HasBuffer'
  BY <1>1 DEF IInv, HasBuffer
<1>13. BuffersConserved'
  <2> DEFINE B == buffers  A == actor_input_q  L == Len(substrate_egress_q)
             R == return_q  S == InServices(service)
  <2>1. B \in Nat /\ A \in Nat /\ L \in Nat /\ R \in Nat /\ S \in Nat
    BY PartsAreNat
  <2>2. return_q' = R + 1 /\ InServices(service') = S + (-1)
    BY <1>2, <1>8
  <2>3. buffers' = B /\ actor_input_q' = A /\ Len(substrate_egress_q') = L
    BY <1>1
  <2> HIDE DEF B, A, L, R, S
  <2>4. B + A + L + (R + 1) + (S + (-1)) = B + A + L + R + S
    BY <2>1
  <2>5. buffers' + actor_input_q' + Len(substrate_egress_q') + return_q' + InServices(service')
          = B + A + L + R + S
    BY <2>2, <2>3, <2>4, Zenon
  <2> QED BY <1>1, <1>11, <2>5, ConservedBy DEF B, A, L, R, S
<1>14. Wakeups'
  <2>1. \A q \in PacketQueues : posting'[q] = posting[q]
    BY <1>2, <1>3 DEF PacketQueues, Notified
  <2>2. \A q \in PacketQueues : Told(q) <=> Told(q)'
    BY <1>1, <2>1 DEF Told
  <2>3. Told("returns")'
    BY <1>9 DEF Told
  <2>4. pc' = pc /\ queue' = queue /\ avail' = avail
    BY <1>1
  <2> QED BY <2>2, <2>3, <2>4 DEF IInv, Wakeups
<1>15. Kept'
  BY <1>1, SameKept DEF IInv
<1> QED BY <1>11, <1>12, <1>13, <1>14, <1>15 DEF IInv

\* The operating system has a packet, or room for one.
LEMMA SystemStep ==
    ASSUME IInv, (\E d \in Devices : Arrive(d)) \/ BecomeWritable \/ UNCHANGED vars
    PROVE  IInv'
<1>1. UNCHANGED <<config, buffers, actor_input_q, substrate_egress_q, pc, revents, avail, queue,
                  return_q, notify, posting, service, issued, sent, removed>>
  BY DEF Arrive, BecomeWritable, vars, worker, outside, history
<1>2. ready' \in [Devices -> Nat]
  <2>1. ready \in [Devices -> Nat]
    BY DEF IInv, TypeOK
  <2>2. CASE \E d \in Devices : Arrive(d)
    <3>1. PICK d \in Devices : ready' = [ready EXCEPT ![d] = @ + 1]
      BY <2>2 DEF Arrive
    <3>2. ready[d] + 1 \in Nat
      BY <2>1
    <3> QED BY <2>1, <3>1, <3>2
  <2>3. CASE BecomeWritable \/ UNCHANGED vars
    BY <2>1, <2>3 DEF BecomeWritable, vars, outside
  <2> QED BY <2>2, <2>3
<1>3. TypeOK'
  BY <1>1, <1>2 DEF IInv, TypeOK
<1>4. HasBuffer'
  BY <1>1 DEF IInv, HasBuffer
<1>5. BuffersConserved'
  BY <1>1, <1>3, ConservedBy
<1>6. Wakeups'
  BY <1>1 DEF IInv, Wakeups, Told
<1>7. Kept'
  BY <1>1, SameKept DEF IInv
<1> QED BY <1>3, <1>4, <1>5, <1>6, <1>7 DEF IInv

-----------------------------------------------------------------------------
(* The theorems.                                                           *)

\* The inductive invariant holds in every state of the fast path.
THEOREM FastPathInvariance == Spec => []IInv
<1>1. Init => IInv
  BY InitIInv
<1>2. IInv /\ [Next]_vars => IInv'
  <2> SUFFICES ASSUME IInv, [Next]_vars PROVE IInv'
    OBVIOUS
  <2>1. CASE Worker
    <3>1. CASE process_out_queues \/ process_substrate_socket_out
      BY <3>1, OutStep
    <3>2. CASE poll
      BY <3>2, PollStep
    <3>3. CASE \E n \in Notified : consume(n) \/ len(n)
      BY <3>3, ConsumeStep, LenStep
    <3>4. CASE try_recv_many_returns
      BY <3>4, ReturnsStep
    <3>5. CASE \E q \in PacketQueues : batch_process_packet_queue(q)
      BY <3>5, PacketStep
    <3>6. CASE process_actor_tun_in \/ process_substrate_socket_in
      BY <3>6, DeviceStep
    <3> QED BY <2>1, <3>1, <3>2, <3>3, <3>4, <3>5, <3>6 DEF Worker
  <2>2. CASE Outside
    <3>1. CASE enqueue_packet
      BY <3>1, EnqueueStep
    <3>2. CASE \E q \in PacketQueues : try_enqueue_packet(q)
      BY <3>2, TryEnqueueStep
    <3>3. CASE \E n \in Notified : post(n)
      BY <3>3, PostStep
    <3>4. CASE \E s \in Services : recv(s) \/ drop_guard(s)
      BY <3>4, RecvStep, DropGuardStep
    <3>5. CASE (\E d \in Devices : Arrive(d)) \/ BecomeWritable
      BY <3>5, SystemStep
    <3> QED BY <2>2, <3>1, <3>2, <3>3, <3>4, <3>5 DEF Outside
  <2>3. CASE UNCHANGED vars
    BY <2>3, SystemStep
  <2> QED BY <2>1, <2>2, <2>3 DEF Next
<1> QED BY <1>1, <1>2, PTL DEF Spec

\* No packet buffer is lost and none is freed twice, on any path through the
\* worker, the services and the return queue, with every engine and every size.
THEOREM BuffersAreConserved == Spec => []BuffersConserved
<1>1. IInv => BuffersConserved
  BY DEF IInv
<1> QED BY <1>1, FastPathInvariance, PTL

\* The worker never goes to sleep on something it was not told of.
THEOREM NoWakeupIsLost == Spec => []NoLostWakeup
<1>1. IInv => NoLostWakeup
  <2> SUFFICES ASSUME IInv, pc[1] \in {"out", "poll"} PROVE NoLostWakeup
    BY DEF NoLostWakeup
  <2>1. \A n \in Notified : pc \notin {<<n, "len">>, <<n, "recv">>}
    BY DEF Notified, PacketQueues
  <2>2. "returns" \in Notified /\ \A q \in PacketQueues : q \in Notified
    BY DEF Notified
  <2> QED BY <2>1, <2>2 DEF IInv, Wakeups, Told, NoLostWakeup
<1> QED BY <1>1, FastPathInvariance, PTL

\* A packet that is once in a queue is there once.
LEMMA CountOnce ==
    ASSUME NEW s, Once(s), NEW p, p # 0
    PROVE  Cardinality({i \in DOMAIN s : s[i] = p}) = IF Holds(s, p) THEN 1 ELSE 0
<1> DEFINE I == {i \in DOMAIN s : s[i] = p}
<1>1. CASE Holds(s, p)
  <2>1. PICK i \in DOMAIN s : s[i] = p
    BY <1>1 DEF Holds
  <2>2. I = {i}
    BY <2>1 DEF Once
  <2>3. Cardinality(I) = 1
    BY <2>2, FS_Singleton
  <2> QED BY <1>1, <2>3
<1>2. CASE ~Holds(s, p)
  <2>1. I = {}
    BY <1>2 DEF Holds
  <2>2. Cardinality(I) = 0
    BY <2>1, FS_EmptySet
  <2> QED BY <1>2, <2>2
<1> QED BY <1>1, <1>2

\* A PRIORITY packet is in exactly one place: queued, sent, or removed with
\* its peer; it is neither dropped on backpressure nor sent twice.
THEOREM PriorityIsKeptOnce == Spec => []PriorityKeptOnce
<1>1. IInv => PriorityKeptOnce
  <2> SUFFICES ASSUME IInv, NEW p \in 1 .. issued PROVE places(p) = 1
    BY DEF PriorityKeptOnce
  <2> DEFINE m == queue["mgmt"]  e == substrate_egress_q
             X == {x \in {<<"sent", sent>>, <<"removed", removed>>} : p \in x[2]}
  <2>1. p # 0
    BY DEF IInv, TypeOK
  <2>2. /\ Cardinality({i \in DOMAIN m : m[i] = p}) = IF Holds(m, p) THEN 1 ELSE 0
        /\ Cardinality({i \in DOMAIN e : e[i] = p}) = IF Holds(e, p) THEN 1 ELSE 0
    BY <2>1, CountOnce DEF IInv, Kept
  <2>3. \/ Holds(m, p) /\ ~Holds(e, p) /\ p \notin sent \cup removed
        \/ ~Holds(m, p) /\ Holds(e, p) /\ p \notin sent \cup removed
        \/ ~Holds(m, p) /\ ~Holds(e, p) /\ p \in sent \ removed
        \/ ~Holds(m, p) /\ ~Holds(e, p) /\ p \in removed \ sent
    BY DEF IInv, Kept
  <2>4. p \notin sent \cup removed => Cardinality(X) = 0
    <3>1. p \notin sent \cup removed => X = {}
      OBVIOUS
    <3> HIDE DEF X
    <3> QED BY <3>1, FS_EmptySet
  <2>5. p \in sent \ removed => Cardinality(X) = 1
    <3>1. p \in sent \ removed => X = {<<"sent", sent>>}
      OBVIOUS
    <3> HIDE DEF X
    <3> QED BY <3>1, FS_Singleton
  <2>6. p \in removed \ sent => Cardinality(X) = 1
    <3>1. p \in removed \ sent => X = {<<"removed", removed>>}
      OBVIOUS
    <3> HIDE DEF X
    <3> QED BY <3>1, FS_Singleton
  <2>7. places(p) = Cardinality({i \in DOMAIN m : m[i] = p})
                      + Cardinality({i \in DOMAIN e : e[i] = p}) + Cardinality(X)
    BY DEF places
  <2> DEFINE a == Cardinality({i \in DOMAIN m : m[i] = p})
             b == Cardinality({i \in DOMAIN e : e[i] = p})
             c == Cardinality(X)
  <2> HIDE DEF X, m, e
  <2>8. \/ a = 1 /\ b = 0 /\ c = 0
        \/ a = 0 /\ b = 1 /\ c = 0
        \/ a = 0 /\ b = 0 /\ c = 1
    BY <2>2, <2>3, <2>4, <2>5, <2>6
  <2>9. places(p) = a + b + c
    BY <2>7
  <2> HIDE DEF a, b, c
  <2> QED BY <2>8, <2>9
<1> QED BY <1>1, FastPathInvariance, PTL

-----------------------------------------------------------------------------
(* The way of a packet (Wire).                                             *)

Room(h, n) == [head |-> h, len |-> n, ok |-> TRUE]

\* What becomes of the packet that was sent: after the adapter's decrement,
\* and compressed.
Forwarded == decrement_ttl(original)
Compressed == compress(classify(original).ft.proto, Forwarded)
Restored == expand(classify(original).ft, Compressed)

\* How much shorter it is then.
Saved == size(original) - compressed_size(Compressed)

\* The classifier has passed a packet.
Passed == original \in Packets /\ classify(original).result = "OK" /\ original.ttl > 1

\* A packet with its contents and buffer, at each stage of its way, the headers
\* in front of the compressed packet and the MACs after it.
OnItsWay ==
    /\ mode \subseteq {"sport", "dport"}
    /\ \/ stage = "actor" /\ original \in Packets /\ content = original
          /\ room = Room(Headroom, size(original))
       \/ /\ Passed
          /\ \/ stage = "classified" /\ content = Forwarded
                /\ room = Room(Headroom, size(original))
             \/ /\ micv = <<Forwarded>>
                /\ \/ stage = "adapter" /\ content = Compressed
                      /\ room = Room(Headroom + Saved - 1, compressed_size(Compressed) + 9)
                   \/ stage = "hop1" /\ mac = <<Compressed>>
                      /\ room = Room(Headroom + Saved - 8, compressed_size(Compressed) + 24)
                   \/ stage = "node" /\ content = Compressed
                      /\ room = Room(Headroom + 7, compressed_size(Compressed) + 9)
                   \/ stage = "hop2" /\ mac = <<Compressed>>
                      /\ room = Room(Headroom, compressed_size(Compressed) + 24)
                   \/ stage = "arrived" /\ content = Compressed
                      /\ room = Room(Headroom + 7, compressed_size(Compressed) + 9)
                   \/ stage = "delivered" /\ content = Forwarded /\ Restored = Forwarded
                      /\ room = Room(Headroom + 8 - Saved, size(original))

\* A management message on its way.
MessageOnItsWay ==
    /\ original \in {[v |-> 0, size |-> n] : n \in Messages}
    /\ \/ stage = "message" /\ room = Room(Headroom, original.size)
       \/ stage = "encrypted" /\ \E h \in Nat :
            /\ room = Room(h, original.size + ZPI_SIZE + Overhead)
            /\ h + room.len <= Buffer
       \/ stage = "dispatched" /\ \E h \in Nat :
            /\ room = Room(h, original.size) /\ h + room.len <= Buffer

\* What was dropped: never because it did not fit, and at the end only if it
\* could not be restored.
WasDropped ==
    /\ stage = "dropped" /\ why \in {"classifier", "panic", "ttl", "damaged", "micv"}
    /\ \E h, n \in Nat : room = Room(h, n) /\ h + n <= Buffer
    /\ why = "micv" => mode \subseteq {"sport", "dport"} /\ Passed /\ Restored # Forwarded

\* The inductive invariant.
WireInv == ((OnItsWay \/ MessageOnItsWay) /\ why = "") \/ WasDropped

-----------------------------------------------------------------------------
(* Sums of words.                                                          *)

\* f are the sums that total computes, up to n words.
SumsTo(f, words, n) ==
    f = [i \in 0 .. n |-> IF i = 0 THEN 0 ELSE f[i - 1] + words[i]]

\* They exist, however many words there are.
LEMMA SumsExist ==
    ASSUME NEW words, NEW n \in Nat
    PROVE  \E f : SumsTo(f, words, n)
<1> DEFINE Bad == {m \in Nat : ~\E f : SumsTo(f, words, m)}
<1> SUFFICES ASSUME Bad # {} PROVE FALSE
  OBVIOUS
<1>1. PICK k \in Bad : \A m \in Bad : k <= m
  BY FirstNat
<1>2. CASE k = 0
  <2> DEFINE f == [i \in 0 .. 0 |-> 0]
  <2>1. f = [i \in 0 .. 0 |-> IF i = 0 THEN 0 ELSE f[i - 1] + words[i]]
    <3>1. \A i \in 0 .. 0 : i = 0
      OBVIOUS
    <3> QED BY <3>1
  <2>2. SumsTo(f, words, 0)
    BY <2>1 DEF SumsTo
  <2> QED BY <1>2, <2>2
<1>3. CASE k # 0
  <2>1. k \in Nat /\ k - 1 \in Nat /\ k - 1 \notin Bad
    BY <1>1, <1>3
  <2>2. PICK g : SumsTo(g, words, k - 1)
    BY <2>1
  <2> DEFINE f == [i \in 0 .. k |-> IF i = k THEN g[k - 1] + words[k] ELSE g[i]]
  <2>3. \A i \in 0 .. (k - 1) : f[i] = g[i]
    BY <2>1
  <2>4. f[k] = f[k - 1] + words[k]
    BY <2>1, <2>3
  <2>5. \A i \in 0 .. (k - 1) : g[i] = IF i = 0 THEN 0 ELSE g[i - 1] + words[i]
    BY <2>2 DEF SumsTo
  <2>6. f = [i \in 0 .. k |-> f[i]]
    OBVIOUS
  <2> HIDE DEF f
  <2>7. \A i \in 0 .. k : f[i] = IF i = 0 THEN 0 ELSE f[i - 1] + words[i]
    <3> SUFFICES ASSUME NEW i \in 0 .. k
                 PROVE  f[i] = IF i = 0 THEN 0 ELSE f[i - 1] + words[i]
      OBVIOUS
    <3>1. CASE i = k
      BY <1>3, <2>4, <3>1
    <3>2. CASE i # k
      <4>1. i \in 0 .. (k - 1)
        BY <2>1, <3>2
      <4>2. i # 0 => i - 1 \in 0 .. (k - 1)
        BY <2>1, <4>1
      <4> QED BY <2>3, <2>5, <4>1, <4>2
    <3> QED BY <3>1, <3>2
  <2>8. f = [i \in 0 .. k |-> IF i = 0 THEN 0 ELSE f[i - 1] + words[i]]
    BY <2>6, <2>7
  <2>9. SumsTo(f, words, k)
    BY <2>8 DEF SumsTo
  <2> QED BY <2>9
<1> QED BY <1>2, <1>3

\* So total is the last of them.
LEMMA TotalIsASum ==
    ASSUME NEW words, Len(words) \in Nat
    PROVE  \E f : SumsTo(f, words, Len(words)) /\ total(words) = f[Len(words)]
<1>1. \E f : SumsTo(f, words, Len(words))
  BY SumsExist
<1> DEFINE f == CHOOSE f : SumsTo(f, words, Len(words))
<1>2. SumsTo(f, words, Len(words))
  BY <1>1
<1>3. total(words) = f[Len(words)]
  BY DEF total, SumsTo
<1> QED BY <1>2, <1>3

\* Sums of naturals are naturals, and not smaller than one of the words.
LEMMA SumsGrow ==
    ASSUME NEW a \in Seq(Nat), NEW f, SumsTo(f, a, Len(a)), NEW k \in 1 .. Len(a)
    PROVE  \A i \in 0 .. Len(a) : f[i] \in Nat /\ (i >= k => f[i] >= a[k])
<1> DEFINE n == Len(a)
           Good(i) == f[i] \in Nat /\ (i >= k => f[i] >= a[k])
           Bad == {i \in 0 .. n : ~Good(i)}
<1>1. n \in Nat /\ k \in Int /\ k >= 1 /\ k <= n /\ \A i \in 1 .. n : a[i] \in Nat
  OBVIOUS
<1>2. \A i \in 0 .. n : f[i] = IF i = 0 THEN 0 ELSE f[i - 1] + a[i]
  BY DEF SumsTo
<1> HIDE DEF n
<1> SUFFICES Bad = {}
  BY DEF n
<1> SUFFICES ASSUME Bad # {} PROVE FALSE
  OBVIOUS
<1>3. PICK i \in Bad : \A m \in Bad : i <= m
  <2>1. Bad \subseteq Nat
    BY <1>1
  <2> HIDE DEF Bad
  <2> QED BY <2>1, FirstNat
<1>4. i \in 0 .. n /\ ~Good(i)
  OBVIOUS
<1>5. i # 0 => i - 1 \in 0 .. n /\ Good(i - 1)
  <2> SUFFICES ASSUME i # 0 PROVE i - 1 \in 0 .. n /\ Good(i - 1)
    OBVIOUS
  <2>1. i - 1 \in 0 .. n /\ ~(i <= i - 1)
    BY <1>1, <1>4
  <2>2. i - 1 \notin Bad
    BY <1>3, <2>1
  <2> QED BY <2>1, <2>2
<1> HIDE DEF Bad, Good
<1>6. CASE i = 0
  <2>1. f[0] = 0 /\ ~(0 >= k)
    BY <1>1, <1>2
  <2>2. Good(0)
    BY <2>1 DEF Good
  <2> QED BY <1>4, <1>6, <2>2
<1>7. CASE i # 0
  <2> DEFINE u == f[i - 1]  w == a[i]
  <2>1. u \in Nat /\ (i - 1 >= k => u >= a[k])
    BY <1>5, <1>7 DEF Good
  <2>2. w \in Nat /\ a[k] \in Nat /\ i \in Int
    BY <1>1, <1>4, <1>7
  <2>3. f[i] = u + w
    BY <1>2, <1>4, <1>7
  <2>4. i >= k => i = k \/ i - 1 >= k
    BY <1>1, <2>2
  <2>5. i = k => w = a[k]
    OBVIOUS
  <2> HIDE DEF u, w
  <2>6. u + w \in Nat /\ u + w >= u /\ u + w >= w
    BY <2>1, <2>2
  <2>7. i >= k => u + w >= a[k]
    BY <2>1, <2>2, <2>4, <2>5, <2>6
  <2>8. Good(i)
    BY <2>3, <2>6, <2>7 DEF Good
  <2> QED BY <1>4, <2>8
<1> QED BY <1>6, <1>7

\* Where the words differ by one at k, so do the sums from there.
LEMMA SumsDiffer ==
    ASSUME NEW a \in Seq(Nat), NEW b \in Seq(Nat), Len(a) = Len(b), NEW k \in 1 .. Len(a),
           \A i \in 1 .. Len(a) : i # k => a[i] = b[i],
           NEW f, NEW g, SumsTo(f, a, Len(a)), SumsTo(g, b, Len(a))
    PROVE  f[Len(a)] + b[k] = g[Len(a)] + a[k]
<1> DEFINE n == Len(a)
           Good(i) == f[i] + (IF i >= k THEN b[k] ELSE 0) = g[i] + (IF i >= k THEN a[k] ELSE 0)
           Bad == {i \in 0 .. n : ~Good(i)}
<1>1. /\ n \in Nat /\ k \in Int /\ k >= 1 /\ k <= n
      /\ \A i \in 1 .. n : a[i] \in Nat /\ b[i] \in Nat
  OBVIOUS
<1>2. \A i \in 0 .. n : f[i] = IF i = 0 THEN 0 ELSE f[i - 1] + a[i]
  BY DEF SumsTo
<1>3. \A i \in 0 .. n : g[i] = IF i = 0 THEN 0 ELSE g[i - 1] + b[i]
  BY DEF SumsTo
<1>4. \A i \in 0 .. n : f[i] \in Nat /\ g[i] \in Nat
  BY SumsGrow
<1>5. \A i \in 1 .. n : i # k => a[i] = b[i]
  OBVIOUS
<1> HIDE DEF n
<1>6. Bad = {}
  <2> SUFFICES ASSUME Bad # {} PROVE FALSE
    OBVIOUS
  <2>1. PICK i \in Bad : \A j \in Bad : i <= j
    <3>1. Bad \subseteq Nat
      BY <1>1
    <3> HIDE DEF Bad
    <3> QED BY <3>1, FirstNat
  <2>2. i \in 0 .. n /\ ~Good(i)
    OBVIOUS
  <2>3. i # 0 => i - 1 \in 0 .. n /\ Good(i - 1)
    <3> SUFFICES ASSUME i # 0 PROVE i - 1 \in 0 .. n /\ Good(i - 1)
      OBVIOUS
    <3>1. i - 1 \in 0 .. n /\ ~(i <= i - 1)
      BY <1>1, <2>2
    <3>2. i - 1 \notin Bad
      BY <2>1, <3>1
    <3> QED BY <3>1, <3>2
  <2> HIDE DEF Bad, Good
  <2>4. CASE i = 0
    <3>1. f[0] = 0 /\ g[0] = 0 /\ ~(0 >= k)
      BY <1>1, <1>2, <1>3
    <3>2. Good(0)
      BY <3>1 DEF Good
    <3> QED BY <2>2, <2>4, <3>2
  <2>5. CASE i # 0
    <3> DEFINE u == f[i - 1]  v == g[i - 1]  x == a[i]  y == b[i]  p == a[k]  q == b[k]
    <3>1. u + (IF i - 1 >= k THEN q ELSE 0) = v + (IF i - 1 >= k THEN p ELSE 0)
      BY <2>3, <2>5 DEF Good
    <3>2. f[i] = u + x /\ g[i] = v + y
      BY <1>2, <1>3, <2>2, <2>5
    <3>3. u \in Nat /\ v \in Nat
      BY <1>4, <2>3, <2>5
    <3>4. x \in Nat /\ y \in Nat /\ p \in Nat /\ q \in Nat /\ i \in Int
      BY <1>1, <2>2, <2>5
    <3>5. (i = k => x = p /\ y = q) /\ (i # k => x = y)
      BY <1>1, <1>5, <2>2, <2>5
    <3> HIDE DEF u, v, x, y, p, q
    <3>6. u + x + (IF i >= k THEN q ELSE 0) = v + y + (IF i >= k THEN p ELSE 0)
      <4>1. CASE i >= k /\ i - 1 >= k
        BY <1>1, <3>1, <3>3, <3>4, <3>5, <4>1
      <4>2. CASE i >= k /\ ~(i - 1 >= k)
        BY <1>1, <3>1, <3>3, <3>4, <3>5, <4>2
      <4>3. CASE ~(i >= k)
        BY <1>1, <3>1, <3>3, <3>4, <3>5, <4>3
      <4> QED BY <4>1, <4>2, <4>3
    <3>7. Good(i)
      BY <3>2, <3>6 DEF Good, p, q
    <3> QED BY <2>2, <3>7
  <2> QED BY <2>4, <2>5
<1>7. Good(n) /\ n >= k
  BY <1>1, <1>6
<1> QED BY <1>7 DEF n

\* So a sum is as much larger as the one word by which the words differ.
LEMMA OneWordDiffers ==
    ASSUME NEW a \in Seq(Nat), NEW b \in Seq(Nat), Len(a) = Len(b), NEW k \in 1 .. Len(a),
           \A i \in 1 .. Len(a) : i # k => a[i] = b[i]
    PROVE  total(a) \in Nat /\ total(b) \in Nat /\ total(a) + b[k] = total(b) + a[k]
<1> DEFINE n == Len(a)
<1>1. n \in Nat /\ Len(b) = n /\ n >= k /\ n \in 0 .. n
  OBVIOUS
<1>2. PICK f : SumsTo(f, a, n) /\ total(a) = f[n]
  BY <1>1, TotalIsASum
<1>3. PICK g : SumsTo(g, b, n) /\ total(b) = g[n]
  BY <1>1, TotalIsASum
<1>4. f[n] \in Nat /\ g[n] \in Nat
  BY <1>1, <1>2, <1>3, SumsGrow
<1>5. f[n] + b[k] = g[n] + a[k]
  BY <1>1, <1>2, <1>3, SumsDiffer
<1> QED BY <1>1, <1>2, <1>3, <1>4, <1>5

\* The sum of words that are not all 0.
LEMMA TotalPositive ==
    ASSUME NEW a \in Seq(Nat), NEW k \in 1 .. Len(a), a[k] > 0
    PROVE  total(a) \in Nat /\ total(a) > 0
<1> DEFINE n == Len(a)
<1>1. n \in Nat /\ n >= k /\ n \in 0 .. n /\ a[k] \in Nat
  OBVIOUS
<1>2. PICK f : SumsTo(f, a, n) /\ total(a) = f[n]
  BY <1>1, TotalIsASum
<1>3. f[n] \in Nat /\ f[n] >= a[k]
  BY <1>1, <1>2, SumsGrow
<1> QED BY <1>1, <1>2, <1>3

\* The checksum of words whose sum is t.
Complement(t) == 65535 - (((t - 1) % 65535) + 1)

\* The checksum that makes the sum right, and the one that is computed for the
\* sum of the other words.
LEMMA RightChecksum ==
    ASSUME NEW t \in Nat, t > 0, NEW x \in Nat, x < 65535, Complement(t + x) = 0
    PROVE  x = Complement(t)
<1> DEFINE q == (t - 1) \div 65535  r == (t - 1) % 65535
<1>1. t - 1 \in Nat /\ t + x - 1 \in Nat
  OBVIOUS
<1>2. t - 1 = 65535 * q + r /\ r \in Nat /\ r < 65535 /\ q \in Int
  BY <1>1
<1> DEFINE u == (t + x - 1) \div 65535  s == (t + x - 1) % 65535
<1>3. t + x - 1 = 65535 * u + s /\ u \in Int /\ s \in Nat
  BY <1>1
<1>4. 65535 - (s + 1) = 0
  BY DEF Complement
<1>5. Complement(t) = 65535 - (r + 1)
  BY DEF Complement
<1> HIDE DEF q, r, u, s
<1>6. s = 65534
  BY <1>3, <1>4
<1>7. 65535 * (u - q) = r + x - 65534
  BY <1>2, <1>3, <1>6
<1>8. u - q = 0
  BY <1>2, <1>3, <1>7
<1>9. x = 65534 - r
  BY <1>2, <1>7, <1>8
<1> QED BY <1>2, <1>5, <1>9

Computed(t) ==
    /\ Complement(t) \in Nat /\ Complement(t) < 65535
    /\ Complement(t + Complement(t)) = 0

\* A number's complement, added to it, gives 0 (checksum's folding of carries).
LEMMA ComputedChecksum ==
    ASSUME NEW t \in Nat, t > 0
    PROVE  Computed(t)
<1> DEFINE q == (t - 1) \div 65535  r == (t - 1) % 65535  x == Complement(t)
<1>1. t - 1 \in Nat
  OBVIOUS
<1>2. t - 1 = 65535 * q + r /\ r \in Nat /\ r < 65535 /\ q \in Int
  BY <1>1
<1>3. x = 65535 - (r + 1)
  BY DEF Complement
<1> HIDE DEF q, r, x
<1>4. x = 65534 - r /\ x \in Nat /\ x < 65535
  BY <1>2, <1>3
<1>5. t + x - 1 = 65535 * q + 65534
  BY <1>2, <1>4
<1>6. (t + x - 1) % 65535 = 65534
  BY <1>2, <1>5
<1>7. Complement(t + x) = 0
  BY <1>4, <1>6 DEF Complement
<1> QED BY <1>4, <1>7 DEF x, Computed

\* The checksum of words in which it stands at k, computed with 0 there.
LEMMA ChecksumInPlace ==
    ASSUME NEW a \in Seq(Nat), NEW b \in Seq(Nat), Len(a) = Len(b), NEW k \in 1 .. Len(a),
           \A i \in 1 .. Len(a) : i # k => a[i] = b[i],
           b[k] = 0, total(b) > 0
    PROVE  /\ checksum(b) \in Nat /\ checksum(b) < 65535
           /\ a[k] = checksum(b) => checksum(a) = 0
           /\ checksum(a) = 0 /\ a[k] < 65535 => a[k] = checksum(b)
<1> DEFINE t == total(b)  x == a[k]
<1>1. t \in Nat /\ total(a) \in Nat /\ x \in Nat /\ total(a) = t + x
  <2>1. a[k] \in Nat
    OBVIOUS
  <2>2. total(a) \in Nat /\ total(b) \in Nat /\ total(a) + b[k] = total(b) + a[k]
    BY OneWordDiffers
  <2> QED BY <2>1, <2>2
<1>2. checksum(b) = Complement(t)
  BY <1>1 DEF checksum, ones_sum, Complement
<1>3. checksum(a) = Complement(total(a))
  <2>1. total(a) # 0
    BY <1>1
  <2> QED BY <2>1 DEF checksum, ones_sum, Complement
<1>4. t > 0
  OBVIOUS
<1> HIDE DEF t, x
<1>5. checksum(a) = Complement(t + x)
  BY <1>1, <1>3
<1>6. Complement(t) \in Nat /\ Complement(t) < 65535 /\ Complement(t + Complement(t)) = 0
  <2>1. Computed(t)
    BY <1>1, <1>4, ComputedChecksum
  <2> QED BY <2>1 DEF Computed
<1>7. ASSUME x = checksum(b) PROVE checksum(a) = 0
  BY <1>2, <1>5, <1>6, <1>7
<1>8. ASSUME checksum(a) = 0, x < 65535 PROVE x = checksum(b)
  BY <1>1, <1>2, <1>4, <1>5, <1>8, RightChecksum
<1> QED BY <1>2, <1>6, <1>7, <1>8 DEF x

-----------------------------------------------------------------------------
(* Chains of options.                                                      *)

\* The largest word is a number.
LEMMA MaxWord ==
    MAX_WORD \in Nat
  BY DEF MAX_WORD

\* Words are numbers.
LEMMA WordsAre ==
    ASSUME NEW words \in Seq(0 .. MAX_WORD)
    PROVE  \A j \in 1 .. Len(words) : words[j] \in Nat /\ words[j] <= MAX_WORD
<1>1. MAX_WORD \in Nat
  BY MaxWord
<1> DEFINE S == 0 .. MAX_WORD
<1>2. \A x \in S : x \in Nat /\ x <= MAX_WORD
  <2> DEFINE M == MAX_WORD
  <2>1. M \in Nat
    BY <1>1
  <2> HIDE DEF M
  <2>2. \A x \in 0 .. M : x \in Nat /\ x <= M
    BY <2>1
  <2> QED BY <2>2 DEF M
<1>3. words \in Seq(S)
  OBVIOUS
<1> HIDE DEF S
<1>4. \A j \in 1 .. Len(words) : words[j] \in S
  BY <1>3
<1> QED BY <1>2, <1>4

\* A word other than 65535 is below it.
LEMMA BelowMaxWord ==
    ASSUME NEW x \in Nat, x <= MAX_WORD, x # 65535
    PROVE  x < 65535
  BY DEF MAX_WORD

\* What is left of words after the first n.
LEMMA RestOf ==
    ASSUME NEW S, NEW words \in Seq(S), NEW n \in Nat, n <= Len(words)
    PROVE  /\ rest_of(words, n) \in Seq(S)
           /\ Len(rest_of(words, n)) = Len(words) - n
           /\ \A i \in 1 .. (Len(words) - n) : rest_of(words, n)[i] = words[n + i]
<1>1. Len(words) \in Nat
  OBVIOUS
<1>2. /\ SubSeq(words, n + 1, Len(words)) \in Seq(S)
      /\ Len(SubSeq(words, n + 1, Len(words))) = Len(words) - n
  BY <1>1
<1>3. \A i \in 1 .. (Len(words) - n) : SubSeq(words, n + 1, Len(words))[i] = words[n + i]
  BY <1>1
<1> QED BY <1>2, <1>3 DEF rest_of

Start(proto) == [proto |-> proto, n |-> 0]

\* f is where skip_options is after each of m steps.
ChainTo(f, proto, words, m) ==
    f = [i \in 0 .. m |-> IF i = 0 THEN Start(proto) ELSE skip_option(f[i - 1], words)]

\* The calls of classify_next_header to itself, any number of them, are defined.
LEMMA ChainExists ==
    ASSUME NEW proto, NEW words, NEW n \in Nat
    PROVE  \E f : ChainTo(f, proto, words, n)
<1> DEFINE Bad == {m \in Nat : ~\E f : ChainTo(f, proto, words, m)}
<1> SUFFICES ASSUME Bad # {} PROVE FALSE
  OBVIOUS
<1>1. PICK k \in Bad : \A m \in Bad : k <= m
  BY FirstNat
<1>2. CASE k = 0
  <2> DEFINE f == [i \in 0 .. 0 |-> Start(proto)]
  <2>1. f = [i \in 0 .. 0 |-> IF i = 0 THEN Start(proto) ELSE skip_option(f[i - 1], words)]
    <3>1. \A i \in 0 .. 0 : i = 0
      OBVIOUS
    <3> QED BY <3>1
  <2>2. ChainTo(f, proto, words, 0)
    BY <2>1 DEF ChainTo
  <2> QED BY <1>2, <2>2
<1>3. CASE k # 0
  <2>1. k \in Nat /\ k - 1 \in Nat /\ k - 1 \notin Bad
    BY <1>1, <1>3
  <2>2. PICK g : ChainTo(g, proto, words, k - 1)
    BY <2>1
  <2> DEFINE f == [i \in 0 .. k |-> IF i = k THEN skip_option(g[k - 1], words) ELSE g[i]]
  <2>3. \A i \in 0 .. (k - 1) : f[i] = g[i]
    BY <2>1
  <2>4. f[k] = skip_option(f[k - 1], words)
    BY <2>1, <2>3
  <2>5. \A i \in 0 .. (k - 1) :
          g[i] = IF i = 0 THEN Start(proto) ELSE skip_option(g[i - 1], words)
    BY <2>2 DEF ChainTo
  <2>6. f = [i \in 0 .. k |-> f[i]]
    OBVIOUS
  <2> HIDE DEF f
  <2>7. \A i \in 0 .. k : f[i] = IF i = 0 THEN Start(proto) ELSE skip_option(f[i - 1], words)
    <3> SUFFICES ASSUME NEW i \in 0 .. k
                 PROVE  f[i] = IF i = 0 THEN Start(proto) ELSE skip_option(f[i - 1], words)
      OBVIOUS
    <3>1. CASE i = k
      BY <1>3, <2>4, <3>1
    <3>2. CASE i # k
      <4>1. i \in 0 .. (k - 1)
        BY <2>1, <3>2
      <4>2. i # 0 => i - 1 \in 0 .. (k - 1)
        BY <2>1, <4>1
      <4> QED BY <2>3, <2>5, <4>1, <4>2
    <3> QED BY <3>1, <3>2
  <2>8. f = [i \in 0 .. k |-> IF i = 0 THEN Start(proto) ELSE skip_option(f[i - 1], words)]
    BY <2>6, <2>7
  <2>9. ChainTo(f, proto, words, k)
    BY <2>8 DEF ChainTo
  <2> QED BY <2>9
<1> QED BY <1>2, <1>3

\* skip_options is where they have come to after as many as there are words.
LEMMA SkippedIsAChain ==
    ASSUME NEW proto, NEW words, Len(words) \in Nat
    PROVE  \E f : /\ ChainTo(f, proto, words, Len(words))
                  /\ skip_options(proto, words) = f[Len(words)]
<1>1. \E f : ChainTo(f, proto, words, Len(words))
  BY ChainExists
<1> DEFINE f == CHOOSE f : ChainTo(f, proto, words, Len(words))
<1>2. ChainTo(f, proto, words, Len(words))
  BY <1>1
<1>3. skip_options(proto, words) = f[Len(words)]
  BY DEF skip_options, ChainTo, Start
<1> QED BY <1>2, <1>3

\* The classifier is at a header that is there.
InChain(at, words) ==
    /\ at \in [proto : Int, n : Nat] /\ at.n <= Len(words)
    /\ at.proto \in Options => at.n < Len(words)

\* An option's protocol is none of the values that end them.
LEMMA OptionsAre ==
    ASSUME NEW proto \in Options
    PROVE  proto \in Nat /\ proto # NO_NEXT_HEADER /\ proto # BAD_OPTION
  BY DEF Options, HOPOPT, IPV6_ROUTE, AH, IPV6_OPTS, NO_NEXT_HEADER, BAD_OPTION

\* Skipping an option stays within the packet.
LEMMA SkipOne ==
    ASSUME NEW words \in Seq(0 .. MAX_WORD), NEW at, InChain(at, words)
    PROVE  InChain(skip_option(at, words), words)
<1>1. at \in [proto : Int, n : Nat] /\ Len(words) \in Nat
  BY DEF InChain
<1>2. CASE at.proto \notin Options
  <2>1. skip_option(at, words) = at
    BY <1>2 DEF skip_option
  <2> QED BY <2>1
<1>3. CASE at.proto \in Options
  <2> DEFINE left == rest_of(words, at.n)
             next == left[1] \div 256
             n == IF at.proto = AH THEN 2 * ((left[1] % 256) + 2) ELSE 4 * ((left[1] % 256) + 1)
  <2>1. at.n \in Nat /\ at.n < Len(words) /\ at.n <= Len(words)
    BY <1>1, <1>3 DEF InChain
  <2>2. left[1] = words[at.n + 1] /\ Len(left) = Len(words) - at.n
    <3>1. 1 \in 1 .. (Len(words) - at.n)
      BY <1>1, <2>1
    <3> QED BY <2>1, <3>1, RestOf
  <2>3. left[1] \in Nat
    <3>1. at.n + 1 \in 1 .. Len(words)
      BY <1>1, <2>1
    <3>2. \A j \in 1 .. Len(words) : words[j] \in Nat
      BY WordsAre
    <3> QED BY <2>2, <3>1, <3>2
  <2>4. next \in Nat /\ n \in Nat
    <3> DEFINE w == left[1]
    <3>1. w \in Nat
      BY <2>3
    <3> HIDE DEF w
    <3>2. w \div 256 \in Nat /\ w % 256 \in Nat
      BY <3>1
    <3>3. (IF at.proto = AH THEN 2 * ((w % 256) + 2) ELSE 4 * ((w % 256) + 1)) \in Nat
      <4> DEFINE m == w % 256
      <4>1. m \in Nat
        BY <3>2
      <4> HIDE DEF m
      <4>2. 2 * (m + 2) \in Nat /\ 4 * (m + 1) \in Nat
        BY <4>1
      <4> QED BY <4>2 DEF m
    <3> QED BY <3>2, <3>3 DEF w
  <2>5. CASE is_option_length_error(left, next, n)
    <3>1. skip_option(at, words) = [at EXCEPT !.proto = BAD_OPTION]
      BY <1>3, <2>5 DEF skip_option
    <3>2. /\ [at EXCEPT !.proto = BAD_OPTION] \in [proto : Int, n : Nat]
          /\ [at EXCEPT !.proto = BAD_OPTION].n = at.n
          /\ [at EXCEPT !.proto = BAD_OPTION].proto = BAD_OPTION
      BY <1>1 DEF BAD_OPTION
    <3> QED BY <2>1, <3>1, <3>2, OptionsAre DEF InChain
  <2>6. CASE ~is_option_length_error(left, next, n)
    <3>1. skip_option(at, words) = [proto |-> next, n |-> at.n + n]
      BY <1>3, <2>6 DEF skip_option
    <3>2. ~(n > Len(left)) /\ (next # NO_NEXT_HEADER => ~(n + 4 > Len(left)))
      BY <2>6 DEF is_option_length_error
    <3> HIDE DEF n, next, left
    <3>3. at.n + n \in Nat /\ at.n + n <= Len(words)
      BY <1>1, <2>1, <2>2, <2>4, <3>2
    <3>4. next \in Options => at.n + n < Len(words)
      <4>1. next \in Options => next # NO_NEXT_HEADER
        BY OptionsAre
      <4> QED BY <1>1, <2>1, <2>2, <2>4, <3>2, <4>1
    <3> QED BY <2>4, <3>1, <3>3, <3>4 DEF InChain
  <2> QED BY <2>5, <2>6
<1> QED BY <1>2, <1>3

\* The whole chain: what is left after it lies within the packet, and a packet
\* without options has none that is skipped.
LEMMA SkipAll ==
    ASSUME NEW words \in Seq(0 .. MAX_WORD), NEW proto \in Nat,
           proto \in Options => Len(words) > 0
    PROVE  /\ InChain(skip_options(proto, words), words)
           /\ proto \notin Options => skip_options(proto, words) = Start(proto)
<1> DEFINE n == Len(words)
<1>1. n \in Nat
  OBVIOUS
<1>2. PICK f : ChainTo(f, proto, words, n) /\ skip_options(proto, words) = f[n]
  BY <1>1, SkippedIsAChain
<1>3. \A i \in 0 .. n : f[i] = IF i = 0 THEN Start(proto) ELSE skip_option(f[i - 1], words)
  BY <1>2 DEF ChainTo
<1> DEFINE Good(i) == InChain(f[i], words) /\ (proto \notin Options => f[i] = Start(proto))
           Bad == {i \in 0 .. n : ~Good(i)}
<1>4. Start(proto).proto = proto /\ InChain(Start(proto), words)
  BY <1>1 DEF Start, InChain
<1> HIDE DEF n
<1>5. Bad = {}
  <2> SUFFICES ASSUME Bad # {} PROVE FALSE
    OBVIOUS
  <2>1. PICK i \in Bad : \A j \in Bad : i <= j
    <3>1. Bad \subseteq Nat
      BY <1>1
    <3> HIDE DEF Bad
    <3> QED BY <3>1, FirstNat
  <2>2. i \in 0 .. n /\ ~Good(i)
    OBVIOUS
  <2>3. i # 0 => i - 1 \in 0 .. n /\ Good(i - 1)
    <3> SUFFICES ASSUME i # 0 PROVE i - 1 \in 0 .. n /\ Good(i - 1)
      OBVIOUS
    <3>1. i - 1 \in 0 .. n /\ ~(i <= i - 1)
      BY <1>1, <2>2
    <3>2. i - 1 \notin Bad
      BY <2>1, <3>1
    <3> QED BY <3>1, <3>2
  <2> HIDE DEF Bad
  <2>4. CASE i = 0
    <3>1. f[i] = Start(proto)
      BY <1>3, <2>2, <2>4
    <3> QED BY <1>4, <2>2, <3>1
  <2>5. CASE i # 0
    <3> DEFINE at == f[i - 1]
    <3>1. f[i] = skip_option(at, words)
      BY <1>3, <2>2, <2>5
    <3>2. InChain(at, words) /\ (proto \notin Options => at = Start(proto))
      BY <2>3, <2>5
    <3> HIDE DEF at
    <3>3. InChain(f[i], words)
      BY <3>1, <3>2, SkipOne
    <3>4. ASSUME proto \notin Options PROVE f[i] = Start(proto)
      BY <1>4, <3>1, <3>2, <3>4 DEF skip_option
    <3> QED BY <2>2, <3>3, <3>4
  <2> QED BY <2>4, <2>5
<1>6. Good(n)
  BY <1>1, <1>5
<1> QED BY <1>2, <1>6

-----------------------------------------------------------------------------
(* What a packet is that the classifier passes.                            *)

\* Without options, what is left of a packet is the packet.
LEMMA NothingSkipped ==
    ASSUME NEW S, NEW words \in Seq(S)
    PROVE  rest_of(words, 0) = words
<1>1. Len(words) \in Nat
  OBVIOUS
<1>2. /\ rest_of(words, 0) \in Seq(S) /\ Len(rest_of(words, 0)) = Len(words)
      /\ \A i \in 1 .. Len(words) : rest_of(words, 0)[i] = words[i]
  <2>1. /\ rest_of(words, 0) \in Seq(S) /\ Len(rest_of(words, 0)) = Len(words) - 0
        /\ \A i \in 1 .. (Len(words) - 0) : rest_of(words, 0)[i] = words[0 + i]
    BY <1>1, RestOf
  <2> QED BY <1>1, <2>1
<1> QED BY <1>1, <1>2

\* The five tuple.
LEMMA FiveTupleIs ==
    ASSUME NEW p, NEW proto, NEW words
    PROVE  LET ft == five_tuple(p, proto, words)
           IN  /\ ft.v = p.v /\ ft.src = p.src /\ ft.dst = p.dst /\ ft.proto = proto
               /\ proto \in {TCP, UDP} => ft.sport = words[1] /\ ft.dport = words[2]
  BY DEF five_tuple

\* What the checks of the protocols mean.
LEMMA L4Passed ==
    ASSUME NEW p, NEW proto, NEW words, Len(words) \in Nat,
           classify_l4(p, proto, words).result = "OK"
    PROVE  /\ classify_l4(p, proto, words).ft = five_tuple(p, proto, words)
           /\ proto = TCP => /\ Len(words) >= 10
                             /\ inet_l4_checksum(five_tuple(p, proto, words), words) = 0
           /\ proto = UDP => Len(words) >= 4 /\ words[3] = 2 * Len(words)
<1> DEFINE ft == five_tuple(p, proto, words)
           bad == \/ proto = ICMP /\ classify_icmp(words)
                  \/ proto = ICMPV6 /\ classify_icmpv6(ft, words)
                  \/ proto = TCP /\ classify_tcp(ft, words)
                  \/ proto = UDP /\ classify_udp(ft, words)
<1>1. classify_l4(p, proto, words) = IF bad THEN error ELSE [result |-> "OK", ft |-> ft]
  BY Zenon DEF classify_l4
<1>2. ~bad
  <2>1. error.result # "OK"
    BY DEF error
  <2> HIDE DEF bad
  <2> QED BY <1>1, <2>1
<1>3. classify_l4(p, proto, words).ft = ft
  <2> HIDE DEF bad
  <2> QED BY <1>1, <1>2
<1>4. proto = TCP => ~classify_tcp(ft, words)
  BY <1>2
<1>5. proto = UDP => ~classify_udp(ft, words)
  BY <1>2
<1> HIDE DEF ft, bad
<1>6. ASSUME proto = TCP PROVE Len(words) >= 10 /\ inet_l4_checksum(ft, words) = 0
  BY <1>4, <1>6 DEF classify_tcp
<1>7. ASSUME proto = UDP PROVE Len(words) >= 4 /\ words[3] = 2 * Len(words)
  BY <1>5, <1>7 DEF classify_udp
<1> QED BY <1>3, <1>6, <1>7 DEF ft

\* After the options, if there are any, comes the header that is looked at.
LEMMA NextHeaderPassed ==
    ASSUME NEW p, NEW words \in Seq(0 .. MAX_WORD), p.proto \in Nat,
           classify_next_header(p, words).result = "OK"
    PROVE  \E proto \in Int, n \in Nat :
             /\ n <= Len(words)
             /\ classify_next_header(p, words) = classify_l4(p, proto, rest_of(words, n))
             /\ p.proto \notin Options => proto = p.proto /\ n = 0
<1> DEFINE at == skip_options(p.proto, words)
           left == rest_of(words, at.n)
<1>0. ~cut_short(p.proto, words) /\ Len(words) \in Nat
  <2>1. panics.result # "OK"
    BY DEF panics
  <2> QED BY <2>1 DEF classify_next_header
<1>1. InChain(at, words) /\ (p.proto \notin Options => at = Start(p.proto))
  <2>1. p.proto \in Options => Len(words) > 0
    BY <1>0 DEF cut_short
  <2> QED BY <2>1, SkipAll
<1>2. classify_next_header(p, words) =
        IF at.proto = BAD_OPTION THEN error
        ELSE IF at.proto = FRAG THEN classify_frag(left)
        ELSE classify_l4(p, at.proto, left)
  BY <1>0 DEF classify_next_header
<1> HIDE DEF at
<1>3. error.result # "OK"
  BY DEF error
<1>4. classify_frag(left).result # "OK"
  <2>1. classify_frag(left) \in
          {error, [result |-> "SubsequentFragment"], [result |-> "FirstFragment"]}
    BY DEF classify_frag
  <2> QED BY <1>3, <2>1
<1>5. classify_next_header(p, words) = classify_l4(p, at.proto, left)
  BY <1>2, <1>3, <1>4
<1>6. at.proto \in Int /\ at.n \in Nat /\ at.n <= Len(words)
  BY <1>1 DEF InChain
<1>7. p.proto \notin Options => at.proto = p.proto /\ at.n = 0
  BY <1>1 DEF Start
<1> QED BY <1>5, <1>6, <1>7

\* The packets of the actors.
LEMMA PacketsAre ==
    ASSUME NEW p \in Packets
    PROVE  /\ p \in IpPackets /\ p.v \in {4, 6}
           /\ p.hl \in Nat /\ p.len \in Nat /\ p.frag \in Nat /\ p.ttl \in Nat
           /\ p.proto \in Nat /\ p.sum \in Nat /\ p.src \in Nat /\ p.dst \in Nat
           /\ p.rest \in Seq(0 .. MAX_WORD)
  BY WireAssumption DEF IpPackets

\* What follows the headers of a packet that passed, in both versions.
LEMMA Passes4 ==
    ASSUME NEW p \in Packets, p.v = 4, classify(p).result = "OK"
    PROVE  /\ p.hl >= 5 /\ 2 * (p.hl - 5) <= Len(p.rest)
           /\ checksum(ipv4_header(p)) = 0
           /\ p.frag % 8192 = 0 /\ p.len = 20 + 2 * Len(p.rest) /\ (p.frag \div 8192) % 2 # 1
           /\ classify(p) = classify_next_header(p, rest_of(p.rest, 2 * (p.hl - 5)))
<1> DEFINE options == 2 * (p.hl - 5)
           words == rest_of(p.rest, options)
           A == p.hl < 5 \/ options > Len(p.rest) \/ checksum(ipv4_header(p)) # 0
           B == p.frag % 8192 # 0
           C == p.len # 20 + 2 * Len(p.rest)
           D == (p.frag \div 8192) % 2 = 1
           E == cut_short(p.proto, words)
<1>1. classify(p) = IF A THEN error
                    ELSE IF B THEN [result |-> "SubsequentFragment"]
                    ELSE IF C THEN error
                    ELSE IF D /\ ~E THEN [result |-> "FirstFragment"]
                    ELSE classify_next_header(p, words)
  BY DEF classify, classify_ipv4
<1>2. p.hl \in Nat /\ p.rest \in Seq(0 .. MAX_WORD) /\ Len(p.rest) \in Nat
  BY PacketsAre
<1>3. error.result # "OK"
  BY DEF error
<1>4. ~A /\ ~B /\ ~C /\ ~D /\ classify(p) = classify_next_header(p, words)
  <2>1. E => classify_next_header(p, words).result # "OK"
    BY DEF classify_next_header, panics
  <2> HIDE DEF A, B, C, D, E, words
  <2> QED BY <1>1, <1>3, <2>1
<1>5. p.hl >= 5 /\ options <= Len(p.rest)
  BY <1>2, <1>4
<1> QED BY <1>4, <1>5

\* An IPv6 packet that classify_ipv6 passes states its length, and its next header
\* decides.
LEMMA Passes6 ==
    ASSUME NEW p \in Packets, p.v = 6, classify(p).result = "OK"
    PROVE  /\ ~(p.len = 0 /\ p.proto = HOPOPT) /\ p.len = 2 * Len(p.rest)
           /\ classify(p) = classify_next_header(p, p.rest)
<1> DEFINE A == (p.len = 0 /\ p.proto = HOPOPT) \/ p.len # 2 * Len(p.rest)
<1>1. classify(p) = IF A THEN error ELSE classify_next_header(p, p.rest)
  BY DEF classify, classify_ipv6
<1>2. error.result # "OK"
  BY DEF error
<1>3. ~A /\ classify(p) = classify_next_header(p, p.rest)
  <2> HIDE DEF A
  <2> QED BY <1>1, <1>2
<1> QED BY <1>3

\* Together: the five tuple, and how much there is at least.
LEMMA PacketPassed ==
    ASSUME NEW p \in Packets, classify(p).result = "OK"
    PROVE  LET ft == classify(p).ft
           IN  /\ ft.v = p.v /\ ft.src = p.src /\ ft.dst = p.dst
               /\ ft.proto = TCP => Len(p.rest) >= 10
               /\ ft.proto = UDP => Len(p.rest) >= 4
<1>1. p.v \in {4, 6} /\ p.proto \in Nat /\ p.hl \in Nat /\ p.rest \in Seq(0 .. MAX_WORD)
      /\ Len(p.rest) \in Nat
  BY PacketsAre
<1>3. \E k \in Nat : k <= Len(p.rest) /\ classify(p) = classify_next_header(p, rest_of(p.rest, k))
  <2>1. CASE p.v = 4
    <3> DEFINE k == 2 * (p.hl - 5)
    <3>1. k \in Nat /\ k <= Len(p.rest) /\ classify(p) = classify_next_header(p, rest_of(p.rest, k))
      BY <1>1, <2>1, Passes4
    <3> HIDE DEF k
    <3> QED BY <3>1
  <2>2. CASE p.v = 6
    <3>1. classify(p) = classify_next_header(p, rest_of(p.rest, 0))
      BY <1>1, <2>2, Passes6, NothingSkipped
    <3> QED BY <1>1, <3>1
  <2> QED BY <1>1, <2>1, <2>2
<1>4. PICK k \in Nat : k <= Len(p.rest) /\ classify(p) = classify_next_header(p, rest_of(p.rest, k))
  BY <1>3
<1> DEFINE words == rest_of(p.rest, k)
<1>5. words \in Seq(0 .. MAX_WORD) /\ Len(words) = Len(p.rest) - k
  BY <1>1, <1>4, RestOf
<1>6. classify(p) = classify_next_header(p, words)
  BY <1>4
<1> HIDE DEF words
<1>7. PICK proto \in Int, n \in Nat :
             /\ n <= Len(words)
             /\ classify_next_header(p, words) = classify_l4(p, proto, rest_of(words, n))
  BY <1>1, <1>4, <1>5, <1>6, NextHeaderPassed
<1> DEFINE left == rest_of(words, n)
<1>8. Len(left) = Len(words) - n /\ left \in Seq(0 .. MAX_WORD)
  BY <1>5, <1>7, RestOf
<1>9. classify(p) = classify_l4(p, proto, left)
  BY <1>6, <1>7
<1> HIDE DEF left
<1>10. /\ classify(p).ft = five_tuple(p, proto, left)
       /\ proto = TCP => Len(left) >= 10
       /\ proto = UDP => Len(left) >= 4
  <2>1. Len(left) \in Nat /\ classify_l4(p, proto, left).result = "OK"
    BY <1>8, <1>9
  <2> QED BY <1>9, <2>1, L4Passed
<1>11. Len(left) <= Len(p.rest) /\ Len(left) \in Nat
  BY <1>1, <1>4, <1>5, <1>7, <1>8
<1>12. /\ classify(p).ft.v = p.v /\ classify(p).ft.src = p.src /\ classify(p).ft.dst = p.dst
       /\ classify(p).ft.proto = proto
  BY <1>10, FiveTupleIs
<1>13. proto = TCP => Len(p.rest) >= 10
  BY <1>1, <1>10, <1>11
<1>14. proto = UDP => Len(p.rest) >= 4
  BY <1>1, <1>10, <1>11
<1> QED BY <1>12, <1>13, <1>14

\* A plain IPv6 packet.
LEMMA PlainPassed ==
    ASSUME NEW p \in Packets, p.v = 6, plain(p), classify(p).result = "OK"
    PROVE  /\ p.len = 2 * Len(p.rest)
           /\ classify(p).ft = five_tuple(p, p.proto, p.rest)
           /\ p.proto = TCP => inet_l4_checksum(five_tuple(p, p.proto, p.rest), p.rest) = 0
           /\ p.proto = UDP => p.rest[3] = 2 * Len(p.rest)
<1>1. p.proto \in Nat /\ p.rest \in Seq(0 .. MAX_WORD) /\ Len(p.rest) \in Nat
  BY PacketsAre
<1>2. p.proto \notin Options
  BY DEF plain
<1>3. p.len = 2 * Len(p.rest) /\ classify(p) = classify_next_header(p, p.rest)
  BY Passes6
<1>4. classify(p) = classify_l4(p, p.proto, rest_of(p.rest, 0))
  BY <1>1, <1>2, <1>3, NextHeaderPassed
<1>5. classify(p) = classify_l4(p, p.proto, p.rest)
  BY <1>1, <1>4, NothingSkipped
<1>6. classify_l4(p, p.proto, p.rest).result = "OK"
  BY <1>5
<1> QED BY <1>1, <1>3, <1>5, <1>6, L4Passed

-----------------------------------------------------------------------------
(* Sequences that are put together and taken apart.                        *)

\* One after the other.
LEMMA Joined ==
    ASSUME NEW S, NEW a \in Seq(S), NEW b \in Seq(S)
    PROVE  /\ a \o b \in Seq(S) /\ Len(a) \in Nat /\ Len(b) \in Nat
           /\ Len(a \o b) = Len(a) + Len(b)
           /\ \A i \in 1 .. Len(a) : (a \o b)[i] = a[i]
           /\ \A i \in 1 .. Len(b) : (a \o b)[Len(a) + i] = b[i]
<1>1. Len(a) \in Nat /\ Len(b) \in Nat
  OBVIOUS
<1>2. /\ a \o b \in Seq(S) /\ Len(a \o b) = Len(a) + Len(b)
      /\ \A i \in 1 .. (Len(a) + Len(b)) :
           (a \o b)[i] = IF i <= Len(a) THEN a[i] ELSE b[i - Len(a)]
  BY ConcatProperties
<1>3. \A i \in 1 .. Len(a) : (a \o b)[i] = a[i]
  <2> SUFFICES ASSUME NEW i \in 1 .. Len(a) PROVE (a \o b)[i] = a[i]
    OBVIOUS
  <2>1. i \in 1 .. (Len(a) + Len(b)) /\ i <= Len(a)
    BY <1>1
  <2> QED BY <1>2, <2>1
<1>4. \A i \in 1 .. Len(b) : (a \o b)[Len(a) + i] = b[i]
  <2> SUFFICES ASSUME NEW i \in 1 .. Len(b) PROVE (a \o b)[Len(a) + i] = b[i]
    OBVIOUS
  <2> DEFINE j == Len(a) + i
  <2>1. j \in 1 .. (Len(a) + Len(b)) /\ ~(j <= Len(a)) /\ j - Len(a) = i
    BY <1>1
  <2> HIDE DEF j
  <2>2. (a \o b)[j] = b[j - Len(a)]
    BY <1>2, <2>1
  <2> QED BY <2>1, <2>2 DEF j
<1> QED BY <1>1, <1>2, <1>3, <1>4

\* The front can be taken off again, or read.
LEMMA FrontRemoved ==
    ASSUME NEW S, NEW a \in Seq(S), NEW b \in Seq(S)
    PROVE  rest_of(a \o b, Len(a)) = b /\ SubSeq(a \o b, 1, Len(a)) = a
<1> DEFINE s == a \o b  n == Len(a)
<1>1. /\ s \in Seq(S) /\ n \in Nat /\ Len(b) \in Nat /\ Len(s) = n + Len(b)
      /\ \A i \in 1 .. n : s[i] = a[i]
      /\ \A i \in 1 .. Len(b) : s[n + i] = b[i]
  BY Joined
<1>2. a \in Seq(S) /\ Len(a) = n
  OBVIOUS
<1> HIDE DEF s, n
<1>3. n <= Len(s) /\ Len(s) - n = Len(b)
  BY <1>1
<1>4. /\ rest_of(s, n) \in Seq(S) /\ Len(rest_of(s, n)) = Len(s) - n
      /\ \A i \in 1 .. (Len(s) - n) : rest_of(s, n)[i] = s[n + i]
  BY <1>1, <1>3, RestOf
<1>5. rest_of(s, n) = b
  <2>1. Len(rest_of(s, n)) = Len(b) /\ \A i \in 1 .. Len(b) : rest_of(s, n)[i] = b[i]
    BY <1>1, <1>3, <1>4
  <2> QED BY <1>4, <2>1, SeqEqual
<1>6. SubSeq(s, 1, n) = a
  <2>1. \A i \in 1 .. n : s[i] \in S
    BY <1>1, <1>2, ElementOfSeq
  <2>2. /\ SubSeq(s, 1, n) \in Seq(S) /\ Len(SubSeq(s, 1, n)) = (IF 1 <= n THEN n - 1 + 1 ELSE 0)
        /\ \A i \in 1 .. (n - 1 + 1) : SubSeq(s, 1, n)[i] = s[1 + i - 1]
    BY <1>1, <2>1, SubSeqProperties
  <2>3. Len(SubSeq(s, 1, n)) = n
    BY <1>1, <2>2
  <2>4. \A i \in 1 .. n : SubSeq(s, 1, n)[i] = a[i]
    <3> SUFFICES ASSUME NEW i \in 1 .. n PROVE SubSeq(s, 1, n)[i] = a[i]
      OBVIOUS
    <3>1. i \in 1 .. (n - 1 + 1) /\ 1 + i - 1 = i
      BY <1>1
    <3> QED BY <1>1, <2>2, <3>1
  <2> QED BY <1>2, <2>2, <2>3, <2>4, SeqEqual
<1> QED BY <1>5, <1>6 DEF s, n

\* The words that begin a sequence, and the rest.
LEMMA FrontAndRest ==
    ASSUME NEW S, NEW s \in Seq(S), NEW m \in Nat, NEW n \in Nat, m <= n, n <= Len(s)
    PROVE  /\ SubSeq(s, m + 1, n) \in Seq(S) /\ Len(SubSeq(s, m + 1, n)) = n - m
           /\ SubSeq(s, m + 1, n) \o rest_of(s, n) = rest_of(s, m)
<1> DEFINE a == SubSeq(s, m + 1, n)  b == rest_of(s, n)  c == rest_of(s, m)
<1>1. Len(s) \in Nat /\ \A i \in 1 .. Len(s) : s[i] \in S
  BY ElementOfSeq
<1>2. /\ a \in Seq(S) /\ Len(a) = n - m
      /\ \A i \in 1 .. (n - m) : a[i] = s[m + i]
  <2>1. \A i \in (m + 1) .. n : s[i] \in S
    BY <1>1
  <2>2. /\ a \in Seq(S) /\ Len(a) = (IF m + 1 <= n THEN n - (m + 1) + 1 ELSE 0)
        /\ \A i \in 1 .. (n - (m + 1) + 1) : a[i] = s[(m + 1) + i - 1]
    BY <2>1, SubSeqProperties
  <2>3. Len(a) = n - m /\ n - (m + 1) + 1 = n - m
    BY <2>2
  <2>4. \A i \in 1 .. (n - m) : (m + 1) + i - 1 = m + i
    OBVIOUS
  <2> QED BY <2>2, <2>3, <2>4
<1>3. /\ b \in Seq(S) /\ Len(b) = Len(s) - n
      /\ \A i \in 1 .. (Len(s) - n) : b[i] = s[n + i]
  BY RestOf
<1>4. /\ c \in Seq(S) /\ Len(c) = Len(s) - m
      /\ \A i \in 1 .. (Len(s) - m) : c[i] = s[m + i]
  <2>1. m <= Len(s)
    BY <1>1
  <2> QED BY <2>1, RestOf
<1> HIDE DEF a, b, c
<1>5. a \o b \in Seq(S) /\ Len(a \o b) = Len(a) + Len(b)
      /\ \A i \in 1 .. (Len(a) + Len(b)) :
           (a \o b)[i] = IF i <= Len(a) THEN a[i] ELSE b[i - Len(a)]
  BY <1>2, <1>3, ConcatProperties
<1>6. Len(a \o b) = Len(c)
  BY <1>1, <1>2, <1>3, <1>4, <1>5
<1>7. \A i \in 1 .. Len(c) : (a \o b)[i] = c[i]
  <2> SUFFICES ASSUME NEW i \in 1 .. Len(c) PROVE (a \o b)[i] = c[i]
    OBVIOUS
  <2>1. i \in 1 .. (Len(a) + Len(b)) /\ i \in 1 .. (Len(s) - m) /\ i \in Int
    BY <1>1, <1>2, <1>3, <1>4
  <2>2. c[i] = s[m + i]
    BY <1>4, <2>1
  <2>3. CASE i <= Len(a)
    <3>1. i \in 1 .. (n - m)
      BY <1>2, <2>1, <2>3
    <3> QED BY <1>2, <1>5, <2>1, <2>2, <2>3, <3>1
  <2>4. CASE ~(i <= Len(a))
    <3>1. (a \o b)[i] = b[i - Len(a)]
      BY <1>5, <2>1, <2>4
    <3>2. i - Len(a) \in 1 .. (Len(s) - n) /\ n + (i - Len(a)) = m + i
      BY <1>1, <1>2, <2>1, <2>4
    <3>3. b[i - Len(a)] = s[n + (i - Len(a))]
      BY <1>3, <3>2
    <3> QED BY <2>2, <3>1, <3>2, <3>3
  <2> QED BY <2>3, <2>4
<1>8. a \o b = c
  BY <1>4, <1>5, <1>6, <1>7, SeqEqual
<1> QED BY <1>2, <1>8 DEF a, b, c

\* Short sequences.
LEMMA Singles ==
    ASSUME NEW S, NEW x \in S
    PROVE  <<x>> \in Seq(S) /\ Len(<<x>>) = 1 /\ <<x>>[1] = x
  OBVIOUS

\* Two ports as a sequence.
LEMMA Pairs ==
    ASSUME NEW S, NEW x \in S, NEW y \in S
    PROVE  /\ <<x, y>> \in Seq(S) /\ Len(<<x, y>>) = 2 /\ <<x, y>>[1] = x /\ <<x, y>>[2] = y
           /\ <<x>> \o <<y>> = <<x, y>>
<1>1. <<x, y>> \in Seq(S) /\ Len(<<x, y>>) = 2 /\ <<x, y>>[1] = x /\ <<x, y>>[2] = y
  OBVIOUS
<1> DEFINE s == <<x>> \o <<y>>
<1>2. s \in Seq(S) /\ Len(s) = 2 /\ s[1] = x /\ s[2] = y
  <2> DEFINE a == <<x>>  b == <<y>>
  <2>1. a \in Seq(S) /\ b \in Seq(S) /\ Len(a) = 1 /\ Len(b) = 1 /\ a[1] = x /\ b[1] = y
    BY Singles
  <2> HIDE DEF a, b
  <2>2. /\ a \o b \in Seq(S) /\ Len(a \o b) = Len(a) + Len(b)
        /\ \A i \in 1 .. Len(a) : (a \o b)[i] = a[i]
        /\ \A i \in 1 .. Len(b) : (a \o b)[Len(a) + i] = b[i]
    BY <2>1, Joined
  <2>3. Len(a \o b) = 2 /\ (a \o b)[1] = x /\ (a \o b)[2] = y
    BY <2>1, <2>2
  <2> QED BY <2>2, <2>3 DEF a, b
<1> HIDE DEF s
<1>3. \A i \in 1 .. 2 : i = 1 \/ i = 2
  OBVIOUS
<1> DEFINE t == <<x, y>>
<1>4. t \in Seq(S) /\ Len(s) = Len(t) /\ \A i \in 1 .. Len(s) : s[i] = t[i]
  BY <1>1, <1>2, <1>3
<1> HIDE DEF t
<1>5. s = t
  BY <1>2, <1>4, SeqEqual
<1> QED BY <1>1, <1>5 DEF s, t

\* The first two words, and the third.
LEMMA FirstTwo ==
    ASSUME NEW S, NEW s \in Seq(S), Len(s) >= 2
    PROVE  s[1] \in S /\ s[2] \in S /\ <<s[1], s[2]>> \o rest_of(s, 2) = s
<1>1. Len(s) \in Nat /\ 1 \in 1 .. Len(s) /\ 2 \in 1 .. Len(s)
  OBVIOUS
<1>2. s[1] \in S /\ s[2] \in S
  BY <1>1, ElementOfSeq
<1> DEFINE a == SubSeq(s, 0 + 1, 2)  b == <<s[1], s[2]>>
<1>3. a \in Seq(S) /\ Len(a) = 2 - 0 /\ a \o rest_of(s, 2) = rest_of(s, 0)
  BY <1>1, FrontAndRest
<1>4. a[1] = s[1] /\ a[2] = s[2]
  <2>1. \A i \in (0 + 1) .. 2 : s[i] \in S
    BY <1>1, ElementOfSeq
  <2>2. \A i \in 1 .. (2 - (0 + 1) + 1) : a[i] = s[(0 + 1) + i - 1]
    BY <2>1, SubSeqProperties
  <2> QED BY <2>2
<1>5. b \in Seq(S) /\ Len(b) = 2 /\ b[1] = s[1] /\ b[2] = s[2]
  BY <1>2, Pairs
<1> HIDE DEF a, b
<1>6. a = b
  <2>1. \A i \in 1 .. 2 : i = 1 \/ i = 2
    OBVIOUS
  <2>2. Len(a) = Len(b) /\ \A i \in 1 .. Len(a) : a[i] = b[i]
    BY <1>3, <1>4, <1>5, <2>1
  <2> QED BY <1>3, <1>5, <2>2, SeqEqual
<1>7. rest_of(s, 0) = s
  BY NothingSkipped
<1> QED BY <1>2, <1>3, <1>6, <1>7 DEF b

\* A word and what comes after it are what is left before it.
LEMMA NextOne ==
    ASSUME NEW S, NEW s \in Seq(S), NEW n \in Nat, n < Len(s)
    PROVE  s[n + 1] \in S /\ <<s[n + 1]>> \o rest_of(s, n + 1) = rest_of(s, n)
<1>1. Len(s) \in Nat /\ n + 1 \in Nat /\ n + 1 <= Len(s) /\ n + 1 \in 1 .. Len(s)
  OBVIOUS
<1>2. s[n + 1] \in S
  BY <1>1, ElementOfSeq
<1> DEFINE a == SubSeq(s, n + 1, n + 1)  b == <<s[n + 1]>>
<1>3. a \in Seq(S) /\ Len(a) = (n + 1) - n /\ a \o rest_of(s, n + 1) = rest_of(s, n)
  <2> DEFINE k == n + 1
  <2>1. k \in Nat /\ n <= k /\ k <= Len(s)
    BY <1>1
  <2> HIDE DEF k
  <2>2. SubSeq(s, n + 1, k) \in Seq(S) /\ Len(SubSeq(s, n + 1, k)) = k - n
        /\ SubSeq(s, n + 1, k) \o rest_of(s, k) = rest_of(s, n)
    BY <2>1, FrontAndRest
  <2> QED BY <2>2 DEF k
<1>4. a[1] = s[n + 1]
  <2>1. \A i \in (n + 1) .. (n + 1) : s[i] \in S
    BY <1>2
  <2>2. \A i \in 1 .. ((n + 1) - (n + 1) + 1) : a[i] = s[(n + 1) + i - 1]
    BY <1>1, <2>1, SubSeqProperties
  <2>3. 1 \in 1 .. ((n + 1) - (n + 1) + 1) /\ (n + 1) + 1 - 1 = n + 1
    BY <1>1
  <2> QED BY <2>2, <2>3
<1>5. b \in Seq(S) /\ Len(b) = 1 /\ b[1] = s[n + 1]
  BY <1>2, Singles
<1>6. Len(a) = 1
  BY <1>1, <1>3
<1> HIDE DEF a, b
<1>7. a = b
  <2>1. \A i \in 1 .. 1 : i = 1
    OBVIOUS
  <2>2. Len(a) = Len(b) /\ \A i \in 1 .. Len(a) : a[i] = b[i]
    BY <1>4, <1>5, <1>6, <2>1
  <2> QED BY <1>3, <1>5, <2>2, SeqEqual
<1> QED BY <1>2, <1>3, <1>7 DEF b

-----------------------------------------------------------------------------
(* Compression.                                                            *)

\* The ports that compression keeps are those that are not of the visa.
LEMMA KeptPorts ==
    ASSUME NEW S, NEW words \in Seq(S), Len(words) >= 2
    PROVE  /\ kept_ports(words) \in Seq(S)
           /\ Len(kept_ports(words)) = (IF "sport" \in mode THEN 0 ELSE 1)
                                       + (IF "dport" \in mode THEN 0 ELSE 1)
           /\ "sport" \notin mode => kept_ports(words)[1] = words[1]
           /\ "dport" \notin mode =>
                kept_ports(words)[IF "sport" \in mode THEN 1 ELSE 2] = words[2]
<1>1. words[1] \in S /\ words[2] \in S
  BY FirstTwo
<1> DEFINE x == words[1]  y == words[2]
<1>2. /\ <<x>> \in Seq(S) /\ Len(<<x>>) = 1 /\ <<x>>[1] = x
      /\ <<y>> \in Seq(S) /\ Len(<<y>>) = 1 /\ <<y>>[1] = y
  BY <1>1, Singles
<1>3. /\ <<x, y>> \in Seq(S) /\ Len(<<x, y>>) = 2 /\ <<x, y>>[1] = x /\ <<x, y>>[2] = y
      /\ <<x>> \o <<y>> = <<x, y>>
  BY <1>1, Pairs
<1>4. <<>> \in Seq(S) /\ Len(<<>>) = 0 /\ <<>> \o <<>> = <<>>
      /\ <<x>> \o <<>> = <<x>> /\ <<>> \o <<y>> = <<y>>
  BY <1>2, EmptySeq, ConcatEmptySeq
<1>5. kept_ports(words) = (IF "sport" \in mode THEN <<>> ELSE <<x>>)
                          \o (IF "dport" \in mode THEN <<>> ELSE <<y>>)
  BY DEF kept_ports
<1> HIDE DEF x, y
<1>6. CASE "sport" \in mode /\ "dport" \in mode
  <2>1. kept_ports(words) = <<>>
    BY <1>4, <1>5, <1>6
  <2> QED BY <1>4, <1>6, <2>1
<1>7. CASE "sport" \in mode /\ "dport" \notin mode
  <2>1. kept_ports(words) = <<y>>
    BY <1>4, <1>5, <1>7
  <2> QED BY <1>2, <1>7, <2>1 DEF y
<1>8. CASE "sport" \notin mode /\ "dport" \in mode
  <2>1. kept_ports(words) = <<x>>
    BY <1>4, <1>5, <1>8
  <2> QED BY <1>2, <1>8, <2>1 DEF x
<1>9. CASE "sport" \notin mode /\ "dport" \notin mode
  <2>1. kept_ports(words) = <<x, y>>
    BY <1>3, <1>5, <1>9
  <2> QED BY <1>3, <1>9, <2>1 DEF x, y
<1> QED BY <1>6, <1>7, <1>8, <1>9

\* The parts of a compressed header.
LEMMA TcpParts ==
    ASSUME NEW S, NEW words \in Seq(S), Len(words) >= 10
    PROVE  /\ Len(words) \in Nat
           /\ kept_ports(words) \in Seq(S) /\ Len(kept_ports(words)) \in Nat
           /\ Len(kept_ports(words)) <= 2
           /\ SubSeq(words, 3, 8) \in Seq(S) /\ Len(SubSeq(words, 3, 8)) = 6
           /\ rest_of(words, 9) \in Seq(S) /\ Len(rest_of(words, 9)) = Len(words) - 9
           /\ SubSeq(words, 3, 8) \o rest_of(words, 8) = rest_of(words, 2)
<1>1. Len(words) \in Nat
  OBVIOUS
<1>2. Len(words) >= 2 /\ 9 <= Len(words) /\ 8 <= Len(words) /\ 2 <= 8
  BY <1>1
<1>3. kept_ports(words) \in Seq(S)
  BY <1>2, KeptPorts
<1>4. Len(kept_ports(words)) \in Nat /\ Len(kept_ports(words)) <= 2
  <2>1. Len(kept_ports(words)) = (IF "sport" \in mode THEN 0 ELSE 1)
                                 + (IF "dport" \in mode THEN 0 ELSE 1)
    BY <1>2, KeptPorts
  <2> QED BY <2>1
<1>5. /\ SubSeq(words, 2 + 1, 8) \in Seq(S) /\ Len(SubSeq(words, 2 + 1, 8)) = 8 - 2
      /\ SubSeq(words, 2 + 1, 8) \o rest_of(words, 8) = rest_of(words, 2)
  BY <1>2, FrontAndRest
<1>6. rest_of(words, 9) \in Seq(S) /\ Len(rest_of(words, 9)) = Len(words) - 9
  BY <1>2, RestOf
<1>7. 2 + 1 = 3 /\ 8 - 2 = 6
  OBVIOUS
<1> QED BY <1>1, <1>3, <1>4, <1>5, <1>6, <1>7

\* The parts that a compressed UDP packet is put together of.
LEMMA UdpParts ==
    ASSUME NEW S, NEW words \in Seq(S), Len(words) >= 4
    PROVE  /\ Len(words) \in Nat
           /\ kept_ports(words) \in Seq(S) /\ Len(kept_ports(words)) \in Nat
           /\ Len(kept_ports(words)) <= 2
           /\ rest_of(words, 3) \in Seq(S) /\ Len(rest_of(words, 3)) = Len(words) - 3
<1>1. Len(words) \in Nat
  OBVIOUS
<1>2. Len(words) >= 2 /\ 3 <= Len(words)
  BY <1>1
<1>3. kept_ports(words) \in Seq(S)
  BY <1>2, KeptPorts
<1>4. Len(kept_ports(words)) \in Nat /\ Len(kept_ports(words)) <= 2
  <2>1. Len(kept_ports(words)) = (IF "sport" \in mode THEN 0 ELSE 1)
                                 + (IF "dport" \in mode THEN 0 ELSE 1)
    BY <1>2, KeptPorts
  <2> QED BY <2>1
<1>5. rest_of(words, 3) \in Seq(S) /\ Len(rest_of(words, 3)) = Len(words) - 3
  BY <1>2, RestOf
<1> QED BY <1>1, <1>3, <1>4, <1>5

\* At most the ports and one more word are left out.
LEMMA CompressedLength ==
    ASSUME NEW S, NEW words \in Seq(S), NEW proto,
           proto = TCP => Len(words) >= 10, proto = UDP => Len(words) >= 4
    PROVE  LET n == Len(compress_l4(proto, words))
           IN  n \in Nat /\ n <= Len(words) /\ n + 3 >= Len(words)
<1>0. Len(words) \in Nat
  OBVIOUS
<1>1. CASE proto = TCP
  <2> DEFINE kept == kept_ports(words)  mid == SubSeq(words, 3, 8)  tail == rest_of(words, 9)
             front == kept \o mid
  <2>0. Len(words) >= 10
    BY <1>1
  <2>1. compress_l4(proto, words) = front \o tail
    BY <1>1 DEF compress_l4, compress_tcp
  <2>2. /\ kept \in Seq(S) /\ Len(kept) \in Nat /\ Len(kept) <= 2
        /\ mid \in Seq(S) /\ Len(mid) = 6
        /\ tail \in Seq(S) /\ Len(tail) = Len(words) - 9
    BY <2>0, TcpParts
  <2> HIDE DEF kept, mid, tail
  <2>3. front \in Seq(S) /\ Len(front) = Len(kept) + 6
    <3>1. front \in Seq(S) /\ Len(front) = Len(kept) + Len(mid)
      BY <2>2, Joined
    <3> QED BY <2>2, <3>1
  <2> HIDE DEF front
  <2>4. Len(front \o tail) = Len(front) + Len(tail)
    BY <2>2, <2>3, Joined
  <2> QED BY <1>0, <2>0, <2>1, <2>2, <2>3, <2>4
<1>2. CASE proto = UDP
  <2> DEFINE kept == kept_ports(words)  tail == rest_of(words, 3)
  <2>0. Len(words) >= 4
    BY <1>2
  <2>1. compress_l4(proto, words) = kept \o tail
    BY <1>2 DEF compress_l4, compress_udp, TCP, UDP
  <2>2. /\ kept \in Seq(S) /\ Len(kept) \in Nat /\ Len(kept) <= 2
        /\ tail \in Seq(S) /\ Len(tail) = Len(words) - 3
    BY <2>0, UdpParts
  <2> HIDE DEF kept, tail
  <2>3. Len(kept \o tail) = Len(kept) + Len(tail)
    BY <2>2, Joined
  <2> QED BY <1>0, <2>0, <2>1, <2>2, <2>3
<1>3. CASE proto # TCP /\ proto # UDP
  BY <1>0, <1>3 DEF compress_l4
<1> QED BY <1>1, <1>2, <1>3

\* The ports are found again, whether they were left out or not.
LEMMA PortsRestored ==
    ASSUME NEW S, NEW words \in Seq(S), Len(words) >= 2, NEW tail \in Seq(S),
           NEW ft, ft.sport = words[1], ft.dport = words[2]
    PROVE  LET e == expand_ports(ft, kept_ports(words) \o tail)
           IN  e.ports = <<words[1], words[2]>> /\ e.left = tail
<1> DEFINE kept == kept_ports(words)  all == kept \o tail
           n == (IF "sport" \in mode THEN 0 ELSE 1) + (IF "dport" \in mode THEN 0 ELSE 1)
<1>1. kept \in Seq(S) /\ Len(kept) = n
  BY KeptPorts
<1>2. /\ "sport" \notin mode => kept[1] = words[1]
      /\ "dport" \notin mode => kept[IF "sport" \in mode THEN 1 ELSE 2] = words[2]
  BY KeptPorts
<1>3. /\ expand_ports(ft, all).left = rest_of(all, n)
      /\ expand_ports(ft, all).ports =
           <<IF "sport" \in mode THEN ft.sport ELSE all[1],
             IF "dport" \in mode THEN ft.dport
             ELSE IF "sport" \in mode THEN all[1] ELSE all[2]>>
  BY DEF expand_ports
<1> HIDE DEF kept
<1>4. rest_of(all, Len(kept)) = tail
  BY <1>1, FrontRemoved
<1>5. \A i \in 1 .. Len(kept) : all[i] = kept[i]
  BY <1>1, Joined
<1>6. "sport" \notin mode => 1 \in 1 .. Len(kept)
  BY <1>1
<1>7. "dport" \notin mode /\ "sport" \in mode => 1 \in 1 .. Len(kept)
  BY <1>1
<1>8. "dport" \notin mode /\ "sport" \notin mode => 2 \in 1 .. Len(kept)
  BY <1>1
<1> HIDE DEF all, n
<1>9. "sport" \notin mode => all[1] = words[1]
  BY <1>2, <1>5, <1>6
<1>10. "dport" \notin mode /\ "sport" \in mode => all[1] = words[2]
  BY <1>2, <1>5, <1>7
<1>11. "dport" \notin mode /\ "sport" \notin mode => all[2] = words[2]
  BY <1>2, <1>5, <1>8
<1>12. expand_ports(ft, all).ports = <<words[1], words[2]>>
  <2>1. (IF "sport" \in mode THEN ft.sport ELSE all[1]) = words[1]
    BY <1>9
  <2>2. (IF "dport" \in mode THEN ft.dport
         ELSE IF "sport" \in mode THEN all[1] ELSE all[2]) = words[2]
    BY <1>10, <1>11
  <2> QED BY <1>3, <2>1, <2>2
<1>13. expand_ports(ft, all).left = tail
  BY <1>1, <1>3, <1>4
<1> QED BY <1>12, <1>13 DEF all, kept

\* Parts can be grouped in any way.
Cat(a, b) == a \o b

\* Concatenation is associative.
LEMMA Regrouped ==
    ASSUME NEW S, NEW a \in Seq(S), NEW b \in Seq(S), NEW c \in Seq(S)
    PROVE  Cat(Cat(a, b), c) = Cat(a, Cat(b, c)) /\ Cat(a, b) \in Seq(S)
  BY ConcatAssociative, ConcatProperties DEF Cat

\* A UDP header is restored.
LEMMA UdpRestored ==
    ASSUME NEW words \in Seq(0 .. MAX_WORD), Len(words) >= 4, words[3] = 2 * Len(words),
           NEW ft, ft.sport = words[1], ft.dport = words[2]
    PROVE  expand_udp(ft, compress_udp(words)) = words
<1> DEFINE S == 0 .. MAX_WORD
           tail == rest_of(words, 3)
           e == expand_ports(ft, kept_ports(words) \o tail)
           ports == <<words[1], words[2]>>
<1>0. words \in Seq(S)
  OBVIOUS
<1> HIDE DEF S
<1>1. Len(words) \in Nat /\ tail \in Seq(S) /\ Len(tail) = Len(words) - 3
  BY <1>0, UdpParts
<1>2. Len(words) >= 2 /\ 2 < Len(words)
  BY <1>1
<1>3. expand_udp(ft, compress_udp(words)) = e.ports \o <<2 * Len(e.left) - 2 + 8>> \o e.left
  BY DEF expand_udp, compress_udp
<1>4. words[1] \in S /\ words[2] \in S /\ ports \o rest_of(words, 2) = words
  BY <1>0, <1>2, FirstTwo
<1>5. words[2 + 1] \in S /\ <<words[2 + 1]>> \o rest_of(words, 2 + 1) = rest_of(words, 2)
  BY <1>0, <1>2, NextOne
<1> HIDE DEF tail
<1>6. e.ports = ports /\ e.left = tail
  BY <1>0, <1>1, <1>2, PortsRestored
<1> HIDE DEF e
<1>7. 2 * Len(tail) - 2 + 8 = words[3]
  BY <1>1
<1>8. expand_udp(ft, compress_udp(words)) = ports \o <<words[3]>> \o tail
  BY <1>3, <1>6, <1>7
<1>9. 2 + 1 = 3
  OBVIOUS
<1>10. words[3] \in S /\ <<words[3]>> \o tail = rest_of(words, 2)
  BY <1>5, <1>9 DEF tail
<1>11. ports \in Seq(S) /\ <<words[3]>> \in Seq(S)
  BY <1>4, <1>10, Pairs, Singles
<1> DEFINE third == <<words[3]>>
<1> HIDE DEF ports, third
<1>12. (ports \o third) \o tail = ports \o (third \o tail)
  <2>1. ports \in Seq(S) /\ third \in Seq(S) /\ tail \in Seq(S)
    BY <1>1, <1>11 DEF third
  <2>2. Cat(Cat(ports, third), tail) = Cat(ports, Cat(third, tail))
    BY <2>1, Regrouped
  <2> QED BY <2>2 DEF Cat
<1> QED BY <1>4, <1>8, <1>10, <1>12 DEF third

\* A TCP header: what is computed is the packet with the checksum computed for
\* it.
LEMMA TcpRestored ==
    ASSUME NEW words \in Seq(0 .. MAX_WORD), Len(words) >= 10,
           NEW ft, ft.sport = words[1], ft.dport = words[2]
    PROVE  LET zeroed == [words EXCEPT ![9] = 0]
           IN  expand_tcp(ft, compress_tcp(words)) =
                 [zeroed EXCEPT ![9] = inet_l4_checksum([ft EXCEPT !.proto = TCP], zeroed)]
<1> DEFINE S == 0 .. MAX_WORD
           mid == SubSeq(words, 3, 8)
           tail == rest_of(words, 9)
           kept == kept_ports(words)
           e == expand_ports(ft, kept \o (mid \o tail))
           ports == <<words[1], words[2]>>
           zero == <<0>>
           again == e.ports \o SubSeq(e.left, 1, 6) \o <<0>> \o rest_of(e.left, 6)
<1>0. words \in Seq(S) /\ 0 \in S
  <2>1. MAX_WORD \in Nat
    BY MaxWord
  <2> QED BY <2>1
<1> HIDE DEF S
<1>1. /\ Len(words) \in Nat
      /\ kept \in Seq(S) /\ mid \in Seq(S) /\ tail \in Seq(S)
      /\ Len(mid) = 6 /\ Len(tail) = Len(words) - 9
      /\ mid \o rest_of(words, 8) = rest_of(words, 2)
  BY <1>0, TcpParts
<1>2. Len(words) >= 2 /\ 8 < Len(words)
  BY <1>1
<1>3. words[1] \in S /\ words[2] \in S /\ ports \o rest_of(words, 2) = words
  BY <1>0, <1>2, FirstTwo
<1>4. words[8 + 1] \in S /\ <<words[8 + 1]>> \o rest_of(words, 8 + 1) = rest_of(words, 8)
  BY <1>0, <1>2, NextOne
<1>5. ports \in Seq(S) /\ Len(ports) = 2
  BY <1>3, Pairs
<1>6. expand_tcp(ft, compress_tcp(words)) =
        [again EXCEPT ![9] = inet_l4_checksum([ft EXCEPT !.proto = TCP], again)]
  <2>1. compress_tcp(words) = kept \o mid \o tail
    BY DEF compress_tcp
  <2> HIDE DEF kept, mid, tail
  <2>2. (kept \o mid) \o tail = kept \o (mid \o tail)
    <3>1. kept \in Seq(S) /\ mid \in Seq(S) /\ tail \in Seq(S)
      BY <1>1
    <3>2. Cat(Cat(kept, mid), tail) = Cat(kept, Cat(mid, tail))
      BY <3>1, Regrouped
    <3> QED BY <3>2 DEF Cat
  <2>3. compress_tcp(words) = kept \o (mid \o tail)
    BY <2>1, <2>2
  <2> QED BY <2>3 DEF expand_tcp
<1> HIDE DEF mid, tail
<1>7. mid \o tail \in Seq(S)
  BY <1>1, Joined
<1>8. e.ports = ports /\ e.left = mid \o tail
  <2> DEFINE left == mid \o tail
  <2>1. left \in Seq(S)
    BY <1>7
  <2> HIDE DEF left, kept
  <2>2. /\ expand_ports(ft, kept \o left).ports = <<words[1], words[2]>>
        /\ expand_ports(ft, kept \o left).left = left
    BY <1>0, <1>2, <2>1, PortsRestored DEF kept
  <2> QED BY <2>2 DEF left
<1>9. rest_of(mid \o tail, 6) = tail /\ SubSeq(mid \o tail, 1, 6) = mid
  <2>1. rest_of(mid \o tail, Len(mid)) = tail /\ SubSeq(mid \o tail, 1, Len(mid)) = mid
    BY <1>1, FrontRemoved
  <2> QED BY <1>1, <2>1
<1>10. again = ports \o mid \o zero \o tail
  BY <1>8, <1>9
<1> HIDE DEF e, again, kept
<1>11. zero \in Seq(S) /\ Len(zero) = 1 /\ zero[1] = 0
  BY <1>0, Singles
<1> DEFINE ninth == <<words[9]>>  front == ports \o mid
<1>12. ninth \in Seq(S) /\ Len(ninth) = 1 /\ ninth[1] = words[9] /\ words[9] \in S
       /\ ninth \o tail = rest_of(words, 8)
  <2>1. 8 + 1 = 9
    OBVIOUS
  <2>2. words[9] \in S /\ ninth \o tail = rest_of(words, 8)
    BY <1>4, <2>1 DEF tail
  <2> QED BY <2>2, Singles
<1> HIDE DEF ports, zero, ninth
<1>13. front \in Seq(S) /\ Len(front) = 8
  <2>1. front \in Seq(S) /\ Len(front) = Len(ports) + Len(mid)
    BY <1>1, <1>5, Joined
  <2> QED BY <1>1, <1>5, <2>1
<1>14. words = front \o (ninth \o tail)
  <2>1. ports \in Seq(S) /\ mid \in Seq(S) /\ ninth \in Seq(S) /\ tail \in Seq(S)
    BY <1>1, <1>5, <1>12
  <2>2. Cat(Cat(ports, mid), Cat(ninth, tail)) = Cat(ports, Cat(mid, Cat(ninth, tail)))
    BY <2>1, Regrouped
  <2>3. (ports \o mid) \o (ninth \o tail) = ports \o (mid \o (ninth \o tail))
    BY <2>2 DEF Cat
  <2> QED BY <1>1, <1>3, <1>12, <2>3
<1>15. again = front \o (zero \o tail)
  <2>1. ports \in Seq(S) /\ mid \in Seq(S) /\ zero \in Seq(S) /\ tail \in Seq(S)
    BY <1>1, <1>5, <1>11
  <2>2. Cat(Cat(Cat(ports, mid), zero), tail) = Cat(Cat(ports, mid), Cat(zero, tail))
    BY <2>1, Regrouped
  <2>3. ((ports \o mid) \o zero) \o tail = (ports \o mid) \o (zero \o tail)
    BY <2>2 DEF Cat
  <2> QED BY <1>10, <2>3
<1> HIDE DEF front
<1>16. /\ ninth \o tail \in Seq(S) /\ zero \o tail \in Seq(S)
       /\ Len(ninth \o tail) = 1 + Len(tail) /\ Len(zero \o tail) = 1 + Len(tail)
       /\ (zero \o tail)[1] = 0
       /\ \A i \in 1 .. Len(tail) : (ninth \o tail)[1 + i] = tail[i]
       /\ \A i \in 1 .. Len(tail) : (zero \o tail)[1 + i] = tail[i]
  <2>1. /\ ninth \o tail \in Seq(S) /\ Len(ninth \o tail) = Len(ninth) + Len(tail)
        /\ \A i \in 1 .. Len(tail) : (ninth \o tail)[Len(ninth) + i] = tail[i]
    <3>1. ninth \in Seq(S) /\ tail \in Seq(S)
      BY <1>1, <1>12
    <3> QED BY <3>1, Joined
  <2>2. /\ zero \o tail \in Seq(S) /\ Len(zero \o tail) = Len(zero) + Len(tail)
        /\ \A i \in 1 .. Len(zero) : (zero \o tail)[i] = zero[i]
        /\ \A i \in 1 .. Len(tail) : (zero \o tail)[Len(zero) + i] = tail[i]
    <3>1. zero \in Seq(S) /\ tail \in Seq(S)
      BY <1>1, <1>11
    <3> QED BY <3>1, Joined
  <2>3. 1 \in 1 .. Len(zero)
    BY <1>11
  <2> QED BY <1>11, <1>12, <2>1, <2>2, <2>3
<1>17. again = [words EXCEPT ![9] = 0]
  <2> DEFINE a == ninth \o tail  b == zero \o tail  other == [words EXCEPT ![9] = 0]
  <2>1. /\ a \in Seq(S) /\ b \in Seq(S) /\ Len(a) = 1 + Len(tail) /\ Len(b) = 1 + Len(tail)
        /\ b[1] = 0
        /\ \A i \in 1 .. Len(tail) : a[1 + i] = b[1 + i]
    BY <1>16
  <2>2. 9 \in 1 .. Len(words)
    BY <1>1, <1>2
  <2>3. /\ other \in Seq(S) /\ Len(other) = Len(words)
        /\ \A j \in 1 .. Len(words) : other[j] = IF j = 9 THEN 0 ELSE words[j]
    BY <1>0, <2>2, ExceptSeq
  <2>4. words = front \o a /\ again = front \o b
    BY <1>14, <1>15
  <2> HIDE DEF a, b, other
  <2>5. /\ again \in Seq(S) /\ Len(again) = Len(front) + Len(b)
        /\ \A i \in 1 .. Len(front) : again[i] = front[i]
        /\ \A i \in 1 .. Len(b) : again[Len(front) + i] = b[i]
    <3>1. front \in Seq(S) /\ b \in Seq(S)
      BY <1>13, <2>1
    <3>2. /\ front \o b \in Seq(S) /\ Len(front \o b) = Len(front) + Len(b)
          /\ \A i \in 1 .. Len(front) : (front \o b)[i] = front[i]
          /\ \A i \in 1 .. Len(b) : (front \o b)[Len(front) + i] = b[i]
      BY <3>1, Joined
    <3> QED BY <2>4, <3>2
  <2>6. /\ Len(words) = Len(front) + Len(a)
        /\ \A i \in 1 .. Len(front) : words[i] = front[i]
        /\ \A i \in 1 .. Len(a) : words[Len(front) + i] = a[i]
    <3>1. front \in Seq(S) /\ a \in Seq(S)
      BY <1>13, <2>1
    <3>2. /\ Len(front \o a) = Len(front) + Len(a)
          /\ \A i \in 1 .. Len(front) : (front \o a)[i] = front[i]
          /\ \A i \in 1 .. Len(a) : (front \o a)[Len(front) + i] = a[i]
      BY <3>1, Joined
    <3> QED BY <2>4, <3>2
  <2>7. Len(again) = Len(words)
    BY <1>13, <2>1, <2>5, <2>6
  <2>8. ASSUME NEW j \in 1 .. Len(words) PROVE again[j] = other[j]
    <3>1. CASE j < 9
      <4>1. j \in 1 .. Len(front) /\ j # 9
        BY <1>13, <3>1
      <4> QED BY <2>3, <2>5, <2>6, <4>1
    <3>2. CASE j = 9
      <4>1. 1 \in 1 .. Len(b) /\ Len(front) + 1 = 9
        BY <1>1, <1>13, <2>1, <1>2
      <4>2. again[Len(front) + 1] = b[1]
        BY <2>5, <4>1
      <4> QED BY <2>1, <2>3, <3>2, <4>1, <4>2
    <3>3. CASE j > 9
      <4> DEFINE i == j - 9
      <4>1. i \in 1 .. Len(tail) /\ Len(front) + (1 + i) = j /\ j # 9
            /\ 1 + i \in 1 .. Len(a) /\ 1 + i \in 1 .. Len(b)
        BY <1>1, <1>13, <2>1, <2>6, <3>3
      <4> HIDE DEF i
      <4>2. again[Len(front) + (1 + i)] = b[1 + i] /\ words[Len(front) + (1 + i)] = a[1 + i]
        BY <2>5, <2>6, <4>1
      <4>3. a[1 + i] = b[1 + i]
        BY <2>1, <4>1
      <4> QED BY <2>3, <4>1, <4>2, <4>3
    <3> QED BY <1>1, <3>1, <3>2, <3>3
  <2>9. \A j \in 1 .. Len(again) : again[j] = other[j]
    BY <2>7, <2>8
  <2>10. again = other
    BY <2>3, <2>5, <2>7, <2>9, SeqEqual
  <2> QED BY <2>10 DEF other
<1> QED BY <1>6, <1>17


-----------------------------------------------------------------------------
(* Checksums of headers.                                                   *)

\* The words that are summed, as a set of which only this is known.
Numbers == Nat

\* The words of a packet can be added.
LEMMA WordsAreNumbers ==
    ASSUME NEW words \in Seq(0 .. MAX_WORD)
    PROVE  words \in Seq(Numbers) /\ Len(words) \in Nat
<1>1. Len(words) \in Nat /\ words = [i \in 1 .. Len(words) |-> words[i]]
  <2> DEFINE S == 0 .. MAX_WORD
  <2>1. words \in Seq(S)
    OBVIOUS
  <2> HIDE DEF S
  <2> QED BY <2>1, LenProperties
<1>2. \A j \in 1 .. Len(words) : words[j] \in Numbers
  BY WordsAre DEF Numbers
<1> QED BY <1>1, <1>2, IsASeq

\* Two sequences that differ at most at k.
SameBut(a, b, k) ==
    /\ Len(a) = Len(b) /\ k \in 1 .. Len(a)
    /\ \A i \in 1 .. Len(a) : i # k => a[i] = b[i]

\* Not all words are 0, and the one at k is.
ZeroAt(b, k) ==
    b[k] = 0 /\ \E j \in 1 .. Len(b) : b[j] > 0

\* A checksum computed with 0 in its place k is right there, and it is the only
\* one below 65535 that is (ChecksumInPlace, for sequences of numbers).
LEMMA ChecksumAt ==
    ASSUME NEW a, NEW b, NEW k, a \in Seq(Numbers), b \in Seq(Numbers), SameBut(a, b, k),
           ZeroAt(b, k)
    PROVE  /\ checksum(b) \in Nat /\ checksum(b) < 65535
           /\ a[k] = checksum(b) => checksum(a) = 0
           /\ checksum(a) = 0 /\ a[k] < 65535 => a[k] = checksum(b)
<1>1. a \in Seq(Nat) /\ b \in Seq(Nat)
  BY DEF Numbers
<1>2. total(b) > 0
  <2>1. PICK j \in 1 .. Len(b) : b[j] > 0
    BY DEF ZeroAt
  <2> QED BY <1>1, <2>1, TotalPositive
<1>3. Len(a) = Len(b) /\ k \in 1 .. Len(a) /\ \A i \in 1 .. Len(a) : i # k => a[i] = b[i]
  BY DEF SameBut
<1>4. b[k] = 0
  BY DEF ZeroAt
<1> QED BY <1>1, <1>2, <1>3, <1>4, ChecksumInPlace

\* They still do with the same words before or after them.
LEMMA SameButBefore ==
    ASSUME NEW S, NEW h, NEW a, NEW b, NEW k, h \in Seq(S), a \in Seq(S), b \in Seq(S),
           SameBut(a, b, k)
    PROVE  SameBut(Cat(h, a), Cat(h, b), Len(h) + k)
<1> DEFINE s == h \o a  t == h \o b
<1>1. /\ Len(s) = Len(h) + Len(a) /\ Len(h) \in Nat /\ Len(a) \in Nat
      /\ \A i \in 1 .. Len(h) : s[i] = h[i]
      /\ \A i \in 1 .. Len(a) : s[Len(h) + i] = a[i]
  BY Joined
<1>2. /\ Len(t) = Len(h) + Len(b)
      /\ \A i \in 1 .. Len(h) : t[i] = h[i]
      /\ \A i \in 1 .. Len(b) : t[Len(h) + i] = b[i]
  BY Joined
<1> HIDE DEF s, t
<1>3. Len(a) = Len(b) /\ k \in 1 .. Len(a) /\ \A i \in 1 .. Len(a) : i # k => a[i] = b[i]
  BY DEF SameBut
<1>4. Len(s) = Len(t) /\ Len(h) + k \in 1 .. Len(s)
  BY <1>1, <1>2, <1>3
<1>5. ASSUME NEW i \in 1 .. Len(s), i # Len(h) + k PROVE s[i] = t[i]
  <2>0. i \in Int
    BY <1>1
  <2>1. CASE i <= Len(h)
    <3>1. i \in 1 .. Len(h)
      BY <1>1, <2>0, <2>1
    <3> QED BY <1>1, <1>2, <3>1
  <2>2. CASE i > Len(h)
    <3> DEFINE j == i - Len(h)
    <3>1. j \in 1 .. Len(a) /\ Len(h) + j = i /\ j # k
      BY <1>1, <1>3, <1>5, <2>0, <2>2
    <3> HIDE DEF j
    <3>2. s[Len(h) + j] = a[j] /\ t[Len(h) + j] = b[j]
      BY <1>1, <1>2, <1>3, <3>1
    <3> QED BY <1>3, <3>1, <3>2
  <2> QED BY <1>1, <2>0, <2>1, <2>2
<1> QED BY <1>4, <1>5 DEF SameBut, Cat, s, t

\* Sequences that differ at k only do so when the same follows.
LEMMA SameButAfter ==
    ASSUME NEW S, NEW h, NEW g, NEW a, NEW k, h \in Seq(S), g \in Seq(S), a \in Seq(S),
           SameBut(h, g, k)
    PROVE  SameBut(Cat(h, a), Cat(g, a), k)
<1> DEFINE s == h \o a  t == g \o a
<1>1. /\ Len(s) = Len(h) + Len(a) /\ Len(h) \in Nat /\ Len(a) \in Nat
      /\ \A i \in 1 .. Len(h) : s[i] = h[i]
      /\ \A i \in 1 .. Len(a) : s[Len(h) + i] = a[i]
  BY Joined
<1>2. /\ Len(t) = Len(g) + Len(a)
      /\ \A i \in 1 .. Len(g) : t[i] = g[i]
      /\ \A i \in 1 .. Len(a) : t[Len(g) + i] = a[i]
  BY Joined
<1> HIDE DEF s, t
<1>3. Len(h) = Len(g) /\ k \in 1 .. Len(h) /\ \A i \in 1 .. Len(h) : i # k => h[i] = g[i]
  BY DEF SameBut
<1>4. Len(s) = Len(t) /\ k \in 1 .. Len(s)
  BY <1>1, <1>2, <1>3
<1>5. ASSUME NEW i \in 1 .. Len(s), i # k PROVE s[i] = t[i]
  <2>0. i \in Int
    BY <1>1
  <2>1. CASE i <= Len(h)
    <3>1. i \in 1 .. Len(h)
      BY <1>1, <2>0, <2>1
    <3> QED BY <1>1, <1>2, <1>3, <1>5, <3>1
  <2>2. CASE i > Len(h)
    <3> DEFINE j == i - Len(h)
    <3>1. j \in 1 .. Len(a) /\ Len(h) + j = i
      BY <1>1, <1>3, <2>0, <2>2
    <3> HIDE DEF j
    <3>2. s[Len(h) + j] = a[j] /\ t[Len(h) + j] = a[j]
      BY <1>1, <1>2, <1>3, <3>1
    <3> QED BY <3>1, <3>2
  <2> QED BY <1>1, <2>0, <2>1, <2>2
<1> QED BY <1>4, <1>5 DEF SameBut, Cat, s, t

\* What is put at k can be taken back.
LEMMA SetAt ==
    ASSUME NEW S, NEW a, a \in Seq(S), NEW k, k \in 1 .. Len(a), NEW x \in S
    PROVE  /\ [a EXCEPT ![k] = x] \in Seq(S) /\ SameBut(a, [a EXCEPT ![k] = x], k)
           /\ [a EXCEPT ![k] = x][k] = x
           /\ [[a EXCEPT ![k] = x] EXCEPT ![k] = a[k]] = a
<1> DEFINE b == [a EXCEPT ![k] = x]
<1>1. b \in Seq(S) /\ Len(b) = Len(a) /\ \A j \in 1 .. Len(a) : b[j] = IF j = k THEN x ELSE a[j]
  BY ExceptSeq
<1>2. a[k] \in S
  BY ElementOfSeq
<1> HIDE DEF b
<1> DEFINE c == [b EXCEPT ![k] = a[k]]
<1>3. c \in Seq(S) /\ Len(c) = Len(b)
      /\ \A j \in 1 .. Len(b) : c[j] = IF j = k THEN a[k] ELSE b[j]
  BY <1>1, <1>2, ExceptSeq
<1> HIDE DEF c
<1>4. c = a
  <2>1. Len(c) = Len(a) /\ \A j \in 1 .. Len(c) : c[j] = a[j]
    BY <1>1, <1>3
  <2> QED BY <1>3, <2>1, SeqEqual
<1>5. SameBut(a, b, k) /\ b[k] = x
  BY <1>1 DEF SameBut
<1> QED BY <1>1, <1>4, <1>5 DEF b, c

\* The checksum of a TCP segment is the one that is computed for it.
LEMMA TcpChecksum ==
    ASSUME NEW words \in Seq(0 .. MAX_WORD), Len(words) >= 10, words[9] # 65535,
           NEW ft, ft.src \in Nat, ft.dst \in Nat, ft.proto = TCP,
           inet_l4_checksum(ft, words) = 0
    PROVE  inet_l4_checksum(ft, [words EXCEPT ![9] = 0]) = words[9]
<1> DEFINE zeroed == [words EXCEPT ![9] = 0]
           x == ft.src  y == ft.dst  z == ft.proto  n == 2 * Len(words)
           h == <<x, y, z, n>>
<1>1. words \in Seq(Numbers) /\ Len(words) \in Nat
  BY WordsAreNumbers
<1>2. 9 \in 1 .. Len(words) /\ words[9] \in Nat /\ words[9] <= MAX_WORD
  <2>1. 9 \in 1 .. Len(words)
    BY <1>1
  <2> QED BY <2>1, WordsAre
<1>3. words[9] < 65535
  BY <1>2, BelowMaxWord
<1>4. zeroed \in Seq(Numbers) /\ SameBut(words, zeroed, 9) /\ zeroed[9] = 0
  <2>1. 0 \in Numbers
    BY DEF Numbers
  <2> QED BY <1>1, <1>2, <2>1, SetAt
<1>5. x \in Numbers /\ y \in Numbers /\ z \in Numbers /\ n \in Numbers /\ z > 0
  BY <1>1 DEF Numbers, TCP
<1>6. Len(zeroed) = Len(words)
  BY <1>4 DEF SameBut
<1>7. /\ inet_l4_checksum(ft, words) = checksum(h \o words)
      /\ inet_l4_checksum(ft, zeroed) = checksum(h \o zeroed)
  BY <1>6 DEF inet_l4_checksum
<1> HIDE DEF zeroed, x, y, z, n
<1>8. h \in Seq(Numbers) /\ Len(h) = 4 /\ h[3] = z
  BY <1>5
<1> HIDE DEF h
<1> DEFINE a == h \o words  b == h \o zeroed  k == Len(h) + 9  j == 3
<1>9. h \in Seq(Numbers) /\ words \in Seq(Numbers) /\ zeroed \in Seq(Numbers)
  BY <1>1, <1>4, <1>8
<1>10. a \in Seq(Numbers) /\ b \in Seq(Numbers)
      /\ Len(b) = Len(h) + Len(zeroed) /\ \A i \in 1 .. Len(h) : b[i] = h[i]
  BY <1>9, Joined
<1>11. SameBut(a, b, k) /\ a[k] = words[9] /\ b[k] = 0
  <2> DEFINE m == 9
  <2>1. SameBut(words, zeroed, m)
    BY <1>4
  <2> HIDE DEF m
  <2>2. SameBut(Cat(h, words), Cat(h, zeroed), Len(h) + m)
    BY <1>9, <2>1, SameButBefore
  <2>3. \A i \in 1 .. Len(words) : (h \o words)[Len(h) + i] = words[i]
    BY <1>9, Joined
  <2>4. \A i \in 1 .. Len(zeroed) : (h \o zeroed)[Len(h) + i] = zeroed[i]
    BY <1>9, Joined
  <2>5. m \in 1 .. Len(words) /\ m \in 1 .. Len(zeroed)
    BY <1>2, <1>6 DEF m
  <2> QED BY <1>4, <2>2, <2>3, <2>4, <2>5 DEF m, Cat
<1> HIDE DEF a, b, k
<1>12. j \in 1 .. Len(b) /\ b[j] > 0
  BY <1>1, <1>5, <1>6, <1>8, <1>10
<1> HIDE DEF j
<1>13. checksum(a) = 0 /\ a[k] < 65535 => a[k] = checksum(b)
  <2>1. a \in Seq(Numbers) /\ b \in Seq(Numbers) /\ SameBut(a, b, k)
    BY <1>10, <1>11
  <2>2. ZeroAt(b, k)
    BY <1>11, <1>12 DEF ZeroAt
  <2> QED BY <2>1, <2>2, ChecksumAt
<1>14. checksum(a) = 0
  BY <1>7 DEF a
<1>15. words[9] = checksum(b)
  BY <1>3, <1>11, <1>13, <1>14
<1> QED BY <1>7, <1>15 DEF b, zeroed

-----------------------------------------------------------------------------
(* Packets that are compressed and restored.                               *)

\* decrement_ttl lowers the hop limit and changes nothing else.
LEMMA TtlDown ==
    ASSUME NEW p \in Packets, p.ttl > 1
    PROVE  LET q == decrement_ttl(p)
           IN  /\ q \in IpPackets /\ q.ttl = p.ttl - 1
               /\ q.v = p.v /\ q.hl = p.hl /\ q.len = p.len /\ q.frag = p.frag
               /\ q.proto = p.proto /\ q.sum = p.sum /\ q.src = p.src /\ q.dst = p.dst
               /\ q.rest = p.rest /\ q = [p EXCEPT !.ttl = @ - 1]
<1> DEFINE T == Seq(0 .. MAX_WORD)
<1>1. p \in [v : {4, 6}, hl : Nat, len : Nat, frag : Nat, ttl : Nat, proto : Nat,
             sum : Nat, src : Nat, dst : Nat, rest : T]
  BY PacketsAre DEF IpPackets
<1> HIDE DEF T
<1>2. decrement_ttl(p) = [p EXCEPT !.ttl = p.ttl - 1] /\ p.ttl - 1 \in Nat
  <2>1. p.ttl \in Nat
    BY <1>1
  <2>2. (p.ttl > 0) /\ p.ttl - 1 \in Nat
    BY <2>1
  <2> QED BY <2>2 DEF decrement_ttl
<1> DEFINE q == [p EXCEPT !.ttl = p.ttl - 1]
<1>3. q \in [v : {4, 6}, hl : Nat, len : Nat, frag : Nat, ttl : Nat, proto : Nat,
             sum : Nat, src : Nat, dst : Nat, rest : T]
  BY <1>1, <1>2
<1>4. /\ q.ttl = p.ttl - 1
      /\ q.v = p.v /\ q.hl = p.hl /\ q.len = p.len /\ q.frag = p.frag
      /\ q.proto = p.proto /\ q.sum = p.sum /\ q.src = p.src /\ q.dst = p.dst
      /\ q.rest = p.rest
  BY <1>1
<1> QED BY <1>2, <1>3, <1>4 DEF IpPackets, T

\* The size of a packet, of what it is compressed to, and the difference.
LEMMA Sizes ==
    ASSUME Passed
    PROVE  /\ size(original) \in Nat /\ size(Forwarded) = size(original)
           /\ compressed_size(Compressed) \in Nat /\ Saved \in Nat
           /\ size(original) = compressed_size(Compressed) + Saved
           /\ Saved >= 15 /\ Saved <= 41
           /\ Headroom + size(original) + 16 <= Buffer
<1> DEFINE words == original.rest
           proto == classify(original).ft.proto
           n == Len(compress_l4(proto, words))
<1>1. original \in Packets /\ classify(original).result = "OK" /\ original.ttl > 1
  BY DEF Passed
<1>2. original.v \in {4, 6} /\ words \in Seq(0 .. MAX_WORD) /\ Len(words) \in Nat
  BY <1>1, PacketsAre, WordsAreNumbers
<1>3. Forwarded.v = original.v /\ Forwarded.rest = words
  BY <1>1, TtlDown DEF Forwarded
<1>4. (proto = TCP => Len(words) >= 10) /\ (proto = UDP => Len(words) >= 4)
  BY <1>1, PacketPassed
<1>5. n \in Nat /\ n <= Len(words) /\ n + 3 >= Len(words)
  <2> DEFINE S == 0 .. MAX_WORD
  <2>1. words \in Seq(S)
    BY <1>2
  <2> HIDE DEF S, words, proto
  <2> QED BY <1>4, <2>1, CompressedLength
<1>6. compressed_size(Compressed) = 5 + 2 * n
  BY <1>3 DEF compressed_size, Compressed, compress
<1>7. size(original) = (IF original.v = 4 THEN 20 ELSE 40) + 2 * Len(words)
      /\ size(Forwarded) = size(original)
  BY <1>3 DEF size
<1>8. Headroom + size(original) + 16 <= Buffer
  BY <1>1, WireAssumption DEF MAC_SIZE
<1> HIDE DEF words, proto, n
<1>9. /\ size(original) \in Nat /\ compressed_size(Compressed) \in Nat
      /\ size(original) - compressed_size(Compressed) >= 15
      /\ size(original) - compressed_size(Compressed) <= 41
  BY <1>2, <1>5, <1>6, <1>7
<1> QED BY <1>7, <1>8, <1>9 DEF Saved

\* A plain IPv6 packet is restored.
LEMMA PlainRestored ==
    ASSUME Passed, original.v = 6, plain(original), ~minus_zero(original)
    PROVE  Restored = Forwarded
<1> DEFINE p == original  words == p.rest  ft == classify(p).ft  q == Forwarded
           l4 == expand_l4(ft, compress_l4(p.proto, words))
<1>1. p \in Packets /\ classify(p).result = "OK" /\ p.ttl > 1
  BY DEF Passed
<1>2. /\ p.len = 2 * Len(words) /\ ft = five_tuple(p, p.proto, words)
      /\ p.proto = TCP => inet_l4_checksum(five_tuple(p, p.proto, words), words) = 0
      /\ p.proto = UDP => words[3] = 2 * Len(words)
  BY <1>1, PlainPassed
<1>3. /\ ft.v = 6 /\ ft.src = p.src /\ ft.dst = p.dst /\ ft.proto = p.proto
      /\ p.proto \in {TCP, UDP} => ft.sport = words[1] /\ ft.dport = words[2]
  BY <1>2, FiveTupleIs
<1>4. /\ p.proto = TCP => Len(words) >= 10
      /\ p.proto = UDP => Len(words) >= 4
  BY <1>1, <1>3, PacketPassed
<1>5. words \in Seq(0 .. MAX_WORD) /\ p.src \in Nat /\ p.dst \in Nat
  BY <1>1, PacketsAre
<1>6. l4 = words
  <2>1. CASE p.proto = TCP
    <3> DEFINE zeroed == [words EXCEPT ![9] = 0]
    <3>1. l4 = expand_tcp(ft, compress_tcp(words))
      BY <1>3, <2>1 DEF expand_l4, compress_l4
    <3>2. Len(words) >= 10 /\ ft.sport = words[1] /\ ft.dport = words[2]
      BY <1>3, <1>4, <2>1
    <3>3. expand_tcp(ft, compress_tcp(words)) =
            [zeroed EXCEPT ![9] = inet_l4_checksum([ft EXCEPT !.proto = TCP], zeroed)]
      <4> HIDE DEF words, ft
      <4> QED BY <1>5, <3>2, TcpRestored
    <3>4. [ft EXCEPT !.proto = TCP] = ft
      <4>1. ft = five_tuple(p, TCP, words)
        BY <1>2, <2>1
      <4> DEFINE a == IF TCP \in {TCP, UDP} THEN words[1]
                      ELSE IF TCP \in {ICMP, ICMPV6} THEN words[1] \div 256 ELSE 0
                 b == IF TCP \in {TCP, UDP} THEN words[2]
                      ELSE IF TCP \in {ICMP, ICMPV6} THEN words[1] % 256 ELSE 0
      <4>2. ft = [v |-> p.v, src |-> p.src, dst |-> p.dst, proto |-> TCP, sport |-> a, dport |-> b]
        BY <4>1 DEF five_tuple
      <4> HIDE DEF a, b, ft
      <4> QED BY <4>2
    <3>5. words[9] # 65535
      BY <2>1 DEF minus_zero
    <3>6. inet_l4_checksum(ft, zeroed) = words[9]
      <4>1. ft.src \in Nat /\ ft.dst \in Nat /\ ft.proto = TCP /\ inet_l4_checksum(ft, words) = 0
        BY <1>2, <1>3, <1>5, <2>1
      <4> HIDE DEF words, ft
      <4> QED BY <1>5, <3>2, <3>5, <4>1, TcpChecksum
    <3>7. [zeroed EXCEPT ![9] = words[9]] = words
      <4> DEFINE k == 9  zero == 0
      <4>1. words \in Seq(Numbers) /\ Len(words) \in Nat
        BY <1>5, WordsAreNumbers
      <4>2. k \in 1 .. Len(words) /\ zero \in Numbers
        BY <3>2, <4>1 DEF Numbers
      <4> HIDE DEF words, k, zero
      <4>3. [[words EXCEPT ![k] = zero] EXCEPT ![k] = words[k]] = words
        BY <4>1, <4>2, SetAt
      <4> QED BY <4>3 DEF k, zero
    <3> QED BY <3>1, <3>3, <3>4, <3>6, <3>7
  <2>2. CASE p.proto = UDP
    <3>1. l4 = expand_udp(ft, compress_udp(words))
      BY <1>3, <2>2 DEF expand_l4, compress_l4, TCP, UDP
    <3>2. /\ Len(words) >= 4 /\ ft.sport = words[1] /\ ft.dport = words[2]
          /\ words[3] = 2 * Len(words)
      BY <1>2, <1>3, <1>4, <2>2
    <3> HIDE DEF words, ft
    <3> QED BY <1>5, <3>1, <3>2, UdpRestored
  <2>3. CASE p.proto # TCP /\ p.proto # UDP
    BY <1>3, <2>3 DEF expand_l4, compress_l4
  <2> QED BY <2>1, <2>2, <2>3
<1>7. /\ q \in IpPackets /\ q.v = p.v /\ q.hl = p.hl /\ q.len = p.len /\ q.frag = p.frag
      /\ q.proto = p.proto /\ q.sum = p.sum /\ q.src = p.src /\ q.dst = p.dst /\ q.rest = words
  BY <1>1, TtlDown DEF Forwarded
<1>8. p.frag = 0 /\ p.sum = 0
  BY <1>1, WireAssumption
<1>9. Compressed = [header |-> compress_ipv6(q), rest |-> compress_l4(p.proto, words)]
  BY <1>3, <1>7 DEF Compressed, compress
<1>10. Restored = expand_ipv6(ft, compress_ipv6(q), l4)
  BY <1>3, <1>9 DEF Restored, expand
<1>11. Restored = [v |-> 6, hl |-> q.hl, len |-> 2 * Len(words), frag |-> 0, ttl |-> q.ttl,
                   proto |-> ft.proto, sum |-> 0, src |-> ft.src, dst |-> ft.dst, rest |-> words]
  BY <1>6, <1>10 DEF expand_ipv6, compress_ipv6
<1>12. q = [v |-> q.v, hl |-> q.hl, len |-> q.len, frag |-> q.frag, ttl |-> q.ttl,
            proto |-> q.proto, sum |-> q.sum, src |-> q.src, dst |-> q.dst, rest |-> q.rest]
  BY <1>7 DEF IpPackets
<1> QED BY <1>2, <1>3, <1>7, <1>8, <1>11, <1>12

\* The classifier looks at nothing else.
LEMMA ClassifiedAlike ==
    ASSUME NEW p, NEW q, q.v = p.v, q.hl = p.hl, q.len = p.len, q.frag = p.frag,
           q.proto = p.proto, q.src = p.src, q.dst = p.dst, q.rest = p.rest,
           p.v = 4 => checksum(ipv4_header(q)) = checksum(ipv4_header(p))
    PROVE  classify(q) = classify(p)
<1>1. \A proto, words : five_tuple(q, proto, words) = five_tuple(p, proto, words)
  BY DEF five_tuple
<1>2. \A proto, words : classify_l4(q, proto, words) = classify_l4(p, proto, words)
  BY <1>1 DEF classify_l4
<1>3. \A words : classify_next_header(q, words) = classify_next_header(p, words)
  BY <1>2 DEF classify_next_header
<1>4. p.v = 4 => classify_ipv4(q) = classify_ipv4(p)
  BY <1>3 DEF classify_ipv4
<1>5. classify_ipv6(q) = classify_ipv6(p)
  BY <1>3 DEF classify_ipv6
<1> QED BY <1>4, <1>5 DEF classify

\* Seven words, and with another at the fifth place.
LEMMA Sevens ==
    ASSUME NEW S, NEW a \in S, NEW b \in S, NEW c \in S, NEW d \in S, NEW x \in S, NEW y \in S,
           NEW e \in S, NEW f \in S
    PROVE  /\ <<a, b, c, d, x, e, f>> \in Seq(S) /\ <<a, b, c, d, y, e, f>> \in Seq(S)
           /\ Len(<<a, b, c, d, y, e, f>>) = 7
           /\ <<a, b, c, d, x, e, f>>[5] = x
           /\ <<a, b, c, d, y, e, f>>[5] = y /\ <<a, b, c, d, y, e, f>>[1] = a
           /\ SameBut(<<a, b, c, d, x, e, f>>, <<a, b, c, d, y, e, f>>, 5)
<1> DEFINE h == <<a, b, c, d, x, e, f>>  g == <<a, b, c, d, y, e, f>>
<1>1. h \in Seq(S) /\ g \in Seq(S) /\ Len(h) = 7 /\ Len(g) = 7
  OBVIOUS
<1>2. /\ h[1] = a /\ h[2] = b /\ h[3] = c /\ h[4] = d /\ h[5] = x /\ h[6] = e /\ h[7] = f
      /\ g[1] = a /\ g[2] = b /\ g[3] = c /\ g[4] = d /\ g[5] = y /\ g[6] = e /\ g[7] = f
  OBVIOUS
<1> HIDE DEF h, g
<1>3. \A i \in 1 .. 7 : i = 1 \/ i = 2 \/ i = 3 \/ i = 4 \/ i = 5 \/ i = 6 \/ i = 7
  OBVIOUS
<1>4. \A i \in 1 .. 7 : i # 5 => h[i] = g[i]
  BY <1>2, <1>3
<1>5. SameBut(h, g, 5)
  BY <1>1, <1>4 DEF SameBut
<1> QED BY <1>1, <1>2, <1>5 DEF h, g

\* The checksum of a header with options, computed with 0 in its place, is right.
LEMMA HeadsChecksum ==
    ASSUME NEW h, NEW g, NEW opts, NEW k,
           h \in Seq(Numbers), g \in Seq(Numbers), opts \in Seq(Numbers), SameBut(h, g, k),
           ZeroAt(g, k)
    PROVE  h[k] = checksum(Cat(g, opts)) => checksum(Cat(h, opts)) = 0
<1> DEFINE a == Cat(h, opts)  b == Cat(g, opts)
<1>0. h \in Seq(Numbers) /\ g \in Seq(Numbers) /\ opts \in Seq(Numbers) /\ SameBut(h, g, k)
  OBVIOUS
<1>1. SameBut(a, b, k) /\ a[k] = h[k] /\ b[k] = g[k]
  <2>1. SameBut(Cat(h, opts), Cat(g, opts), k)
    BY <1>0, SameButAfter
  <2>2. k \in 1 .. Len(h) /\ Len(h) = Len(g)
    BY DEF SameBut
  <2>3. \A i \in 1 .. Len(h) : (h \o opts)[i] = h[i]
    BY <1>0, Joined
  <2>4. \A i \in 1 .. Len(g) : (g \o opts)[i] = g[i]
    BY <1>0, Joined
  <2> QED BY <2>1, <2>2, <2>3, <2>4 DEF Cat
<1>2. a \in Seq(Numbers) /\ b \in Seq(Numbers)
  BY Regrouped
<1>3. Len(b) = Len(g) + Len(opts) /\ Len(opts) \in Nat /\ Len(g) \in Nat
      /\ \A i \in 1 .. Len(g) : b[i] = g[i]
  BY Joined DEF Cat
<1> HIDE DEF a, b
<1>4. ZeroAt(b, k)
  <2>1. PICK j \in 1 .. Len(g) : g[j] > 0
    BY DEF ZeroAt
  <2>2. j \in 1 .. Len(b) /\ b[j] > 0
    BY <1>3, <2>1
  <2>3. g[k] = 0
    BY DEF ZeroAt
  <2> QED BY <1>1, <2>2, <2>3 DEF ZeroAt
<1>5. a[k] = checksum(b) => checksum(a) = 0
  <2>1. SameBut(a, b, k)
    BY <1>1
  <2> QED BY <1>2, <1>4, <2>1, ChecksumAt
<1> QED BY <1>1, <1>5 DEF a, b

\* A header with the checksum that is computed for it.
LEMMA HeaderChecksum ==
    ASSUME NEW p, p.hl \in Nat, p.len \in Nat, p.frag \in Nat, p.ttl \in Nat, p.proto \in Nat,
           p.src \in Nat, p.dst \in Nat, p.sum \in Nat, p.rest \in Seq(0 .. MAX_WORD),
           p.hl >= 5, 2 * (p.hl - 5) <= Len(p.rest),
           NEW r, r.hl = p.hl, r.len = p.len, r.frag = p.frag, r.ttl = p.ttl,
           r.proto = p.proto, r.src = p.src, r.dst = p.dst, r.sum = 0, r.rest = p.rest,
           p.sum = checksum(ipv4_header(r))
    PROVE  checksum(ipv4_header(p)) = 0
<1> DEFINE w == 4 * 4096 + p.hl * 256  t == p.ttl * 256 + p.proto  zero == 0
           h == <<w, p.len, p.frag, t, p.sum, p.src, p.dst>>
           g == <<w, p.len, p.frag, t, zero, p.src, p.dst>>
           opts == SubSeq(p.rest, 1, 2 * (p.hl - 5))
           k == 5  one == 1
<1>1. ipv4_header(p) = Cat(h, opts) /\ ipv4_header(r) = Cat(g, opts)
  BY DEF ipv4_header, Cat
<1>2. w \in Nat /\ w > 0 /\ t \in Nat
  <2>1. \A x, y \in Nat : /\ 4 * 4096 + x * 256 \in Nat /\ 4 * 4096 + x * 256 > 0
                           /\ x * 256 + y \in Nat
    OBVIOUS
  <2> DEFINE x == p.hl  u == p.ttl  y == p.proto
  <2>2. x \in Nat /\ u \in Nat /\ y \in Nat
    OBVIOUS
  <2> HIDE DEF x, u, y
  <2>3. 4 * 4096 + x * 256 \in Nat /\ 4 * 4096 + x * 256 > 0 /\ u * 256 + y \in Nat
    BY <2>1, <2>2
  <2> QED BY <2>3 DEF x, u, y
<1>3. /\ w \in Numbers /\ p.len \in Numbers /\ p.frag \in Numbers /\ t \in Numbers
      /\ p.sum \in Numbers /\ zero \in Numbers /\ p.src \in Numbers /\ p.dst \in Numbers
  BY <1>2 DEF Numbers
<1> HIDE DEF w, t, zero
<1>4. /\ h \in Seq(Numbers) /\ g \in Seq(Numbers) /\ Len(g) = 7
      /\ h[k] = p.sum /\ g[k] = zero /\ g[one] = w /\ SameBut(h, g, k)
  <2> DEFINE a == p.len  b == p.frag  c == p.sum  d == p.src  e == p.dst
  <2>1. /\ w \in Numbers /\ a \in Numbers /\ b \in Numbers /\ t \in Numbers
        /\ c \in Numbers /\ zero \in Numbers /\ d \in Numbers /\ e \in Numbers
    BY <1>3
  <2> HIDE DEF a, b, c, d, e
  <2> DEFINE u == <<w, a, b, t, c, d, e>>  v == <<w, a, b, t, zero, d, e>>
  <2>2. /\ u \in Seq(Numbers) /\ v \in Seq(Numbers) /\ Len(v) = 7
        /\ u[5] = c /\ v[5] = zero /\ v[1] = w /\ SameBut(u, v, 5)
    BY <2>1, Sevens
  <2> QED BY <2>2 DEF a, b, c, d, e
<1>5. opts \in Seq(Numbers)
  <2> DEFINE words == p.rest  m == 0  n == 2 * (p.hl - 5)
  <2>1. words \in Seq(Numbers)
    BY WordsAreNumbers
  <2>2. n \in Nat /\ m \in Nat /\ m <= n /\ n <= Len(words) /\ m + 1 = 1
    OBVIOUS
  <2>3. opts = SubSeq(words, m + 1, n)
    BY <2>2
  <2> HIDE DEF words, m, n, opts
  <2>4. SubSeq(words, m + 1, n) \in Seq(Numbers)
    BY <2>1, <2>2, FrontAndRest
  <2> QED BY <2>3, <2>4
<1> HIDE DEF h, g, opts, k
<1>6. h \in Seq(Numbers) /\ g \in Seq(Numbers) /\ SameBut(h, g, k)
  BY <1>4
<1>7. ZeroAt(g, k)
  <2>1. one \in 1 .. Len(g) /\ g[one] > 0 /\ g[k] = 0
    BY <1>2, <1>4 DEF zero
  <2> QED BY <2>1 DEF ZeroAt
<1> HIDE DEF one
<1>8. h[k] = checksum(Cat(g, opts)) => checksum(Cat(h, opts)) = 0
  BY <1>5, <1>6, <1>7, HeadsChecksum
<1> QED BY <1>1, <1>4, <1>8

\* A packet that is restored is one that the classifier passes.
LEMMA RestoredPasses ==
    ASSUME Passed, Restored = Forwarded
    PROVE  classify(Forwarded) = classify(original)
<1> DEFINE p == original  q == Forwarded  ft == classify(p).ft
<1>1. p \in Packets /\ classify(p).result = "OK" /\ p.ttl > 1
  BY DEF Passed
<1>2. /\ q \in IpPackets /\ q.v = p.v /\ q.hl = p.hl /\ q.len = p.len /\ q.frag = p.frag
      /\ q.proto = p.proto /\ q.sum = p.sum /\ q.src = p.src /\ q.dst = p.dst /\ q.rest = p.rest
  BY <1>1, TtlDown DEF Forwarded
<1>3. ASSUME p.v = 4 PROVE checksum(ipv4_header(q)) = checksum(ipv4_header(p))
  <2>1. p.hl >= 5 /\ 2 * (p.hl - 5) <= Len(p.rest) /\ checksum(ipv4_header(p)) = 0
    BY <1>1, <1>3, Passes4
  <2>2. ft.v = 4
    BY <1>1, <1>3, PacketPassed
  <2> DEFINE words == expand_l4(ft, Compressed.rest)
             c == Compressed.header
             r == [v |-> 4, hl |-> c.hl, len |-> 20 + 2 * Len(words), frag |-> c.frag,
                   ttl |-> c.ttl, proto |-> ft.proto, sum |-> 0, src |-> ft.src,
                   dst |-> ft.dst, rest |-> words]
  <2>3. Restored = [r EXCEPT !.sum = checksum(ipv4_header(r))]
    BY <2>2 DEF Restored, expand, expand_ipv4
  <2>4. r.sum = 0
    OBVIOUS
  <2>5. /\ q.hl = r.hl /\ q.len = r.len /\ q.frag = r.frag /\ q.ttl = r.ttl
        /\ q.proto = r.proto /\ q.src = r.src /\ q.dst = r.dst /\ q.rest = r.rest
        /\ q.sum = checksum(ipv4_header(r))
    <3> DEFINE sum == checksum(ipv4_header(r))
    <3>1. q = [r EXCEPT !.sum = sum]
      BY <2>3
    <3> HIDE DEF sum, words, c, q, ft
    <3>2. q = [v |-> 4, hl |-> c.hl, len |-> 20 + 2 * Len(words), frag |-> c.frag,
               ttl |-> c.ttl, proto |-> ft.proto, sum |-> sum, src |-> ft.src,
               dst |-> ft.dst, rest |-> words]
      BY <3>1
    <3> QED BY <3>2 DEF sum
  <2> HIDE DEF r
  <2>6. /\ q.hl \in Nat /\ q.len \in Nat /\ q.frag \in Nat /\ q.ttl \in Nat /\ q.proto \in Nat
        /\ q.src \in Nat /\ q.dst \in Nat /\ q.sum \in Nat /\ q.rest \in Seq(0 .. MAX_WORD)
    BY <1>2 DEF IpPackets
  <2>7. q.hl >= 5 /\ 2 * (q.hl - 5) <= Len(q.rest)
    BY <1>2, <2>1
  <2>8. checksum(ipv4_header(q)) = 0
    BY <2>4, <2>5, <2>6, <2>7, HeaderChecksum
  <2> QED BY <2>1, <2>8
<1> HIDE DEF q, p
<1> QED BY <1>2, <1>3, ClassifiedAlike DEF q, p

-----------------------------------------------------------------------------
(* Buffers.                                                                *)

\* A buffer in which nothing failed yet.
LEMMA IsRoom ==
    ASSUME NEW h, NEW n, NEW b \in BOOLEAN, b
    PROVE  [head |-> h, len |-> n, ok |-> b] = Room(h, n)
<1>1. b = TRUE
  OBVIOUS
<1> QED BY <1>1 DEF Room

\* The fields of a buffer.
LEMMA RoomIs ==
    ASSUME NEW h, NEW n
    PROVE  /\ Room(h, n).head = h /\ Room(h, n).len = n /\ Room(h, n).ok
           /\ Room(h, n).ok = TRUE
  BY DEF Room

\* A new buffer, where it fits (packet.rs, new).
LEMMA NewRoom ==
    ASSUME NEW n \in Nat, Headroom + n <= Buffer
    PROVE  new(n) = Room(Headroom, n)
<1> DEFINE b == Headroom + n <= Buffer
<1>1. b \in BOOLEAN /\ b
  OBVIOUS
<1>2. new(n) = [head |-> Headroom, len |-> n, ok |-> b]
  BY DEF new
<1> HIDE DEF b
<1> QED BY <1>1, <1>2, IsRoom

\* push_header, with enough headroom.
LEMMA PushHeader ==
    ASSUME NEW h \in Nat, NEW l \in Nat, NEW n \in Nat, n <= h
    PROVE  push_header(Room(h, l), n) = Room(h - n, l + n)
<1> DEFINE r == Room(h, l)  fits == n <= r.head  b == r.ok /\ fits
<1>0. r.head = h /\ r.len = l
  BY RoomIs
<1>1. fits
  BY <1>0
<1>2. push_header(r, n) = [head |-> r.head - n, len |-> r.len + n, ok |-> b]
  BY Zenon DEF push_header
<1> HIDE DEF fits, r
<1>3. r.ok
  BY RoomIs DEF r
<1>4. b \in BOOLEAN /\ b
  BY <1>1, <1>3, Zenon
<1> HIDE DEF b
<1> QED BY <1>0, <1>2, <1>4, IsRoom DEF r

\* advance, within the packet.
LEMMA Advance ==
    ASSUME NEW h \in Nat, NEW l \in Nat, NEW n \in Nat, n <= l
    PROVE  advance(Room(h, l), n) = Room(h + n, l - n)
<1> DEFINE r == Room(h, l)  fits == n <= r.len  b == r.ok /\ fits
<1>0. r.head = h /\ r.len = l
  BY RoomIs
<1>1. fits
  BY <1>0
<1>2. advance(r, n) = [head |-> r.head + n, len |-> r.len - n, ok |-> b]
  BY Zenon DEF advance
<1> HIDE DEF fits, r
<1>3. r.ok
  BY RoomIs DEF r
<1>4. b \in BOOLEAN /\ b
  BY <1>1, <1>3, Zenon
<1> HIDE DEF b
<1> QED BY <1>0, <1>2, <1>4, IsRoom DEF r

\* put, with enough tailroom.
LEMMA PutTail ==
    ASSUME NEW h \in Nat, NEW l \in Nat, NEW n \in Nat, h + l + n <= Buffer
    PROVE  put_tail(Room(h, l), n) = Room(h, l + n)
<1> DEFINE r == Room(h, l)  fits == n <= tailroom_available(r)  b == r.ok /\ fits
<1>0. r.head = h /\ r.len = l /\ r = [head |-> h, len |-> l, ok |-> TRUE]
  BY RoomIs DEF Room
<1>1. fits
  BY <1>0, WireAssumption DEF tailroom_available
<1>2. put_tail(r, n) = [r EXCEPT !.len = r.len + n, !.ok = b]
  BY Zenon DEF put_tail
<1> HIDE DEF fits, r
<1>3. r.ok
  BY RoomIs DEF r
<1>4. b \in BOOLEAN /\ b
  BY <1>1, <1>3, Zenon
<1> HIDE DEF b
<1>5. put_tail(r, n) = [head |-> h, len |-> l + n, ok |-> b]
  BY <1>0, <1>2
<1> QED BY <1>4, <1>5, IsRoom DEF r

\* shrink_by, within the packet.
LEMMA ShrinkBy ==
    ASSUME NEW h \in Nat, NEW l \in Nat, NEW n \in Nat, n <= l
    PROVE  shrink_by(Room(h, l), n) = Room(h, l - n)
<1> DEFINE r == Room(h, l)  fits == n <= r.len  b == r.ok /\ fits
<1>0. r.head = h /\ r.len = l /\ r = [head |-> h, len |-> l, ok |-> TRUE]
  BY RoomIs DEF Room
<1>1. fits
  BY <1>0, WireAssumption DEF tailroom_available
<1>2. shrink_by(r, n) = [r EXCEPT !.len = r.len - n, !.ok = b]
  BY Zenon DEF shrink_by
<1> HIDE DEF fits, r
<1>3. r.ok
  BY RoomIs DEF r
<1>4. b \in BOOLEAN /\ b
  BY <1>1, <1>3, Zenon
<1> HIDE DEF b
<1>5. shrink_by(r, n) = [head |-> h, len |-> l - n, ok |-> b]
  BY <1>0, <1>2
<1> QED BY <1>4, <1>5, IsRoom DEF r

\* adopt_tailroom_with_header, with enough tailroom.
LEMMA AdoptTailroom ==
    ASSUME NEW h \in Nat, NEW l \in Nat, NEW n \in Nat, NEW m \in Nat, n <= l, h + l + m <= Buffer
    PROVE  adopt_tailroom_with_header(Room(h, l), n, m) = Room(h + l - n, n + m)
<1> DEFINE r == Room(h, l)  fits == n <= r.len /\ m <= tailroom_available(r)  b == r.ok /\ fits
<1>0. r.head = h /\ r.len = l /\ r = [head |-> h, len |-> l, ok |-> TRUE]
  BY RoomIs DEF Room
<1>1. fits
  BY <1>0, WireAssumption DEF tailroom_available
<1>2. adopt_tailroom_with_header(r, n, m) = [head |-> r.head + r.len - n, len |-> n + m, ok |-> b]
  BY Zenon DEF adopt_tailroom_with_header
<1> HIDE DEF fits, r
<1>3. r.ok
  BY RoomIs DEF r
<1>4. b \in BOOLEAN /\ b
  BY <1>1, <1>3, Zenon
<1> HIDE DEF b
<1>5. adopt_tailroom_with_header(r, n, m) = [head |-> h + l - n, len |-> n + m, ok |-> b]
  BY <1>0, <1>2
<1> QED BY <1>4, <1>5, IsRoom DEF r

\* deserialize_into, into a buffer that is large enough.
LEMMA Deserialized ==
    ASSUME NEW h \in Nat, NEW l \in Nat, h + l <= Buffer
    PROVE  deserialize_into(Room(h, l)) = Room(h, l)
<1> DEFINE r == Room(h, l)  fits == r.head + r.len <= Buffer  b == r.ok /\ fits
<1>0. r.head = h /\ r.len = l /\ r = [head |-> h, len |-> l, ok |-> TRUE]
  BY RoomIs DEF Room
<1>1. fits
  BY <1>0, WireAssumption DEF tailroom_available
<1>2. deserialize_into(r) = [r EXCEPT !.ok = b]
  BY Zenon DEF deserialize_into
<1> HIDE DEF fits, r
<1>3. r.ok
  BY RoomIs DEF r
<1>4. b \in BOOLEAN /\ b
  BY <1>1, <1>3, Zenon
<1> HIDE DEF b
<1>5. deserialize_into(r) = [head |-> h, len |-> l, ok |-> b]
  BY <1>0, <1>2
<1> QED BY <1>4, <1>5, IsRoom DEF r

\* A hop: the headers and the MAC are added, and taken off in a new buffer.
LEMMA HopOut ==
    ASSUME NEW h \in Nat, NEW l \in Nat, h >= 7, h + l + 8 <= Buffer
    PROVE  substrate_egress_common(push_header(Room(h, l), FLOW_SIZE + BASE_SIZE), TRUE)
             = Room(h - 7, l + 15)
<1>1. push_header(Room(h, l), 6) = Room(h - 6, l + 6)
  BY PushHeader
<1>2. push_header(Room(h - 6, l + 6), 1) = Room(h - 7, l + 7)
  <2>1. h - 6 \in Nat /\ l + 6 \in Nat /\ 1 <= h - 6 /\ (h - 6) - 1 = h - 7 /\ (l + 6) + 1 = l + 7
    OBVIOUS
  <2>2. push_header(Room(h - 6, l + 6), 1) = Room((h - 6) - 1, (l + 6) + 1)
    BY <2>1, PushHeader
  <2> QED BY <2>1, <2>2
<1>3. put_tail(Room(h - 7, l + 7), 8) = Room(h - 7, l + 15)
  <2>1. h - 7 \in Nat /\ l + 7 \in Nat /\ (h - 7) + (l + 7) + 8 <= Buffer /\ (l + 7) + 8 = l + 15
    BY WireAssumption
  <2>2. put_tail(Room(h - 7, l + 7), 8) = Room(h - 7, (l + 7) + 8)
    BY <2>1, PutTail
  <2> QED BY <2>1, <2>2
<1>4. FLOW_SIZE + BASE_SIZE = 6 /\ ZPI_SIZE = 1 /\ MAC_SIZE = 8
  BY DEF FLOW_SIZE, BASE_SIZE, ZPI_SIZE, MAC_SIZE
<1> QED BY <1>1, <1>2, <1>3, <1>4 DEF substrate_egress_common, encrypt_hmac, encap_zpi

\* What a hop's receiving end takes from the front and the back of a packet.
LEMMA HopIn ==
    ASSUME NEW l \in Nat, l >= 15, Headroom + l <= Buffer
    PROVE  advance(substrate_ingress(new(l), TRUE), FLOW_SIZE) = Room(Headroom + 7, l - 15)
<1>0. Headroom \in Nat
  BY WireAssumption
<1>1. new(l) = Room(Headroom, l)
  BY NewRoom
<1>2. shrink_by(Room(Headroom, l), 8) = Room(Headroom, l - 8)
  BY <1>0, ShrinkBy
<1>3. advance(Room(Headroom, l - 8), 3) = Room(Headroom + 3, l - 11)
  <2>1. l - 8 \in Nat /\ 3 <= l - 8 /\ (l - 8) - 3 = l - 11
    OBVIOUS
  <2>2. advance(Room(Headroom, l - 8), 3) = Room(Headroom + 3, (l - 8) - 3)
    BY <1>0, <2>1, Advance
  <2> QED BY <2>1, <2>2
<1>4. advance(Room(Headroom + 3, l - 11), 4) = Room(Headroom + 7, l - 15)
  <2> DEFINE x == Headroom + 3  y == l - 11  u == Headroom + 7  v == l - 15
  <2>1. x \in Nat /\ y \in Nat /\ 4 <= y /\ x + 4 = u /\ y - 4 = v
    BY <1>0
  <2> HIDE DEF x, y, u, v
  <2>2. advance(Room(x, y), 4) = Room(x + 4, y - 4)
    BY <2>1, Advance
  <2>3. advance(Room(x, y), 4) = Room(u, v)
    BY <2>1, <2>2
  <2> QED BY <2>3 DEF x, y, u, v
<1>5. FLOW_SIZE = 4 /\ ZPI_SIZE + BASE_SIZE = 3 /\ MAC_SIZE = 8
  BY DEF FLOW_SIZE, BASE_SIZE, ZPI_SIZE, MAC_SIZE
<1> QED BY <1>1, <1>2, <1>3, <1>4, <1>5 DEF substrate_ingress, decrypt_hmac

\* A message is encrypted, in a new place if there is room, and decrypted.
LEMMA MessageOut ==
    ASSUME NEW n \in Nat, n >= BASE_SIZE, Headroom + n + ZPI_SIZE + Overhead <= Buffer
    PROVE  \E h \in Nat :
             /\ substrate_egress_common(deserialize_into(Room(Headroom, n)), FALSE)
                  = Room(h, n + ZPI_SIZE + Overhead)
             /\ h + (n + ZPI_SIZE + Overhead) <= Buffer
<1>0. /\ Headroom \in Nat /\ Buffer \in Nat /\ Overhead \in Nat /\ Headroom >= 64 /\ ZPI_SIZE = 1
  BY WireAssumption DEF ZPI_SIZE
<1> DEFINE r == Room(Headroom - 1, n + 1)
<1>1. deserialize_into(Room(Headroom, n)) = Room(Headroom, n)
  BY <1>0, Deserialized
<1>2. encap_zpi(Room(Headroom, n)) = r
  BY <1>0, PushHeader DEF encap_zpi
<1>3. substrate_egress_common(deserialize_into(Room(Headroom, n)), FALSE) = encrypt_full(r)
  BY <1>1, <1>2 DEF substrate_egress_common
<1>4. r.head = Headroom - 1 /\ r.len = n + 1
  BY RoomIs
<1>5. tailroom_available(r) = Buffer - Headroom - n /\ r.len - ZPI_SIZE = n
  BY <1>0, <1>4 DEF tailroom_available
<1> DEFINE m == n + Overhead
<1>6. m \in Nat /\ n + Overhead = m /\ n + ZPI_SIZE + Overhead = 1 + m /\ Headroom + 1 + m <= Buffer
  BY <1>0
<1> HIDE DEF r, m
<1>7. CASE Buffer - Headroom - n >= m
  <2>1. encrypt_full(r) = adopt_tailroom_with_header(r, 1, m)
    BY <1>0, <1>5, <1>6, <1>7 DEF encrypt_full
  <2> DEFINE h == Headroom - 1  l == n + 1
  <2>2. /\ h \in Nat /\ l \in Nat /\ 1 \in Nat /\ 1 <= l /\ h + l + m <= Buffer
        /\ h + l - 1 \in Nat /\ h + l - 1 + (1 + m) <= Buffer
    BY <1>0, <1>6, <1>7
  <2>3. r = Room(h, l)
    BY DEF r
  <2> HIDE DEF h, l
  <2>4. adopt_tailroom_with_header(Room(h, l), 1, m) = Room(h + l - 1, 1 + m)
    BY <1>6, <2>2, AdoptTailroom
  <2> QED BY <1>3, <1>6, <2>1, <2>2, <2>3, <2>4
<1>8. CASE ~(Buffer - Headroom - n >= m)
  <2>1. encrypt_full(r) = put_tail(shrink_by(r, n), m)
    BY <1>0, <1>5, <1>6, <1>8 DEF encrypt_full
  <2> DEFINE h == Headroom - 1  l == n + 1
  <2>2. /\ h \in Nat /\ l \in Nat /\ n <= l /\ l - n = 1 /\ 1 \in Nat /\ h + 1 + m <= Buffer
        /\ h + (1 + m) <= Buffer
    BY <1>0, <1>6
  <2>3. r = Room(h, l)
    BY DEF r
  <2> HIDE DEF h, l
  <2>4. shrink_by(Room(h, l), n) = Room(h, l - n)
    BY <2>2, ShrinkBy
  <2>5. put_tail(Room(h, 1), m) = Room(h, 1 + m)
    BY <1>6, <2>2, PutTail
  <2> QED BY <1>3, <1>6, <2>1, <2>2, <2>3, <2>4, <2>5
<1> QED BY <1>7, <1>8

\* The same of a management message: its size is as it was sent.
LEMMA MessageIn ==
    ASSUME NEW n \in Nat, n >= BASE_SIZE, Headroom + n + ZPI_SIZE + Overhead <= Buffer
    PROVE  \E h \in Nat :
             /\ push_header(substrate_ingress(new(n + ZPI_SIZE + Overhead), FALSE), BASE_SIZE)
                  = Room(h, n)
             /\ h + n <= Buffer
<1>0. /\ Headroom \in Nat /\ Buffer \in Nat /\ Overhead \in Nat /\ Headroom >= 64
      /\ ZPI_SIZE = 1 /\ BASE_SIZE = 2 /\ ZPI_SIZE + BASE_SIZE = 3
  BY WireAssumption DEF ZPI_SIZE, BASE_SIZE
<1> DEFINE m == n + Overhead  l == 1 + m  r == Room(Headroom, l)
<1>1. /\ m \in Nat /\ l \in Nat /\ n + ZPI_SIZE + Overhead = l /\ Headroom + l <= Buffer
      /\ l - 1 = m /\ m - Overhead = n
  BY <1>0
<1>2. new(l) = r
  BY <1>1, NewRoom
<1>3. r.head = Headroom /\ r.len = l
  BY RoomIs
<1>4. tailroom_available(r) = Buffer - Headroom - l /\ r.len - ZPI_SIZE = m
      /\ r.len - ZPI_SIZE - Overhead = n
  BY <1>0, <1>1, <1>3 DEF tailroom_available
<1>5. \E h \in Nat : decrypt_full(r) = Room(h, 1 + n) /\ h + (1 + n) <= Buffer
  <2>0. /\ l \in Nat /\ m \in Nat /\ 1 <= l /\ m <= l /\ l - m = 1 /\ Headroom + 1 + n <= Buffer
    BY <1>0, <1>1
  <2> HIDE DEF m, l
  <2>1. CASE Buffer - Headroom - l >= m
    <3>1. decrypt_full(r) = adopt_tailroom_with_header(r, 1, n)
      BY <1>0, <1>4, <2>1 DEF decrypt_full
    <3>2. Headroom + l + n <= Buffer /\ n <= m
      BY <1>0, <1>1, <2>0, <2>1
    <3>3. adopt_tailroom_with_header(r, 1, n) = Room(Headroom + l - 1, 1 + n)
      BY <1>0, <2>0, <3>2, AdoptTailroom
    <3>4. Headroom + l - 1 \in Nat /\ Headroom + l - 1 + (1 + n) <= Buffer
      BY <1>0, <2>0, <3>2
    <3> QED BY <3>1, <3>3, <3>4
  <2>2. CASE ~(Buffer - Headroom - l >= m)
    <3>1. decrypt_full(r) = put_tail(shrink_by(r, m), n)
      BY <1>0, <1>4, <2>2 DEF decrypt_full
    <3>2. shrink_by(r, m) = Room(Headroom, l - m)
      BY <1>0, <2>0, ShrinkBy
    <3>3. put_tail(Room(Headroom, 1), n) = Room(Headroom, 1 + n)
      BY <1>0, <2>0, PutTail
    <3>4. Headroom + (1 + n) <= Buffer
      BY <1>0, <2>0
    <3> QED BY <1>0, <2>0, <3>1, <3>2, <3>3, <3>4
  <2> QED BY <2>1, <2>2
<1>6. PICK h \in Nat : decrypt_full(r) = Room(h, 1 + n) /\ h + (1 + n) <= Buffer
  BY <1>5
<1>7. advance(Room(h, 1 + n), 3) = Room(h + 3, n - 2)
  <2>1. 1 + n \in Nat /\ 3 <= 1 + n /\ (1 + n) - 3 = n - 2
    BY <1>0
  <2>2. advance(Room(h, 1 + n), 3) = Room(h + 3, (1 + n) - 3)
    BY <2>1, Advance
  <2> QED BY <2>1, <2>2
<1>8. push_header(Room(h + 3, n - 2), 2) = Room(h + 1, n)
  <2>1. h + 3 \in Nat /\ n - 2 \in Nat /\ 2 <= h + 3 /\ (h + 3) - 2 = h + 1 /\ (n - 2) + 2 = n
    BY <1>0
  <2>2. push_header(Room(h + 3, n - 2), 2) = Room((h + 3) - 2, (n - 2) + 2)
    BY <2>1, PushHeader
  <2> QED BY <2>1, <2>2
<1>9. substrate_ingress(new(n + ZPI_SIZE + Overhead), FALSE) = Room(h + 3, n - 2)
  BY <1>0, <1>1, <1>2, <1>6, <1>7 DEF substrate_ingress
<1>10. h + 1 \in Nat /\ h + 1 + n <= Buffer
  BY <1>0, <1>6
<1> QED BY <1>0, <1>8, <1>9, <1>10

-----------------------------------------------------------------------------
(* The invariant, step by step.                                            *)

\* What the packet becomes only depends on the packet and the classifier.
LEMMA Steady ==
    ASSUME original' = original, mode' = mode
    PROVE  /\ Forwarded' = Forwarded /\ Compressed' = Compressed /\ Restored' = Restored
           /\ Saved' = Saved /\ (Passed' <=> Passed)
<1>1. Forwarded' = Forwarded
  BY DEF Forwarded
<1>2. Passed' <=> Passed
  BY DEF Passed
<1>3. \A proto, p : compress(proto, p)' = compress(proto, p)
  BY DEF compress, compress_l4, compress_tcp, compress_udp, kept_ports
<1>4. \A ft, c : expand(ft, c)' = expand(ft, c)
  BY DEF expand, expand_l4, expand_tcp, expand_udp, expand_ports
<1>5. Compressed' = Compressed
  BY <1>1, <1>3 DEF Compressed
<1>6. Restored' = Restored
  BY <1>4, <1>5 DEF Restored
<1>7. Saved' = Saved
  BY <1>5 DEF Saved
<1> QED BY <1>1, <1>2, <1>5, <1>6, <1>7

\* Where the packet is decides what it looks like.
LEMMA AtActor ==
    ASSUME WireInv, stage = "actor"
    PROVE  /\ original \in Packets /\ content = original /\ mode \subseteq {"sport", "dport"}
           /\ room = Room(Headroom, size(original)) /\ why = ""
  BY DEF WireInv, OnItsWay, MessageOnItsWay, WasDropped

\* What WireInv says of a packet that the classifier has passed.
LEMMA AtClassified ==
    ASSUME WireInv, stage = "classified"
    PROVE  /\ Passed /\ mode \subseteq {"sport", "dport"} /\ why = "" /\ content = Forwarded
           /\ room = Room(Headroom, size(original))
  BY DEF WireInv, OnItsWay, MessageOnItsWay, WasDropped

\* What it says of a packet from there on.
LEMMA AtHops ==
    ASSUME WireInv, stage \in {"adapter", "hop1", "node", "hop2", "arrived", "delivered"}
    PROVE  Passed /\ mode \subseteq {"sport", "dport"} /\ why = "" /\ micv = <<Forwarded>>
  BY DEF WireInv, OnItsWay, MessageOnItsWay, WasDropped

\* What it says of each of these stages.
LEMMA AtEachHop ==
    ASSUME WireInv
    PROVE  /\ stage = "adapter" =>
                /\ content = Compressed
                /\ room = Room(Headroom + Saved - 1, compressed_size(Compressed) + 9)
           /\ stage = "hop1" =>
                /\ mac = <<Compressed>>
                /\ room = Room(Headroom + Saved - 8, compressed_size(Compressed) + 24)
           /\ stage = "node" =>
                /\ content = Compressed
                /\ room = Room(Headroom + 7, compressed_size(Compressed) + 9)
           /\ stage = "hop2" =>
                /\ mac = <<Compressed>>
                /\ room = Room(Headroom, compressed_size(Compressed) + 24)
           /\ stage = "arrived" =>
                /\ content = Compressed
                /\ room = Room(Headroom + 7, compressed_size(Compressed) + 9)
           /\ stage = "delivered" =>
                /\ content = Forwarded /\ Restored = Forwarded
                /\ room = Room(Headroom + 8 - Saved, size(original))
  BY DEF WireInv, OnItsWay, MessageOnItsWay, WasDropped

\* What it says of a management message.
LEMMA AtMessage ==
    ASSUME WireInv, stage \in {"message", "encrypted", "dispatched"}
    PROVE  MessageOnItsWay /\ why = ""
  BY DEF WireInv, OnItsWay, WasDropped

\* A packet is dropped where its buffer is in order.
LEMMA Dropped ==
    ASSUME NEW reason \in {"classifier", "panic", "ttl", "damaged", "micv"}, Drop(reason),
           NEW h \in Nat, NEW n \in Nat, room = Room(h, n), h + n <= Buffer,
           reason = "micv" => /\ mode \subseteq {"sport", "dport"} /\ Passed
                              /\ Restored # Forwarded
    PROVE  WireInv'
<1>1. /\ stage' = "dropped" /\ why' = reason
      /\ original' = original /\ mode' = mode /\ room' = room
  BY DEF Drop
<1>2. Forwarded' = Forwarded /\ Restored' = Restored /\ (Passed' <=> Passed)
  BY <1>1, Steady
<1>3. room' = Room(h, n)
  BY <1>1
<1>4. (\E a, b \in Nat : room = Room(a, b) /\ a + b <= Buffer)'
  BY <1>3 DEF Room
<1>5. WasDropped'
  BY <1>1, <1>2, <1>4 DEF WasDropped
<1> QED BY <1>5 DEF WireInv

\* What a packet that is sent has to fit.
LEMMA PacketSize ==
    ASSUME NEW p \in Packets
    PROVE  /\ size(p) \in Nat /\ Headroom \in Nat /\ Headroom + size(p) <= Buffer
           /\ decrement_ttl(p).ttl # 0 => p.ttl > 1
<1>1. p.v \in {4, 6} /\ p.rest \in Seq(0 .. MAX_WORD) /\ p.ttl \in Nat
  BY PacketsAre
<1>2. Len(p.rest) \in Nat
  BY <1>1, WordsAreNumbers
<1>3. size(p) \in Nat
  <2> DEFINE n == Len(p.rest)
  <2>1. n \in Nat /\ size(p) = (IF p.v = 4 THEN 20 ELSE 40) + 2 * n
    BY <1>2 DEF size
  <2> HIDE DEF n
  <2> QED BY <2>1
<1>4. Headroom + size(p) + 16 <= Buffer /\ Headroom \in Nat /\ Buffer \in Nat
  BY WireAssumption DEF MAC_SIZE
<1> DEFINE T == Seq(0 .. MAX_WORD)
<1>5. p \in [v : {4, 6}, hl : Nat, len : Nat, frag : Nat, ttl : Nat, proto : Nat,
             sum : Nat, src : Nat, dst : Nat, rest : T]
  BY PacketsAre DEF IpPackets
<1> HIDE DEF T
<1>6. decrement_ttl(p).ttl = IF p.ttl > 0 THEN p.ttl - 1 ELSE 0
  BY <1>5 DEF decrement_ttl
<1>7. decrement_ttl(p).ttl # 0 => p.ttl > 1
  BY <1>1, <1>6
<1> QED BY <1>3, <1>4, <1>7

\* Classification of what an actor sends, with its drops.
LEMMA StepActorOutput ==
    ASSUME WireInv, actor_output PROVE WireInv'
<1>1. stage = "actor"
  BY DEF actor_output
<1>2. /\ original \in Packets /\ content = original /\ mode \subseteq {"sport", "dport"}
      /\ room = Room(Headroom, size(original)) /\ why = ""
  BY <1>1, AtActor
<1>3. size(original) \in Nat /\ Headroom \in Nat /\ Headroom + size(original) <= Buffer
  BY <1>2, PacketSize
<1>4. CASE Drop("classifier") \/ Drop("panic")
  BY <1>2, <1>3, <1>4, Dropped
<1>5. CASE Drop("ttl")
  BY <1>2, <1>3, <1>5, Dropped
<1>6. CASE /\ classify(content).result = "OK" /\ decrement_ttl(content).ttl # 0
           /\ content' = decrement_ttl(content) /\ stage' = "classified"
           /\ UNCHANGED <<why, original, mode, room, micv, mac, damaged>>
  <2>1. original.ttl > 1
    BY <1>2, <1>6, PacketSize
  <2>2. Passed
    BY <1>2, <1>6, <2>1 DEF Passed
  <2>3. Forwarded' = Forwarded /\ Passed'
    BY <1>6, <2>2, Steady
  <2>4. content' = Forwarded'
    BY <1>2, <1>6, <2>3 DEF Forwarded
  <2>5. (room = Room(Headroom, size(original)))'
    BY <1>2, <1>6
  <2>6. OnItsWay'
    BY <1>2, <1>6, <2>3, <2>4, <2>5 DEF OnItsWay
  <2> QED BY <1>2, <1>6, <2>6 DEF WireInv
<1> QED BY <1>4, <1>5, <1>6 DEF actor_output

\* The MICV and compression at the ingress adapter.
LEMMA StepPostClassify ==
    ASSUME WireInv, actor_output_post_classify PROVE WireInv'
<1>1. stage = "classified" /\ original' = original /\ mode' = mode /\ why' = why
      /\ stage' = "adapter"
  BY DEF actor_output_post_classify
<1>2. /\ Passed /\ mode \subseteq {"sport", "dport"} /\ why = "" /\ content = Forwarded
      /\ room = Room(Headroom, size(original))
  BY <1>1, AtClassified
<1> DEFINE n == size(original)  c == compressed_size(Compressed)
<1>3. /\ n \in Nat /\ size(Forwarded) = n /\ c \in Nat /\ Saved \in Nat /\ n = c + Saved
      /\ Saved >= 15 /\ Headroom + n + 16 <= Buffer
  BY <1>2, Sizes
<1>4. Headroom \in Nat /\ Buffer \in Nat /\ Headroom >= 64
  BY WireAssumption
<1>5. micv' = <<Forwarded>> /\ content' = Compressed
      /\ room' = push_header(put_tail(rewrite_front(Room(Headroom, n), n, c), 8), 1)
  <2>1. compress(classify(original).ft.proto, content) = Compressed
    BY <1>2 DEF Compressed
  <2> QED BY <1>2, <1>3, <2>1 DEF actor_output_post_classify, MAC_SIZE, A2A_SIZE
<1> HIDE DEF n, c
<1>6. rewrite_front(Room(Headroom, n), n, c) = Room(Headroom + Saved, c)
  <2>1. c <= n /\ n - c = Saved /\ Saved <= n /\ n - Saved = c
    BY <1>3
  <2>2. rewrite_front(Room(Headroom, n), n, c) = advance(Room(Headroom, n), Saved)
    BY <2>1 DEF rewrite_front
  <2>3. advance(Room(Headroom, n), Saved) = Room(Headroom + Saved, n - Saved)
    BY <1>3, <1>4, <2>1, Advance
  <2> QED BY <2>1, <2>2, <2>3
<1>7. put_tail(Room(Headroom + Saved, c), 8) = Room(Headroom + Saved, c + 8)
  <2>1. Headroom + Saved \in Nat /\ (Headroom + Saved) + c + 8 <= Buffer
    BY <1>3, <1>4
  <2> QED BY <1>3, <2>1, PutTail
<1>8. push_header(Room(Headroom + Saved, c + 8), 1) = Room(Headroom + Saved - 1, c + 9)
  <2> DEFINE x == Headroom + Saved  y == c + 8  z == c + 9
             w == Headroom + Saved - 1
  <2>1. x \in Nat /\ y \in Nat /\ 1 <= x /\ y + 1 = z /\ x - 1 = w
    BY <1>3, <1>4
  <2> HIDE DEF x, y, z, w
  <2>2. push_header(Room(x, y), 1) = Room(x - 1, y + 1)
    BY <2>1, PushHeader
  <2>3. push_header(Room(x, y), 1) = Room(w, z)
    BY <2>1, <2>2
  <2> QED BY <2>3 DEF x, y, z, w
<1>9. room' = Room(Headroom + Saved - 1, c + 9)
  BY <1>5, <1>6, <1>7, <1>8
<1>10. Forwarded' = Forwarded /\ Compressed' = Compressed /\ Saved' = Saved /\ Passed'
  BY <1>1, <1>2, Steady
<1>11. (room = Room(Headroom + Saved - 1, compressed_size(Compressed) + 9))'
  BY <1>9, <1>10 DEF c, compressed_size
<1>12. OnItsWay'
  BY <1>1, <1>2, <1>5, <1>10, <1>11 DEF OnItsWay
<1> QED BY <1>1, <1>2, <1>12 DEF WireInv

\* MACs are equal only if they are of the same contents.
LEMMA SameSingle ==
    ASSUME NEW a, NEW b, <<a>> = <<b>>
    PROVE  a = b
<1>1. <<a>>[1] = a /\ <<b>>[1] = b
  OBVIOUS
<1> DEFINE s == <<a>>  t == <<b>>
<1>2. s[1] = a /\ t[1] = b /\ s = t
  BY <1>1
<1> HIDE DEF s, t
<1> QED BY <1>2

\* Sizes at the hops.
LEMMA HopSizes ==
    ASSUME WireInv, stage \in {"adapter", "hop1", "node", "hop2", "arrived", "delivered"}
    PROVE  LET c == compressed_size(Compressed)
           IN  /\ c \in Nat /\ Saved \in Nat /\ size(original) \in Nat
               /\ size(original) = c + Saved /\ Saved >= 15 /\ Saved <= 41
               /\ Headroom \in Nat /\ Buffer \in Nat /\ Headroom >= 64
               /\ Headroom + c + Saved + 16 <= Buffer
<1>1. Passed
  BY AtHops
<1> DEFINE c == compressed_size(Compressed)  n == size(original)
<1>2. /\ n \in Nat /\ c \in Nat /\ Saved \in Nat /\ n = c + Saved
      /\ Saved >= 15 /\ Saved <= 41 /\ Headroom + n + 16 <= Buffer
  BY <1>1, Sizes
<1>3. Headroom \in Nat /\ Buffer \in Nat /\ Headroom >= 64
  BY WireAssumption
<1> HIDE DEF c, n
<1>4. Headroom + c + Saved + 16 <= Buffer
  BY <1>2, <1>3
<1> QED BY <1>2, <1>3, <1>4 DEF c, n

\* A packet is sent to the next hop.
LEMMA StepForward ==
    ASSUME WireInv, forward("adapter", "hop1") \/ forward("node", "hop2") PROVE WireInv'
<1>1. /\ (stage = "adapter" /\ stage' = "hop1") \/ (stage = "node" /\ stage' = "hop2")
      /\ room' = substrate_egress_common(push_header(room, FLOW_SIZE + BASE_SIZE), TRUE)
      /\ mac' = <<content>> /\ micv' = micv /\ why' = why /\ original' = original /\ mode' = mode
  BY DEF forward
<1>2. /\ Passed /\ mode \subseteq {"sport", "dport"} /\ why = "" /\ micv = <<Forwarded>>
      /\ content = Compressed
  BY <1>1, AtHops, AtEachHop
<1> DEFINE c == compressed_size(Compressed)
<1>3. /\ c \in Nat /\ Saved \in Nat /\ Saved >= 15
      /\ Headroom \in Nat /\ Buffer \in Nat /\ Headroom >= 64 /\ Headroom + c + Saved + 16 <= Buffer
  BY <1>1, HopSizes
<1>4. Forwarded' = Forwarded /\ Compressed' = Compressed /\ Saved' = Saved /\ Passed'
  BY <1>1, <1>2, Steady
<1>5. c' = c
  BY <1>4 DEF compressed_size
<1>6. CASE stage = "adapter"
  <2> DEFINE h == Headroom + Saved - 1  l == c + 9  g == Headroom + Saved - 8  m == c + 24
  <2>1. h \in Nat /\ l \in Nat /\ h >= 7 /\ h + l + 8 <= Buffer /\ h - 7 = g /\ l + 15 = m
    <3> HIDE DEF c
    <3> QED BY <1>3
  <2>2. room = Room(h, l)
    BY <1>6, AtEachHop
  <2> HIDE DEF h, l, g, m
  <2>3. room' = Room(h - 7, l + 15)
    BY <1>1, <2>1, <2>2, HopOut
  <2>4. room' = Room(g, m)
    BY <2>1, <2>3
  <2>5. (room = Room(Headroom + Saved - 8, compressed_size(Compressed) + 24))'
    BY <1>4, <1>5, <2>4 DEF g, m
  <2>6. OnItsWay'
    BY <1>1, <1>2, <1>4, <1>6, <2>5 DEF OnItsWay
  <2> QED BY <1>1, <1>2, <2>6 DEF WireInv
<1>7. CASE stage = "node"
  <2> DEFINE h == Headroom + 7  l == c + 9  m == c + 24
  <2>1. h \in Nat /\ l \in Nat /\ h >= 7 /\ h + l + 8 <= Buffer /\ h - 7 = Headroom /\ l + 15 = m
    <3> HIDE DEF c
    <3> QED BY <1>3
  <2>2. room = Room(h, l)
    BY <1>7, AtEachHop
  <2> HIDE DEF h, l, m
  <2>3. room' = Room(h - 7, l + 15)
    BY <1>1, <2>1, <2>2, HopOut
  <2>4. room' = Room(Headroom, m)
    BY <2>1, <2>3
  <2>5. (room = Room(Headroom, compressed_size(Compressed) + 24))'
    BY <1>4, <1>5, <2>4 DEF m
  <2>6. OnItsWay'
    BY <1>1, <1>2, <1>4, <1>7, <2>5 DEF OnItsWay
  <2> QED BY <1>1, <1>2, <2>6 DEF WireInv
<1> QED BY <1>1, <1>6, <1>7

\* A hop checks the MAC and takes the packet, or drops it.
LEMMA StepReceive ==
    ASSUME WireInv, receive("hop1", "node") \/ receive("hop2", "arrived") PROVE WireInv'
<1>1. (stage = "hop1" /\ receive("hop1", "node")) \/ (stage = "hop2" /\ receive("hop2", "arrived"))
  BY DEF receive
<1> DEFINE c == compressed_size(Compressed)  l == c + 24
<1>2. /\ Passed /\ mode \subseteq {"sport", "dport"} /\ why = "" /\ micv = <<Forwarded>>
      /\ mac = <<Compressed>>
  BY <1>1, AtHops, AtEachHop
<1>3. /\ c \in Nat /\ Saved \in Nat /\ Saved >= 15
      /\ Headroom \in Nat /\ Buffer \in Nat /\ Headroom >= 64 /\ Headroom + c + Saved + 16 <= Buffer
  BY <1>1, HopSizes
<1>4. PICK h \in Nat : room = Room(h, l) /\ h + l <= Buffer
  <2>1. CASE stage = "hop1"
    <3>1. room = Room(Headroom + Saved - 8, l)
      BY <2>1, AtEachHop
    <3> HIDE DEF c
    <3>2. Headroom + Saved - 8 \in Nat /\ (Headroom + Saved - 8) + l <= Buffer
      BY <1>3
    <3> HIDE DEF l
    <3> QED BY <3>1, <3>2
  <2>2. CASE stage = "hop2"
    <3>1. room = Room(Headroom, l)
      BY <2>2, AtEachHop
    <3> HIDE DEF c
    <3>2. Headroom + l <= Buffer
      BY <1>3
    <3> HIDE DEF l
    <3> QED BY <1>3, <3>1, <3>2
  <2> QED BY <1>1, <2>1, <2>2
<1>5. l \in Nat /\ l >= 15 /\ Headroom + l <= Buffer /\ l - 15 = c + 9 /\ ~(l > Buffer - Headroom)
  <2> HIDE DEF c
  <2> QED BY <1>3
<1>6. room.len = l
  BY <1>4, RoomIs
<1> HIDE DEF l
<1>7. CASE Drop("damaged")
  BY <1>4, <1>5, <1>7, Dropped
<1>8. ASSUME NEW to, stage' = to,
             mac = <<content>>, room' = advance(substrate_ingress(new(room.len), TRUE), FLOW_SIZE),
             micv' = micv, why' = why, original' = original, mode' = mode, content' = content
      PROVE  /\ Passed' /\ mode' \subseteq {"sport", "dport"} /\ why' = ""
             /\ micv' = <<Forwarded'>> /\ content' = Compressed'
             /\ room' = Room(Headroom + 7, compressed_size(Compressed') + 9)
  <2>1. Forwarded' = Forwarded /\ Compressed' = Compressed /\ Passed'
    BY <1>2, <1>8, Steady
  <2>2. content = Compressed
    BY <1>2, <1>8, SameSingle
  <2>3. advance(substrate_ingress(new(l), TRUE), FLOW_SIZE) = Room(Headroom + 7, l - 15)
    BY <1>5, HopIn
  <2>4. room' = Room(Headroom + 7, c + 9)
    BY <1>5, <1>6, <1>8, <2>3
  <2> QED BY <1>2, <1>8, <2>1, <2>2, <2>4
<1>9. CASE /\ stage' \in {"node", "arrived"} /\ mac = <<content>>
           /\ room' = advance(substrate_ingress(new(room.len), TRUE), FLOW_SIZE)
           /\ UNCHANGED <<why, original, mode, content, micv, damaged>>
  <2>1. /\ Passed' /\ mode' \subseteq {"sport", "dport"} /\ why' = ""
        /\ micv' = <<Forwarded'>> /\ content' = Compressed'
        /\ room' = Room(Headroom + 7, compressed_size(Compressed') + 9)
    BY <1>8, <1>9
  <2>2. OnItsWay'
    BY <1>9, <2>1 DEF OnItsWay
  <2> QED BY <2>1, <2>2 DEF WireInv
<1> QED BY <1>1, <1>5, <1>6, <1>7, <1>9 DEF receive

\* A packet is changed on its way.
LEMMA StepDamage ==
    ASSUME WireInv, Damage PROVE WireInv'
<1>1. /\ stage \in {"hop1", "hop2"} /\ stage' = stage /\ why' = why /\ original' = original
      /\ mode' = mode /\ room' = room /\ micv' = micv /\ mac' = mac
  BY DEF Damage
<1>2. /\ Passed /\ mode \subseteq {"sport", "dport"} /\ why = "" /\ micv = <<Forwarded>>
      /\ mac = <<Compressed>>
  BY <1>1, AtHops, AtEachHop
<1>3. Forwarded' = Forwarded /\ Compressed' = Compressed /\ Saved' = Saved /\ Passed'
  BY <1>1, <1>2, Steady
<1>4. /\ stage = "hop1" => room = Room(Headroom + Saved - 8, compressed_size(Compressed) + 24)
      /\ stage = "hop2" => room = Room(Headroom, compressed_size(Compressed) + 24)
  BY AtEachHop
<1>5. compressed_size(Compressed)' = compressed_size(Compressed)
  BY <1>3 DEF compressed_size
<1>6. /\ stage = "hop1" => (room = Room(Headroom + Saved - 8, compressed_size(Compressed) + 24))'
      /\ stage = "hop2" => (room = Room(Headroom, compressed_size(Compressed) + 24))'
  BY <1>1, <1>3, <1>4, <1>5
<1>7. OnItsWay'
  BY <1>1, <1>2, <1>3, <1>6 DEF OnItsWay
<1> QED BY <1>1, <1>2, <1>7 DEF WireInv

\* Expansion and the MICV at the egress adapter.
LEMMA StepActorInput ==
    ASSUME WireInv, actor_input PROVE WireInv'
<1>1. stage = "arrived"
  BY DEF actor_input
<1> DEFINE c == compressed_size(Compressed)  n == size(original)
<1>2. /\ Passed /\ mode \subseteq {"sport", "dport"} /\ why = "" /\ micv = <<Forwarded>>
      /\ content = Compressed /\ room = Room(Headroom + 7, c + 9)
  BY <1>1, AtHops, AtEachHop
<1>3. /\ c \in Nat /\ Saved \in Nat /\ n \in Nat /\ n = c + Saved /\ Saved >= 15 /\ Saved <= 41
      /\ Headroom \in Nat /\ Buffer \in Nat /\ Headroom >= 64 /\ Headroom + c + Saved + 16 <= Buffer
  BY <1>1, HopSizes
<1>4. expand(classify(original).ft, content) = Restored
  BY <1>2 DEF Restored
<1>5. CASE ~a2a_mac_matches(Restored) /\ Drop("micv")
  <2>1. Restored # Forwarded
    BY <1>2, <1>5 DEF a2a_mac_matches
  <2> DEFINE h == Headroom + 7  l == c + 9
  <2>2. h \in Nat /\ l \in Nat /\ h + l <= Buffer
    <3> HIDE DEF c, n
    <3> QED BY <1>3
  <2>3. room = Room(h, l)
    BY <1>2
  <2> HIDE DEF h, l
  <2> QED BY <1>2, <1>5, <2>1, <2>2, <2>3, Dropped
<1>6. CASE /\ a2a_mac_matches(Restored) /\ content' = Restored /\ stage' = "delivered"
           /\ room' = rewrite_front(shrink_by(advance(room, A2A_SIZE), MAC_SIZE),
                                    compressed_size(content), size(Restored))
           /\ UNCHANGED <<why, original, mode, micv, mac, damaged>>
  <2>1. Restored = Forwarded
    BY <1>2, <1>6, SameSingle DEF a2a_mac_matches
  <2>2. size(Restored) = n
    BY <1>2, <2>1, Sizes
  <2>3. room' = rewrite_front(shrink_by(advance(Room(Headroom + 7, c + 9), 1), 8), c, n)
    BY <1>2, <1>6, <2>2 DEF A2A_SIZE, MAC_SIZE
  <2>4. Forwarded' = Forwarded /\ Restored' = Restored /\ Saved' = Saved /\ Passed'
    BY <1>2, <1>6, Steady
  <2> DEFINE h == Headroom + 7  l == c + 9  g == Headroom + 8  m == c + 8  k == Headroom + 8 - Saved
  <2>5. /\ h \in Nat /\ l \in Nat /\ 1 <= l /\ h + 1 = g /\ l - 1 = m
        /\ g \in Nat /\ m \in Nat /\ 8 <= m /\ m - 8 = c
        /\ ~(n <= c) /\ n - c = Saved /\ Saved <= g /\ g - Saved = k /\ c + Saved = n
    <3> HIDE DEF c, n
    <3> QED BY <1>3
  <2> HIDE DEF h, l, g, m, k, c, n
  <2>6. advance(Room(h, l), 1) = Room(g, m)
    <3>1. advance(Room(h, l), 1) = Room(h + 1, l - 1)
      BY <2>5, Advance
    <3> QED BY <2>5, <3>1
  <2>7. shrink_by(Room(g, m), 8) = Room(g, c)
    <3>1. shrink_by(Room(g, m), 8) = Room(g, m - 8)
      BY <2>5, ShrinkBy
    <3> QED BY <2>5, <3>1
  <2>8. rewrite_front(Room(g, c), c, n) = Room(k, n)
    <3>1. rewrite_front(Room(g, c), c, n) = push_header(Room(g, c), Saved)
      BY <2>5 DEF rewrite_front
    <3>2. push_header(Room(g, c), Saved) = Room(g - Saved, c + Saved)
      BY <1>3, <2>5, PushHeader
    <3> QED BY <2>5, <3>1, <3>2
  <2>9. room' = Room(k, n)
    BY <2>3, <2>6, <2>7, <2>8 DEF h, l
  <2>10. (room = Room(Headroom + 8 - Saved, size(original)))'
    BY <1>6, <2>4, <2>9 DEF k, n
  <2>11. OnItsWay'
    BY <1>2, <1>6, <2>1, <2>4, <2>10 DEF OnItsWay
  <2> QED BY <1>2, <1>6, <2>11 DEF WireInv
<1> QED BY <1>4, <1>5, <1>6 DEF actor_input

\* A management message is encrypted and sent.
LEMMA StepSendMessage ==
    ASSUME WireInv, send_message PROVE WireInv'
<1>1. /\ stage = "message" /\ stage' = "encrypted" /\ original' = original /\ why' = why
      /\ room' = substrate_egress_common(deserialize_into(room), FALSE)
  BY DEF send_message
<1>2. /\ original \in {[v |-> 0, size |-> n] : n \in Messages} /\ why = ""
      /\ room = Room(Headroom, original.size)
  BY <1>1, AtMessage DEF MessageOnItsWay
<1>3. PICK n \in Messages : original = [v |-> 0, size |-> n]
  BY <1>2
<1>4. /\ original.size = n /\ n \in Nat /\ n >= BASE_SIZE
      /\ Headroom + n + ZPI_SIZE + Overhead <= Buffer
  BY <1>3, WireAssumption
<1>5. PICK h \in Nat :
        /\ substrate_egress_common(deserialize_into(Room(Headroom, n)), FALSE)
             = Room(h, n + ZPI_SIZE + Overhead)
        /\ h + (n + ZPI_SIZE + Overhead) <= Buffer
  BY <1>4, MessageOut
<1>6. room' = Room(h, n + ZPI_SIZE + Overhead) /\ room'.len = n + ZPI_SIZE + Overhead
  <2> DEFINE l == n + ZPI_SIZE + Overhead
  <2>1. room' = Room(h, l)
    BY <1>1, <1>2, <1>4, <1>5
  <2> HIDE DEF l
  <2>2. room'.len = l
    BY <2>1, RoomIs
  <2> QED BY <2>1, <2>2 DEF l
<1>7. original'.size = n
  BY <1>1, <1>4
<1>8. (\E g \in Nat : /\ room = Room(g, original.size + ZPI_SIZE + Overhead)
                      /\ g + room.len <= Buffer)'
  BY <1>5, <1>6, <1>7 DEF Room, ZPI_SIZE
<1>9. MessageOnItsWay'
  BY <1>1, <1>2, <1>8 DEF MessageOnItsWay
<1> QED BY <1>1, <1>2, <1>9 DEF WireInv

\* A management message is decrypted.
LEMMA StepReceiveMessage ==
    ASSUME WireInv, receive_message PROVE WireInv'
<1>1. stage = "encrypted"
  BY DEF receive_message
<1>2. /\ original \in {[v |-> 0, size |-> n] : n \in Messages} /\ why = ""
      /\ \E h \in Nat : room = Room(h, original.size + ZPI_SIZE + Overhead)
  BY <1>1, AtMessage DEF MessageOnItsWay
<1>3. PICK n \in Messages : original = [v |-> 0, size |-> n]
  BY <1>2
<1>4. /\ original.size = n /\ n \in Nat /\ n >= BASE_SIZE
      /\ Headroom + n + ZPI_SIZE + Overhead <= Buffer
      /\ Headroom \in Nat /\ Buffer \in Nat /\ Overhead \in Nat
  BY <1>3, WireAssumption
<1>5. room.len = n + ZPI_SIZE + Overhead
  <2> DEFINE l == n + ZPI_SIZE + Overhead
  <2>1. PICK h \in Nat : room = Room(h, l)
    BY <1>2, <1>4
  <2> HIDE DEF l
  <2>2. room.len = l
    BY <2>1, RoomIs
  <2> QED BY <2>2 DEF l
<1>6. ~(room.len > Buffer - Headroom)
  BY <1>4, <1>5 DEF ZPI_SIZE
<1>7. /\ stage' = "dispatched" /\ original' = original /\ why' = why
      /\ room' = push_header(substrate_ingress(new(n + ZPI_SIZE + Overhead), FALSE), BASE_SIZE)
  BY <1>5, <1>6 DEF receive_message
<1>8. PICK h \in Nat :
        /\ push_header(substrate_ingress(new(n + ZPI_SIZE + Overhead), FALSE), BASE_SIZE) = Room(h, n)
        /\ h + n <= Buffer
  BY <1>4, MessageIn
<1>9. room' = Room(h, n) /\ room'.len = n /\ original'.size = n
  <2>1. room' = Room(h, n)
    BY <1>7, <1>8
  <2>2. room'.len = n
    BY <2>1, RoomIs
  <2> QED BY <1>4, <1>7, <2>1, <2>2
<1>10. (\E g \in Nat : room = Room(g, original.size) /\ g + room.len <= Buffer)'
  BY <1>8, <1>9 DEF Room
<1>11. MessageOnItsWay'
  BY <1>2, <1>7, <1>10 DEF MessageOnItsWay
<1> QED BY <1>2, <1>7, <1>11 DEF WireInv

\* A packet or a message that is about to be sent.
LEMMA WireStarts ==
    ASSUME WireInit PROVE WireInv
<1>1. why = ""
  BY DEF WireInit
<1>2. CASE /\ stage = "actor" /\ original \in Packets /\ content = original
           /\ mode \subseteq {"sport", "dport"} /\ room = new(size(original))
  <2>1. size(original) \in Nat /\ Headroom + size(original) <= Buffer
    BY <1>2, PacketSize
  <2>2. room = Room(Headroom, size(original))
    BY <1>2, <2>1, NewRoom
  <2>3. OnItsWay
    BY <1>2, <2>2 DEF OnItsWay
  <2> QED BY <1>1, <2>3 DEF WireInv
<1>3. CASE /\ stage = "message" /\ original \in {[v |-> 0, size |-> n] : n \in Messages}
           /\ room = new(original.size)
  <2>1. PICK n \in Messages : original = [v |-> 0, size |-> n]
    BY <1>3
  <2>2. original.size = n /\ n \in Nat /\ Headroom + n <= Buffer
    <3>1. /\ n \in Nat /\ Headroom + n + ZPI_SIZE + Overhead <= Buffer
          /\ Headroom \in Nat /\ Overhead \in Nat /\ Buffer \in Nat
      BY <2>1, WireAssumption
    <3> QED BY <2>1, <3>1 DEF ZPI_SIZE
  <2>3. room = Room(Headroom, n)
    BY <1>3, <2>2, NewRoom
  <2>4. room = Room(Headroom, original.size)
    BY <2>2, <2>3
  <2>5. MessageOnItsWay
    BY <1>3, <2>4 DEF MessageOnItsWay
  <2> QED BY <1>1, <2>5 DEF WireInv
<1> QED BY <1>2, <1>3 DEF WireInit

\* Steps that change nothing.
LEMMA WireStutters ==
    ASSUME WireInv, UNCHANGED wire_vars PROVE WireInv'
<1>1. /\ stage' = stage /\ why' = why /\ original' = original /\ mode' = mode /\ room' = room
      /\ content' = content /\ micv' = micv /\ mac' = mac /\ damaged' = damaged
  BY DEF wire_vars
<1>2. /\ Forwarded' = Forwarded /\ Compressed' = Compressed /\ Restored' = Restored
      /\ Saved' = Saved /\ (Passed' <=> Passed)
  BY <1>1, Steady
<1>3. compressed_size(Compressed)' = compressed_size(Compressed)
  BY <1>2 DEF compressed_size
<1>4. OnItsWay => OnItsWay'
  BY <1>1, <1>2, <1>3 DEF OnItsWay
<1>5. MessageOnItsWay => MessageOnItsWay'
  BY <1>1 DEF MessageOnItsWay
<1>6. WasDropped => WasDropped'
  BY <1>1, <1>2 DEF WasDropped
<1> QED BY <1>1, <1>4, <1>5, <1>6 DEF WireInv

\* What the invariant says of every buffer.
LEMMA InvFits ==
    ASSUME WireInv PROVE PacketsFit
<1>0. Headroom \in Nat /\ Buffer \in Nat /\ Overhead \in Nat /\ Headroom >= 64
  BY WireAssumption
<1>1. \E h, n \in Nat : room = Room(h, n) /\ h + n <= Buffer
  <2>1. CASE stage \in {"actor", "classified"}
    <3>1. original \in Packets /\ room = Room(Headroom, size(original))
      BY <2>1, AtActor, AtClassified DEF Passed
    <3>2. size(original) \in Nat /\ Headroom + size(original) <= Buffer
      BY <3>1, PacketSize
    <3> QED BY <1>0, <3>1, <3>2
  <2>2. CASE stage \in {"adapter", "hop1", "node", "hop2", "arrived", "delivered"}
    <3> DEFINE c == compressed_size(Compressed)  m == size(original)
    <3>1. /\ c \in Nat /\ Saved \in Nat /\ m \in Nat /\ m = c + Saved /\ Saved >= 15 /\ Saved <= 41
          /\ Headroom + c + Saved + 16 <= Buffer
      BY <2>2, HopSizes
    <3>2. \/ room = Room(Headroom + Saved - 1, c + 9) \/ room = Room(Headroom + Saved - 8, c + 24)
          \/ room = Room(Headroom + 7, c + 9) \/ room = Room(Headroom, c + 24)
          \/ room = Room(Headroom + 8 - Saved, m)
      BY <2>2, AtEachHop
    <3> HIDE DEF c, m
    <3>3. /\ Headroom + Saved - 1 \in Nat /\ c + 9 \in Nat /\ (Headroom + Saved - 1) + (c + 9) <= Buffer
          /\ Headroom + Saved - 8 \in Nat /\ c + 24 \in Nat
          /\ (Headroom + Saved - 8) + (c + 24) <= Buffer
          /\ Headroom + 7 \in Nat /\ (Headroom + 7) + (c + 9) <= Buffer
          /\ Headroom + (c + 24) <= Buffer
          /\ Headroom + 8 - Saved \in Nat /\ (Headroom + 8 - Saved) + m <= Buffer
      BY <1>0, <3>1
    <3> QED BY <1>0, <3>1, <3>2, <3>3
  <2>3. CASE stage \in {"message", "encrypted", "dispatched"}
    <3>1. MessageOnItsWay
      BY <2>3, AtMessage
    <3>2. PICK n \in Messages : original = [v |-> 0, size |-> n]
      BY <3>1 DEF MessageOnItsWay
    <3>3. /\ original.size = n /\ n \in Nat /\ n + ZPI_SIZE + Overhead \in Nat /\ Headroom + n <= Buffer
      <4>1. n \in Nat /\ Headroom + n + ZPI_SIZE + Overhead <= Buffer
        BY <3>2, WireAssumption
      <4> QED BY <1>0, <3>2, <4>1 DEF ZPI_SIZE
    <3> DEFINE l == n + ZPI_SIZE + Overhead
    <3>4. \/ room = Room(Headroom, n)
          \/ \E h \in Nat : room = Room(h, l) /\ h + room.len <= Buffer
          \/ \E h \in Nat : room = Room(h, n) /\ h + room.len <= Buffer
      BY <3>1, <3>3 DEF MessageOnItsWay
    <3>5. l \in Nat
      BY <3>3
    <3> HIDE DEF l
    <3>6. \A h, k : room = Room(h, k) => room.len = k
      BY DEF Room
    <3> QED BY <1>0, <3>3, <3>4, <3>5, <3>6
  <2>4. CASE WasDropped
    BY <2>4 DEF WasDropped
  <2> QED BY <2>1, <2>2, <2>3, <2>4 DEF WireInv, OnItsWay, MessageOnItsWay
<1>2. PICK h, n \in Nat : room = Room(h, n) /\ h + n <= Buffer
  BY <1>1
<1>3. room.head = h /\ room.len = n /\ room.ok
  BY <1>2, RoomIs
<1>4. room.head >= 0 /\ tailroom_available(room) >= 0
  BY <1>0, <1>2, <1>3 DEF tailroom_available
<1>5. ASSUME stage = "delivered" PROVE room.len = size(content)
  <2>1. Passed /\ content = Forwarded /\ room = Room(Headroom + 8 - Saved, size(original))
    BY <1>5, AtHops, AtEachHop
  <2>2. size(Forwarded) = size(original)
    BY <2>1, Sizes
  <2>3. room.len = size(original)
    BY <2>1 DEF Room
  <2> QED BY <2>1, <2>2, <2>3
<1>6. ASSUME stage = "dispatched" PROVE room.len = original.size
  <2>1. MessageOnItsWay
    BY <1>6, AtMessage
  <2>2. PICK g \in Nat : room = Room(g, original.size)
    BY <1>6, <2>1 DEF MessageOnItsWay
  <2> QED BY <2>2 DEF Room
<1> QED BY <1>3, <1>4, <1>5, <1>6 DEF PacketsFit

\* What the invariant says of a packet that is delivered, and of one that is not.
LEMMA InvDelivers ==
    ASSUME WireInv PROVE DeliveredIntact
<1> SUFFICES ASSUME stage = "delivered"
             PROVE  /\ content = [original EXCEPT !.ttl = @ - 1, !.sum = content.sum]
                    /\ classify(content).result = "OK"
  BY DEF DeliveredIntact
<1>1. Passed /\ content = Forwarded /\ Restored = Forwarded
  BY AtHops, AtEachHop
<1>2. original \in Packets /\ classify(original).result = "OK" /\ original.ttl > 1
  BY <1>1 DEF Passed
<1>3. classify(content).result = "OK"
  BY <1>1, <1>2, RestoredPasses
<1>4. content.sum = original.sum /\ content = [original EXCEPT !.ttl = @ - 1]
  BY <1>1, <1>2, TtlDown DEF Forwarded
<1> DEFINE T == Seq(0 .. MAX_WORD)
<1>5. original \in [v : {4, 6}, hl : Nat, len : Nat, frag : Nat, ttl : Nat, proto : Nat,
                    sum : Nat, src : Nat, dst : Nat, rest : T]
  BY <1>2, PacketsAre DEF IpPackets
<1> HIDE DEF T
<1>6. [original EXCEPT !.ttl = @ - 1] = [original EXCEPT !.ttl = @ - 1, !.sum = original.sum]
  BY <1>5
<1> QED BY <1>3, <1>4, <1>6

\* What was dropped for its MICV could not be restored, so it was not plain.
LEMMA InvArrives ==
    ASSUME WireInv PROVE PlainArrives
<1>1. why # "oversize"
  BY DEF WireInv, WasDropped
<1>2. ASSUME why = "micv", original.v = 6, plain(original), ~minus_zero(original) PROVE FALSE
  <2>1. Passed /\ Restored # Forwarded
    BY <1>2 DEF WireInv, WasDropped
  <2>2. Restored = Forwarded
    BY <1>2, <2>1, PlainRestored
  <2> QED BY <2>1, <2>2
<1> QED BY <1>1, <1>2 DEF PlainArrives

\* The invariant holds of every packet on its way.
THEOREM WireInvariance == WireSpec => []WireInv
<1>1. WireInit => WireInv
  BY WireStarts
<1>2. WireInv /\ [WireNext]_wire_vars => WireInv'
  <2> SUFFICES ASSUME WireInv, [WireNext]_wire_vars PROVE WireInv'
    OBVIOUS
  <2>1. CASE actor_output
    BY <2>1, StepActorOutput
  <2>2. CASE actor_output_post_classify
    BY <2>2, StepPostClassify
  <2>3. CASE forward("adapter", "hop1") \/ forward("node", "hop2")
    BY <2>3, StepForward
  <2>4. CASE receive("hop1", "node") \/ receive("hop2", "arrived")
    BY <2>4, StepReceive
  <2>5. CASE actor_input
    BY <2>5, StepActorInput
  <2>6. CASE Damage
    BY <2>6, StepDamage
  <2>7. CASE send_message
    BY <2>7, StepSendMessage
  <2>8. CASE receive_message
    BY <2>8, StepReceiveMessage
  <2>9. CASE UNCHANGED wire_vars
    BY <2>9, WireStutters
  <2> QED BY <2>1, <2>2, <2>3, <2>4, <2>5, <2>6, <2>7, <2>8, <2>9 DEF WireNext
<1> QED BY <1>1, <1>2, PTL DEF WireSpec

\* No operation on the buffer of a packet or a message fails its assertion, and
\* the body is as long as its contents where it is delivered.
THEOREM BuffersFit == WireSpec => []PacketsFit
<1>1. WireInv => PacketsFit
  BY InvFits
<1> QED BY <1>1, WireInvariance, PTL

\* What an adapter delivers is what the other actor sent, with a decremented TTL,
\* and the classifier accepts it.
THEOREM WireDeliversIntact == WireSpec => []DeliveredIntact
<1>1. WireInv => DeliveredIntact
  BY InvDelivers
<1> QED BY <1>1, WireInvariance, PTL

\* No IPv6 packet without extension headers is refused by the MAC of the whole
\* way after it was expanded, whatever its ports and the classifier's wildcards
\* are, and none is too long for a receive buffer.
THEOREM PlainPacketsArrive == WireSpec => []PlainArrives
<1>1. WireInv => PlainArrives
  BY InvArrives
<1> QED BY <1>1, WireInvariance, PTL
=============================================================================
