----------------------------- MODULE KeysProofs ------------------------------
(***************************************************************************)
(* Keying a link, for any certificates, queue size and number of faults,   *)
(* closed links and handshakes: the two ends never believe in different    *)
(* keys, and a link that says hello has keys of its own.                   *)
(***************************************************************************)
EXTENDS Keys, SequenceTheorems, TLAPS

KmFields == {"id", "st", "nr", "hs", "timer", "skey", "rkey", "cert", "restart", "canceled"}

-----------------------------------------------------------------------------
(* Handshakes.  S stands for the messages that are somewhere, EA and EN     *)
(* for the transcripts of what the adapter and the node have completed and *)
(* not yet forgotten, a and n for their key managers and d for the number  *)
(* of random values drawn, each of which is higher than those before it.   *)

\* The three messages of a handshake.  The first element of a transcript is
\* the adapter's draw, the last one of the second message the node's.
First(m, d) == m.to = "N" /\ m.nr = 1 /\ m.hs \in Seq(1 .. d) /\ Len(m.hs) = 1
Second(m, d) == /\ m.to = "A" /\ m.nr = 2 /\ m.hs \in Seq(1 .. d) /\ Len(m.hs) \in {2, 3}
                /\ m.key = m.hs[Len(m.hs)]
Third(m, d) == /\ m.to = "N" /\ m.nr = 3 /\ m.hs \in Seq(1 .. d) /\ Len(m.hs) = 2
               /\ m.key = m.hs[1]

\* The handshakes that the adapter has completed, and those that the node has
\* answered.
done(S, EA, EN) == EA \cup EN \cup {m.hs : m \in {k \in S : k.nr = 3}}
made(S, EA, EN) == done(S, EA, EN) \cup {m.hs : m \in {k \in S : k.nr = 2 /\ Len(k.hs) = 2}}

Forms(S, EA, EN, d) ==
    /\ d \in Nat
    /\ \A m \in S : First(m, d) \/ Second(m, d) \/ Third(m, d)
    /\ \A h \in EA \cup EN : h \in Seq(1 .. d) /\ Len(h) = 2

\* The adapter's draw is the latest of those in use, and it completes one
\* handshake with it at most.
Latest(S, EA, EN, a, d) ==
    a.st # "None" =>
        /\ a.rkey \in 1 .. d
        /\ \A m \in S : m.hs[1] <= a.rkey
        /\ \A h \in done(S, EA, EN) : /\ h[1] <= a.rkey
                                      /\ h[1] = a.rkey => a.st = "Transport" /\ a.hs = h

\* The node answers once with its draw.
OnceAnswered(S, EA, EN, n, d) ==
    n.st # "None" =>
        /\ n.rkey \in 1 .. d
        /\ \A h \in made(S, EA, EN) : /\ h[2] <= n.rkey
                                      /\ h[2] = n.rkey => n.nr # 0 /\ h = n.hs
                                      /\ h[2] < n.rkey => h[1] < n.rkey

\* A handshake that has been completed is the only one of its first draw, and
\* the adapter's later draws come after the node's.
Ordered(S, EA, EN) ==
    \A h \in done(S, EA, EN) :
        /\ \A m \in S : m.hs[1] <= h[1] \/ m.hs[1] > h[2]
        /\ \A g \in done(S, EA, EN) : /\ g[1] <= h[1] \/ g[1] > h[2]
                                      /\ g[1] = h[1] => g = h

\* What the adapter remembers is the last that it has completed, what the node
\* remembers the last that it has answered, and they are the same.
Remembered(S, EA, EN) ==
    /\ \A h \in EA : \A g \in done(S, EA, EN) : g[1] <= h[1]
    /\ \A h \in EN : \A g \in made(S, EA, EN) : g[1] <= h[1]
    /\ \A g \in EA, h \in EN : g = h

Handshakes(S, EA, EN, a, n, d) ==
    /\ Forms(S, EA, EN, d)
    /\ Latest(S, EA, EN, a, d)
    /\ OnceAnswered(S, EA, EN, n, d)
    /\ Ordered(S, EA, EN)
    /\ Remembered(S, EA, EN)

-----------------------------------------------------------------------------
(* The two ends.                                                           *)

sent == net \cup ToSet(inq["A"]) \cup ToSet(inq["N"])

\* The associations that an end has stored or is about to.
signaled(e) == {s.sa : s \in {t \in ToSet(sigs[e]) : t.kind = "SaEstablished"}}
associations(e) == sa[e] \cup signaled(e)

established(e) ==
    {a.hs : a \in associations(e)} \cup {k.hs : k \in {l \in {km[e]} : l.st = "Transport"}}

\* Each end draws its own part of a transcript and sends it as its key.
Paired(e, hs, skey, rkey) == hs = IF e = "A" THEN <<rkey, skey>> ELSE <<skey, rkey>>

Trusted(e, cert) == e = "A" /\ Authority => cert = "verified"

\* A key manager.
KmOK(e) ==
    /\ DOMAIN km[e] = KmFields
    /\ km[e].st \in {"None", "Configuring", "Transport", "Error"}
    /\ km[e].canceled => km[e].st # "None"
    /\ km[e].st \in {"Configuring", "Error"} =>
         \/ e = "A" /\ km[e].nr = 1 /\ km[e].hs = <<km[e].rkey>>
         \/ e = "N" /\ km[e].nr = 0
         \/ e = "N" /\ km[e].nr = 2 /\ km[e].hs[Len(km[e].hs)] = km[e].rkey
    /\ km[e].st = "Transport" => /\ Paired(e, km[e].hs, km[e].skey, km[e].rkey)
                                 /\ km[e].nr = 3 /\ Trusted(e, km[e].cert)

\* What it has said: it is about the end of its own handshake.
SignalsOK(e) ==
    /\ sigs[e] \in Seq(ToSet(sigs[e]))
    /\ \A a \in associations(e) : Paired(e, a.hs, a.skey, a.rkey)
    /\ \A a \in signaled(e) : Trusted(e, a.cert)
    /\ km[e].st # "None" => \A a \in signaled(e) : km[e].st = "Transport" /\ a.km = km[e].id

\* A key manager that has to agree on keys while its end has some, which are of
\* an earlier one, hears nothing.
QueueOK(e) ==
    /\ inq[e] \in Seq(ToSet(inq[e])) /\ \A m \in ToSet(inq[e]) : m.to = e
    /\ km[e].st = "None" => inq[e] = <<>>
    /\ km[e].st \in {"Configuring", "Error"} /\ sa[e] # {} => e = "A" /\ inq[e] = <<>>

LinkOK(e) ==
    /\ link[e] \in {IF e = "A" THEN "Inactive" ELSE "Absent"} \cup Running \cup {"Closing", "Dropping"}
    /\ link[e] \in {"Inactive", "Absent"} => km[e].st = "None" /\ sigs[e] = <<>>
    /\ link[e] = "Absent" => sa[e] = {}
    /\ link[e] \in Running \cup {"Closing"} => km[e].st # "None" /\ ~km[e].canceled
    /\ link[e] \in {"Helloing", "Active"} =>
         /\ sa[e] # {}
         /\ \A a \in sa[e] : a.km = km[e].id /\ Trusted(e, a.cert)

EndOK(e) == KmOK(e) /\ SignalsOK(e) /\ QueueOK(e) /\ LinkOK(e)

Keyed == Handshakes(sent, established("A"), established("N"), km["A"], km["N"], draws)

\* The inductive invariant.
IInv ==
    /\ DOMAIN km = Ends /\ DOMAIN inq = Ends /\ DOMAIN sigs = Ends /\ DOMAIN sa = Ends
    /\ DOMAIN link = Ends
    /\ \A e \in Ends : EndOK(e)
    /\ Keyed

-----------------------------------------------------------------------------
(* What happens to handshakes.                                             *)

\* The draws in a transcript.
LEMMA Drawn ==
    ASSUME NEW d \in Nat, NEW h \in Seq(1 .. d)
    PROVE  /\ Len(h) >= 1 => h[1] \in 1 .. d
           /\ Len(h) = 2 => h[2] \in 1 .. d
           /\ h \in Seq(1 .. (d + 1))
  OBVIOUS

\* Every message has its first draw; a handshake that has been answered, both.
LEMMA Typed ==
    ASSUME NEW S, NEW EA, NEW EN, NEW d, Forms(S, EA, EN, d)
    PROVE  /\ d \in Nat
           /\ \A m \in S : m.hs \in Seq(1 .. d) /\ m.hs[1] \in 1 .. d
           /\ \A h \in made(S, EA, EN) :
                h \in Seq(1 .. d) /\ Len(h) = 2 /\ h[1] \in 1 .. d /\ h[2] \in 1 .. d
           /\ done(S, EA, EN) \subseteq made(S, EA, EN)
<1>1. d \in Nat
  BY DEF Forms
<1>2. \A m \in S : m.hs \in Seq(1 .. d) /\ Len(m.hs) >= 1
  BY DEF Forms, First, Second, Third
<1>3. \A h \in made(S, EA, EN) : h \in Seq(1 .. d) /\ Len(h) = 2
  BY SMTT(30) DEF made, done, Forms, First, Second, Third
<1>4. \A m \in S : m.hs[1] \in 1 .. d
  BY <1>1, <1>2, Drawn
<1>5. \A h \in made(S, EA, EN) : h[1] \in 1 .. d /\ h[2] \in 1 .. d
  BY <1>1, <1>3, Drawn
<1> QED BY <1>1, <1>2, <1>3, <1>4, <1>5 DEF made

\* Messages are lost or taken, associations forgotten, key managers end or give
\* up.
LEMMA Fewer ==
    ASSUME NEW S, NEW EA, NEW EN, NEW a, NEW n, NEW d, Handshakes(S, EA, EN, a, n, d),
           NEW T \in SUBSET S, NEW FA \in SUBSET EA, NEW FN \in SUBSET EN, NEW b, NEW o,
           \/ b.st = "None"
           \/ /\ a.st # "None" /\ b.rkey = a.rkey /\ b.hs = a.hs
              /\ a.st = "Transport" => b.st = "Transport",
           \/ o.st = "None"
           \/ n.st # "None" /\ o.rkey = n.rkey /\ o.hs = n.hs /\ (n.nr # 0 => o.nr # 0)
    PROVE  Handshakes(T, FA, FN, b, o, d)
<1>1. done(T, FA, FN) \subseteq done(S, EA, EN)
  BY DEF done
<1>2. made(T, FA, FN) \subseteq made(S, EA, EN)
  BY <1>1 DEF made
<1>3. Forms(T, FA, FN, d)
  BY DEF Handshakes, Forms
<1>4. Latest(T, FA, FN, b, d)
  BY <1>1 DEF Handshakes, Latest
<1>5. OnceAnswered(T, FA, FN, o, d)
  BY <1>2 DEF Handshakes, OnceAnswered
<1>6. Ordered(T, FA, FN)
  BY <1>1 DEF Handshakes, Ordered
<1>7. Remembered(T, FA, FN)
  BY <1>1, <1>2 DEF Handshakes, Remembered
<1> QED BY <1>3, <1>4, <1>5, <1>6, <1>7 DEF Handshakes

\* The adapter starts a handshake.
LEMMA AdapterDraws ==
    ASSUME NEW S, NEW EA, NEW EN, NEW a, NEW n, NEW d, Handshakes(S, EA, EN, a, n, d),
           NEW m, First(m, d + 1), m.hs[1] = d + 1, NEW b, b.rkey = d + 1
    PROVE  Handshakes(S \cup {m}, EA, EN, b, n, d + 1)
<1> DEFINE T == S \cup {m}
<1>0. d \in Nat
  BY DEF Handshakes, Forms
<1>1. /\ \A k \in S : k.hs \in Seq(1 .. d) /\ k.hs[1] \in 1 .. d
      /\ \A h \in made(S, EA, EN) :
           h \in Seq(1 .. d) /\ Len(h) = 2 /\ h[1] \in 1 .. d /\ h[2] \in 1 .. d
      /\ done(S, EA, EN) \subseteq made(S, EA, EN)
  BY Typed DEF Handshakes
<1>2. done(T, EA, EN) = done(S, EA, EN) /\ made(T, EA, EN) = made(S, EA, EN)
  BY DEF done, made, First
<1>3. Forms(T, EA, EN, d + 1)
  <2>1. \A k \in S : k.hs \in Seq(1 .. (d + 1))
    BY <1>0, <1>1, Drawn
  <2>2. \A k \in S : First(k, d + 1) \/ Second(k, d + 1) \/ Third(k, d + 1)
    BY <2>1 DEF Handshakes, Forms, First, Second, Third
  <2>3. \A h \in EA \cup EN : h \in Seq(1 .. (d + 1)) /\ Len(h) = 2
    BY <1>0, Drawn DEF Handshakes, Forms
  <2> QED BY <1>0, <2>2, <2>3 DEF Forms
<1>4. Latest(T, EA, EN, b, d + 1)
  BY <1>0, <1>1, <1>2 DEF Latest
<1>5. OnceAnswered(T, EA, EN, n, d + 1)
  BY <1>0, <1>2 DEF Handshakes, OnceAnswered
<1>6. Ordered(T, EA, EN)
  BY <1>0, <1>1, <1>2 DEF Handshakes, Ordered
<1>7. Remembered(T, EA, EN)
  BY <1>2 DEF Handshakes, Remembered
<1> QED BY <1>3, <1>4, <1>5, <1>6, <1>7 DEF Handshakes

\* The node makes a key manager, or starts again.
LEMMA NodeDraws ==
    ASSUME NEW S, NEW EA, NEW EN, NEW a, NEW n, NEW d, Handshakes(S, EA, EN, a, n, d),
           NEW o, o.rkey = d + 1
    PROVE  Handshakes(S, EA, EN, a, o, d + 1)
<1>0. d \in Nat
  BY DEF Handshakes, Forms
<1>1. /\ \A k \in S : k.hs \in Seq(1 .. d) /\ k.hs[1] \in 1 .. d
      /\ \A h \in made(S, EA, EN) :
           h \in Seq(1 .. d) /\ Len(h) = 2 /\ h[1] \in 1 .. d /\ h[2] \in 1 .. d
  BY Typed DEF Handshakes
<1>2. Forms(S, EA, EN, d + 1)
  <2>1. \A k \in S : k.hs \in Seq(1 .. (d + 1))
    BY <1>0, <1>1, Drawn
  <2>2. \A k \in S : First(k, d + 1) \/ Second(k, d + 1) \/ Third(k, d + 1)
    BY <2>1 DEF Handshakes, Forms, First, Second, Third
  <2>3. \A h \in EA \cup EN : h \in Seq(1 .. (d + 1)) /\ Len(h) = 2
    BY <1>0, Drawn DEF Handshakes, Forms
  <2> QED BY <1>0, <2>2, <2>3 DEF Forms
<1>3. Latest(S, EA, EN, a, d + 1)
  BY <1>0 DEF Handshakes, Latest
<1>4. OnceAnswered(S, EA, EN, o, d + 1)
  BY <1>0, <1>1 DEF OnceAnswered
<1> QED BY <1>2, <1>3, <1>4 DEF Handshakes

\* The node answers whatever message comes first.
LEMMA NodeAnswers ==
    ASSUME NEW S, NEW EA, NEW a, NEW n, NEW d, Handshakes(S, EA, {}, a, n, d),
           n.st # "None", n.nr = 0,
           NEW m, Second(m, d), m.key = n.rkey, \E k \in S : m.hs[1] = k.hs[1],
           NEW o, o.rkey = n.rkey, o.hs = m.hs, o.nr # 0
    PROVE  Handshakes(S \cup {m}, EA, {}, a, o, d)
<1> DEFINE T == S \cup {m}
<1>0. d \in Nat
  BY DEF Handshakes, Forms
<1>1. /\ \A k \in S : k.hs[1] \in 1 .. d
      /\ \A h \in made(S, EA, {}) : h[1] \in 1 .. d /\ h[2] \in 1 .. d
  BY Typed DEF Handshakes
<1>2. /\ done(T, EA, {}) = done(S, EA, {})
      /\ \A h \in made(T, EA, {}) : h \in made(S, EA, {}) \/ (h = m.hs /\ Len(h) = 2)
  BY DEF done, made, Second
<1>3. Forms(T, EA, {}, d)
  BY DEF Handshakes, Forms
<1>4. Latest(T, EA, {}, a, d)
  BY <1>2 DEF Handshakes, Latest
<1>5. OnceAnswered(T, EA, {}, o, d)
  <2>1. n.rkey \in 1 .. d
    BY DEF Handshakes, OnceAnswered
  <2>2. \A h \in made(S, EA, {}) : h[2] < n.rkey /\ h[1] < n.rkey
    BY <1>0, <1>1 DEF Handshakes, OnceAnswered
  <2>3. Len(m.hs) = 2 => m.hs[2] = n.rkey
    BY DEF Second
  <2>4. ASSUME NEW h \in made(T, EA, {})
        PROVE  h[2] <= o.rkey /\ (h[2] = o.rkey => h = o.hs) /\ (h[2] < o.rkey => h[1] < o.rkey)
    <3>1. CASE h \in made(S, EA, {})
      BY <1>0, <1>1, <2>1, <2>2, <3>1
    <3>2. CASE h = m.hs /\ Len(h) = 2
      BY <1>0, <2>1, <2>3, <3>2
    <3> QED BY <1>2, <3>1, <3>2
  <2> QED BY <2>1, <2>4 DEF OnceAnswered
<1>6. Ordered(T, EA, {})
  BY <1>2 DEF Handshakes, Ordered
<1>7. Remembered(T, EA, {})
  BY <1>2 DEF Handshakes, Remembered
<1> QED BY <1>3, <1>4, <1>5, <1>6, <1>7 DEF Handshakes

\* The adapter completes a handshake: the node cannot have another.
LEMMA AdapterCompletes ==
    ASSUME NEW S, NEW EN, NEW a, NEW n, NEW d, Handshakes(S, {}, EN, a, n, d),
           a.st \notin {"None", "Transport"},
           NEW k \in S, k.nr = 2, Len(k.hs) = 2, k.hs[1] = a.rkey,
           NEW m, Third(m, d), m.hs = k.hs,
           NEW b, b.st = "Transport", b.rkey = a.rkey, b.hs = k.hs
    PROVE  Handshakes(S \cup {m}, {k.hs}, EN, b, n, d)
<1> DEFINE T == S \cup {m}  h1 == k.hs  FA == {h1}
<1>0. d \in Nat
  BY DEF Handshakes, Forms
<1>1. /\ \A l \in S : l.hs[1] \in 1 .. d
      /\ \A h \in made(S, {}, EN) : h[1] \in 1 .. d /\ h[2] \in 1 .. d
      /\ done(S, {}, EN) \subseteq made(S, {}, EN)
  BY Typed DEF Handshakes
<1>2. /\ \A h \in done(T, FA, EN) : h \in done(S, {}, EN) \/ h = h1
      /\ made(T, FA, EN) = made(S, {}, EN) /\ h1 \in made(S, {}, EN)
  <2>1. \A h \in done(T, FA, EN) : h \in done(S, {}, EN) \/ h = h1
    BY DEF done
  <2>2. h1 \in made(S, {}, EN)
    BY DEF made
  <2>3. \A h \in made(T, FA, EN) : h \in made(S, {}, EN)
    BY <2>1, <2>2 DEF made, Third
  <2>4. \A h \in made(S, {}, EN) : h \in made(T, FA, EN)
    BY DEF made, done
  <2> QED BY <2>1, <2>2, <2>3, <2>4
<1>3. EN = {}
  <2> SUFFICES ASSUME NEW h \in EN PROVE FALSE
    OBVIOUS
  <2>1. h1[1] <= h[1]
    BY <1>2 DEF Handshakes, Remembered
  <2>2. h \in done(S, {}, EN)
    BY DEF done
  <2>3. h[1] <= a.rkey /\ h[1] # a.rkey
    BY <2>2 DEF Handshakes, Latest
  <2>4. h[1] \in 1 .. d /\ a.rkey \in 1 .. d
    BY <1>1, <2>2
  <2> QED BY <2>1, <2>3, <2>4
<1>4. Forms(T, FA, EN, d)
  BY DEF Handshakes, Forms, Third
<1>5. a.rkey \in 1 .. d /\ (\A l \in S : l.hs[1] <= a.rkey) /\ \A h \in done(S, {}, EN) : h[1] < a.rkey
  <2>1. a.rkey \in 1 .. d
    BY <1>1
  <2>2. \A h \in done(S, {}, EN) : h[1] <= a.rkey /\ h[1] # a.rkey /\ h[1] \in 1 .. d
    BY <1>1 DEF Handshakes, Latest
  <2>3. \A l \in S : l.hs[1] <= a.rkey
    BY DEF Handshakes, Latest
  <2> QED BY <1>0, <2>1, <2>2, <2>3
<1>6. Latest(T, FA, EN, b, d)
  <2>1. \A l \in T : l.hs[1] <= b.rkey
    BY <1>0, <1>5
  <2>2. ASSUME NEW h \in done(T, FA, EN)
        PROVE  h[1] <= b.rkey /\ (h[1] = b.rkey => b.hs = h)
    <3>1. CASE h \in done(S, {}, EN)
      BY <1>0, <1>1, <1>5, <3>1
    <3>2. CASE h = h1
      BY <1>0, <1>5, <3>2
    <3> QED BY <1>2, <3>1, <3>2
  <2> QED BY <1>5, <2>1, <2>2 DEF Latest
<1>7. OnceAnswered(T, FA, EN, n, d)
  BY <1>2 DEF Handshakes, OnceAnswered
<1>8. Ordered(T, FA, EN)
  <2>1. \A h \in done(S, {}, EN) : h1[1] <= h[1] \/ h1[1] > h[2]
    BY DEF Handshakes, Ordered
  <2>2. \A h \in done(S, {}, EN) : h[1] # h1[1] /\ h[1] <= h1[1]
    BY <1>0, <1>1, <1>5
  <2> QED BY <1>0, <1>1, <1>2, <1>5, <2>1, <2>2 DEF Handshakes, Ordered
<1>9. Remembered(T, FA, EN)
  <2>1. \A h \in done(S, {}, EN) : h[1] <= h1[1]
    BY <1>0, <1>1, <1>5
  <2>2. h1[1] <= h1[1]
    BY <1>1
  <2> QED BY <1>2, <1>3, <2>1, <2>2 DEF Remembered
<1> QED BY <1>4, <1>6, <1>7, <1>8, <1>9 DEF Handshakes

\* The node completes the handshake that the adapter has completed: the adapter
\* cannot remember another.
LEMMA NodeCompletes ==
    ASSUME NEW S, NEW EA, NEW a, NEW n, NEW d, Handshakes(S, EA, {}, a, n, d),
           n.st # "None", NEW k \in S, Third(k, d), k.hs = n.hs, k.hs[2] = n.rkey,
           NEW o, o.rkey = n.rkey, o.hs = n.hs, o.nr # 0
    PROVE  Handshakes(S, EA, {k.hs}, a, o, d)
<1> DEFINE h0 == k.hs  FN == {h0}
<1>0. d \in Nat
  BY DEF Handshakes, Forms
<1>1. /\ \A l \in S : l.hs[1] \in 1 .. d
      /\ \A h \in made(S, EA, {}) : h[1] \in 1 .. d /\ h[2] \in 1 .. d
      /\ done(S, EA, {}) \subseteq made(S, EA, {})
  BY Typed DEF Handshakes
<1>2. h0 \in done(S, EA, {})
  BY DEF done, Third
<1>3. done(S, EA, FN) = done(S, EA, {}) /\ made(S, EA, FN) = made(S, EA, {})
  BY <1>2 DEF done, made
<1>4. Forms(S, EA, FN, d)
  BY DEF Handshakes, Forms, Third
<1>5. Latest(S, EA, FN, a, d)
  BY <1>3 DEF Handshakes, Latest
<1>6. OnceAnswered(S, EA, FN, o, d)
  BY <1>3 DEF Handshakes, OnceAnswered
<1>7. Ordered(S, EA, FN)
  BY <1>3 DEF Handshakes, Ordered
<1>8. \A g \in made(S, EA, {}) : g[1] <= h0[1]
  <2> SUFFICES ASSUME NEW g \in made(S, EA, {}) PROVE g[1] <= h0[1]
    OBVIOUS
  <2>1. g[1] \in 1 .. d /\ g[2] \in 1 .. d /\ h0[1] \in 1 .. d /\ h0[2] \in 1 .. d
    BY <1>1, <1>2
  <2>2. g[2] <= h0[2] /\ (g[2] = h0[2] => g = h0) /\ (g[2] < h0[2] => g[1] < h0[2])
    BY DEF Handshakes, OnceAnswered
  <2>3. g[1] <= h0[1] \/ g[1] > h0[2]
    BY <1>2 DEF Handshakes, Ordered, made
  <2> QED BY <2>1, <2>2, <2>3
<1>9. Remembered(S, EA, FN)
  <2>1. \A g \in EA : g = h0
    <3> SUFFICES ASSUME NEW g \in EA PROVE g = h0
      OBVIOUS
    <3>1. g \in done(S, EA, {})
      BY DEF done
    <3>2. g[1] <= h0[1] /\ h0[1] <= g[1]
      BY <1>1, <1>2, <1>8, <3>1 DEF Handshakes, Remembered
    <3>3. g[1] = h0[1]
      BY <1>1, <1>2, <3>1, <3>2
    <3> QED BY <1>2, <3>1, <3>3 DEF Handshakes, Ordered
  <2> QED BY <1>3, <1>8, <2>1 DEF Handshakes, Remembered
<1> QED BY <1>4, <1>5, <1>6, <1>7, <1>9 DEF Handshakes

-----------------------------------------------------------------------------
(* Queues, and what a step leaves alone.                                   *)

\* The first element of a queue is taken.
LEMMA QueueTail ==
    ASSUME NEW q, q \in Seq(ToSet(q)), q # <<>>
    PROVE  /\ Tail(q) \in Seq(ToSet(Tail(q))) /\ Head(q) \in ToSet(q)
           /\ ToSet(Tail(q)) \subseteq ToSet(q)
<1> DEFINE S == ToSet(q)  t == Tail(q)  n == Len(q)
<1>1. /\ n \in Nat \ {0} /\ DOMAIN q = 1 .. n /\ DOMAIN t = 1 .. (n - 1) /\ Len(t) = n - 1
      /\ Head(q) = q[1] /\ (\A i \in 1 .. (n - 1) : t[i] = q[i + 1]) /\ t \in Seq(S)
  OBVIOUS
<1> HIDE DEF t, n, S
<1>2. ToSet(t) \subseteq ToSet(q)
  BY <1>1 DEF ToSet
<1>3. q[1] \in ToSet(q)
  BY <1>1 DEF ToSet
<1>4. \A i \in 1 .. (n - 1) : t[i] \in ToSet(t)
  BY <1>1 DEF ToSet
<1>5. t \in Seq(ToSet(t))
  BY <1>1, <1>4
<1> QED BY <1>1, <1>2, <1>3, <1>5 DEF t

\* An element joins a queue.
LEMMA QueueAppend ==
    ASSUME NEW q, q \in Seq(ToSet(q)), NEW x
    PROVE  /\ Append(q, x) \in Seq(ToSet(Append(q, x)))
           /\ ToSet(Append(q, x)) = ToSet(q) \cup {x}
           /\ q \o <<x>> = Append(q, x) /\ q \o <<>> = q
<1> DEFINE S == ToSet(q) \cup {x}  t == Append(q, x)  n == Len(q)
<1>1. q \in Seq(S) /\ x \in S
  <2>1. ToSet(q) \subseteq S
    OBVIOUS
  <2> HIDE DEF S
  <2> QED BY <2>1 DEF S
<1> HIDE DEF S
<1>2. /\ n \in Nat /\ DOMAIN q = 1 .. n /\ DOMAIN t = 1 .. (n + 1) /\ t \in Seq(S)
      /\ t[n + 1] = x /\ \A i \in 1 .. n : t[i] = q[i]
  BY <1>1
<1>3. q \o <<x>> = t /\ q \o <<>> = q
  BY <1>1
<1> HIDE DEF t, n
<1>4. n + 1 \in DOMAIN t /\ \A i \in DOMAIN q : i \in DOMAIN t /\ t[i] = q[i]
  BY <1>2
<1>5. \A i \in DOMAIN t : t[i] = x \/ \E j \in DOMAIN q : t[i] = q[j]
  BY <1>2
<1>6. ToSet(t) \subseteq ToSet(q) \cup {x}
  BY <1>5 DEF ToSet
<1>7. x \in ToSet(t)
  BY <1>2, <1>4 DEF ToSet
<1>8. ToSet(q) \subseteq ToSet(t)
  BY <1>4 DEF ToSet
<1>9. ToSet(t) = ToSet(q) \cup {x}
  BY <1>6, <1>7, <1>8
<1> QED BY <1>2, <1>3, <1>9 DEF t, S

\* The empty queue, and one of one element.
LEMMA QueueShort ==
    ASSUME NEW x
    PROVE  /\ <<>> \in Seq(ToSet(<<>>)) /\ ToSet(<<>>) = {}
           /\ <<x>> \in Seq(ToSet(<<x>>)) /\ ToSet(<<x>>) = {x}
  BY DEF ToSet

\* An end that a step leaves alone.
LEMMA SameEnd ==
    ASSUME NEW d \in Ends, EndOK(d), km'[d] = km[d], sigs'[d] = sigs[d], inq'[d] = inq[d],
           sa'[d] = sa[d], link'[d] = link[d]
    PROVE  EndOK(d)' /\ established(d)' = established(d)
<1>1. signaled(d)' = signaled(d) /\ associations(d)' = associations(d)
  BY DEF signaled, associations
<1>2. KmOK(d)'
  BY DEF EndOK, KmOK
<1>3. SignalsOK(d)'
  BY <1>1 DEF EndOK, SignalsOK
<1>4. QueueOK(d)'
  BY DEF EndOK, QueueOK
<1>5. LinkOK(d)'
  BY DEF EndOK, LinkOK
<1> QED BY <1>1, <1>2, <1>3, <1>4, <1>5 DEF EndOK, established

\* Messages are lost or taken, associations forgotten, key managers end or give
\* up.
LEMMA Shrinks ==
    ASSUME IInv, sent' \subseteq sent, draws' = draws,
           \A d \in Ends :
              /\ established(d)' \subseteq established(d)
              /\ \/ km'[d].st = "None"
                 \/ /\ km[d].st # "None" /\ km'[d].rkey = km[d].rkey /\ km'[d].hs = km[d].hs
                    /\ km[d].st = "Transport" => km'[d].st = "Transport"
                    /\ km[d].nr # 0 => km'[d].nr # 0
    PROVE  Keyed'
<1>1. Handshakes(sent, established("A"), established("N"), km["A"], km["N"], draws)
  BY DEF IInv, Keyed
<1>2. "A" \in Ends /\ "N" \in Ends
  BY DEF Ends
<1>3. /\ established("A")' \in SUBSET established("A")
      /\ established("N")' \in SUBSET established("N") /\ sent' \in SUBSET sent
  BY <1>2
<1>4. Handshakes(sent', established("A")', established("N")', km'["A"], km'["N"], draws)
  BY <1>1, <1>2, <1>3, Fewer
<1> QED BY <1>4 DEF Keyed

\* A step of one end.
LEMMA OneEnd ==
    ASSUME IInv, NEW e \in Ends,
           DOMAIN km' = Ends, DOMAIN inq' = Ends, DOMAIN sigs' = Ends, DOMAIN sa' = Ends,
           DOMAIN link' = Ends,
           \A d \in Ends \ {e} : /\ km'[d] = km[d] /\ sigs'[d] = sigs[d] /\ inq'[d] = inq[d]
                                 /\ sa'[d] = sa[d] /\ link'[d] = link[d]
    PROVE  /\ \A d \in Ends \ {e} : established(d)' = established(d)
           /\ EndOK(e)' /\ Keyed' => IInv'
<1>1. \A d \in Ends : EndOK(d)
  BY DEF IInv
<1>2. \A d \in Ends \ {e} : EndOK(d)' /\ established(d)' = established(d)
  BY <1>1, SameEnd
<1>3. ASSUME EndOK(e)', Keyed' PROVE IInv'
  <2>1. \A d \in Ends : EndOK(d)'
    BY <1>2, <1>3
  <2> QED BY <1>3, <2>1 DEF IInv
<1> QED BY <1>2, <1>3

\* The messages, when one end's queue changes.
LEMMA SentBy ==
    ASSUME NEW e \in Ends, \A d \in Ends \ {e} : inq'[d] = inq[d]
    PROVE  /\ net' \cup ToSet(inq'[e]) \subseteq net \cup ToSet(inq[e]) => sent' \subseteq sent
           /\ \A m : net' \cup ToSet(inq'[e]) \subseteq (net \cup ToSet(inq[e])) \cup {m}
                       => sent' \subseteq sent \cup {m}
           /\ inq'[e] = inq[e] => \A M : net' = net \cup M => sent' = sent \cup M
  BY DEF sent, Ends

\* Only the links' states change: one becomes active, or is closed.
LEMMA LinkOnly ==
    ASSUME IInv, UNCHANGED <<km, inq, net, sigs, sa, draws>>, DOMAIN link' = Ends,
           \A d \in Ends : \/ link'[d] = link[d]
                           \/ link[d] = "Helloing" /\ link'[d] = "Active"
                           \/ link[d] \in Running /\ link'[d] = "Closing"
    PROVE  IInv'
<1>1. sent' = sent
  BY DEF sent
<1>2. \A d \in Ends : signaled(d)' = signaled(d) /\ associations(d)' = associations(d)
  BY DEF signaled, associations
<1>3. \A d \in Ends : established(d)' = established(d)
  BY <1>2 DEF established
<1>4. Keyed'
  BY <1>1, <1>3 DEF IInv, Keyed, Ends
<1>5. ASSUME NEW d \in Ends PROVE EndOK(d)'
  <2>1. EndOK(d)
    BY DEF IInv
  <2>2. KmOK(d)'
    BY <2>1 DEF EndOK, KmOK
  <2>3. SignalsOK(d)'
    BY <1>2, <2>1 DEF EndOK, SignalsOK
  <2>4. QueueOK(d)'
    BY <2>1 DEF EndOK, QueueOK
  <2>5. LinkOK(d)'
    BY <2>1 DEF EndOK, LinkOK, Running
  <2> QED BY <2>2, <2>3, <2>4, <2>5 DEF EndOK
<1> QED BY <1>4, <1>5 DEF IInv

\* The steps of the link's own state machine leave the keys alone.
LEMMA LinkSteps ==
    ASSUME IInv, NEW e \in Ends, Hello(e) \/ Timeout(e) \/ Close(e) \/ Repeat PROVE IInv'
<1>1. UNCHANGED <<km, inq, net, sigs, sa, draws>>
  BY DEF Hello, Timeout, Close, Repeat
<1>2. DOMAIN link = Ends
  BY DEF IInv
<1>3. ASSUME close(e), link[e] \in Running
      PROVE  /\ DOMAIN link' = Ends
             /\ \A d \in Ends : link'[d] = link[d] \/ (link[d] \in Running /\ link'[d] = "Closing")
  BY <1>2, <1>3 DEF close, Ends, Other
<1>4. Timeout(e) \/ Close(e) => close(e) /\ link[e] \in Running
  BY DEF Timeout, Close, unanswered, Running
<1>5. /\ DOMAIN link' = Ends
      /\ \A d \in Ends : \/ link'[d] = link[d]
                         \/ link[d] = "Helloing" /\ link'[d] = "Active"
                         \/ link[d] \in Running /\ link'[d] = "Closing"
  <2>1. CASE Hello(e)
    BY <1>2, <2>1 DEF Hello
  <2>2. CASE Timeout(e) \/ Close(e)
    BY <1>3, <1>4, <2>2
  <2>3. CASE Repeat
    BY <1>2, <2>3 DEF Repeat, Ends
  <2> QED BY <2>1, <2>2, <2>3
<1> QED BY <1>1, <1>5, LinkOnly

\* A message is lost.
LEMMA LoseStep ==
    ASSUME IInv, NEW m \in net, Lose(m) PROVE IInv'
<1>1. net' = net \ {m} /\ UNCHANGED <<km, inq, sigs, sa, link, draws>>
  BY DEF Lose
<1>2. \A d \in Ends : EndOK(d)' /\ established(d)' = established(d)
  BY <1>1, SameEnd DEF IInv
<1>3. sent' \subseteq sent
  BY <1>1 DEF sent
<1>4. \A d \in Ends : km[d].st = "None" \/ km[d].st # "None"
  OBVIOUS
<1>5. Keyed'
  BY <1>1, <1>2, <1>3, <1>4, Shrinks
<1> QED BY <1>1, <1>2, <1>5 DEF IInv

\* The process of an adapter ends.
LEMMA CrashStep ==
    ASSUME IInv, Crash PROVE IInv'
<1>1. /\ km' = [km EXCEPT !["A"] = no_km] /\ inq' = [inq EXCEPT !["A"] = <<>>]
      /\ sigs' = [sigs EXCEPT !["A"] = <<>>] /\ sa' = [sa EXCEPT !["A"] = {}]
      /\ link' = [link EXCEPT !["A"] = "Inactive"] /\ net' = net /\ draws' = draws
  BY DEF Crash
<1>2. /\ "A" \in Ends /\ DOMAIN km = Ends /\ DOMAIN inq = Ends /\ DOMAIN sigs = Ends
      /\ DOMAIN sa = Ends /\ DOMAIN link = Ends
  BY DEF IInv, Ends
<1>3. /\ DOMAIN km' = Ends /\ DOMAIN inq' = Ends /\ DOMAIN sigs' = Ends /\ DOMAIN sa' = Ends
      /\ DOMAIN link' = Ends
      /\ \A d \in Ends \ {"A"} : /\ km'[d] = km[d] /\ sigs'[d] = sigs[d] /\ inq'[d] = inq[d]
                                 /\ sa'[d] = sa[d] /\ link'[d] = link[d]
      /\ km'["A"] = no_km /\ inq'["A"] = <<>> /\ sigs'["A"] = <<>> /\ sa'["A"] = {}
      /\ link'["A"] = "Inactive"
  BY <1>1, <1>2
<1>4. no_km.st = "None" /\ ~no_km.canceled /\ DOMAIN no_km = KmFields
  BY DEF no_km, new_km, KmFields
<1>5. <<>> \in Seq(ToSet(<<>>)) /\ ToSet(<<>>) = {}
  BY QueueShort
<1>6. signaled("A")' = {} /\ associations("A")' = {} /\ established("A")' = {}
  BY <1>3, <1>4, <1>5 DEF signaled, associations, established
<1>7. KmOK("A")'
  BY <1>3, <1>4 DEF KmOK
<1>8. SignalsOK("A")'
  BY <1>3, <1>5, <1>6 DEF SignalsOK
<1>9. QueueOK("A")'
  BY <1>3, <1>4, <1>5 DEF QueueOK
<1>10. LinkOK("A")'
  BY <1>3, <1>4 DEF LinkOK, Running
<1>11. \A d \in Ends \ {"A"} : established(d)' = established(d)
  BY <1>2, <1>3, OneEnd
<1>12. sent' \subseteq sent
  BY <1>1, <1>2, <1>3, <1>5, SentBy
<1>13. Keyed'
  BY <1>1, <1>3, <1>4, <1>6, <1>11, <1>12, Shrinks
<1> QED BY <1>2, <1>3, <1>7, <1>8, <1>9, <1>10, <1>13, OneEnd DEF EndOK

\* The fields of an end, and of the five functions.
LEMMA Ended ==
    ASSUME IInv, NEW e \in Ends
    PROVE  /\ DOMAIN km = Ends /\ DOMAIN inq = Ends /\ DOMAIN sigs = Ends
           /\ DOMAIN sa = Ends /\ DOMAIN link = Ends /\ DOMAIN km[e] = KmFields
           /\ EndOK(e) /\ KmOK(e) /\ SignalsOK(e) /\ QueueOK(e) /\ LinkOK(e)
  BY DEF IInv, EndOK, KmOK

\* A link is dropped: its association is forgotten and its key manager told to
\* stop.
LEMMA DropLinkStep ==
    ASSUME IInv, NEW e \in Ends, drop_link(e) PROVE IInv'
<1>1. /\ link[e] = "Closing" /\ link' = [link EXCEPT ![e] = "Dropping"]
      /\ sa' = [sa EXCEPT ![e] = {}] /\ km' = [km EXCEPT ![e].canceled = (km[e].st # "None")]
      /\ UNCHANGED <<inq, net, sigs, draws>>
  BY DEF drop_link
<1>2. /\ DOMAIN km = Ends /\ DOMAIN inq = Ends /\ DOMAIN sigs = Ends
      /\ DOMAIN sa = Ends /\ DOMAIN link = Ends /\ DOMAIN km[e] = KmFields
      /\ KmOK(e) /\ SignalsOK(e) /\ QueueOK(e) /\ LinkOK(e)
  BY Ended
<1>3. /\ DOMAIN km' = Ends /\ DOMAIN inq' = Ends /\ DOMAIN sigs' = Ends /\ DOMAIN sa' = Ends
      /\ DOMAIN link' = Ends
      /\ \A d \in Ends \ {e} : /\ km'[d] = km[d] /\ sigs'[d] = sigs[d] /\ inq'[d] = inq[d]
                               /\ sa'[d] = sa[d] /\ link'[d] = link[d]
      /\ inq'[e] = inq[e] /\ sigs'[e] = sigs[e] /\ sa'[e] = {} /\ link'[e] = "Dropping"
      /\ km'[e] = [km[e] EXCEPT !.canceled = (km[e].st # "None")]
  BY <1>1, <1>2
<1>4. /\ DOMAIN km'[e] = KmFields /\ km'[e].id = km[e].id /\ km'[e].st = km[e].st
      /\ km'[e].nr = km[e].nr /\ km'[e].hs = km[e].hs /\ km'[e].skey = km[e].skey
      /\ km'[e].rkey = km[e].rkey /\ km'[e].cert = km[e].cert
      /\ km'[e].canceled = (km[e].st # "None")
  BY <1>2, <1>3 DEF KmFields
<1>5. signaled(e)' = signaled(e) /\ associations(e)' \subseteq associations(e)
  BY <1>3 DEF signaled, associations
<1>6. established(e)' \subseteq established(e)
  BY <1>4, <1>5 DEF established
<1>7. KmOK(e)'
  BY <1>2, <1>4 DEF KmOK
<1>8. SignalsOK(e)'
  BY <1>2, <1>3, <1>4, <1>5 DEF SignalsOK
<1>9. QueueOK(e)'
  BY <1>2, <1>3, <1>4 DEF QueueOK
<1>10. LinkOK(e)'
  BY <1>3 DEF LinkOK, Running
<1>11. \A d \in Ends \ {e} : established(d)' = established(d)
  BY <1>3, OneEnd
<1>12. sent' \subseteq sent
  BY <1>1 DEF sent
<1>13. Keyed'
  BY <1>1, <1>3, <1>4, <1>6, <1>11, <1>12, Shrinks
<1> QED BY <1>3, <1>7, <1>8, <1>9, <1>10, <1>13, OneEnd DEF EndOK

\* The rest of it.
LEMMA DroppedStep ==
    ASSUME IInv, NEW e \in Ends, Dropped(e) PROVE IInv'
<1>1. /\ km[e].st = "None" /\ sigs[e] = <<>> /\ UNCHANGED <<km, inq, net, sigs, draws>>
      /\ link' = [link EXCEPT ![e] = IF e = "A" THEN "Inactive" ELSE "Absent"]
      /\ sa' = IF e = "A" THEN sa ELSE [sa EXCEPT ![e] = {}]
  BY DEF Dropped
<1>2. /\ DOMAIN km = Ends /\ DOMAIN inq = Ends /\ DOMAIN sigs = Ends
      /\ DOMAIN sa = Ends /\ DOMAIN link = Ends
      /\ KmOK(e) /\ SignalsOK(e) /\ QueueOK(e) /\ LinkOK(e)
  BY Ended
<1>3. /\ DOMAIN km' = Ends /\ DOMAIN inq' = Ends /\ DOMAIN sigs' = Ends /\ DOMAIN sa' = Ends
      /\ DOMAIN link' = Ends
      /\ \A d \in Ends \ {e} : /\ km'[d] = km[d] /\ sigs'[d] = sigs[d] /\ inq'[d] = inq[d]
                               /\ sa'[d] = sa[d] /\ link'[d] = link[d]
      /\ km'[e] = km[e] /\ inq'[e] = inq[e] /\ sigs'[e] = sigs[e]
      /\ link'[e] = (IF e = "A" THEN "Inactive" ELSE "Absent")
      /\ sa'[e] = (IF e = "A" THEN sa[e] ELSE {})
  BY <1>1, <1>2
<1>4. signaled(e)' = signaled(e) /\ associations(e)' \subseteq associations(e)
  BY <1>3 DEF signaled, associations
<1>5. established(e)' \subseteq established(e)
  BY <1>3, <1>4 DEF established
<1>6. KmOK(e)'
  BY <1>2, <1>3 DEF KmOK
<1>7. SignalsOK(e)'
  BY <1>2, <1>3, <1>4 DEF SignalsOK
<1>8. QueueOK(e)'
  BY <1>1, <1>2, <1>3 DEF QueueOK
<1>9. LinkOK(e)'
  BY <1>1, <1>3 DEF LinkOK, Running
<1>10. \A d \in Ends \ {e} : established(d)' = established(d)
  BY <1>3, OneEnd
<1>11. sent' \subseteq sent
  BY <1>1 DEF sent
<1>12. Keyed'
  BY <1>1, <1>3, <1>5, <1>10, <1>11, Shrinks
<1> QED BY <1>3, <1>6, <1>7, <1>8, <1>9, <1>12, OneEnd DEF EndOK

\* A key manager ends.
LEMMA TerminateStep ==
    ASSUME IInv, NEW e \in Ends, Terminate(e) PROVE IInv'
<1> DEFINE s == [kind |-> "Termination"]
<1>1. /\ km[e].canceled /\ km' = [km EXCEPT ![e] = no_km] /\ inq' = [inq EXCEPT ![e] = <<>>]
      /\ sigs' = [sigs EXCEPT ![e] = Append(@, s)] /\ UNCHANGED <<net, sa, link, draws>>
  BY DEF Terminate
<1>2. /\ DOMAIN km = Ends /\ DOMAIN inq = Ends /\ DOMAIN sigs = Ends
      /\ DOMAIN sa = Ends /\ DOMAIN link = Ends
      /\ KmOK(e) /\ SignalsOK(e) /\ QueueOK(e) /\ LinkOK(e)
  BY Ended
<1>3. /\ DOMAIN km' = Ends /\ DOMAIN inq' = Ends /\ DOMAIN sigs' = Ends /\ DOMAIN sa' = Ends
      /\ DOMAIN link' = Ends
      /\ \A d \in Ends \ {e} : /\ km'[d] = km[d] /\ sigs'[d] = sigs[d] /\ inq'[d] = inq[d]
                               /\ sa'[d] = sa[d] /\ link'[d] = link[d]
      /\ km'[e] = no_km /\ inq'[e] = <<>> /\ sigs'[e] = Append(sigs[e], s)
      /\ link'[e] = link[e] /\ sa'[e] = sa[e]
  BY <1>1, <1>2
<1>4. no_km.st = "None" /\ ~no_km.canceled /\ DOMAIN no_km = KmFields
  BY DEF no_km, new_km, KmFields
<1>5. sigs'[e] \in Seq(ToSet(sigs'[e])) /\ ToSet(sigs'[e]) = ToSet(sigs[e]) \cup {s}
  BY <1>2, <1>3, QueueAppend DEF SignalsOK
<1>6. signaled(e)' = signaled(e)
  BY <1>5 DEF signaled
<1>7. associations(e)' = associations(e)
  BY <1>3, <1>6 DEF associations
<1>8. established(e)' \subseteq established(e)
  BY <1>3, <1>4, <1>7 DEF established
<1>9. link[e] \notin Running \cup {"Closing", "Inactive", "Absent"}
  <2>1. km[e].st # "None"
    BY <1>1, <1>2 DEF KmOK
  <2> QED BY <1>1, <1>2, <2>1 DEF LinkOK
<1>10. KmOK(e)'
  BY <1>3, <1>4 DEF KmOK
<1>11. SignalsOK(e)'
  BY <1>2, <1>3, <1>4, <1>5, <1>6, <1>7 DEF SignalsOK
<1>12. QueueOK(e)'
  BY <1>3, <1>4, QueueShort DEF QueueOK
<1>13. LinkOK(e)'
  BY <1>2, <1>3, <1>9 DEF LinkOK, Running
<1>14. \A d \in Ends \ {e} : established(d)' = established(d)
  BY <1>3, OneEnd
<1>15. sent' \subseteq sent
  BY <1>1, <1>3, QueueShort, SentBy
<1>16. Keyed'
  BY <1>1, <1>3, <1>4, <1>8, <1>14, <1>15, Shrinks
<1> QED BY <1>3, <1>10, <1>11, <1>12, <1>13, <1>16, OneEnd DEF EndOK

\* The signal worker handles a signal.
LEMMA SignalStep ==
    ASSUME IInv, NEW e \in Ends, launch_signal_worker(e) PROVE IInv'
<1> DEFINE s == Head(sigs[e])
<1>1. /\ sigs[e] # <<>> /\ sigs' = [sigs EXCEPT ![e] = Tail(@)]
      /\ UNCHANGED <<km, inq, net, draws>>
      /\ \/ s.kind = "SaEstablished" /\ SaEstablished(e, s.sa)
         \/ UNCHANGED <<sa, link>>
  BY DEF launch_signal_worker
<1>2. /\ DOMAIN km = Ends /\ DOMAIN inq = Ends /\ DOMAIN sigs = Ends
      /\ DOMAIN sa = Ends /\ DOMAIN link = Ends
      /\ KmOK(e) /\ SignalsOK(e) /\ QueueOK(e) /\ LinkOK(e)
  BY Ended
<1>3. sigs[e] \in Seq(ToSet(sigs[e]))
  BY <1>2 DEF SignalsOK
<1>4. /\ Tail(sigs[e]) \in Seq(ToSet(Tail(sigs[e]))) /\ s \in ToSet(sigs[e])
      /\ ToSet(Tail(sigs[e])) \subseteq ToSet(sigs[e])
  BY <1>1, <1>3, QueueTail
<1> HIDE DEF s
<1>5. /\ \A d \in Ends \ {e} : sigs'[d] = sigs[d]
      /\ sigs'[e] = Tail(sigs[e]) /\ DOMAIN sigs' = Ends
  BY <1>1, <1>2
<1>6. signaled(e)' \subseteq signaled(e)
  BY <1>4, <1>5 DEF signaled
<1>7. present(e)
  BY <1>1, <1>2 DEF LinkOK, present
<1>8. /\ DOMAIN sa' = Ends /\ DOMAIN link' = Ends
      /\ \A d \in Ends \ {e} : sa'[d] = sa[d] /\ link'[d] = link[d]
      /\ \/ /\ s.sa \in signaled(e) /\ sa'[e] = {s.sa}
            /\ link'[e] = (IF link[e] = "Keying" THEN "Helloing" ELSE link[e])
         \/ sa'[e] = sa[e] /\ link'[e] = link[e]
  <2>1. CASE s.kind = "SaEstablished" /\ SaEstablished(e, s.sa)
    <3>1. s.sa \in signaled(e)
      BY <1>4, <2>1 DEF signaled
    <3> QED BY <1>2, <1>7, <2>1, <3>1 DEF SaEstablished, process_keying_done
  <2>2. CASE UNCHANGED <<sa, link>>
    BY <1>2, <2>2
  <2> QED BY <1>1, <2>1, <2>2
<1>9. associations(e)' \subseteq associations(e)
  BY <1>6, <1>8 DEF associations
<1>10. established(e)' \subseteq established(e)
  BY <1>1, <1>9 DEF established
<1>11. KmOK(e)'
  BY <1>1, <1>2 DEF KmOK
<1>12. SignalsOK(e)'
  BY <1>1, <1>2, <1>4, <1>5, <1>6, <1>9 DEF SignalsOK
<1>13. QueueOK(e)'
  <2>1. km[e].st \in {"Configuring", "Error"} => signaled(e) = {}
    BY <1>2 DEF SignalsOK
  <2>2. km[e].st \in {"Configuring", "Error"} => sa'[e] = sa[e]
    BY <1>8, <2>1
  <2> QED BY <1>1, <1>2, <2>2 DEF QueueOK
<1>14. LinkOK(e)'
  <2>1. CASE s.sa \in signaled(e) /\ sa'[e] = {s.sa}
             /\ link'[e] = (IF link[e] = "Keying" THEN "Helloing" ELSE link[e])
    <3>1. Trusted(e, s.sa.cert)
      BY <1>2, <2>1 DEF SignalsOK
    <3>2. km[e].st # "None" => s.sa.km = km[e].id
      BY <1>2, <2>1 DEF SignalsOK
    <3>3. link[e] \notin {"Inactive", "Absent"}
      BY <1>1, <1>2 DEF LinkOK
    <3>4. link'[e] \in {"Helloing", "Active"} => \A a \in sa'[e] : a.km = km[e].id /\ Trusted(e, a.cert)
      BY <1>2, <2>1, <3>1, <3>2 DEF LinkOK, Running
    <3> QED BY <1>1, <1>2, <2>1, <3>3, <3>4 DEF LinkOK, Running
  <2>2. CASE sa'[e] = sa[e] /\ link'[e] = link[e]
    <3>1. link[e] \notin {"Inactive", "Absent"}
      BY <1>1, <1>2 DEF LinkOK
    <3> QED BY <1>1, <1>2, <2>2, <3>1 DEF LinkOK
  <2> QED BY <1>8, <2>1, <2>2
<1>15. \A d \in Ends \ {e} : established(d)' = established(d)
  BY <1>1, <1>2, <1>5, <1>8, OneEnd
<1>16. sent' \subseteq sent
  BY <1>1 DEF sent
<1>17. Keyed'
  BY <1>1, <1>10, <1>15, <1>16, Shrinks
<1> QED BY <1>1, <1>2, <1>5, <1>8, <1>11, <1>12, <1>13, <1>14, <1>17, OneEnd DEF EndOK

\* A key manager is asked to restart.
LEMMA RestartStep ==
    ASSUME IInv, NEW e \in Ends, restart(e) PROVE IInv'
<1>1. /\ UNCHANGED <<inq, net, sigs, sa, link, draws>>
      /\ km' = [km EXCEPT ![e].restart = TRUE] \/ km' = km
  BY DEF restart
<1>2. /\ DOMAIN km = Ends /\ DOMAIN inq = Ends /\ DOMAIN sigs = Ends
      /\ DOMAIN sa = Ends /\ DOMAIN link = Ends /\ DOMAIN km[e] = KmFields
      /\ KmOK(e) /\ SignalsOK(e) /\ QueueOK(e) /\ LinkOK(e)
  BY Ended
<1>3. /\ DOMAIN km' = Ends /\ \A d \in Ends \ {e} : km'[d] = km[d]
      /\ km'[e] = [km[e] EXCEPT !.restart = TRUE] \/ km'[e] = km[e]
  BY <1>1, <1>2
<1>4. /\ DOMAIN km'[e] = KmFields /\ km'[e].id = km[e].id /\ km'[e].st = km[e].st
      /\ km'[e].nr = km[e].nr /\ km'[e].hs = km[e].hs /\ km'[e].skey = km[e].skey
      /\ km'[e].rkey = km[e].rkey /\ km'[e].cert = km[e].cert
      /\ km'[e].canceled = km[e].canceled
  BY <1>2, <1>3 DEF KmFields
<1>5. signaled(e)' = signaled(e) /\ associations(e)' = associations(e)
  BY <1>1 DEF signaled, associations
<1>6. established(e)' \subseteq established(e)
  BY <1>4, <1>5 DEF established
<1>7. KmOK(e)'
  BY <1>2, <1>4 DEF KmOK
<1>8. SignalsOK(e)'
  BY <1>1, <1>2, <1>4, <1>5 DEF SignalsOK
<1>9. QueueOK(e)'
  BY <1>1, <1>2, <1>4 DEF QueueOK
<1>10. LinkOK(e)'
  BY <1>1, <1>2, <1>4 DEF LinkOK
<1>11. \A d \in Ends \ {e} : established(d)' = established(d)
  BY <1>1, <1>2, <1>3, OneEnd
<1>12. sent' \subseteq sent
  BY <1>1 DEF sent
<1>13. Keyed'
  BY <1>1, <1>3, <1>4, <1>6, <1>11, <1>12, Shrinks
<1> QED BY <1>1, <1>2, <1>3, <1>7, <1>8, <1>9, <1>10, <1>13, OneEnd DEF EndOK

\* The key manager of an end fails: it had not finished its handshake, and has
\* taken a message, or lost its patience.
LEMMA Fails ==
    ASSUME IInv, NEW e \in Ends, NEW k, km' = [km EXCEPT ![e] = k],
           km[e].st = "Configuring", DOMAIN k = KmFields, k.st = "Error",
           k.id = km[e].id, k.nr = km[e].nr, k.hs = km[e].hs, k.rkey = km[e].rkey,
           k.canceled = km[e].canceled,
           sigs' = [sigs EXCEPT ![e] = @ \o <<[kind |-> "Error"]>>],
           UNCHANGED <<net, sa, link, draws>>, DOMAIN inq' = Ends,
           \A d \in Ends \ {e} : inq'[d] = inq[d],
           inq'[e] = inq[e] \/ (inq[e] # <<>> /\ inq'[e] = Tail(inq[e]))
    PROVE  IInv'
<1> DEFINE s == [kind |-> "Error"]
<1>2. /\ DOMAIN km = Ends /\ DOMAIN inq = Ends /\ DOMAIN sigs = Ends
      /\ DOMAIN sa = Ends /\ DOMAIN link = Ends /\ DOMAIN km[e] = KmFields
      /\ KmOK(e) /\ SignalsOK(e) /\ QueueOK(e) /\ LinkOK(e)
  BY Ended
<1>3. /\ DOMAIN km' = Ends /\ DOMAIN sigs' = Ends /\ km'[e] = k
      /\ \A d \in Ends \ {e} : km'[d] = km[d] /\ sigs'[d] = sigs[d]
      /\ sigs'[e] = sigs[e] \o <<s>>
  BY <1>2
<1>4. sigs[e] \in Seq(ToSet(sigs[e])) /\ inq[e] \in Seq(ToSet(inq[e]))
  BY <1>2 DEF SignalsOK, QueueOK
<1>5. sigs'[e] \in Seq(ToSet(sigs'[e])) /\ ToSet(sigs'[e]) = ToSet(sigs[e]) \cup {s}
  <2> HIDE DEF s
  <2>1. /\ Append(sigs[e], s) \in Seq(ToSet(Append(sigs[e], s)))
        /\ ToSet(Append(sigs[e], s)) = ToSet(sigs[e]) \cup {s} /\ sigs[e] \o <<s>> = Append(sigs[e], s)
    BY <1>4, QueueAppend
  <2> QED BY <1>3, <2>1
<1>6. inq'[e] \in Seq(ToSet(inq'[e])) /\ ToSet(inq'[e]) \subseteq ToSet(inq[e])
  <2>1. CASE inq'[e] = inq[e]
    BY <1>4, <2>1
  <2>2. CASE inq[e] # <<>> /\ inq'[e] = Tail(inq[e])
    BY <1>4, <2>2, QueueTail
  <2> QED BY <2>1, <2>2
<1>7. inq[e] = <<>> => inq'[e] = <<>>
  OBVIOUS
<1>8. signaled(e)' = signaled(e)
  BY <1>5 DEF signaled
<1>9. associations(e)' = associations(e)
  BY <1>8 DEF associations
<1>10. established(e)' \subseteq established(e)
  BY <1>3, <1>9 DEF established
<1>11. KmOK(e)'
  BY <1>2, <1>3 DEF KmOK
<1>12. SignalsOK(e)'
  BY <1>2, <1>3, <1>5, <1>8, <1>9 DEF SignalsOK
<1>13. QueueOK(e)'
  BY <1>2, <1>3, <1>6, <1>7 DEF QueueOK
<1>14. LinkOK(e)'
  BY <1>2, <1>3 DEF LinkOK
<1>15. \A d \in Ends \ {e} : established(d)' = established(d)
  BY <1>2, <1>3, OneEnd
<1>16. sent' \subseteq sent
  BY <1>6, SentBy
<1>17. Keyed'
  BY <1>3, <1>10, <1>15, <1>16, Shrinks
<1> QED BY <1>2, <1>3, <1>11, <1>12, <1>13, <1>14, <1>17, OneEnd DEF EndOK

\* A handshake times out.
LEMMA HandshakeTimeoutStep ==
    ASSUME IInv, NEW e \in Ends, HandshakeTimeout(e) PROVE IInv'
<1> DEFINE k == [km[e] EXCEPT !.st = "Error", !.timer = FALSE]
<1>1. /\ km[e].st = "Configuring" /\ KmBecomes(e, k) /\ UNCHANGED <<inq, net, draws>>
  BY DEF HandshakeTimeout
<1>2. DOMAIN km[e] = KmFields /\ DOMAIN inq = Ends
  BY Ended
<1>3. /\ DOMAIN k = KmFields /\ k.st = "Error"
      /\ k.id = km[e].id /\ k.nr = km[e].nr /\ k.hs = km[e].hs /\ k.rkey = km[e].rkey
      /\ k.canceled = km[e].canceled
  BY <1>2 DEF KmFields
<1> HIDE DEF k
<1>4. handle_state_transition(km[e], k) = <<[kind |-> "Error"]>>
  BY <1>1, <1>3 DEF handle_state_transition
<1>5. /\ km' = [km EXCEPT ![e] = k] /\ UNCHANGED <<sa, link>>
      /\ sigs' = [sigs EXCEPT ![e] = @ \o <<[kind |-> "Error"]>>]
  BY <1>1, <1>4 DEF KmBecomes
<1> QED BY <1>1, <1>2, <1>3, <1>5, Fails

\* The key manager of an end draws a random value, for a new handshake.
LEMMA Draws ==
    ASSUME IInv, NEW e \in Ends, km'[e].rkey = draws + 1,
           \A d \in Ends \ {e} : km'[d] = km[d],
           \A d \in Ends : established(d)' = established(d),
           draws' = draws + 1, sent' \subseteq sent \cup first_message(e, draws + 1)
    PROVE  Keyed'
<1>1. Handshakes(sent, established("A"), established("N"), km["A"], km["N"], draws)
  BY DEF IInv, Keyed
<1>2. draws \in Nat
  BY <1>1 DEF Handshakes, Forms
<1>3. CASE e = "A"
  <2> DEFINE m == message("N", 1, <<draws + 1>>, 0, "none")
  <2>1. /\ m.to = "N" /\ m.nr = 1 /\ m.hs = <<draws + 1>>
        /\ first_message(e, draws + 1) = {m}
    BY <1>3 DEF message, first_message
  <2> HIDE DEF m
  <2>2. First(m, draws + 1) /\ m.hs[1] = draws + 1
    BY <1>2, <2>1 DEF First
  <2>3. Handshakes(sent \cup {m}, established("A"), established("N"), km'["A"], km["N"], draws + 1)
    BY <1>1, <1>3, <2>2, AdapterDraws
  <2>4. /\ established("A")' \in SUBSET established("A") /\ sent' \in SUBSET (sent \cup {m})
        /\ established("N")' \in SUBSET established("N") /\ km'["N"] = km["N"]
    BY <1>3, <2>1 DEF Ends
  <2>5. Handshakes(sent', established("A")', established("N")', km'["A"], km'["N"], draws + 1)
    BY <2>3, <2>4, Fewer
  <2> QED BY <2>5 DEF Keyed
<1>4. CASE e = "N"
  <2>1. Handshakes(sent, established("A"), established("N"), km["A"], km'["N"], draws + 1)
    BY <1>1, <1>4, NodeDraws
  <2>2. /\ established("A")' \in SUBSET established("A") /\ sent' \in SUBSET sent
        /\ established("N")' \in SUBSET established("N") /\ km'["A"] = km["A"]
    BY <1>4 DEF Ends, first_message
  <2>3. Handshakes(sent', established("A")', established("N")', km'["A"], km'["N"], draws + 1)
    BY <2>1, <2>2, Fewer
  <2> QED BY <2>3 DEF Keyed
<1> QED BY <1>3, <1>4 DEF Ends

\* A key manager starts again.
LEMMA TickStep ==
    ASSUME IInv, NEW e \in Ends, tick_statemachine(e) PROVE IInv'
<1> DEFINE k == reset(e, km[e], draws + 1)
<1>1. /\ km[e].st = "Error" /\ draws' = draws + 1 /\ KmBecomes(e, k)
      /\ net' = net \cup first_message(e, draws + 1) /\ UNCHANGED inq
  BY DEF tick_statemachine
<1>2. /\ DOMAIN km = Ends /\ DOMAIN inq = Ends /\ DOMAIN sigs = Ends
      /\ DOMAIN sa = Ends /\ DOMAIN link = Ends /\ DOMAIN km[e] = KmFields
      /\ KmOK(e) /\ SignalsOK(e) /\ QueueOK(e) /\ LinkOK(e)
  BY Ended
<1>3. /\ DOMAIN k = KmFields /\ k.id = km[e].id /\ k.st = "Configuring"
      /\ k.rkey = draws + 1 /\ k.canceled = km[e].canceled
      /\ e = "A" => k.nr = 1 /\ k.hs = <<draws + 1>>
      /\ e # "A" => k.nr = 0
  BY <1>2 DEF reset, KmFields
<1> HIDE DEF k
<1>4. handle_state_transition(km[e], k) = <<>>
  BY <1>1, <1>3 DEF handle_state_transition
<1>5. sigs[e] \in Seq(ToSet(sigs[e])) /\ signaled(e) = {}
  BY <1>1, <1>2 DEF SignalsOK
<1>6. sigs[e] \o <<>> = sigs[e]
  BY <1>5, QueueAppend
<1>7. km' = [km EXCEPT ![e] = k] /\ UNCHANGED <<sa, link>> /\ sigs' = [sigs EXCEPT ![e] = @ \o <<>>]
  BY <1>1, <1>4 DEF KmBecomes
<1>8. /\ DOMAIN km' = Ends /\ DOMAIN sigs' = Ends /\ km'[e] = k /\ sigs'[e] = sigs[e]
      /\ \A d \in Ends \ {e} : km'[d] = km[d] /\ sigs'[d] = sigs[d]
  BY <1>2, <1>6, <1>7
<1>9. signaled(e)' = signaled(e) /\ associations(e)' = associations(e)
  BY <1>7, <1>8 DEF signaled, associations
<1>10. established(e)' = established(e)
  BY <1>1, <1>3, <1>8, <1>9 DEF established
<1>11. KmOK(e)'
  BY <1>2, <1>3, <1>8 DEF KmOK, Ends
<1>12. SignalsOK(e)'
  BY <1>2, <1>5, <1>8, <1>9 DEF SignalsOK
<1>13. QueueOK(e)'
  BY <1>1, <1>2, <1>3, <1>7, <1>8 DEF QueueOK
<1>14. LinkOK(e)'
  BY <1>1, <1>2, <1>3, <1>7, <1>8 DEF LinkOK
<1>15. \A d \in Ends \ {e} : established(d)' = established(d)
  BY <1>1, <1>2, <1>7, <1>8, OneEnd
<1>16. sent' = sent \cup first_message(e, draws + 1)
  BY <1>1 DEF sent
<1>17. Keyed'
  BY <1>1, <1>3, <1>8, <1>10, <1>15, <1>16, Draws
<1> QED BY <1>1, <1>2, <1>7, <1>8, <1>11, <1>12, <1>13, <1>14, <1>17, OneEnd DEF EndOK

\* A link is made, with a key manager of its own and the messages Q for it,
\* none if it has keys of an earlier link.
LEMMA AddLink ==
    ASSUME IInv, NEW e \in Ends, add_link(e), UNCHANGED <<sigs, sa>>,
           link[e] \in {"Inactive", "Absent"}, NEW q, inq'[e] = q,
           DOMAIN inq' = Ends, \A d \in Ends \ {e} : inq'[d] = inq[d],
           q \in Seq(ToSet(q)), \A m \in ToSet(q) : m.to = e, sa[e] # {} => e = "A" /\ q = <<>>,
           sent' \subseteq sent \cup first_message(e, draws + 1)
    PROVE  IInv'
<1> DEFINE k == reset(e, new_km(draws + 1), draws + 1)
<1>1. /\ draws' = draws + 1 /\ km' = [km EXCEPT ![e] = k] /\ link' = [link EXCEPT ![e] = "Keying"]
  BY DEF add_link
<1>2. /\ DOMAIN km = Ends /\ DOMAIN inq = Ends /\ DOMAIN sigs = Ends
      /\ DOMAIN sa = Ends /\ DOMAIN link = Ends
      /\ KmOK(e) /\ SignalsOK(e) /\ QueueOK(e) /\ LinkOK(e)
  BY Ended
<1>3. /\ DOMAIN k = KmFields /\ k.st = "Configuring" /\ k.rkey = draws + 1 /\ ~k.canceled
      /\ e = "A" => k.nr = 1 /\ k.hs = <<draws + 1>>
      /\ e # "A" => k.nr = 0
  BY DEF reset, new_km, KmFields
<1> HIDE DEF k
<1>4. /\ DOMAIN km' = Ends /\ DOMAIN link' = Ends /\ DOMAIN inq' = Ends
      /\ km'[e] = k /\ link'[e] = "Keying" /\ inq'[e] = q
      /\ \A d \in Ends \ {e} : km'[d] = km[d] /\ link'[d] = link[d] /\ inq'[d] = inq[d]
  BY <1>1, <1>2
<1>5. km[e].st = "None" /\ sigs[e] = <<>>
  BY <1>2 DEF LinkOK
<1>6. signaled(e) = {} /\ signaled(e)' = {} /\ associations(e)' = associations(e)
  BY <1>5, QueueShort DEF signaled, associations
<1>7. established(e)' = established(e)
  BY <1>3, <1>4, <1>5, <1>6 DEF established
<1>8. KmOK(e)'
  BY <1>3, <1>4 DEF KmOK, Ends
<1>9. SignalsOK(e)'
  BY <1>2, <1>6 DEF SignalsOK
<1>10. QueueOK(e)'
  BY <1>3, <1>4 DEF QueueOK
<1>11. LinkOK(e)'
  BY <1>3, <1>4 DEF LinkOK, Running
<1>12. \A d \in Ends \ {e} : established(d)' = established(d)
  BY <1>2, <1>4, OneEnd
<1>13. Keyed'
  BY <1>1, <1>3, <1>4, <1>7, <1>12, Draws
<1> QED BY <1>2, <1>4, <1>8, <1>9, <1>10, <1>11, <1>13, OneEnd DEF EndOK

\* The adapter starts.
LEMMA StartStep ==
    ASSUME IInv, Start PROVE IInv'
<1>1. /\ link["A"] = "Inactive" /\ add_link("A") /\ UNCHANGED <<inq, sigs, sa>>
      /\ net' = net \cup first_message("A", draws + 1)
  BY DEF Start
<1>2. "A" \in Ends
  BY DEF Ends
<1>3. DOMAIN inq = Ends /\ LinkOK("A") /\ QueueOK("A")
  BY <1>2, Ended
<1>4. inq["A"] = <<>>
  BY <1>1, <1>3 DEF LinkOK, QueueOK
<1>5. inq'["A"] = <<>> /\ DOMAIN inq' = Ends /\ \A d \in Ends \ {"A"} : inq'[d] = inq[d]
  BY <1>1, <1>3, <1>4
<1>6. sent' = sent \cup first_message("A", draws + 1)
  BY <1>1 DEF sent
<1> QED BY <1>1, <1>2, <1>5, <1>6, QueueShort, AddLink

\* A message is received.
LEMMA ReceiveStep ==
    ASSUME IInv, NEW m \in net, NEW lasts \in BOOLEAN, Receive(m, lasts) PROVE IInv'
<1> DEFINE e == m.to
<1>1. /\ net' \subseteq net /\ UNCHANGED <<sigs, sa>>
      /\ IF e = "N" /\ ~present(e)
         THEN add_link(e) /\ inq' = [inq EXCEPT ![e] = <<m>>]
         ELSE inq' = handle_key_management(e, m) /\ UNCHANGED <<km, link, draws>>
  BY DEF Receive
<1>2. e \in Ends
  BY DEF IInv, Keyed, Handshakes, Forms, First, Second, Third, sent, Ends
<1>3. /\ DOMAIN km = Ends /\ DOMAIN inq = Ends /\ DOMAIN sigs = Ends
      /\ DOMAIN sa = Ends /\ DOMAIN link = Ends
      /\ KmOK(e) /\ SignalsOK(e) /\ QueueOK(e) /\ LinkOK(e)
  BY <1>2, Ended
<1>4. <<m>> \in Seq(ToSet(<<m>>)) /\ ToSet(<<m>>) = {m}
  BY QueueShort
<1>5. m.to = e
  OBVIOUS
<1> HIDE DEF e
<1>6. CASE e = "N" /\ ~present(e)
  <2>1. link[e] = "Absent" /\ sa[e] = {}
    BY <1>3, <1>6 DEF present, LinkOK
  <2>2. inq' = [inq EXCEPT ![e] = <<m>>] /\ add_link(e)
    BY <1>1, <1>6
  <2>3. inq'[e] = <<m>> /\ DOMAIN inq' = Ends /\ \A d \in Ends \ {e} : inq'[d] = inq[d]
    BY <1>2, <1>3, <2>2
  <2>4. sent' \subseteq sent
    BY <1>1, <1>2, <1>4, <2>3, SentBy
  <2> QED BY <1>1, <1>2, <1>4, <1>5, <2>1, <2>2, <2>3, <2>4, AddLink
<1>7. CASE inq' = inq /\ UNCHANGED <<km, link, draws>>
  <2>1. \A d \in Ends : EndOK(d)' /\ established(d)' = established(d)
    BY <1>1, <1>7, SameEnd DEF IInv
  <2>2. sent' \subseteq sent
    BY <1>1, <1>7 DEF sent
  <2>3. Keyed'
    BY <1>7, <2>1, <2>2, Shrinks
  <2> QED BY <1>1, <1>7, <2>1, <2>3 DEF IInv
<1>8. CASE /\ inq' = [inq EXCEPT ![e] = Append(@, m)] /\ UNCHANGED <<km, link, draws>>
           /\ sa[e] = {} /\ km[e].st # "None"
  <2>1. inq[e] \in Seq(ToSet(inq[e]))
    BY <1>3 DEF QueueOK
  <2>2. /\ Append(inq[e], m) \in Seq(ToSet(Append(inq[e], m)))
        /\ ToSet(Append(inq[e], m)) = ToSet(inq[e]) \cup {m}
    BY <2>1, QueueAppend
  <2>3. DOMAIN inq' = Ends /\ inq'[e] = Append(inq[e], m) /\ \A d \in Ends \ {e} : inq'[d] = inq[d]
    BY <1>2, <1>3, <1>8
  <2>4. signaled(e)' = signaled(e) /\ associations(e)' = associations(e)
    BY <1>1 DEF signaled, associations
  <2>5. established(e)' = established(e)
    BY <1>8, <2>4 DEF established
  <2>6. KmOK(e)' /\ LinkOK(e)'
    BY <1>1, <1>3, <1>8 DEF KmOK, LinkOK
  <2>7. SignalsOK(e)'
    BY <1>1, <1>3, <1>8, <2>4 DEF SignalsOK
  <2>8. QueueOK(e)'
    BY <1>1, <1>3, <1>5, <1>8, <2>2, <2>3 DEF QueueOK
  <2>9. \A d \in Ends \ {e} : established(d)' = established(d)
    BY <1>1, <1>2, <1>3, <1>8, <2>3, OneEnd
  <2>10. sent' \subseteq sent
    <3>1. net' \cup ToSet(inq'[e]) \subseteq net \cup ToSet(inq[e])
      BY <1>1, <2>2, <2>3
    <3> QED BY <1>2, <2>3, <3>1, SentBy
  <2>11. Keyed'
    BY <1>8, <2>5, <2>9, <2>10, Shrinks
  <2> QED BY <1>1, <1>2, <1>3, <1>8, <2>3, <2>6, <2>7, <2>8, <2>11, OneEnd DEF EndOK
<1> QED BY <1>1, <1>6, <1>7, <1>8 DEF handle_key_management, handle_inbound_km_msg, decrypt

-----------------------------------------------------------------------------
(* A key manager handles a message.                                        *)

\* A key manager that hears something has no keys yet, and neither has its end.
LEMMA Unkeyed ==
    ASSUME IInv, NEW e \in Ends, km[e].st = "Configuring", inq[e] # <<>>
    PROVE  sa[e] = {} /\ signaled(e) = {} /\ associations(e) = {} /\ established(e) = {}
<1>1. SignalsOK(e) /\ QueueOK(e)
  BY Ended
<1>2. sa[e] = {}
  BY <1>1 DEF QueueOK
<1>3. signaled(e) = {}
  BY <1>1 DEF SignalsOK
<1> QED BY <1>2, <1>3 DEF associations, established

\* The message is taken from the queue.
LEMMA Taken ==
    ASSUME IInv, NEW e \in Ends, inq[e] # <<>>, inq' = [inq EXCEPT ![e] = Tail(@)]
    PROVE  /\ DOMAIN inq' = Ends /\ inq'[e] = Tail(inq[e]) /\ \A d \in Ends \ {e} : inq'[d] = inq[d]
           /\ inq'[e] \in Seq(ToSet(inq'[e])) /\ \A m \in ToSet(inq'[e]) : m.to = e
           /\ Head(inq[e]) \in sent /\ Head(inq[e]).to = e
           /\ \A M : net' \subseteq net \cup M => sent' \subseteq sent \cup M
<1>1. DOMAIN inq = Ends /\ QueueOK(e)
  BY Ended
<1>2. DOMAIN inq' = Ends /\ inq'[e] = Tail(inq[e]) /\ \A d \in Ends \ {e} : inq'[d] = inq[d]
  BY <1>1
<1>3. inq[e] \in Seq(ToSet(inq[e]))
  BY <1>1 DEF QueueOK
<1>4. /\ Tail(inq[e]) \in Seq(ToSet(Tail(inq[e]))) /\ Head(inq[e]) \in ToSet(inq[e])
      /\ ToSet(Tail(inq[e])) \subseteq ToSet(inq[e])
  BY <1>3, QueueTail
<1>5. /\ inq'[e] \in Seq(ToSet(inq'[e])) /\ \A m \in ToSet(inq'[e]) : m.to = e
      /\ Head(inq[e]).to = e
  BY <1>1, <1>2, <1>4 DEF QueueOK
<1>6. Head(inq[e]) \in sent
  BY <1>4 DEF sent, Ends
<1>7. ToSet(inq'["A"]) \subseteq ToSet(inq["A"]) /\ ToSet(inq'["N"]) \subseteq ToSet(inq["N"])
  BY <1>2, <1>4 DEF Ends
<1>8. \A M : net' \subseteq net \cup M => sent' \subseteq sent \cup M
  BY <1>7 DEF sent
<1> QED BY <1>2, <1>5, <1>6, <1>8

\* The handshake of an end is complete, and its key manager says so.
LEMMA Completed ==
    ASSUME IInv, NEW e \in Ends, NEW k, km[e].st = "Configuring", inq[e] # <<>>,
           inq' = [inq EXCEPT ![e] = Tail(@)], KmBecomes(e, k),
           DOMAIN k = KmFields, k.st = "Transport", k.id = km[e].id, k.nr = 3,
           k.canceled = km[e].canceled, Paired(e, k.hs, k.skey, k.rkey), Trusted(e, k.cert)
    PROVE  /\ EndOK(e)' /\ established(e)' = {k.hs} /\ (Keyed' => IInv') /\ km'[e] = k
           /\ \A d \in Ends \ {e} : established(d)' = established(d) /\ km'[d] = km[d]
<1> DEFINE x == association(k)  s == [kind |-> "SaEstablished", sa |-> x]
<1>1. handle_state_transition(km[e], k) = <<s>>
  BY DEF handle_state_transition
<1>2. /\ x.km = k.id /\ x.hs = k.hs /\ x.skey = k.skey /\ x.rkey = k.rkey /\ x.cert = k.cert
      /\ s.kind = "SaEstablished" /\ s.sa = x
  BY DEF association
<1>3. /\ km' = [km EXCEPT ![e] = k] /\ sigs' = [sigs EXCEPT ![e] = @ \o <<s>>]
      /\ UNCHANGED <<sa, link>>
  BY <1>1 DEF KmBecomes
<1> HIDE DEF s, x
<1>4. /\ DOMAIN km = Ends /\ DOMAIN inq = Ends /\ DOMAIN sigs = Ends
      /\ DOMAIN sa = Ends /\ DOMAIN link = Ends
      /\ KmOK(e) /\ SignalsOK(e) /\ QueueOK(e) /\ LinkOK(e)
  BY Ended
<1>5. sa[e] = {} /\ signaled(e) = {}
  BY Unkeyed
<1>6. /\ DOMAIN km' = Ends /\ DOMAIN sigs' = Ends /\ km'[e] = k /\ sigs'[e] = sigs[e] \o <<s>>
      /\ \A d \in Ends \ {e} : km'[d] = km[d] /\ sigs'[d] = sigs[d]
  BY <1>3, <1>4
<1>7. sigs'[e] \in Seq(ToSet(sigs'[e])) /\ ToSet(sigs'[e]) = ToSet(sigs[e]) \cup {s}
  <2>1. sigs[e] \in Seq(ToSet(sigs[e]))
    BY <1>4 DEF SignalsOK
  <2>2. /\ Append(sigs[e], s) \in Seq(ToSet(Append(sigs[e], s)))
        /\ ToSet(Append(sigs[e], s)) = ToSet(sigs[e]) \cup {s} /\ sigs[e] \o <<s>> = Append(sigs[e], s)
    BY <2>1, QueueAppend
  <2> QED BY <1>6, <2>2
<1>8. signaled(e)' = {x}
  <2>1. \A t \in ToSet(sigs[e]) : t.kind # "SaEstablished"
    BY <1>5 DEF signaled
  <2> QED BY <1>2, <1>7, <2>1 DEF signaled
<1>9. associations(e)' = {x}
  BY <1>3, <1>5, <1>8 DEF associations
<1>10. established(e)' = {k.hs}
  BY <1>2, <1>6, <1>9 DEF established
<1>11. /\ DOMAIN inq' = Ends /\ \A d \in Ends \ {e} : inq'[d] = inq[d]
       /\ inq'[e] \in Seq(ToSet(inq'[e])) /\ \A m \in ToSet(inq'[e]) : m.to = e
  BY Taken
<1>12. KmOK(e)'
  BY <1>4, <1>6 DEF KmOK
<1>13. SignalsOK(e)'
  BY <1>2, <1>6, <1>7, <1>8, <1>9 DEF SignalsOK
<1>14. QueueOK(e)'
  BY <1>6, <1>11 DEF QueueOK
<1>15. LinkOK(e)'
  <2>1. link[e] \notin {"Inactive", "Absent", "Helloing", "Active"}
    BY <1>4, <1>5 DEF LinkOK
  <2> QED BY <1>3, <1>4, <1>6, <2>1 DEF LinkOK
<1>16. EndOK(e)'
  BY <1>12, <1>13, <1>14, <1>15 DEF EndOK
<1>17. /\ \A d \in Ends \ {e} : established(d)' = established(d)
       /\ Keyed' => IInv'
  BY <1>3, <1>4, <1>6, <1>11, <1>16, OneEnd
<1> QED BY <1>6, <1>10, <1>16, <1>17

\* What a key manager has to know of a message.
LEMMA Heard ==
    ASSUME IInv, NEW m \in sent
    PROVE  /\ draws \in Nat
           /\ m.to = "A" => Second(m, draws)
           /\ m.to = "N" => First(m, draws) \/ Third(m, draws)
           /\ m.nr = 1 => First(m, draws)
           /\ m.nr = 2 => Second(m, draws)
           /\ m.nr = 3 => Third(m, draws)
<1>1. draws \in Nat /\ (First(m, draws) \/ Second(m, draws) \/ Third(m, draws))
  BY DEF IInv, Keyed, Handshakes, Forms
<1> QED BY <1>1 DEF First, Second, Third

\* The transcripts that the second message continues, and that the answer to a
\* message has.
LEMMA Transcripts ==
    ASSUME NEW d \in Nat, NEW h \in Seq(1 .. d), NEW x \in 1 .. d
    PROVE  /\ Len(h) \in {2, 3} /\ Front(h) = <<x>> => Len(h) = 2 /\ h[1] = x /\ h = <<x, h[2]>>
           /\ Len(h) = 2 => h = <<h[1], h[2]>>
           /\ Len(h) \in {1, 2} => /\ Append(h, x) \in Seq(1 .. d)
                                   /\ Len(Append(h, x)) \in {2, 3}
                                   /\ Append(h, x)[1] = h[1]
                                   /\ Append(h, x)[Len(Append(h, x))] = x
<1> DEFINE S == 1 .. d  n == Len(h)  f == SubSeq(h, 1, n - 1)  t == Append(h, x)
<1>1. Len(h) = 2 => h = <<h[1], h[2]>>
  OBVIOUS
<1> HIDE DEF S
<1>2. n \in Nat /\ h \in Seq(S) /\ x \in S
  BY DEF S
<1>3. t \in Seq(S) /\ Len(t) = n + 1 /\ t[n + 1] = x /\ (n >= 1 => t[1] = h[1])
  BY <1>2
<1>4. n \in {2, 3} => Len(f) = n - 1 /\ f[1] = h[1]
  <2> SUFFICES ASSUME n \in {2, 3} PROVE Len(f) = n - 1 /\ f[1] = h[1]
    OBVIOUS
  <2>1. \A i \in 1 .. (n - 1) : h[i] \in S
    BY <1>2
  <2>2. n - 1 \in Int /\ 1 <= n - 1 /\ 1 \in Int /\ (n - 1) - 1 + 1 = n - 1 /\ 1 + 1 - 1 = 1
        /\ 1 \in 1 .. ((n - 1) - 1 + 1)
    BY <1>2
  <2> HIDE DEF n
  <2>3. Len(f) = (n - 1) - 1 + 1 /\ \A i \in 1 .. ((n - 1) - 1 + 1) : f[i] = h[1 + i - 1]
    BY <2>1, <2>2, SubSeqProperties
  <2> QED BY <2>2, <2>3
<1>5. Len(<<x>>) = 1 /\ <<x>>[1] = x
  OBVIOUS
<1>6. Front(h) = f
  BY DEF Front
<1> HIDE DEF f, t, n
<1>7. n \in {2, 3} /\ f = <<x>> => n = 2 /\ h[1] = x
  BY <1>2, <1>4, <1>5
<1>8. n \in {1, 2} => t \in Seq(S) /\ Len(t) \in {2, 3} /\ t[1] = h[1] /\ t[Len(t)] = x
  BY <1>2, <1>3
<1> QED BY <1>1, <1>6, <1>7, <1>8 DEF n, t, S

\* What handling a message comes to: a failure, the node's answer to whatever
\* comes first, or the end of the handshake, for the adapter and for the node.
Failure(k, r) == r.st = "Error" /\ r.nr = k.nr /\ r.hs = k.hs
Answer(e, k, m, r) ==
    e = "N" /\ k.nr = 0 /\ r.st = "Configuring" /\ r.nr = 2 /\ r.hs = Append(m.hs, k.rkey)
AdapterEnd(e, k, m, r) ==
    /\ e = "A" /\ k.nr = 1 /\ m.nr = 2 /\ Front(m.hs) = k.hs /\ r.st = "Transport" /\ r.nr = 3
    /\ r.hs = m.hs /\ r.skey = m.key /\ r.cert = m.cert /\ Trusted(e, m.cert)
NodeEnd(e, k, m, r) ==
    /\ e = "N" /\ k.nr = 2 /\ m.nr = 3 /\ m.hs = k.hs /\ r.st = "Transport" /\ r.nr = 3
    /\ r.hs = k.hs /\ r.skey = m.key

\* Handling a message has no other outcome.
LEMMA Outcomes ==
    ASSUME NEW e \in Ends, NEW k, NEW m, DOMAIN k = KmFields, k.st = "Configuring",
           \/ e = "A" /\ k.nr = 1
           \/ e = "N" /\ k.nr \in {0, 2},
           NEW r, r = handle_message(e, k, m)
    PROVE  /\ DOMAIN r = KmFields /\ r.id = k.id /\ r.rkey = k.rkey /\ r.canceled = k.canceled
           /\ \/ Failure(k, r) \/ Answer(e, k, m, r)
              \/ AdapterEnd(e, k, m, r) \/ NodeEnd(e, k, m, r)
<1> DEFINE ok == /\ read_message(k, m)
                 /\ msg_carries_zpi_payload(k.nr) => payload_accepted(e, m)
                 /\ keys_received(k, m)
           p == parse_km_payload(k, m)
<1>1. /\ DOMAIN p = KmFields /\ p.id = k.id /\ p.rkey = k.rkey /\ p.canceled = k.canceled
      /\ p.nr = k.nr /\ p.hs = k.hs /\ p.skey = m.key /\ p.cert = m.cert
  BY DEF parse_km_payload, KmFields
<1>2. CASE ~ok
  <2>1. r = [p EXCEPT !.st = "Error", !.timer = FALSE] \/ r = [k EXCEPT !.st = "Error", !.timer = FALSE]
    BY <1>2 DEF handle_message
  <2> HIDE DEF p
  <2> QED BY <1>1, <2>1 DEF Failure, KmFields
<1>3. CASE ok
  <2>0. r = advanced(e, k, m)
    BY <1>3 DEF handle_message
  <2>1. CASE k.nr = 0
    <3>1. e = "N" /\ ~msg_carries_zpi_payload(k.nr)
      BY <2>1 DEF msg_carries_zpi_payload, Ends
    <3>2. r = [k EXCEPT !.nr = 2, !.hs = Append(m.hs, k.rkey), !.timer = TRUE]
      BY <2>0, <2>1, <3>1 DEF advanced
    <3> QED BY <2>1, <3>1, <3>2 DEF Answer, KmFields
  <2>2. CASE k.nr = 1
    <3>1. /\ e = "A" /\ msg_carries_zpi_payload(k.nr) /\ m.nr = 2 /\ Front(m.hs) = k.hs
          /\ payload_accepted(e, m)
      BY <1>3, <2>2 DEF msg_carries_zpi_payload, read_message, Ends
    <3>2. r = [p EXCEPT !.nr = 3, !.hs = m.hs, !.timer = FALSE, !.st = "Transport"]
      BY <2>0, <2>2, <3>1 DEF advanced
    <3>3. Trusted(e, m.cert)
      BY <3>1 DEF payload_accepted, Trusted
    <3> HIDE DEF p
    <3> QED BY <1>1, <2>2, <3>1, <3>2, <3>3 DEF AdapterEnd, KmFields
  <2>3. CASE k.nr = 2
    <3>1. e = "N" /\ msg_carries_zpi_payload(k.nr) /\ m.nr = 3 /\ m.hs = k.hs
      BY <1>3, <2>3 DEF msg_carries_zpi_payload, read_message, Ends
    <3>2. r = [p EXCEPT !.nr = 3, !.timer = FALSE, !.st = "Transport"]
      BY <2>0, <2>3, <3>1 DEF advanced
    <3> HIDE DEF p
    <3> QED BY <1>1, <2>3, <3>1, <3>2 DEF NodeEnd, KmFields
  <2> QED BY <2>1, <2>2, <2>3
<1> QED BY <1>2, <1>3

\* The node answers.
LEMMA AnswerStep ==
    ASSUME IInv, NEW e \in Ends, NEW k, NEW c, km[e].st = "Configuring", inq[e] # <<>>,
           inq' = [inq EXCEPT ![e] = Tail(@)], KmBecomes(e, k), UNCHANGED draws,
           net' = net \cup answers(e, k, c),
           DOMAIN k = KmFields, k.id = km[e].id, k.rkey = km[e].rkey, k.canceled = km[e].canceled,
           Answer(e, km[e], Head(inq[e]), k)
    PROVE  IInv'
<1> DEFINE m == Head(inq[e])  a == message("A", 2, k.hs, k.rkey, c)
<1>1. e = "N" /\ km[e].nr = 0 /\ k.st = "Configuring" /\ k.nr = 2 /\ k.hs = Append(m.hs, km[e].rkey)
  BY DEF Answer
<1>2. answers(e, k, c) = {a} /\ a.to = "A" /\ a.nr = 2 /\ a.hs = k.hs /\ a.key = k.rkey
  BY <1>1 DEF answers, message
<1>3. handle_state_transition(km[e], k) = <<>>
  BY <1>1 DEF handle_state_transition
<1>4. /\ km' = [km EXCEPT ![e] = k] /\ sigs' = [sigs EXCEPT ![e] = @ \o <<>>]
      /\ UNCHANGED <<sa, link>> /\ net' = net \cup {a}
  BY <1>2, <1>3 DEF KmBecomes
<1>5. /\ DOMAIN km = Ends /\ DOMAIN inq = Ends /\ DOMAIN sigs = Ends
      /\ DOMAIN sa = Ends /\ DOMAIN link = Ends
      /\ KmOK(e) /\ SignalsOK(e) /\ QueueOK(e) /\ LinkOK(e)
  BY Ended
<1>6. sa[e] = {} /\ signaled(e) = {} /\ associations(e) = {} /\ established(e) = {}
  BY Unkeyed
<1>7. /\ DOMAIN inq' = Ends /\ \A d \in Ends \ {e} : inq'[d] = inq[d]
      /\ inq'[e] \in Seq(ToSet(inq'[e])) /\ (\A l \in ToSet(inq'[e]) : l.to = e)
      /\ m \in sent /\ m.to = e
      /\ \A M : net' \subseteq net \cup M => sent' \subseteq sent \cup M
  BY Taken
<1>8. draws \in Nat /\ m.hs \in Seq(1 .. draws) /\ Len(m.hs) \in {1, 2}
  <2>1. draws \in Nat /\ (First(m, draws) \/ Third(m, draws))
    BY <1>1, <1>7, Heard
  <2> QED BY <2>1 DEF First, Third
<1> HIDE DEF a, m
<1>9. sigs[e] \o <<>> = sigs[e]
  <2>1. sigs[e] \in Seq(ToSet(sigs[e]))
    BY <1>5 DEF SignalsOK
  <2> QED BY <2>1, QueueAppend
<1>10. /\ DOMAIN km' = Ends /\ DOMAIN sigs' = Ends /\ km'[e] = k /\ sigs'[e] = sigs[e]
       /\ \A d \in Ends \ {e} : km'[d] = km[d] /\ sigs'[d] = sigs[d]
  BY <1>4, <1>5, <1>9
<1>11. signaled(e)' = {} /\ associations(e)' = {}
  BY <1>4, <1>6, <1>10 DEF signaled, associations
<1>12. established(e)' = {}
  BY <1>1, <1>10, <1>11 DEF established
<1>13. Handshakes(sent, established("A"), {}, km["A"], km["N"], draws)
  BY <1>1, <1>6 DEF IInv, Keyed
<1>14. km["N"].rkey \in 1 .. draws
  BY <1>1, <1>13 DEF Handshakes, OnceAnswered
<1>15. /\ k.hs \in Seq(1 .. draws) /\ Len(k.hs) \in {2, 3} /\ k.hs[1] = m.hs[1]
       /\ k.hs[Len(k.hs)] = k.rkey
  BY <1>1, <1>8, <1>14, Transcripts
<1>16. Second(a, draws) /\ a.hs[1] = m.hs[1]
  BY <1>2, <1>15 DEF Second
<1>17. Handshakes(sent \cup {a}, established("A"), {}, km["A"], k, draws)
  <2>1. /\ km["N"].st # "None" /\ km["N"].nr = 0 /\ a.key = km["N"].rkey
        /\ k.rkey = km["N"].rkey /\ k.hs = a.hs /\ k.nr # 0
    BY <1>1, <1>2
  <2>2. \E l \in sent : a.hs[1] = l.hs[1]
    BY <1>7, <1>16
  <2> QED BY <1>13, <1>16, <2>1, <2>2, NodeAnswers
<1>18. \A d \in Ends \ {e} : established(d)' = established(d)
  BY <1>4, <1>5, <1>7, <1>10, OneEnd
<1>19. /\ established("A")' \in SUBSET established("A") /\ sent' \in SUBSET (sent \cup {a})
       /\ established("N")' = {} /\ km'["A"] = km["A"] /\ km'["N"] = k
  BY <1>1, <1>4, <1>7, <1>10, <1>12, <1>18 DEF Ends
<1>20. Handshakes(sent', established("A")', established("N")', km'["A"], km'["N"], draws)
  BY <1>17, <1>19, Fewer
<1>21. Keyed'
  BY <1>20 DEF Keyed
<1>22. KmOK(e)'
  BY <1>1, <1>5, <1>10, <1>15 DEF KmOK
<1>23. SignalsOK(e)'
  BY <1>5, <1>10, <1>11 DEF SignalsOK
<1>24. QueueOK(e)'
  BY <1>1, <1>4, <1>6, <1>7, <1>10 DEF QueueOK
<1>25. LinkOK(e)'
  BY <1>1, <1>4, <1>5, <1>10 DEF LinkOK
<1> QED BY <1>4, <1>5, <1>7, <1>10, <1>21, <1>22, <1>23, <1>24, <1>25, OneEnd DEF EndOK

\* The adapter ends its handshake and sends the last message.
LEMMA AdapterEndStep ==
    ASSUME IInv, NEW e \in Ends, NEW k, NEW c, km[e].st = "Configuring", inq[e] # <<>>,
           inq' = [inq EXCEPT ![e] = Tail(@)], KmBecomes(e, k), UNCHANGED draws,
           net' = net \cup answers(e, k, c),
           DOMAIN k = KmFields, k.id = km[e].id, k.rkey = km[e].rkey, k.canceled = km[e].canceled,
           AdapterEnd(e, km[e], Head(inq[e]), k)
    PROVE  IInv'
<1> DEFINE m == Head(inq[e])  a == message("N", 3, k.hs, k.rkey, "none")
<1>1. /\ e = "A" /\ km[e].nr = 1 /\ m.nr = 2 /\ Front(m.hs) = km[e].hs
      /\ k.st = "Transport" /\ k.nr = 3 /\ k.hs = m.hs /\ k.skey = m.key /\ Trusted(e, k.cert)
  BY DEF AdapterEnd
<1>2. answers(e, k, c) = {a} /\ a.to = "N" /\ a.nr = 3 /\ a.hs = k.hs /\ a.key = k.rkey
  BY <1>1 DEF answers, message
<1>3. established(e) = {}
  BY Unkeyed
<1>4. m \in sent /\ \A M : net' \subseteq net \cup M => sent' \subseteq sent \cup M
  BY Taken
<1>5. draws \in Nat /\ Second(m, draws)
  BY <1>1, <1>4, Heard
<1>6. Handshakes(sent, {}, established("N"), km["A"], km["N"], draws)
  BY <1>1, <1>3 DEF IInv, Keyed
<1>7. km["A"].rkey \in 1 .. draws
  BY <1>1, <1>6 DEF Handshakes, Latest
<1>8. km["A"].hs = <<km["A"].rkey>>
  <2>1. KmOK(e)
    BY Ended
  <2> QED BY <1>1, <2>1 DEF KmOK
<1> HIDE DEF m, a
<1>9. /\ m.hs \in Seq(1 .. draws) /\ Len(m.hs) = 2 /\ m.hs[1] = k.rkey
      /\ m.hs = <<k.rkey, m.hs[2]>> /\ m.key = m.hs[2]
  <2>1. m.hs \in Seq(1 .. draws) /\ Len(m.hs) \in {2, 3} /\ m.key = m.hs[Len(m.hs)]
    BY <1>5 DEF Second
  <2>2. Front(m.hs) = <<km["A"].rkey>>
    BY <1>1, <1>8
  <2>3. Len(m.hs) = 2 /\ m.hs[1] = km["A"].rkey /\ m.hs = <<km["A"].rkey, m.hs[2]>>
    BY <1>5, <1>7, <2>1, <2>2, Transcripts
  <2> QED BY <1>1, <2>1, <2>3
<1>10. Paired(e, k.hs, k.skey, k.rkey)
  BY <1>1, <1>9 DEF Paired
<1>11. /\ established(e)' = {k.hs} /\ (Keyed' => IInv') /\ km'[e] = k
       /\ \A d \in Ends \ {e} : established(d)' = established(d) /\ km'[d] = km[d]
  BY <1>1, <1>10, Completed
<1>12. Third(a, draws) /\ a.hs = m.hs
  BY <1>1, <1>2, <1>9 DEF Third
<1>13. Handshakes(sent \cup {a}, {m.hs}, established("N"), k, km["N"], draws)
  <2>1. /\ km["A"].st \notin {"None", "Transport"} /\ m.nr = 2 /\ Len(m.hs) = 2
        /\ m.hs[1] = km["A"].rkey /\ k.st = "Transport" /\ k.rkey = km["A"].rkey /\ k.hs = m.hs
    BY <1>1, <1>9
  <2> QED BY <1>4, <1>6, <1>12, <2>1, AdapterCompletes
<1>14. /\ established("N")' \in SUBSET established("N") /\ sent' \in SUBSET (sent \cup {a})
       /\ established("A")' \in SUBSET {m.hs} /\ km'["A"] = k /\ km'["N"] = km["N"]
  BY <1>1, <1>2, <1>4, <1>11 DEF Ends
<1>15. Handshakes(sent', established("A")', established("N")', km'["A"], km'["N"], draws)
  BY <1>1, <1>13, <1>14, Fewer
<1> QED BY <1>11, <1>15 DEF Keyed

\* The node ends its handshake.
LEMMA NodeEndStep ==
    ASSUME IInv, NEW e \in Ends, NEW k, NEW c, km[e].st = "Configuring", inq[e] # <<>>,
           inq' = [inq EXCEPT ![e] = Tail(@)], KmBecomes(e, k), UNCHANGED draws,
           net' = net \cup answers(e, k, c),
           DOMAIN k = KmFields, k.id = km[e].id, k.rkey = km[e].rkey, k.canceled = km[e].canceled,
           NodeEnd(e, km[e], Head(inq[e]), k)
    PROVE  IInv'
<1> DEFINE m == Head(inq[e])
<1>1. /\ e = "N" /\ km[e].nr = 2 /\ m.nr = 3 /\ m.hs = km[e].hs
      /\ k.st = "Transport" /\ k.nr = 3 /\ k.hs = km[e].hs /\ k.skey = m.key
  BY DEF NodeEnd
<1>2. answers(e, k, c) = {} /\ Trusted(e, k.cert)
  BY <1>1 DEF answers, Trusted
<1>3. established(e) = {}
  BY Unkeyed
<1>4. m \in sent /\ \A M : net' \subseteq net \cup M => sent' \subseteq sent \cup M
  BY Taken
<1>5. draws \in Nat /\ Third(m, draws)
  BY <1>1, <1>4, Heard
<1>6. Handshakes(sent, established("A"), {}, km["A"], km["N"], draws)
  BY <1>1, <1>3 DEF IInv, Keyed
<1>7. km["N"].rkey \in 1 .. draws
  BY <1>1, <1>6 DEF Handshakes, OnceAnswered
<1>8. km["N"].hs[Len(km["N"].hs)] = km["N"].rkey
  <2>1. KmOK(e)
    BY Ended
  <2> QED BY <1>1, <2>1 DEF KmOK
<1> HIDE DEF m
<1>9. m.hs[2] = k.rkey /\ m.hs = <<k.skey, k.rkey>>
  <2>1. m.hs \in Seq(1 .. draws) /\ Len(m.hs) = 2 /\ m.key = m.hs[1]
    BY <1>5 DEF Third
  <2>2. m.hs = <<m.hs[1], m.hs[2]>>
    BY <1>5, <1>7, <2>1, Transcripts
  <2>3. m.hs[2] = k.rkey
    BY <1>1, <1>8, <2>1
  <2> QED BY <1>1, <2>1, <2>2, <2>3
<1>10. Paired(e, k.hs, k.skey, k.rkey)
  BY <1>1, <1>9 DEF Paired
<1>11. /\ established(e)' = {k.hs} /\ (Keyed' => IInv') /\ km'[e] = k
       /\ \A d \in Ends \ {e} : established(d)' = established(d) /\ km'[d] = km[d]
  BY <1>1, <1>2, <1>10, Completed
<1>12. Handshakes(sent, established("A"), {m.hs}, km["A"], k, draws)
  <2>1. /\ km["N"].st # "None" /\ m.hs = km["N"].hs /\ m.hs[2] = km["N"].rkey
        /\ k.rkey = km["N"].rkey /\ k.hs = km["N"].hs /\ k.nr # 0
    BY <1>1, <1>9
  <2> QED BY <1>4, <1>5, <1>6, <2>1, NodeCompletes
<1>13. /\ established("A")' \in SUBSET established("A") /\ sent' \in SUBSET sent
       /\ established("N")' \in SUBSET {m.hs} /\ km'["N"] = k /\ km'["A"] = km["A"]
  BY <1>1, <1>2, <1>4, <1>11 DEF Ends
<1>14. Handshakes(sent', established("A")', established("N")', km'["A"], km'["N"], draws)
  BY <1>1, <1>12, <1>13, Fewer
<1> QED BY <1>11, <1>14 DEF Keyed

\* A key manager that has ended its handshake, or failed, ignores a message.
LEMMA IgnoreStep ==
    ASSUME IInv, NEW e \in Ends, km[e].st \notin {"None", "Configuring"}, inq[e] # <<>>,
           inq' = [inq EXCEPT ![e] = Tail(@)], KmBecomes(e, km[e]), UNCHANGED <<net, draws>>
    PROVE  IInv'
<1>1. /\ DOMAIN km = Ends /\ DOMAIN inq = Ends /\ DOMAIN sigs = Ends
      /\ DOMAIN sa = Ends /\ DOMAIN link = Ends
      /\ KmOK(e) /\ SignalsOK(e) /\ QueueOK(e) /\ LinkOK(e)
  BY Ended
<1>2. sigs[e] \o <<>> = sigs[e]
  <2>1. sigs[e] \in Seq(ToSet(sigs[e]))
    BY <1>1 DEF SignalsOK
  <2> QED BY <2>1, QueueAppend
<1>3. /\ km' = [km EXCEPT ![e] = km[e]] /\ sigs' = [sigs EXCEPT ![e] = @ \o <<>>]
      /\ UNCHANGED <<sa, link>>
  BY DEF KmBecomes, handle_state_transition
<1>4. /\ DOMAIN km' = Ends /\ DOMAIN sigs' = Ends
      /\ \A d \in Ends : km'[d] = km[d] /\ sigs'[d] = sigs[d]
  BY <1>1, <1>2, <1>3
<1>5. /\ DOMAIN inq' = Ends /\ \A d \in Ends \ {e} : inq'[d] = inq[d]
      /\ inq'[e] \in Seq(ToSet(inq'[e])) /\ (\A m \in ToSet(inq'[e]) : m.to = e)
      /\ \A M : net' \subseteq net \cup M => sent' \subseteq sent \cup M
  BY Taken
<1>6. signaled(e)' = signaled(e) /\ associations(e)' = associations(e)
  BY <1>3, <1>4 DEF signaled, associations
<1>7. established(e)' = established(e)
  BY <1>4, <1>6 DEF established
<1>8. KmOK(e)' /\ LinkOK(e)'
  BY <1>1, <1>3, <1>4 DEF KmOK, LinkOK
<1>9. SignalsOK(e)'
  BY <1>1, <1>4, <1>6 DEF SignalsOK
<1>10. QueueOK(e)'
  BY <1>1, <1>3, <1>4, <1>5 DEF QueueOK
<1>11. \A d \in Ends \ {e} : established(d)' = established(d)
  BY <1>1, <1>3, <1>4, <1>5, OneEnd
<1>12. sent' \subseteq sent
  <2>1. net' \subseteq net \cup {}
    OBVIOUS
  <2> QED BY <1>5, <2>1
<1>13. Keyed'
  BY <1>4, <1>7, <1>11, <1>12, Shrinks
<1> QED BY <1>1, <1>3, <1>4, <1>5, <1>8, <1>9, <1>10, <1>13, OneEnd DEF EndOK

\* A key manager handles a message.
LEMMA DispatchStep ==
    ASSUME IInv, NEW e \in Ends, dispatch_km_message(e) PROVE IInv'
<1> DEFINE m == Head(inq[e])  k == handle_message(e, km[e], m)
<1>1. /\ km[e].st # "None" /\ inq[e] # <<>> /\ inq' = [inq EXCEPT ![e] = Tail(@)]
      /\ KmBecomes(e, k) /\ UNCHANGED draws
      /\ IF k = km[e] THEN UNCHANGED net
         ELSE \E cert \in Certs : net' = net \cup answers(e, k, cert)
  BY DEF dispatch_km_message
<1>2. KmOK(e) /\ DOMAIN inq = Ends /\ DOMAIN km[e] = KmFields
  BY Ended
<1>3. CASE km[e].st # "Configuring"
  <2>1. k = km[e]
    BY <1>3 DEF handle_message
  <2> QED BY <1>1, <1>3, <2>1, IgnoreStep
<1>4. CASE km[e].st = "Configuring"
  <2>1. \/ e = "A" /\ km[e].nr = 1
        \/ e = "N" /\ km[e].nr \in {0, 2}
    BY <1>2, <1>4 DEF KmOK
  <2>2. /\ DOMAIN k = KmFields /\ k.id = km[e].id /\ k.rkey = km[e].rkey /\ k.canceled = km[e].canceled
        /\ \/ Failure(km[e], k) \/ Answer(e, km[e], m, k)
           \/ AdapterEnd(e, km[e], m, k) \/ NodeEnd(e, km[e], m, k)
    BY <1>2, <1>4, <2>1, Outcomes
  <2> HIDE DEF k, m
  <2>3. CASE Failure(km[e], k)
    <3>1. k.st = "Error" /\ k.nr = km[e].nr /\ k.hs = km[e].hs
      BY <2>3 DEF Failure
    <3>2. \A c : answers(e, k, c) = {}
      BY <3>1 DEF answers
    <3>3. net' = net
      BY <1>1, <3>2
    <3>4. handle_state_transition(km[e], k) = <<[kind |-> "Error"]>>
      BY <1>4, <3>1 DEF handle_state_transition
    <3>5. /\ km' = [km EXCEPT ![e] = k] /\ UNCHANGED <<sa, link>>
          /\ sigs' = [sigs EXCEPT ![e] = @ \o <<[kind |-> "Error"]>>]
      BY <1>1, <3>4 DEF KmBecomes
    <3>6. DOMAIN inq' = Ends /\ inq'[e] = Tail(inq[e]) /\ \A d \in Ends \ {e} : inq'[d] = inq[d]
      BY <1>1, <1>2
    <3> QED BY <1>1, <1>4, <2>2, <3>1, <3>3, <3>5, <3>6, Fails
  <2>4. CASE ~Failure(km[e], k)
    <3>1. k # km[e]
      BY <1>4, <2>2, <2>4 DEF Answer, AdapterEnd, NodeEnd
    <3>2. PICK c \in Certs : net' = net \cup answers(e, k, c)
      BY <1>1, <3>1
    <3>3. CASE Answer(e, km[e], m, k)
      BY <1>1, <1>4, <2>2, <3>2, <3>3, AnswerStep DEF m
    <3>4. CASE AdapterEnd(e, km[e], m, k)
      BY <1>1, <1>4, <2>2, <3>2, <3>4, AdapterEndStep DEF m
    <3>5. CASE NodeEnd(e, km[e], m, k)
      BY <1>1, <1>4, <2>2, <3>2, <3>5, NodeEndStep DEF m
    <3> QED BY <2>2, <2>4, <3>3, <3>4, <3>5
  <2> QED BY <2>3, <2>4
<1> QED BY <1>3, <1>4

-----------------------------------------------------------------------------
(* The theorems.                                                           *)

\* Nothing is there at first.
LEMMA InitIInv == Init => IInv
<1> SUFFICES ASSUME Init PROVE IInv
  OBVIOUS
<1>1. /\ km = [e \in Ends |-> no_km] /\ inq = [e \in Ends |-> <<>>] /\ net = {}
      /\ sigs = [e \in Ends |-> <<>>] /\ sa = [e \in Ends |-> {}] /\ draws = 0
      /\ link = [e \in Ends |-> IF e = "A" THEN "Inactive" ELSE "Absent"]
  BY DEF Init
<1>2. no_km.st = "None" /\ ~no_km.canceled /\ DOMAIN no_km = KmFields
  BY DEF no_km, new_km, KmFields
<1>3. <<>> \in Seq(ToSet(<<>>)) /\ ToSet(<<>>) = {}
  BY QueueShort
<1>4. \A e \in Ends : /\ km[e] = no_km /\ inq[e] = <<>> /\ sigs[e] = <<>> /\ sa[e] = {}
                      /\ link[e] = (IF e = "A" THEN "Inactive" ELSE "Absent")
  BY <1>1
<1>5. \A e \in Ends : signaled(e) = {} /\ associations(e) = {} /\ established(e) = {}
  BY <1>2, <1>3, <1>4 DEF signaled, associations, established
<1>6. ASSUME NEW e \in Ends PROVE EndOK(e)
  <2>1. KmOK(e)
    BY <1>2, <1>4 DEF KmOK
  <2>2. SignalsOK(e)
    BY <1>2, <1>3, <1>4, <1>5 DEF SignalsOK
  <2>3. QueueOK(e)
    BY <1>2, <1>3, <1>4 DEF QueueOK
  <2>4. LinkOK(e)
    BY <1>2, <1>4 DEF LinkOK, Running
  <2> QED BY <2>1, <2>2, <2>3, <2>4 DEF EndOK
<1>7. "A" \in Ends /\ "N" \in Ends
  BY DEF Ends
<1>8. sent = {} /\ established("A") = {} /\ established("N") = {}
  BY <1>1, <1>3, <1>4, <1>5, <1>7 DEF sent
<1>9. km["A"].st = "None" /\ km["N"].st = "None"
  BY <1>2, <1>4, <1>7
<1>10. done({}, {}, {}) = {} /\ made({}, {}, {}) = {}
  BY DEF done, made
<1>11. Handshakes({}, {}, {}, km["A"], km["N"], draws)
  BY <1>1, <1>9, <1>10 DEF Handshakes, Forms, Latest, OnceAnswered, Ordered, Remembered
<1>12. Keyed
  BY <1>8, <1>11 DEF Keyed
<1> QED BY <1>1, <1>6, <1>12 DEF IInv

\* Every step keeps the invariant.
LEMMA NextIInv == IInv /\ [Next]_vars => IInv'
<1> SUFFICES ASSUME IInv, [Next]_vars PROVE IInv'
  OBVIOUS
<1>1. CASE UNCHANGED vars
  <2>1. UNCHANGED <<km, inq, net, sigs, sa, link, draws>>
    BY <1>1 DEF vars
  <2>2. \A d \in Ends : EndOK(d)' /\ established(d)' = established(d)
    BY <2>1, SameEnd DEF IInv
  <2>3. Keyed'
    BY <2>1, <2>2 DEF IInv, Keyed, sent, Ends
  <2> QED BY <2>1, <2>2, <2>3 DEF IInv
<1>2. ASSUME NEW e \in Ends,
             \/ dispatch_km_message(e) \/ HandshakeTimeout(e) \/ tick_statemachine(e)
             \/ Terminate(e) \/ launch_signal_worker(e) \/ restart(e)
             \/ Hello(e) \/ Timeout(e) \/ drop_link(e) \/ Dropped(e) \/ Close(e)
      PROVE  IInv'
  BY <1>2, DispatchStep, HandshakeTimeoutStep, TickStep, TerminateStep, SignalStep, RestartStep,
     LinkSteps, DropLinkStep, DroppedStep
<1>3. CASE Start \/ Repeat
  <2>1. "A" \in Ends
    BY DEF Ends
  <2> QED BY <1>3, <2>1, StartStep, LinkSteps
<1>4. ASSUME NEW m \in net, Receive(m, FALSE) \/ Receive(m, TRUE) \/ Lose(m)
      PROVE  IInv'
  BY <1>4, ReceiveStep, LoseStep
<1>5. CASE Crash
  BY <1>5, CrashStep
<1> QED BY <1>1, <1>2, <1>3, <1>4, <1>5 DEF Next, Progress

\* The invariant holds, whatever is lost, repeated, delayed, dropped and started
\* again.
THEOREM KeysInvariance == Spec => []IInv
  BY InitIInv, NextIInv, PTL DEF Spec

\* The two ends never believe in different keys: when both have an association
\* stored (Peer::set_sa, km_multiplexor.rs) it comes from one handshake, and each
\* sends with the key that the other expects.  The adapter remembers the last
\* handshake that it has completed, and no one has completed a later one; so
\* does the node, of those that it has answered.
THEOREM TheEndsAgree == Spec => []KeysAgree
<1>1. IInv => KeysAgree
  <2> SUFFICES ASSUME IInv, NEW a \in sa["A"], NEW n \in sa["N"]
               PROVE  a.hs = n.hs /\ a.skey = n.rkey /\ n.skey = a.rkey
    BY DEF KeysAgree
  <2>1. SignalsOK("A") /\ SignalsOK("N")
    BY Ended DEF Ends
  <2>2. Paired("A", a.hs, a.skey, a.rkey) /\ Paired("N", n.hs, n.skey, n.rkey)
    BY <2>1 DEF SignalsOK, associations
  <2>3. a.hs \in established("A") /\ n.hs \in established("N")
    BY DEF established, associations
  <2>4. a.hs = n.hs
    BY <2>3 DEF IInv, Keyed, Handshakes, Remembered
  <2>5. a.hs = <<a.rkey, a.skey>> /\ n.hs = <<n.skey, n.rkey>>
    BY <2>2 DEF Paired
  <2>6. a.hs[1] = a.rkey /\ a.hs[2] = a.skey /\ n.hs[1] = n.skey /\ n.hs[2] = n.rkey
    BY <2>5
  <2> QED BY <2>4, <2>6
<1> QED BY <1>1, KeysInvariance, PTL

\* A link that says hello has an association, which its own key manager has
\* made and not that of an earlier link; and if the adapter has an authority,
\* the node has shown a certificate that it vouches for in that handshake.
THEOREM HelloIsKeyed == Spec => []KeyedIsSound
<1>1. IInv => KeyedIsSound
  <2> SUFFICES ASSUME IInv, NEW e \in Ends, link[e] \in {"Helloing", "Active"}
               PROVE  /\ sa[e] # {} /\ ~stale(e)
                      /\ e = "A" /\ Authority => \A a \in sa[e] : a.cert = "verified"
    BY DEF KeyedIsSound
  <2>1. LinkOK(e)
    BY Ended
  <2>2. sa[e] # {} /\ \A a \in sa[e] : a.km = km[e].id /\ Trusted(e, a.cert)
    BY <2>1 DEF LinkOK
  <2> QED BY <2>2 DEF stale, Trusted
<1> QED BY <1>1, KeysInvariance, PTL

=============================================================================
