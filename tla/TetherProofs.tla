---------------------------- MODULE TetherProofs -----------------------------
(***************************************************************************)
(* Tethers, for any adapters, links, flows and visas, and however many     *)
(* sessions end and requests are made: forwarding follows the visas, what  *)
(* an actor is given was sent to it, and a flow that is pending waits for  *)
(* something that happens.                                                 *)
(***************************************************************************)
EXTENDS Tether, SequenceTheorems, WellFoundedInduction, TLAPS

NodeFields == {"peers", "pft", "reqs", "awaiting", "visas", "asked", "out", "panic"}
AdapterFields == {"up", "txns", "tasks", "pending", "active", "dlt"}

-----------------------------------------------------------------------------
(* The invariant.  n stands for the node, vis for the visas issued, M for  *)
(* the messages on their way and A for the adapters.                       *)

\* Peers have link ids and owners of their own.
Peers(n) ==
    /\ \A p \in n.peers : /\ DOMAIN p = {"link", "who", "owns", "txns"}
                          /\ p.who \in Adapters /\ p.txns \in Nat
    /\ \A p, q \in n.peers : p.link = q.link \/ p.who = q.who => p = q

\* Visas are those issued under their ids.
Visas(n, vis) ==
    /\ \A v \in n.visas : /\ DOMAIN v = {"id", "tc", "streams"}
                          /\ v.id \in DOMAIN vis /\ vis[v.id] = v.tc
                          /\ \A s \in v.streams : s = <<s[1], s[2]>>
    /\ \A v, w \in n.visas : v.id = w.id => v = w

\* Forwarding entries are the streams of the visas, and no slot has two.
Routes(n) ==
    /\ \A e \in n.pft :
         /\ peer_of(n, e.link) # {}
         /\ \E v \in n.visas : v.id = e.visa /\ <<e.link, e.id>> \in v.streams
    /\ \A v \in n.visas : \A s \in v.streams :
         \E e \in n.pft : e.link = s[1] /\ e.id = s[2] /\ e.visa = v.id
    /\ \A d, e \in n.pft : d.link = e.link /\ d.id = e.id => d = e

\* A next hop is asked in a transaction of its own.
Hops(n) ==
    /\ \A w \in n.awaiting : /\ w.etxn \in Nat
                             /\ \E p \in peer_of(n, w.elink) : w.etxn <= p.txns
    /\ \A v, w \in n.awaiting : v.elink = w.elink /\ v.etxn = w.etxn => v = w

issued(vis, tc) == \E i \in DOMAIN vis : vis[i] = tc

\* An egress adapter is asked for traffic to itself only.
Messages(M, vis) ==
    \A m \in M : /\ m.a \in Adapters
                 /\ m.kind = "egress_req" => issued(vis, m.tc) /\ m.tc.dst = m.a

NodeOK(n, vis) ==
    /\ DOMAIN n = NodeFields
    /\ Peers(n) /\ Visas(n, vis) /\ Routes(n) /\ Hops(n) /\ Messages(n.out, vis)

AdapterOK(s, a, vis) ==
    /\ DOMAIN s = AdapterFields
    /\ \A e \in s.pending \cup s.active : e.flow \in Flows /\ e.flow.src = a
    /\ \A e \in s.dlt : issued(vis, e.tc) /\ e.tc.dst = a

BindKinds == {"bind_req", "bind_resp"}
EgressKinds == {"egress_req", "egress_resp"}

told(M, kinds, a, t) == \E m \in M : m.kind \in kinds /\ m.a = a /\ m.txn = t

\* The node has a request that waits for the visa service, which has been
\* asked, or for the next hop.
waits(n, l, t) ==
    \E r \in request_of(n, l, t) :
        \/ r.st = "hop"
        \/ r.st = "visa" /\ \E q \in n.asked : q.link = l /\ q.txn = t

\* Every pending flow is waited for by a message or a request,
Underway(n, M, A) ==
    \A a \in Adapters : \A e \in A[a].pending : \A p \in link_of(n, a) :
        p.owns /\ A[a].up => told(M, BindKinds, a, e.txn) \/ waits(n, p.link, e.txn)

\* and every next hop that is awaited is asked, or answers, or goes down.
Asking(n, M, A) ==
    \A w \in n.awaiting : \E h \in peer_of(n, w.elink) :
        ~(h.owns /\ A[h.who].up) \/ told(M, EgressKinds, h.who, w.etxn)

AdaptersOK(A, vis) ==
    DOMAIN A = Adapters /\ \A a \in Adapters : AdapterOK(A[a], a, vis)

\* pn is the assertion that has failed, or "".
Tables(n, M, A, vis, pn) ==
    /\ NodeOK(n, vis) /\ n.out = {} /\ n.panic = "" /\ Messages(M, vis)
    /\ pn = "" => Underway(n, M, A) /\ Asking(n, M, A)

\* A packet is of a flow of the adapter that has sent it.
Carried(K) == \A k \in K : k.body \in Flows /\ k.body.src = k.from

\* No assertion has failed.
Running == panic = ""

\* The inductive invariant.
IInv ==
    /\ AdaptersOK(ad, visa) /\ Tables(node, msgs, ad, visa, panic)
    /\ visa \in Seq(Policy)
    /\ DOMAIN budget = {"slots", "binds", "downs", "cancels", "packets"}
    /\ budget.slots \in Nat
    /\ Carried(pkt) /\ DeliveredAsSent

-----------------------------------------------------------------------------
(* Tables.                                                                 *)

\* A table that is not full has a vacant slot.
LEMMA VacantKey ==
    ASSUME NEW used, budget.slots \in Nat, ~full(used)
    PROVE  vacant_key(used) \in 1 .. budget.slots /\ vacant_key(used) \notin used
<1> DEFINE S == (1 .. budget.slots) \ used
<1>1. PICK x \in S : TRUE
  BY DEF full
<1>2. S \subseteq Nat
  OBVIOUS
<1> HIDE DEF S
<1>3. \E x0 \in S : \A y \in S : x0 <= y
  <2> DEFINE R == OpToRel(<, Nat)
  <2>1. IsWellFoundedOn(R, Nat)
    BY NatLessThanWellFounded
  <2>2. PICK z \in S : \A y \in S : ~(<<y, z>> \in R)
    BY <1>1, <1>2, <2>1, WFMin
  <2>3. \A y \in S : ~(y < z)
    BY <1>2, <2>2 DEF OpToRel
  <2> HIDE DEF R
  <2>4. \A y \in S : z <= y
    <3> SUFFICES ASSUME NEW y \in S PROVE z <= y
      OBVIOUS
    <3>1. y \in Nat /\ z \in Nat
      BY <1>2
    <3> QED BY <2>3, <3>1
  <2> QED BY <2>4
<1>4. Min(S) \in S
  BY <1>3 DEF Min
<1> QED BY <1>4 DEF S, vacant_key

\* The transaction ids, and the parts of the node's state.
LEMMA NodeParts ==
    ASSUME NEW n, NEW vis, NodeOK(n, vis)
    PROVE  /\ DOMAIN n = NodeFields /\ Peers(n) /\ Visas(n, vis) /\ Routes(n) /\ Hops(n)
           /\ Messages(n.out, vis)
  BY DEF NodeOK

\* What is left of the peer, visa and forwarding tables keeps the invariant.
LEMMA SameTables ==
    ASSUME NEW n, NEW vis, NodeOK(n, vis), NEW o, DOMAIN o = NodeFields,
           o.peers = n.peers, o.pft = n.pft, o.visas = n.visas,
           o.awaiting \subseteq n.awaiting, Messages(o.out, vis)
    PROVE  NodeOK(o, vis)
<1>1. Peers(n) /\ Visas(n, vis) /\ Routes(n) /\ Hops(n)
  BY NodeParts
<1>2. \A l : peer_of(o, l) = peer_of(n, l)
  BY DEF peer_of
<1>3. Peers(o)
  BY <1>1 DEF Peers
<1>4. Visas(o, vis)
  BY <1>1 DEF Visas
<1>5. Routes(o)
  BY <1>1, <1>2 DEF Routes
<1>6. Hops(o)
  BY <1>1, <1>2 DEF Hops
<1> QED BY <1>3, <1>4, <1>5, <1>6 DEF NodeOK

\* More visas have been issued.
LEMMA MoreIssued ==
    ASSUME NEW vis \in Seq(Policy), NEW tc \in Policy, NEW n, NodeOK(n, vis)
    PROVE  /\ Append(vis, tc) \in Seq(Policy) /\ Len(vis) + 1 \notin DOMAIN vis
           /\ Len(vis) + 1 \in DOMAIN Append(vis, tc) /\ Append(vis, tc)[Len(vis) + 1] = tc
           /\ \A i \in DOMAIN vis : i \in DOMAIN Append(vis, tc) /\ Append(vis, tc)[i] = vis[i]
           /\ \A c : issued(vis, c) => issued(Append(vis, tc), c)
           /\ \A M : Messages(M, vis) => Messages(M, Append(vis, tc))
           /\ \A s, a : AdapterOK(s, a, vis) => AdapterOK(s, a, Append(vis, tc))
           /\ NodeOK(n, Append(vis, tc))
<1> DEFINE more == Append(vis, tc)  k == Len(vis)
<1>1. /\ more \in Seq(Policy) /\ k + 1 \notin DOMAIN vis /\ k + 1 \in DOMAIN more /\ more[k + 1] = tc
      /\ \A i \in DOMAIN vis : i \in DOMAIN more /\ more[i] = vis[i]
  OBVIOUS
<1> HIDE DEF more, k
<1>2. \A c : issued(vis, c) => issued(more, c)
  BY <1>1 DEF issued
<1>3. \A M : Messages(M, vis) => Messages(M, more)
  BY <1>2 DEF Messages
<1>4. \A s, a : AdapterOK(s, a, vis) => AdapterOK(s, a, more)
  BY <1>2 DEF AdapterOK
<1>5. Visas(n, more)
  BY <1>1 DEF NodeOK, Visas
<1>6. NodeOK(n, more)
  BY <1>3, <1>5 DEF NodeOK
<1> QED BY <1>1, <1>2, <1>3, <1>4, <1>6 DEF more, k

\* The visa id has been issued for tc, and the node has not got it yet.
Fresh(n, vis, id, tc) ==
    id \in DOMAIN vis /\ vis[id] = tc /\ \A v \in n.visas : v.id # id

\* insert_visa, with an id that was not used before.
LEMMA InsertVisa ==
    ASSUME NEW n, NEW vis, NodeOK(n, vis), NEW id, NEW tc, Fresh(n, vis, id, tc)
    PROVE  NodeOK(insert_visa(n, id, tc), vis)
<1> DEFINE o == insert_visa(n, id, tc)  x == [id |-> id, tc |-> tc, streams |-> {}]
<1>1. /\ DOMAIN n = NodeFields /\ Peers(n) /\ Visas(n, vis) /\ Routes(n) /\ Hops(n)
      /\ Messages(n.out, vis)
  BY NodeParts
<1>2. /\ DOMAIN o = NodeFields /\ o.peers = n.peers /\ o.reqs = n.reqs /\ o.asked = n.asked
      /\ o.awaiting = n.awaiting /\ o.out = n.out /\ o.panic = n.panic /\ o.pft = n.pft
      /\ o.visas = n.visas \cup {x}
  BY <1>1 DEF insert_visa, NodeFields
<1>3. DOMAIN x = {"id", "tc", "streams"} /\ x.id = id /\ x.tc = tc /\ x.streams = {}
  OBVIOUS
<1> HIDE DEF o, x
<1>4. \A l : peer_of(o, l) = peer_of(n, l)
  BY <1>2 DEF peer_of
<1>5. Peers(o)
  BY <1>1, <1>2 DEF Peers
<1>6. Visas(o, vis)
  BY <1>1, <1>2, <1>3 DEF Visas, Fresh
<1>7. Routes(o)
  BY <1>1, <1>2, <1>3, <1>4 DEF Routes
<1>8. Hops(o)
  BY <1>1, <1>2, <1>4 DEF Hops
<1>9. NodeOK(o, vis)
  BY <1>1, <1>2, <1>5, <1>6, <1>7, <1>8 DEF NodeOK
<1> QED BY <1>9 DEF o

\* revoke: the entries that go are those of the visas that go.
LEMMA Revoke ==
    ASSUME NEW n, NEW vis, NodeOK(n, vis), NEW gone \in SUBSET n.visas
    PROVE  LET o == revoke(n, gone)
           IN  /\ NodeOK(o, vis) /\ o.peers = n.peers /\ o.reqs = n.reqs /\ o.asked = n.asked
               /\ o.awaiting = n.awaiting /\ o.out = n.out /\ o.panic = n.panic
               /\ o.visas = n.visas \ gone /\ o.pft \subseteq n.pft
<1> DEFINE o == revoke(n, gone)
<1>1. /\ DOMAIN n = NodeFields /\ Peers(n) /\ Visas(n, vis) /\ Routes(n) /\ Hops(n)
      /\ Messages(n.out, vis)
  BY NodeParts
<1>2. /\ DOMAIN o = NodeFields /\ o.peers = n.peers /\ o.reqs = n.reqs /\ o.asked = n.asked
      /\ o.awaiting = n.awaiting /\ o.out = n.out /\ o.panic = n.panic
      /\ o.visas = n.visas \ gone
      /\ o.pft = {e \in n.pft : \A v \in gone : <<e.link, e.id>> \notin v.streams}
  BY <1>1 DEF revoke, remove_forwarding_entries, NodeFields
<1> HIDE DEF o
<1>3. \A l : peer_of(o, l) = peer_of(n, l)
  BY <1>2 DEF peer_of
<1>4. Peers(o)
  BY <1>1, <1>2 DEF Peers
<1>5. Visas(o, vis)
  BY <1>1, <1>2 DEF Visas
<1>6. Routes(o)
  <2>1. \A e \in o.pft : /\ peer_of(o, e.link) # {}
                         /\ \E v \in o.visas : v.id = e.visa /\ <<e.link, e.id>> \in v.streams
    BY <1>1, <1>2, <1>3 DEF Routes
  <2>2. ASSUME NEW v \in o.visas, NEW s \in v.streams
        PROVE  \E e \in o.pft : e.link = s[1] /\ e.id = s[2] /\ e.visa = v.id
    <3>1. PICK e \in n.pft : e.link = s[1] /\ e.id = s[2] /\ e.visa = v.id
      BY <1>1, <1>2 DEF Routes
    <3>2. ASSUME NEW w \in gone, <<e.link, e.id>> \in w.streams PROVE FALSE
      <4>1. PICK d \in n.pft : d.link = <<e.link, e.id>>[1] /\ d.id = <<e.link, e.id>>[2] /\ d.visa = w.id
        BY <1>1, <3>2 DEF Routes
      <4>2. d = e
        BY <1>1, <4>1 DEF Routes
      <4>3. w.id = v.id
        BY <3>1, <4>1, <4>2
      <4> QED BY <1>1, <1>2, <4>3 DEF Visas
    <3> QED BY <1>2, <3>1, <3>2
  <2>3. \A d, e \in o.pft : d.link = e.link /\ d.id = e.id => d = e
    BY <1>1, <1>2 DEF Routes
  <2> QED BY <2>1, <2>2, <2>3 DEF Routes
<1>7. Hops(o)
  BY <1>1, <1>2, <1>3 DEF Hops
<1>8. NodeOK(o, vis)
  BY <1>1, <1>2, <1>4, <1>5, <1>6, <1>7 DEF NodeOK
<1> QED BY <1>2, <1>8 DEF o

\* drop_peer: what a link leaves to the others.
LEMMA DropPeerTables ==
    ASSUME NEW n, NEW vis, NodeOK(n, vis), NEW l
    PROVE  LET o == drop_peer(n, l)
           IN  /\ NodeOK(o, vis) /\ o.asked = n.asked
               /\ \A p : p \in o.peers <=> p \in n.peers /\ p.link # l
               /\ \A r : r \in o.reqs <=> r \in n.reqs /\ r.link # l
               /\ \A w : w \in o.awaiting <=> w \in n.awaiting /\ w.elink # l
<1> DEFINE gone == {v \in n.visas : \E s \in v.streams : s[1] = l}
           m == revoke(n, gone)  o == drop_peer(n, l)
<1>1. /\ NodeOK(m, vis) /\ m.peers = n.peers /\ m.reqs = n.reqs /\ m.asked = n.asked
      /\ m.awaiting = n.awaiting /\ m.out = n.out /\ m.panic = n.panic
      /\ m.visas = n.visas \ gone
  BY Revoke
<1>2. /\ DOMAIN m = NodeFields /\ Peers(m) /\ Visas(m, vis) /\ Routes(m) /\ Hops(m)
      /\ Messages(m.out, vis)
  BY <1>1, NodeParts
<1>3. o = [m EXCEPT !.peers = {p \in @ : p.link # l}, !.pft = {e \in @ : e.link # l},
                    !.reqs = {r \in @ : r.link # l}, !.awaiting = {w \in @ : w.elink # l}]
  BY DEF drop_peer, revoke_for_link
<1> HIDE DEF m, o
<1>4. /\ DOMAIN o = NodeFields /\ o.peers = {p \in m.peers : p.link # l}
      /\ o.pft = {e \in m.pft : e.link # l} /\ o.reqs = {r \in m.reqs : r.link # l}
      /\ o.awaiting = {w \in m.awaiting : w.elink # l} /\ o.visas = m.visas
      /\ o.asked = m.asked /\ o.out = m.out /\ o.panic = m.panic
  BY <1>2, <1>3 DEF NodeFields
<1>5. \A k : k # l => peer_of(o, k) = peer_of(m, k)
  BY <1>4 DEF peer_of
<1>6. Peers(o)
  BY <1>2, <1>4 DEF Peers
<1>7. Visas(o, vis)
  BY <1>2, <1>4 DEF Visas
<1>8. Routes(o)
  <2>1. \A v \in o.visas : \A s \in v.streams : s[1] # l
    BY <1>1, <1>4
  <2>2. \A v \in o.visas : \A s \in v.streams :
          \E e \in o.pft : e.link = s[1] /\ e.id = s[2] /\ e.visa = v.id
    BY <1>2, <1>4, <2>1 DEF Routes
  <2>3. \A e \in o.pft : /\ peer_of(o, e.link) # {}
                         /\ \E v \in o.visas : v.id = e.visa /\ <<e.link, e.id>> \in v.streams
    BY <1>2, <1>4, <1>5 DEF Routes
  <2> QED BY <1>2, <1>4, <2>2, <2>3 DEF Routes
<1>9. Hops(o)
  BY <1>2, <1>4, <1>5 DEF Hops
<1>10. NodeOK(o, vis)
  BY <1>2, <1>4, <1>6, <1>7, <1>8, <1>9 DEF NodeOK
<1> QED BY <1>1, <1>4, <1>10 DEF o

-----------------------------------------------------------------------------
(* What a handler of the node leaves behind: from n to o.                  *)

\* A request (l, t) is answered, or waits.
Answers(o, l, t) ==
    \A p \in peer_of(o, l) : told(o.out, BindKinds, p.who, t) \/ waits(o, l, t)

same_session(p, q) == p.link = q.link /\ p.who = q.who /\ (p.owns <=> q.owns)

Settles(n, o) ==
    /\ \A p \in o.peers : \E q \in n.peers : same_session(p, q)
    /\ \A l, t : waits(n, l, t) => Answers(o, l, t)
    /\ \A w \in o.awaiting :
         \/ /\ w \in n.awaiting
            /\ \A h \in peer_of(n, w.elink) : \E g \in peer_of(o, w.elink) : same_session(g, h)
         \/ \E h \in peer_of(o, w.elink) : told(o.out, {"egress_req"}, h.who, w.etxn)

\* Of the messages in M the handler has taken those that are not in R: a
\* request that it answers, or an answer that is not awaited any more.
Served(n, o, M, R) ==
    /\ o.panic = "" => Settles(n, o)
    /\ \A m \in M \ R :
         /\ o.panic = "" /\ m.kind \in BindKinds =>
              \A p \in link_of(o, m.a) : Answers(o, p.link, m.txn)
         /\ m.kind \in EgressKinds =>
              \A w \in o.awaiting : \A h \in peer_of(n, w.elink) :
                 ~(m.a = h.who /\ m.txn = w.etxn)

\* The handler ends in o: its messages are sent, and N and S are the node and
\* the messages on their way then.
Sent(o, R, A, N, S) ==
    /\ N = [o EXCEPT !.out = {}, !.panic = ""]
    /\ S = {m \in R \cup o.out : A[m.a].up /\ link_of(o, m.a) # {}}

\* A handler that answers what it had to leaves nobody waiting for nothing.
LEMMA NodeStep ==
    ASSUME NEW n, NEW o, NEW vis, NodeOK(n, vis), NodeOK(o, vis),
           NEW A, NEW M, NEW R, Messages(R, vis), Served(n, o, M, R),
           Underway(n, M, A), Asking(n, M, A),
           NEW N, NEW S, Sent(o, R, A, N, S)
    PROVE  /\ NodeOK(N, vis) /\ N.out = {} /\ N.panic = "" /\ Messages(S, vis)
           /\ o.panic = "" => Underway(N, S, A) /\ Asking(N, S, A)
<1>1. /\ DOMAIN o = NodeFields /\ Peers(o) /\ Visas(o, vis) /\ Routes(o) /\ Hops(o)
      /\ Messages(o.out, vis)
  BY NodeParts
<1>2. /\ DOMAIN N = NodeFields /\ N.peers = o.peers /\ N.pft = o.pft /\ N.visas = o.visas
      /\ N.awaiting = o.awaiting /\ N.reqs = o.reqs /\ N.asked = o.asked
      /\ N.out = {} /\ N.panic = ""
  BY <1>1 DEF NodeFields, Sent
<1>3. NodeOK(N, vis)
  <2>1. N.awaiting \subseteq o.awaiting /\ Messages(N.out, vis)
    BY <1>2 DEF Messages
  <2> QED BY <1>2, <2>1, SameTables
<1>4. Messages(S, vis)
  BY <1>1 DEF Messages, Sent
<1>5. \A m \in R \cup o.out : A[m.a].up /\ link_of(o, m.a) # {} => m \in S
  BY DEF Sent
<1>6. ASSUME o.panic = "" PROVE Underway(N, S, A)
  <2> SUFFICES ASSUME NEW a \in Adapters, NEW e \in A[a].pending, NEW p \in link_of(N, a),
                      p.owns, A[a].up
               PROVE  told(S, BindKinds, a, e.txn) \/ waits(N, p.link, e.txn)
    BY DEF Underway
  <2>1. p \in o.peers /\ p.who = a /\ p \in link_of(o, a) /\ p \in peer_of(o, p.link)
    BY <1>2 DEF link_of, peer_of
  <2>2. \A t : waits(o, p.link, t) => waits(N, p.link, t)
    BY <1>2 DEF waits, request_of
  <2>3. \A t : Answers(o, p.link, t) => told(S, BindKinds, a, t) \/ waits(N, p.link, t)
    <3> SUFFICES ASSUME NEW t, told(o.out, BindKinds, a, t) PROVE told(S, BindKinds, a, t)
      BY <2>1, <2>2 DEF Answers
    <3>1. PICK m \in o.out : m.kind \in BindKinds /\ m.a = a /\ m.txn = t
      BY DEF told
    <3>2. m \in S
      BY <1>5, <2>1, <3>1
    <3> QED BY <3>1, <3>2 DEF told
  <2>4. PICK q \in n.peers : same_session(p, q)
    BY <1>6, <2>1 DEF Settles, Served
  <2>5. q \in link_of(n, a) /\ q.owns /\ q.link = p.link
    BY <2>1, <2>4 DEF same_session, link_of
  <2>6. told(M, BindKinds, a, e.txn) \/ waits(n, p.link, e.txn)
    BY <2>5 DEF Underway
  <2>7. CASE waits(n, p.link, e.txn)
    BY <1>6, <2>3, <2>7 DEF Settles, Served
  <2>8. CASE told(M, BindKinds, a, e.txn)
    <3>1. PICK m \in M : m.kind \in BindKinds /\ m.a = a /\ m.txn = e.txn
      BY <2>8 DEF told
    <3>2. CASE m \in R
      <4>1. m \in S
        BY <1>5, <2>1, <3>1, <3>2
      <4> QED BY <3>1, <4>1 DEF told
    <3>3. CASE m \notin R
      BY <1>6, <2>1, <2>3, <3>1, <3>3 DEF Served
    <3> QED BY <3>2, <3>3
  <2> QED BY <2>6, <2>7, <2>8
<1>7. ASSUME o.panic = "" PROVE Asking(N, S, A)
  <2> SUFFICES ASSUME NEW w \in o.awaiting
               PROVE  \E h \in peer_of(N, w.elink) :
                        ~(h.owns /\ A[h.who].up) \/ told(S, EgressKinds, h.who, w.etxn)
    BY <1>2 DEF Asking
  <2>1. peer_of(N, w.elink) = peer_of(o, w.elink)
    BY <1>2 DEF peer_of
  <2>2. \A h \in peer_of(o, w.elink) : h \in link_of(o, h.who)
    BY DEF peer_of, link_of
  <2>3. CASE \E h \in peer_of(o, w.elink) : told(o.out, {"egress_req"}, h.who, w.etxn)
    <3>1. PICK h \in peer_of(o, w.elink) : told(o.out, {"egress_req"}, h.who, w.etxn)
      BY <2>3
    <3>2. PICK m \in o.out : m.kind = "egress_req" /\ m.a = h.who /\ m.txn = w.etxn
      BY <3>1 DEF told
    <3>3. A[h.who].up => m \in S
      BY <1>5, <2>2, <3>2
    <3>4. A[h.who].up => told(S, EgressKinds, h.who, w.etxn)
      BY <3>2, <3>3 DEF told, EgressKinds
    <3> QED BY <2>1, <3>4
  <2>4. CASE /\ w \in n.awaiting
             /\ \A h \in peer_of(n, w.elink) : \E g \in peer_of(o, w.elink) : same_session(g, h)
    <3>1. PICK h \in peer_of(n, w.elink) :
            ~(h.owns /\ A[h.who].up) \/ told(M, EgressKinds, h.who, w.etxn)
      BY <2>4 DEF Asking
    <3>2. PICK g \in peer_of(o, w.elink) : same_session(g, h)
      BY <2>4
    <3>3. g.who = h.who /\ (g.owns <=> h.owns)
      BY <3>2 DEF same_session
    <3>4. ASSUME told(M, EgressKinds, h.who, w.etxn), A[h.who].up
          PROVE  told(S, EgressKinds, g.who, w.etxn)
      <4>1. PICK m \in M : m.kind \in EgressKinds /\ m.a = h.who /\ m.txn = w.etxn
        BY <3>4 DEF told
      <4>2. m \in R
        BY <4>1 DEF Served
      <4>3. m \in S
        BY <1>5, <2>2, <3>3, <3>4, <4>1, <4>2
      <4> QED BY <3>3, <4>1, <4>3 DEF told
    <3> QED BY <2>1, <3>1, <3>3, <3>4
  <2> QED BY <1>7, <2>3, <2>4 DEF Settles, Served
<1> QED BY <1>2, <1>3, <1>4, <1>6, <1>7

\* A request that is refused is answered.
LEMMA BindReject ==
    ASSUME NEW n, NEW vis, NodeOK(n, vis), NEW l, NEW t
    PROVE  LET o == bind_reject(n, l, t)
           IN  /\ NodeOK(o, vis) /\ o.awaiting = n.awaiting
               /\ o.panic = "" => Settles(n, o) /\ Answers(o, l, t)
<1> DEFINE o == bind_reject(n, l, t)
<1>1. /\ DOMAIN n = NodeFields /\ Peers(n) /\ Messages(n.out, vis)
  BY NodeParts
<1>2. \A p : same_session(p, p)
  BY DEF same_session
<1>3. CASE peer_of(n, l) = {}
  <2>1. o = n
    BY <1>3 DEF bind_reject
  <2>2. Answers(n, l, t)
    BY <1>3 DEF Answers
  <2>3. Settles(n, n)
    BY <1>2 DEF Settles, Answers
  <2> QED BY <2>1, <2>2, <2>3
<1>4. CASE peer_of(n, l) # {} /\ \E r \in request_of(n, l, t) : awaited(n, r)
  <2>1. o = [n EXCEPT !.panic = "bind_reject"]
    BY <1>4 DEF bind_reject
  <2>2. /\ DOMAIN o = NodeFields /\ o.peers = n.peers /\ o.pft = n.pft /\ o.visas = n.visas
        /\ o.awaiting = n.awaiting /\ o.out = n.out /\ o.panic = "bind_reject"
    BY <1>1, <2>1 DEF NodeFields
  <2> HIDE DEF o
  <2>3. NodeOK(o, vis)
    BY <1>1, <2>2, SameTables
  <2> QED BY <2>2, <2>3 DEF o
<1>5. CASE peer_of(n, l) # {} /\ ~\E r \in request_of(n, l, t) : awaited(n, r)
  <2> DEFINE p == CHOOSE p \in peer_of(n, l) : TRUE
             m == bind_resp(p.who, t, FALSE, 0, no_tc)
  <2>1. o = send([n EXCEPT !.reqs = @ \ request_of(n, l, t)], m)
    BY <1>5 DEF bind_reject
  <2>2. /\ DOMAIN o = NodeFields /\ o.peers = n.peers /\ o.pft = n.pft /\ o.visas = n.visas
        /\ o.awaiting = n.awaiting /\ o.out = n.out \cup {m} /\ o.panic = n.panic
        /\ o.reqs = n.reqs \ request_of(n, l, t) /\ o.asked = n.asked
    BY <1>1, <2>1 DEF NodeFields, send
  <2>3. m.kind = "bind_resp" /\ m.a = p.who /\ m.txn = t
    BY DEF bind_resp
  <2>4. p \in peer_of(n, l)
    BY <1>5
  <2> HIDE DEF o, p, m
  <2>5. Messages(o.out, vis)
    BY <1>1, <2>2, <2>3, <2>4 DEF Messages, Peers, peer_of
  <2>6. NodeOK(o, vis)
    BY <2>2, <2>5, SameTables
  <2>7. \A k : peer_of(o, k) = peer_of(n, k)
    BY <2>2 DEF peer_of
  <2>8. Answers(o, l, t)
    <3>1. \A q \in peer_of(n, l) : q = p
      BY <1>1, <2>4 DEF Peers, peer_of
    <3>2. told(o.out, BindKinds, p.who, t)
      BY <2>2, <2>3 DEF told, BindKinds
    <3> QED BY <2>7, <3>1, <3>2 DEF Answers
  <2>9. ASSUME NEW k, NEW u, waits(n, k, u) PROVE Answers(o, k, u)
    <3>1. CASE k = l /\ u = t
      BY <2>8, <3>1
    <3>2. CASE ~(k = l /\ u = t)
      <4>1. waits(o, k, u)
        BY <2>2, <2>9, <3>2 DEF waits, request_of
      <4> QED BY <4>1 DEF Answers
    <3> QED BY <3>1, <3>2
  <2>10. Settles(n, o)
    BY <1>2, <2>2, <2>7, <2>9 DEF Settles
  <2> QED BY <2>2, <2>6, <2>8, <2>10 DEF o
<1> QED BY <1>3, <1>4, <1>5

\* The next hop is asked in a transaction that is new to it.
LEMMA VisaIsUsed ==
    ASSUME NEW n, NEW vis, NodeOK(n, vis), NEW l, NEW t, NEW id
    PROVE  LET o == requested_visa_granted(n, l, t, id)
           IN  /\ NodeOK(o, vis)
               /\ \A w \in n.awaiting : w \in o.awaiting
               /\ o.panic = "" => Settles(n, o) /\ Answers(o, l, t)
<1> DEFINE o == requested_visa_granted(n, l, t, id)
           v == {x \in n.visas : x.id = id}
           es == UNION {find_egress_link(n, x.tc.dst) : x \in v}
           hop == CHOOSE p \in es : TRUE
<1>1. /\ DOMAIN n = NodeFields /\ Peers(n) /\ Visas(n, vis) /\ Routes(n) /\ Hops(n)
      /\ Messages(n.out, vis)
  BY NodeParts
<1>2. \A p : same_session(p, p)
  BY DEF same_session
<1>3. CASE es = {}
  <2>1. o = bind_reject(n, l, t)
    BY <1>3 DEF requested_visa_granted
  <2> QED BY <2>1, BindReject
<1>6. CASE es # {} /\ no_txn_left(n, hop)
  <2>1. o = [n EXCEPT !.panic = "requested_visa_granted"]
    BY <1>6 DEF requested_visa_granted
  <2>2. /\ DOMAIN o = NodeFields /\ o.peers = n.peers /\ o.pft = n.pft /\ o.visas = n.visas
        /\ o.awaiting = n.awaiting /\ o.out = n.out /\ o.panic = "requested_visa_granted"
    BY <1>1, <2>1 DEF NodeFields
  <2> HIDE DEF o
  <2>3. NodeOK(o, vis)
    BY <1>1, <2>2, SameTables
  <2> QED BY <2>2, <2>3 DEF o
<1>4. CASE es # {} /\ ~no_txn_left(n, hop) /\ peer_of(n, l) = {}
  <2>1. o = n
    BY <1>4 DEF requested_visa_granted
  <2>2. Answers(n, l, t)
    BY <1>4 DEF Answers
  <2>3. Settles(n, n)
    BY <1>2 DEF Settles, Answers
  <2> QED BY <2>1, <2>2, <2>3
<1>5. CASE es # {} /\ ~no_txn_left(n, hop) /\ peer_of(n, l) # {}
  <2> DEFINE e == CHOOSE p \in es : TRUE
             etxn == e.txns + 1
             x == CHOOSE x \in v : TRUE
             f == [e EXCEPT !.txns = etxn]
             r == [link |-> l, txn |-> t, st |-> "hop", visa |-> id, elink |-> e.link, etxn |-> etxn]
             w == [elink |-> e.link, etxn |-> etxn, link |-> l, txn |-> t]
             m == egress_req(e.who, etxn, x.tc)
  <2>1. o = [n EXCEPT !.peers = (@ \ {e}) \cup {f}, !.reqs = (@ \ request_of(n, l, t)) \cup {r},
                      !.awaiting = @ \cup {w}, !.out = @ \cup {m}]
    BY <1>5 DEF requested_visa_granted
  <2>2. /\ DOMAIN o = NodeFields /\ o.peers = (n.peers \ {e}) \cup {f} /\ o.pft = n.pft
        /\ o.visas = n.visas /\ o.reqs = (n.reqs \ request_of(n, l, t)) \cup {r}
        /\ o.awaiting = n.awaiting \cup {w} /\ o.asked = n.asked
        /\ o.out = n.out \cup {m} /\ o.panic = n.panic
    BY <1>1, <2>1 DEF NodeFields
  <2>3. PICK y \in v : e \in find_egress_link(n, y.tc.dst)
    BY <1>5
  <2>4. e \in n.peers /\ e.who = y.tc.dst
    BY <2>3 DEF find_egress_link
  <2>5. x = y /\ y \in n.visas
    BY <1>1, <2>3 DEF Visas
  <2>6. /\ r.link = l /\ r.txn = t /\ r.st = "hop"
        /\ w.elink = e.link /\ w.etxn = etxn
        /\ m.kind = "egress_req" /\ m.a = e.who /\ m.txn = etxn /\ m.tc = x.tc
    BY DEF egress_req
  <2>7. DOMAIN e = {"link", "who", "owns", "txns"} /\ e.txns \in Nat /\ e.who \in Adapters
    BY <1>1, <2>4 DEF Peers
  <2>8. /\ DOMAIN f = {"link", "who", "owns", "txns"} /\ f.link = e.link /\ f.who = e.who
        /\ (f.owns <=> e.owns) /\ f.txns = etxn
    BY <2>7
  <2>9. etxn \in Nat /\ e.txns < etxn
    BY <2>7
  <2> HIDE DEF o, v, es, e, etxn, x, f, r, w, m
  <2>10. Peers(o)
    <3>1. \A p \in o.peers : /\ DOMAIN p = {"link", "who", "owns", "txns"}
                             /\ p.who \in Adapters /\ p.txns \in Nat
      BY <1>1, <2>2, <2>7, <2>8, <2>9 DEF Peers
    <3>2. \A p, q \in o.peers : p.link = q.link \/ p.who = q.who => p = q
      BY <1>1, <2>2, <2>4, <2>8 DEF Peers
    <3> QED BY <3>1, <3>2 DEF Peers
  <2>11. Visas(o, vis)
    BY <1>1, <2>2 DEF Visas
  <2>12. \A p \in n.peers : p # e => p \in o.peers
    BY <2>2
  <2>13. \A k : \A h \in peer_of(n, k) : \E g \in peer_of(o, k) : same_session(g, h)
    BY <1>2, <2>2, <2>8 DEF peer_of, same_session
  <2>14. Routes(o)
    <3>1. \A k : peer_of(n, k) # {} => peer_of(o, k) # {}
      BY <2>13
    <3> QED BY <1>1, <2>2, <3>1 DEF Routes
  <2>15. Hops(o)
    <3>1. ASSUME NEW z \in n.awaiting
          PROVE  z.etxn \in Nat /\ \E p \in peer_of(o, z.elink) : z.etxn <= p.txns
      <4>1. PICK p \in peer_of(n, z.elink) : z.etxn <= p.txns
        BY <1>1 DEF Hops
      <4>2. z.etxn \in Nat
        BY <1>1 DEF Hops
      <4>3. CASE p = e
        <5>1. z.etxn <= etxn
          BY <2>7, <2>9, <4>1, <4>2, <4>3
        <5>2. f \in peer_of(o, z.elink)
          BY <2>2, <2>8, <4>1, <4>3 DEF peer_of
        <5> QED BY <2>8, <4>2, <5>1, <5>2
      <4>4. CASE p # e
        BY <2>12, <4>1, <4>2, <4>4 DEF peer_of
      <4> QED BY <4>3, <4>4
    <3>2. w.etxn \in Nat /\ \E p \in peer_of(o, w.elink) : w.etxn <= p.txns
      <4>1. f \in peer_of(o, w.elink)
        BY <2>2, <2>6, <2>8 DEF peer_of
      <4>2. w.etxn \in Nat /\ w.etxn <= f.txns
        BY <2>6, <2>8, <2>9
      <4> QED BY <4>1, <4>2
    <3>3. ASSUME NEW z \in n.awaiting, z.elink = w.elink, z.etxn = w.etxn PROVE FALSE
      <4>1. PICK p \in peer_of(n, z.elink) : z.etxn <= p.txns
        BY <1>1 DEF Hops
      <4>2. p = e
        BY <1>1, <2>4, <2>6, <3>3, <4>1 DEF Peers, peer_of
      <4>3. etxn <= e.txns
        BY <2>6, <3>3, <4>1, <4>2
      <4> QED BY <2>7, <2>9, <4>3
    <3>4. \A y1, z \in o.awaiting : y1.elink = z.elink /\ y1.etxn = z.etxn => y1 = z
      BY <1>1, <2>2, <3>3 DEF Hops
    <3> QED BY <2>2, <3>1, <3>2, <3>4 DEF Hops
  <2>16. Messages(o.out, vis)
    <3>1. issued(vis, m.tc) /\ m.tc.dst = m.a
      BY <1>1, <2>4, <2>5, <2>6 DEF issued, Visas
    <3> QED BY <1>1, <2>2, <2>6, <2>7, <3>1 DEF Messages
  <2>17. NodeOK(o, vis)
    BY <2>2, <2>10, <2>11, <2>14, <2>15, <2>16 DEF NodeOK
  <2>18. waits(o, l, t)
    BY <2>2, <2>6 DEF waits, request_of
  <2>19. ASSUME NEW k, NEW u, waits(n, k, u) PROVE Answers(o, k, u)
    <3>1. CASE k = l /\ u = t
      BY <2>18, <3>1 DEF Answers
    <3>2. CASE ~(k = l /\ u = t)
      <4>1. waits(o, k, u)
        BY <2>2, <2>19, <3>2 DEF waits, request_of
      <4> QED BY <4>1 DEF Answers
    <3> QED BY <3>1, <3>2
  <2>20. \A p \in o.peers : \E q \in n.peers : same_session(p, q)
    BY <1>2, <2>2, <2>4, <2>8 DEF same_session
  <2>21. \E h \in peer_of(o, w.elink) : told(o.out, {"egress_req"}, h.who, w.etxn)
    <3>1. f \in peer_of(o, w.elink)
      BY <2>2, <2>6, <2>8 DEF peer_of
    <3>2. told(o.out, {"egress_req"}, f.who, w.etxn)
      BY <2>2, <2>6, <2>8 DEF told
    <3> QED BY <3>1, <3>2
  <2>22. Settles(n, o)
    BY <2>2, <2>13, <2>19, <2>20, <2>21 DEF Settles
  <2>23. Answers(o, l, t)
    BY <2>18 DEF Answers
  <2> QED BY <2>2, <2>17, <2>22, <2>23 DEF o
<1> QED BY <1>3, <1>4, <1>5, <1>6

\* A bind request is answered, or its next hop or the visa service is asked.
LEMMA BindActorAddress ==
    ASSUME NEW n, NEW vis, NodeOK(n, vis), NEW p, NEW t, NEW f,
           NEW o \in bind_actor_address(n, p, t, f)
    PROVE  NodeOK(o, vis) /\ (o.panic = "" => Settles(n, o) /\ Answers(o, p.link, t))
<1>1. DOMAIN n = NodeFields /\ Messages(n.out, vis)
  BY NodeParts
<1>2. CASE f.src # p.who \/ ~p.owns
  <2>1. o = bind_reject(n, p.link, t)
    BY <1>2 DEF bind_actor_address
  <2> QED BY <2>1, BindReject
<1>3. CASE ~(f.src # p.who \/ ~p.owns) /\ match_traffic(n, f) # {}
  <2>1. \E v \in match_traffic(n, f) : o = requested_visa_granted(n, p.link, t, v.id)
    BY <1>3 DEF bind_actor_address
  <2>2. PICK v \in match_traffic(n, f) : o = requested_visa_granted(n, p.link, t, v.id)
    BY <2>1
  <2> QED BY <2>2, VisaIsUsed
<1>4. CASE ~(f.src # p.who \/ ~p.owns) /\ match_traffic(n, f) = {}
  <2> DEFINE r == [link |-> p.link, txn |-> t, st |-> "visa", visa |-> 0, elink |-> 0, etxn |-> 0]
             q == [link |-> p.link, txn |-> t, flow |-> f]
  <2>1. o = [n EXCEPT !.reqs = (@ \ request_of(n, p.link, t)) \cup {r}, !.asked = @ \cup {q}]
    BY <1>4 DEF bind_actor_address
  <2>2. /\ DOMAIN o = NodeFields /\ o.peers = n.peers /\ o.pft = n.pft /\ o.visas = n.visas
        /\ o.awaiting = n.awaiting /\ o.out = n.out /\ o.panic = n.panic
        /\ o.reqs = (n.reqs \ request_of(n, p.link, t)) \cup {r} /\ o.asked = n.asked \cup {q}
    BY <1>1, <2>1 DEF NodeFields
  <2>3. r.link = p.link /\ r.txn = t /\ r.st = "visa" /\ q.link = p.link /\ q.txn = t
    OBVIOUS
  <2> HIDE DEF r, q
  <2>4. NodeOK(o, vis)
    BY <1>1, <2>2, SameTables
  <2>5. waits(o, p.link, t)
    BY <2>2, <2>3 DEF waits, request_of
  <2>6. ASSUME NEW k, NEW u, waits(n, k, u) PROVE Answers(o, k, u)
    <3>1. CASE k = p.link /\ u = t
      BY <2>5, <3>1 DEF Answers
    <3>2. CASE ~(k = p.link /\ u = t)
      <4>1. waits(o, k, u)
        BY <2>2, <2>6, <3>2 DEF waits, request_of
      <4> QED BY <4>1 DEF Answers
    <3> QED BY <3>1, <3>2
  <2>7. \A h : same_session(h, h)
    BY DEF same_session
  <2>8. Settles(n, o)
    BY <2>2, <2>6, <2>7 DEF Settles, peer_of
  <2> QED BY <2>4, <2>5, <2>8 DEF Answers
<1> QED BY <1>2, <1>3, <1>4

\* A tether gets a slot of its own, and its entry belongs to its visa; the
\* request is answered, or refused when no slot or no visa is left.
LEMMA TetherGranted ==
    ASSUME NEW n, NEW vis, NodeOK(n, vis), NEW l, NEW t, NEW hop, budget.slots \in Nat,
           peer_of(n, l) # {} => request_of(n, l, t) # {}
    PROVE  LET o == requested_tether_granted(n, l, t, hop)
           IN  /\ NodeOK(o, vis) /\ o.awaiting = n.awaiting
               /\ o.panic = "" => Settles(n, o) /\ Answers(o, l, t)
<1> DEFINE o == requested_tether_granted(n, l, t, hop)
           r == CHOOSE r \in request_of(n, l, t) : TRUE
           m == [n EXCEPT !.reqs = @ \ {r}]
           used == {e.id : e \in {e \in n.pft : e.link = l}}
           v == {x \in n.visas : x.id = r.visa}
<1>1. /\ DOMAIN n = NodeFields /\ Peers(n) /\ Visas(n, vis) /\ Routes(n) /\ Hops(n)
      /\ Messages(n.out, vis)
  BY NodeParts
<1>2. \A p : same_session(p, p)
  BY DEF same_session
<1>3. /\ DOMAIN m = NodeFields /\ m.peers = n.peers /\ m.pft = n.pft /\ m.visas = n.visas
      /\ m.awaiting = n.awaiting /\ m.out = n.out /\ m.panic = n.panic
      /\ m.reqs = n.reqs \ {r} /\ m.asked = n.asked
  BY <1>1 DEF NodeFields
<1>4. CASE peer_of(n, l) = {}
  <2>1. o = n
    BY <1>4 DEF requested_tether_granted
  <2>2. Answers(n, l, t)
    BY <1>4 DEF Answers
  <2>3. Settles(n, n)
    BY <1>2 DEF Settles, Answers
  <2> QED BY <2>1, <2>2, <2>3
<1>5. CASE peer_of(n, l) # {}
  <2>1. r \in request_of(n, l, t)
    BY <1>5
  <2>2. r.link = l /\ r.txn = t
    BY <2>1 DEF request_of
  <2>3. \A k, u : waits(n, k, u) => waits(m, k, u) \/ (k = l /\ u = t)
    <3> HIDE DEF m, r
    <3> QED BY <1>3, <2>2 DEF waits, request_of
  <2>4. CASE full(used) \/ v = {}
    <3>1. o = bind_reject(m, l, t)
      BY <1>5, <2>1, <2>4 DEF requested_tether_granted
    <3> HIDE DEF m
    <3>2. NodeOK(m, vis)
      BY <1>1, <1>3, SameTables
    <3>3. /\ NodeOK(o, vis) /\ o.awaiting = m.awaiting
          /\ o.panic = "" => Settles(m, o) /\ Answers(o, l, t)
      BY <3>1, <3>2, BindReject
    <3> HIDE DEF o
    <3>4. ASSUME o.panic = "" PROVE Settles(n, o)
      <4>1. \A k, u : waits(n, k, u) => Answers(o, k, u)
        BY <2>3, <3>3, <3>4 DEF Settles
      <4>2. \A k : peer_of(m, k) = peer_of(n, k)
        BY <1>3 DEF peer_of
      <4> QED BY <1>3, <3>3, <3>4, <4>1, <4>2 DEF Settles
    <3> QED BY <1>3, <3>3, <3>4 DEF o
  <2>5. CASE ~full(used) /\ v # {}
    <3> DEFINE id == vacant_key(used)
               entry == [link |-> l, id |-> id, hop |-> <<r.elink, hop>>, visa |-> r.visa]
               p == CHOOSE p \in peer_of(n, l) : TRUE
               x == CHOOSE x \in v : TRUE
               msg == bind_resp(p.who, t, TRUE, id, x.tc)
               s == <<l, id>>
               linked(y) == IF y.id = r.visa THEN [y EXCEPT !.streams = @ \cup {s}] ELSE y
    <3>1. o = send([link_forwarding_entry(m, r.visa, s) EXCEPT !.pft = @ \cup {entry}], msg)
      BY <1>5, <2>1, <2>5 DEF requested_tether_granted
    <3>2. /\ DOMAIN o = NodeFields /\ o.peers = n.peers /\ o.pft = n.pft \cup {entry}
          /\ o.visas = {linked(y) : y \in n.visas}
          /\ o.awaiting = n.awaiting /\ o.out = n.out \cup {msg} /\ o.panic = n.panic
          /\ o.reqs = n.reqs \ {r} /\ o.asked = n.asked
      <4> HIDE DEF m, msg, entry, s, r, o
      <4>1. DOMAIN o = NodeFields
        BY <1>3, <3>1 DEF NodeFields, send, link_forwarding_entry
      <4>2. o.peers = m.peers /\ o.awaiting = m.awaiting /\ o.panic = m.panic /\ o.reqs = m.reqs /\ o.asked = m.asked
        BY <1>3, <3>1 DEF NodeFields, send, link_forwarding_entry
      <4>3. o.pft = m.pft \cup {entry}
        BY <1>3, <3>1 DEF NodeFields, send, link_forwarding_entry
      <4>4. o.out = m.out \cup {msg}
        BY <1>3, <3>1 DEF NodeFields, send, link_forwarding_entry
      <4>5. o.visas = {linked(y) : y \in m.visas}
        BY <1>3, <3>1 DEF NodeFields, send, link_forwarding_entry
      <4> QED BY <1>3, <4>1, <4>2, <4>3, <4>4, <4>5
    <3>3. /\ entry.link = l /\ entry.id = id /\ entry.visa = r.visa
          /\ msg.kind = "bind_resp" /\ msg.a = p.who /\ msg.txn = t
          /\ s = <<s[1], s[2]>> /\ s[1] = l /\ s[2] = id
      BY DEF bind_resp
    <3>4. p \in peer_of(n, l)
      BY <1>5
    <3>5. x \in n.visas /\ x.id = r.visa
      BY <2>5
    <3>6. \A e \in n.pft : e.link = l => e.id # id
      <4>1. id \notin used
        BY <2>5, VacantKey
      <4> HIDE DEF id
      <4> QED BY <4>1
    <3>7. \A y \in n.visas : /\ DOMAIN linked(y) = {"id", "tc", "streams"} /\ linked(y).id = y.id
                             /\ linked(y).tc = y.tc
                             /\ y.id = r.visa => linked(y).streams = y.streams \cup {s}
                             /\ y.id # r.visa => linked(y).streams = y.streams
      <4> SUFFICES ASSUME NEW y \in n.visas
                   PROVE  /\ DOMAIN linked(y) = {"id", "tc", "streams"} /\ linked(y).id = y.id
                          /\ linked(y).tc = y.tc
                          /\ y.id = r.visa => linked(y).streams = y.streams \cup {s}
                          /\ y.id # r.visa => linked(y).streams = y.streams
        OBVIOUS
      <4>1. DOMAIN y = {"id", "tc", "streams"}
        BY <1>1 DEF Visas
      <4> HIDE DEF r, s
      <4> QED BY <4>1
    <3> HIDE DEF o, r, m, used, v, id, entry, p, x, msg, s, linked
    <3>8. Peers(o)
      BY <1>1, <3>2 DEF Peers
    <3>9. Visas(o, vis)
      <4>1. ASSUME NEW y \in n.visas
            PROVE  /\ DOMAIN linked(y) = {"id", "tc", "streams"}
                   /\ linked(y).id \in DOMAIN vis /\ vis[linked(y).id] = linked(y).tc
                   /\ \A z \in linked(y).streams : z = <<z[1], z[2]>>
        <5>1. /\ y.id \in DOMAIN vis /\ vis[y.id] = y.tc
              /\ \A z \in y.streams : z = <<z[1], z[2]>>
          BY <1>1 DEF Visas
        <5>2. linked(y).streams \subseteq y.streams \cup {s}
          BY <3>7
        <5> QED BY <3>3, <3>7, <5>1, <5>2
      <4>2. \A y, z \in n.visas : linked(y).id = linked(z).id => linked(y) = linked(z)
        <5>1. \A y, z \in n.visas : linked(y).id = linked(z).id => y = z
          BY <1>1, <3>7 DEF Visas
        <5> QED BY <5>1
      <4> QED BY <3>2, <4>1, <4>2 DEF Visas
    <3>10. \A k : peer_of(o, k) = peer_of(n, k)
      BY <3>2 DEF peer_of
    <3>11. Routes(o)
      <4>1. ASSUME NEW e \in n.pft
            PROVE  /\ peer_of(o, e.link) # {}
                   /\ \E y \in o.visas : y.id = e.visa /\ <<e.link, e.id>> \in y.streams
        <5>1. /\ peer_of(n, e.link) # {}
              /\ \E y \in n.visas : y.id = e.visa /\ <<e.link, e.id>> \in y.streams
          BY <1>1 DEF Routes
        <5>2. PICK y \in n.visas : y.id = e.visa /\ <<e.link, e.id>> \in y.streams
          BY <5>1
        <5>3. linked(y) \in o.visas /\ linked(y).id = e.visa /\ <<e.link, e.id>> \in linked(y).streams
          BY <3>2, <3>7, <5>2
        <5> QED BY <3>10, <5>1, <5>3
      <4>2. /\ peer_of(o, entry.link) # {}
            /\ \E y \in o.visas : y.id = entry.visa /\ <<entry.link, entry.id>> \in y.streams
        <5>1. linked(x) \in o.visas /\ linked(x).id = r.visa /\ s \in linked(x).streams
          BY <3>2, <3>5, <3>7
        <5>2. <<entry.link, entry.id>> = s
          BY <3>3
        <5> QED BY <1>5, <3>3, <3>10, <5>1, <5>2
      <4>3. ASSUME NEW y \in n.visas, NEW z \in linked(y).streams
            PROVE  \E e \in o.pft : e.link = z[1] /\ e.id = z[2] /\ e.visa = linked(y).id
        <5>1. CASE z \in y.streams
          <6>1. PICK e \in n.pft : e.link = z[1] /\ e.id = z[2] /\ e.visa = y.id
            BY <1>1, <5>1 DEF Routes
          <6> QED BY <3>2, <3>7, <6>1
        <5>2. CASE z = s /\ y.id = r.visa
          BY <3>2, <3>3, <3>7, <5>2
        <5> QED BY <3>7, <5>1, <5>2
      <4>4. \A d, e \in o.pft : d.link = e.link /\ d.id = e.id => d = e
        BY <1>1, <3>2, <3>3, <3>6 DEF Routes
      <4> QED BY <3>2, <4>1, <4>2, <4>3, <4>4 DEF Routes
    <3>12. Hops(o)
      BY <1>1, <3>2, <3>10 DEF Hops
    <3>13. Messages(o.out, vis)
      BY <1>1, <3>2, <3>3, <3>4 DEF Messages, Peers, peer_of
    <3>14. NodeOK(o, vis)
      BY <3>2, <3>8, <3>9, <3>11, <3>12, <3>13 DEF NodeOK
    <3>15. Answers(o, l, t)
      <4>1. \A q \in peer_of(n, l) : q = p
        BY <1>1, <3>4 DEF Peers, peer_of
      <4>2. told(o.out, BindKinds, p.who, t)
        BY <3>2, <3>3 DEF told, BindKinds
      <4> QED BY <3>10, <4>1, <4>2 DEF Answers
    <3>16. ASSUME NEW k, NEW u, waits(n, k, u) PROVE Answers(o, k, u)
      <4>1. CASE k = l /\ u = t
        BY <3>15, <4>1
      <4>2. CASE ~(k = l /\ u = t)
        <5>1. waits(o, k, u)
          BY <2>2, <3>2, <3>16, <4>2 DEF waits, request_of
        <5> QED BY <5>1 DEF Answers
      <4> QED BY <4>1, <4>2
    <3>17. Settles(n, o)
      BY <1>2, <3>2, <3>10, <3>16 DEF Settles
    <3> QED BY <3>2, <3>14, <3>15, <3>17 DEF o
  <2> QED BY <2>4, <2>5
<1> QED BY <1>4, <1>5

\* The answer of a next hop, which nobody awaits any more.
LEMMA NextHopBound ==
    ASSUME NEW n, NEW vis, NodeOK(n, vis), NEW w \in n.awaiting, NEW ok, NEW hop,
           budget.slots \in Nat, n.panic = ""
    PROVE  LET o == next_hop_bound(n, w, ok, hop)
           IN  /\ NodeOK(o, vis) /\ o.awaiting = n.awaiting \ {w}
               /\ o.panic = "" => Settles(n, o)
<1> DEFINE o == next_hop_bound(n, w, ok, hop)
           m == resolve_next_hop_bind_originator(n, w)
           rs == request_of(n, w.link, w.txn)
<1>1. /\ DOMAIN n = NodeFields /\ Messages(n.out, vis)
  BY NodeParts
<1>2. /\ DOMAIN m = NodeFields /\ m.peers = n.peers /\ m.pft = n.pft /\ m.visas = n.visas
      /\ m.awaiting = n.awaiting \ {w} /\ m.out = n.out
      /\ m.reqs = n.reqs /\ m.asked = n.asked
  BY <1>1 DEF NodeFields, resolve_next_hop_bind_originator
<1>3. m.panic = "" => (peer_of(n, w.link) # {} => rs # {})
  BY <1>1 DEF resolve_next_hop_bind_originator, NodeFields
<1>4. o = IF m.panic # "" THEN m
          ELSE IF ok THEN requested_tether_granted(m, w.link, w.txn, hop)
          ELSE bind_reject(m, w.link, w.txn)
  BY DEF next_hop_bound
<1> HIDE DEF m, o
<1>5. NodeOK(m, vis)
  BY <1>1, <1>2, SameTables
<1>6. \A k : peer_of(m, k) = peer_of(n, k)
  BY <1>2 DEF peer_of
<1>7. CASE m.panic # ""
  BY <1>2, <1>4, <1>5, <1>7 DEF o
<1>8. CASE m.panic = ""
  <2>1. peer_of(m, w.link) # {} => request_of(m, w.link, w.txn) # {}
    BY <1>2, <1>3, <1>6, <1>8 DEF request_of
  <2>2. /\ NodeOK(o, vis) /\ o.awaiting = m.awaiting
        /\ o.panic = "" => Settles(m, o)
    <3>1. CASE ok
      <4> DEFINE g == requested_tether_granted(m, w.link, w.txn, hop)
      <4>1. /\ NodeOK(g, vis) /\ g.awaiting = m.awaiting
            /\ g.panic = "" => Settles(m, g) /\ Answers(g, w.link, w.txn)
        BY <1>5, <2>1, TetherGranted
      <4>2. o = g
        BY <1>4, <1>8, <3>1
      <4> QED BY <4>1, <4>2
    <3>2. CASE ~ok
      BY <1>4, <1>5, <1>8, <3>2, BindReject
    <3> QED BY <3>1, <3>2
  <2>3. \A k, u : waits(n, k, u) => waits(m, k, u)
    BY <1>2 DEF waits, request_of
  <2>4. Settles(m, o) => Settles(n, o)
    BY <1>2, <1>6, <2>3 DEF Settles
  <2> QED BY <1>2, <2>2, <2>4 DEF o
<1> QED BY <1>7, <1>8

\* A step that leaves the packets alone keeps the invariant if it keeps the
\* adapters and the node in order.
LEMMA RestIsKept ==
    ASSUME IInv, AdaptersOK(ad', visa'), Tables(node', msgs', ad', visa', panic'),
           visa' \in Seq(Policy), \A i \in DOMAIN visa : i \in DOMAIN visa' /\ visa'[i] = visa[i],
           UNCHANGED <<pkt, got>>, DOMAIN budget' = DOMAIN budget, budget'.slots = budget.slots
    PROVE  IInv'
<1>1. DeliveredAsSent'
  <2> SUFFICES ASSUME NEW g \in got
               PROVE  /\ g.flow = g.sent /\ g.flow.src = g.from /\ g.flow.dst = g.at
                      /\ \E i \in DOMAIN visa' : classify_5t(visa'[i], g.flow)
    BY DEF DeliveredAsSent, classify_5t
  <2>1. /\ g.flow = g.sent /\ g.flow.src = g.from /\ g.flow.dst = g.at
        /\ \E i \in DOMAIN visa : classify_5t(visa[i], g.flow)
    BY DEF IInv, DeliveredAsSent
  <2>2. PICK i \in DOMAIN visa : classify_5t(visa[i], g.flow)
    BY <2>1
  <2>3. i \in DOMAIN visa' /\ classify_5t(visa'[i], g.flow)
    BY <2>2
  <2> QED BY <2>1, <2>3
<1>2. Carried(pkt')
  BY DEF IInv
<1> QED BY <1>1, <1>2 DEF IInv

\* So does a handler of the node that answers what it had to.
LEMMA Becomes ==
    ASSUME IInv, Running, NEW o, NEW R \in SUBSET msgs, NodeBecomes(o, R),
           NodeOK(node, visa'), NodeOK(o, visa'), Messages(msgs, visa'), AdaptersOK(ad', visa'),
           \A a \in Adapters : ad'[a].pending = ad[a].pending /\ ad'[a].up = ad[a].up,
           visa' \in Seq(Policy), \A i \in DOMAIN visa : i \in DOMAIN visa' /\ visa'[i] = visa[i],
           UNCHANGED <<pkt, got, budget>>,
           Served(node, o, msgs, R)
    PROVE  IInv'
<1>0. PICK N : N = [o EXCEPT !.out = {}, !.panic = ""]
  OBVIOUS
<1>s. PICK S : S = msgs'
  OBVIOUS
<1>1. Underway(node, msgs, ad) /\ Asking(node, msgs, ad)
  BY DEF IInv, Tables, Running
<1>2. Messages(R, visa')
  BY DEF Messages
<1>3. /\ NodeOK(N, visa') /\ N.out = {} /\ N.panic = "" /\ Messages(S, visa')
      /\ o.panic = "" => Underway(N, S, ad) /\ Asking(N, S, ad)
  <2>1. PICK vis : vis = visa'
    OBVIOUS
  <2>2. NodeOK(node, vis) /\ NodeOK(o, vis) /\ Messages(R, vis)
    BY <1>2, <2>1
  <2>3. /\ NodeOK(N, vis) /\ N.out = {} /\ N.panic = "" /\ Messages(S, vis)
        /\ o.panic = "" => Underway(N, S, ad) /\ Asking(N, S, ad)
    <3>1. Sent(o, R, ad, N, S)
      BY <1>0, <1>s DEF NodeBecomes, Sent
    <3> QED BY <1>1, <2>2, <3>1, NodeStep
  <2> QED BY <2>1, <2>3
<1>4. node' = N /\ msgs' = S /\ panic' = o.panic
  BY <1>0, <1>s DEF NodeBecomes
<1>5. Underway(N, S, ad) => Underway(N, S, ad')
  BY DEF Underway
<1>6. ASSUME Asking(N, S, ad) PROVE Asking(N, S, ad')
  <2>1. Peers(N)
    BY <1>3, NodeParts
  <2>2. \A l : \A h \in peer_of(N, l) : h.who \in Adapters
    BY <2>1 DEF Peers, peer_of
  <2> QED BY <1>6, <2>2 DEF Asking
<1>7. Tables(node', msgs', ad', visa', panic')
  BY <1>3, <1>4, <1>5, <1>6 DEF Tables
<1> QED BY <1>7, RestIsKept

\* The sessions of the node, and what it waits for, are the same.
LEMMA SettlesSame ==
    ASSUME NEW n, NEW o, o.peers = n.peers, o.reqs = n.reqs, o.asked = n.asked,
           o.awaiting = n.awaiting
    PROVE  Settles(n, o)
<1>1. \A p : same_session(p, p)
  BY DEF same_session
<1>2. \A l, t : waits(n, l, t) => Answers(o, l, t)
  BY DEF waits, request_of, Answers
<1>3. \A l : peer_of(o, l) = peer_of(n, l)
  BY DEF peer_of
<1> QED BY <1>1, <1>2, <1>3 DEF Settles

\* The visa service has answered q, and q's request is answered or waits.
LEMMA SettlesAnswer ==
    ASSUME NEW n, NEW i, NEW o, NEW q, i.peers = n.peers, i.reqs = n.reqs,
           i.asked = n.asked \ {q}, i.awaiting = n.awaiting,
           Settles(i, o), Answers(o, q.link, q.txn)
    PROVE  Settles(n, o)
<1>1. ASSUME NEW l, NEW t, waits(n, l, t) PROVE Answers(o, l, t)
  <2>1. CASE l = q.link /\ t = q.txn
    BY <2>1
  <2>2. CASE ~(l = q.link /\ t = q.txn)
    <3>1. waits(i, l, t)
      BY <1>1, <2>2 DEF waits, request_of
    <3> QED BY <3>1 DEF Settles
  <2> QED BY <2>1, <2>2
<1>2. \A l : peer_of(i, l) = peer_of(n, l)
  BY DEF peer_of
<1> QED BY <1>1, <1>2 DEF Settles

\* The parts of the invariant.
LEMMA Parts ==
    ASSUME IInv, Running
    PROVE  /\ DOMAIN ad = Adapters /\ \A a \in Adapters : AdapterOK(ad[a], a, visa)
           /\ NodeOK(node, visa) /\ node.out = {} /\ node.panic = ""
           /\ Messages(msgs, visa) /\ visa \in Seq(Policy) /\ budget.slots \in Nat
           /\ DOMAIN budget = {"slots", "binds", "downs", "cancels", "packets"}
           /\ Underway(node, msgs, ad) /\ Asking(node, msgs, ad)
           /\ \A k \in pkt : k.body \in Flows /\ k.body.src = k.from
           /\ DOMAIN node = NodeFields /\ Peers(node) /\ Visas(node, visa) /\ Routes(node) /\ Hops(node)
           /\ AdaptersOK(ad, visa) /\ Tables(node, msgs, ad, visa, panic)
  BY DEF IInv, AdaptersOK, Tables, Carried, NodeOK, Running

-----------------------------------------------------------------------------
(* Steps of the node.                                                      *)

\* The node takes a bind request.
LEMMA BindRequestStep ==
    ASSUME IInv, Running, handle_bind_actor_address_request PROVE IInv'
<1>0. PICK m \in msgs : \E p \in link_of(node, m.a) :
        /\ m.kind = "bind_req"
        /\ \E n \in bind_actor_address(node, p, m.txn, m.flow) : NodeBecomes(n, msgs \ {m})
        /\ \/ ad' = [ad EXCEPT ![m.a].tasks = @ \ {m.txn}]
           \/ UNCHANGED ad
        /\ UNCHANGED <<pkt, got, visa, budget>>
  BY DEF handle_bind_actor_address_request
<1>1. PICK p \in link_of(node, m.a) :
        /\ m.kind = "bind_req"
        /\ \E n \in bind_actor_address(node, p, m.txn, m.flow) : NodeBecomes(n, msgs \ {m})
        /\ \/ ad' = [ad EXCEPT ![m.a].tasks = @ \ {m.txn}]
           \/ UNCHANGED ad
        /\ UNCHANGED <<pkt, got, visa, budget>>
  BY <1>0
<1>2. PICK o \in bind_actor_address(node, p, m.txn, m.flow) : NodeBecomes(o, msgs \ {m})
  BY <1>1
<1>3. /\ DOMAIN ad = Adapters /\ \A a \in Adapters : AdapterOK(ad[a], a, visa)
      /\ NodeOK(node, visa) /\ Messages(msgs, visa) /\ visa \in Seq(Policy) /\ Peers(node)
  BY Parts
<1>4. NodeOK(o, visa) /\ (o.panic = "" => Settles(node, o) /\ Answers(o, p.link, m.txn))
  BY <1>3, BindActorAddress
<1>5. m.a \in Adapters
  BY <1>3 DEF Messages
<1>6. DOMAIN ad' = Adapters /\ \A a \in Adapters : /\ AdapterOK(ad'[a], a, visa)
                                                   /\ ad'[a].pending = ad[a].pending
                                                   /\ ad'[a].up = ad[a].up
  <2>1. CASE UNCHANGED ad
    BY <1>3, <2>1
  <2>2. CASE ad' = [ad EXCEPT ![m.a].tasks = @ \ {m.txn}]
    <3> DEFINE b == m.a  s == [ad[b] EXCEPT !.tasks = @ \ {m.txn}]
    <3>1. DOMAIN ad[b] = AdapterFields
      BY <1>3, <1>5 DEF AdapterOK
    <3>2. /\ DOMAIN s = AdapterFields /\ s.pending = ad[b].pending /\ s.active = ad[b].active
          /\ s.dlt = ad[b].dlt /\ s.up = ad[b].up
      BY <3>1 DEF AdapterFields
    <3>3. DOMAIN ad' = Adapters /\ ad'[b] = s /\ \A a \in Adapters \ {b} : ad'[a] = ad[a]
      BY <1>3, <1>5, <2>2
    <3> HIDE DEF s
    <3>4. AdapterOK(s, b, visa)
      BY <1>3, <1>5, <3>2 DEF AdapterOK
    <3> HIDE DEF b
    <3> QED BY <1>3, <3>2, <3>3, <3>4
  <2> QED BY <1>1, <2>1, <2>2
<1>7. ASSUME o.panic = "", NEW q \in link_of(o, m.a) PROVE Answers(o, q.link, m.txn)
  <2>1. PICK h \in node.peers : same_session(q, h)
    BY <1>4, <1>7 DEF Settles, link_of
  <2>2. h = p
    BY <1>3, <2>1 DEF Peers, same_session, link_of
  <2> QED BY <1>4, <1>7, <2>1, <2>2 DEF same_session
<1>8. m.kind \notin EgressKinds
  BY <1>1 DEF EgressKinds
<1>9. AdaptersOK(ad', visa')
  BY <1>1, <1>6 DEF AdaptersOK
<1>10. visa' = visa /\ UNCHANGED <<pkt, got, budget>> /\ msgs \ {m} \in SUBSET msgs
  BY <1>1
<1>11. NodeOK(node, visa') /\ NodeOK(o, visa') /\ Messages(msgs, visa') /\ visa' \in Seq(Policy)
       /\ \A i \in DOMAIN visa : i \in DOMAIN visa' /\ visa'[i] = visa[i]
  BY <1>3, <1>4, <1>10
<1>12. Served(node, o, msgs, msgs \ {m})
  BY <1>4, <1>7, <1>8 DEF Served
<1> QED BY <1>2, <1>6, <1>9, <1>10, <1>11, <1>12, Becomes

\* The node takes the answer of a next hop: the one entry that awaited it is
\* gone, or nobody awaits it any more.
LEMMA EgressResponseStep ==
    ASSUME IInv, Running, handle_bind_egress_stream_response PROVE IInv'
<1>0. PICK m \in msgs : \E p \in link_of(node, m.a) :
        /\ m.kind = "egress_resp"
        /\ LET ws == {w \in node.awaiting : w.elink = p.link /\ w.etxn = m.txn}
           IN  NodeBecomes(IF ws = {} THEN node
                           ELSE next_hop_bound(node, CHOOSE w \in ws : TRUE, m.ok, m.id),
                           msgs \ {m})
        /\ UNCHANGED <<ad, pkt, got, visa, budget>>
  BY DEF handle_bind_egress_stream_response
<1>1. PICK p \in link_of(node, m.a) :
        /\ m.kind = "egress_resp"
        /\ LET ws == {w \in node.awaiting : w.elink = p.link /\ w.etxn = m.txn}
           IN  NodeBecomes(IF ws = {} THEN node
                           ELSE next_hop_bound(node, CHOOSE w \in ws : TRUE, m.ok, m.id),
                           msgs \ {m})
        /\ UNCHANGED <<ad, pkt, got, visa, budget>>
  BY <1>0
<1> DEFINE ws == {w \in node.awaiting : w.elink = p.link /\ w.etxn = m.txn}
           v == CHOOSE w \in ws : TRUE
           o == IF ws = {} THEN node ELSE next_hop_bound(node, v, m.ok, m.id)
<1>2. NodeBecomes(o, msgs \ {m})
  BY <1>1
<1>3. /\ NodeOK(node, visa) /\ Messages(msgs, visa) /\ visa \in Seq(Policy) /\ Peers(node)
      /\ Hops(node) /\ node.panic = "" /\ budget.slots \in Nat /\ AdaptersOK(ad, visa)
  BY Parts
<1>4. NodeOK(o, visa) /\ (o.panic = "" => Settles(node, o)) /\ o.awaiting = node.awaiting \ ws
  <2>1. CASE ws = {}
    <3>1. o = node
      BY <2>1
    <3>2. Settles(node, node)
      BY SettlesSame
    <3> QED BY <1>3, <2>1, <3>1, <3>2
  <2>2. CASE ws # {}
    <3>1. v \in ws
      BY <2>2
    <3>2. ws = {v}
      BY <1>3, <3>1 DEF Hops
    <3>3. v \in node.awaiting
      BY <3>1
    <3> DEFINE g == next_hop_bound(node, v, m.ok, m.id)
    <3>4. o = g
      BY <2>2
    <3> HIDE DEF ws, v, o
    <3>5. /\ NodeOK(g, visa) /\ g.awaiting = node.awaiting \ {v}
          /\ g.panic = "" => Settles(node, g)
      BY <1>3, <3>3, NextHopBound
    <3> QED BY <3>2, <3>4, <3>5
  <2> QED BY <2>1, <2>2
<1>5. ASSUME NEW w \in o.awaiting, NEW h \in peer_of(node, w.elink), m.a = h.who, m.txn = w.etxn
      PROVE  FALSE
  <2>1. h = p
    BY <1>3, <1>5 DEF Peers, peer_of, link_of
  <2>2. w.elink = p.link
    BY <2>1 DEF peer_of
  <2> QED BY <1>4, <1>5, <2>2
<1> HIDE DEF o
<1>6. m.kind \notin BindKinds
  BY <1>1 DEF BindKinds
<1>7. visa' = visa /\ ad' = ad /\ UNCHANGED <<pkt, got, budget>> /\ msgs \ {m} \in SUBSET msgs
  BY <1>1
<1>8. /\ NodeOK(node, visa') /\ NodeOK(o, visa') /\ Messages(msgs, visa') /\ AdaptersOK(ad', visa')
      /\ \A a \in Adapters : ad'[a].pending = ad[a].pending /\ ad'[a].up = ad[a].up
      /\ visa' \in Seq(Policy) /\ \A i \in DOMAIN visa : i \in DOMAIN visa' /\ visa'[i] = visa[i]
  BY <1>3, <1>4, <1>7
<1>9. Served(node, o, msgs, msgs \ {m})
  BY <1>4, <1>5, <1>6 DEF Served
<1> QED BY <1>2, <1>7, <1>8, <1>9, Becomes

\* The visa service grants a visa, which is used; or its destination is gone.
LEMMA VisaGrantedStep ==
    ASSUME IInv, Running, VisaGranted PROVE IInv'
<1>1. PICK q \in node.asked, tc \in Policy :
        LET id == Len(visa) + 1
            n  == [node EXCEPT !.asked = @ \ {q}]
        IN  /\ visa' = Append(visa, tc)
            /\ NodeBecomes(IF find_egress_link(n, tc.dst) = {}
                           THEN [n EXCEPT !.panic = "visa_request_task"]
                           ELSE requested_visa_granted(insert_visa(n, id, tc), q.link, q.txn, id),
                           msgs)
            /\ UNCHANGED <<ad, pkt, got, budget>>
  BY DEF VisaGranted
<1> DEFINE id == Len(visa) + 1
           n == [node EXCEPT !.asked = @ \ {q}]
           i == insert_visa(n, id, tc)
           d == [n EXCEPT !.panic = "visa_request_task"]
           g == requested_visa_granted(i, q.link, q.txn, id)
           o == IF find_egress_link(n, tc.dst) = {} THEN d ELSE g
<1>2. NodeBecomes(o, msgs) /\ visa' = Append(visa, tc) /\ UNCHANGED <<ad, pkt, got, budget>>
  BY <1>1
<1>3. /\ NodeOK(node, visa) /\ Messages(msgs, visa) /\ visa \in Seq(Policy)
      /\ DOMAIN node = NodeFields /\ Visas(node, visa) /\ node.out = {}
      /\ AdaptersOK(ad, visa)
  BY Parts
<1>4. /\ visa' \in Seq(Policy) /\ id \notin DOMAIN visa /\ id \in DOMAIN visa' /\ visa'[id] = tc
      /\ \A k \in DOMAIN visa : k \in DOMAIN visa' /\ visa'[k] = visa[k]
      /\ Messages(msgs, visa') /\ NodeOK(node, visa')
      /\ \A s, a : AdapterOK(s, a, visa) => AdapterOK(s, a, visa')
  BY <1>2, <1>3, MoreIssued
<1>5. /\ DOMAIN n = NodeFields /\ n.peers = node.peers /\ n.pft = node.pft /\ n.visas = node.visas
      /\ n.awaiting = node.awaiting /\ n.out = {} /\ n.reqs = node.reqs
      /\ n.asked = node.asked \ {q}
  BY <1>3 DEF NodeFields
<1>6. /\ DOMAIN d = NodeFields /\ d.peers = n.peers /\ d.pft = n.pft /\ d.visas = n.visas
      /\ d.awaiting = n.awaiting /\ d.out = n.out /\ d.panic = "visa_request_task"
  BY <1>5 DEF NodeFields
<1>7. \A v \in n.visas : v.id # id
  BY <1>3, <1>4, <1>5 DEF Visas
<1>m. Messages({}, visa')
  BY DEF Messages
<1> HIDE DEF id, n, i, d, g, o
<1>8. NodeOK(n, visa')
  BY <1>4, <1>5, <1>m, SameTables
<1>9. NodeOK(d, visa')
  BY <1>5, <1>6, <1>8, <1>m, SameTables
<1>10. /\ NodeOK(i, visa') /\ i.peers = n.peers /\ i.reqs = n.reqs /\ i.asked = n.asked
       /\ i.awaiting = n.awaiting
  <2>1. PICK vis : vis = visa'
    OBVIOUS
  <2>2. NodeOK(n, vis) /\ Fresh(n, vis, id, tc)
    BY <1>4, <1>7, <1>8, <2>1 DEF Fresh
  <2>3. NodeOK(i, vis)
    BY <2>2, InsertVisa DEF i
  <2>4. /\ i.peers = n.peers /\ i.reqs = n.reqs /\ i.asked = n.asked
        /\ i.awaiting = n.awaiting
    BY <1>5 DEF i, insert_visa, NodeFields
  <2> QED BY <2>1, <2>3, <2>4
<1>11. NodeOK(g, visa') /\ (g.panic = "" => Settles(i, g) /\ Answers(g, q.link, q.txn))
  BY <1>10, VisaIsUsed DEF g
<1>12. g.panic = "" => Settles(node, g)
  BY <1>5, <1>10, <1>11, SettlesAnswer
<1>13. NodeOK(o, visa') /\ (o.panic = "" => Settles(node, o))
  BY <1>6, <1>9, <1>11, <1>12 DEF o
<1>14. Served(node, o, msgs, msgs)
  BY <1>13 DEF Served
<1>15. AdaptersOK(ad', visa')
  BY <1>2, <1>3, <1>4 DEF AdaptersOK
<1>16. \A a \in Adapters : ad'[a].pending = ad[a].pending /\ ad'[a].up = ad[a].up
  BY <1>2
<1>17. msgs \in SUBSET msgs /\ UNCHANGED <<pkt, got, budget>>
  BY <1>2
<1> QED BY <1>2, <1>4, <1>13, <1>14, <1>15, <1>16, <1>17, Becomes

\* A step that changes the node only, and issues no visa.
LEMMA NodeOnly ==
    ASSUME IInv, Running, NEW o, NodeBecomes(o, msgs), NodeOK(o, visa),
           o.panic = "" => Settles(node, o), UNCHANGED <<ad, pkt, got, visa, budget>>
    PROVE  IInv'
<1>1. NodeOK(node, visa) /\ Messages(msgs, visa) /\ visa \in Seq(Policy) /\ AdaptersOK(ad, visa)
  BY Parts
<1>2. /\ NodeOK(node, visa') /\ NodeOK(o, visa') /\ Messages(msgs, visa') /\ AdaptersOK(ad', visa')
      /\ \A a \in Adapters : ad'[a].pending = ad[a].pending /\ ad'[a].up = ad[a].up
      /\ visa' \in Seq(Policy) /\ \A i \in DOMAIN visa : i \in DOMAIN visa' /\ visa'[i] = visa[i]
      /\ UNCHANGED <<pkt, got, budget>> /\ msgs \in SUBSET msgs
  BY <1>1
<1>3. Served(node, o, msgs, msgs)
  BY DEF Served
<1> QED BY <1>2, <1>3, Becomes

\* The visa service refuses a visa.
LEMMA VisaRefusedStep ==
    ASSUME IInv, Running, VisaRefused PROVE IInv'
<1>1. PICK q \in node.asked :
        /\ NodeBecomes(bind_reject([node EXCEPT !.asked = @ \ {q}], q.link, q.txn), msgs)
        /\ UNCHANGED <<ad, pkt, got, visa, budget>>
  BY DEF VisaRefused
<1> DEFINE n == [node EXCEPT !.asked = @ \ {q}]
           o == bind_reject(n, q.link, q.txn)
<1>2. NodeOK(node, visa) /\ DOMAIN node = NodeFields /\ Messages(node.out, visa)
  BY Parts DEF NodeOK
<1>3. /\ DOMAIN n = NodeFields /\ n.peers = node.peers /\ n.pft = node.pft /\ n.visas = node.visas
      /\ n.awaiting = node.awaiting /\ n.out = node.out /\ n.reqs = node.reqs
      /\ n.asked = node.asked \ {q}
  BY <1>2 DEF NodeFields
<1>4. NodeBecomes(o, msgs)
  BY <1>1
<1> HIDE DEF n, o
<1>5. NodeOK(n, visa)
  BY <1>2, <1>3, SameTables
<1>6. NodeOK(o, visa) /\ (o.panic = "" => Settles(n, o) /\ Answers(o, q.link, q.txn))
  BY <1>5, BindReject DEF o
<1>7. o.panic = "" => Settles(node, o)
  BY <1>3, <1>6, SettlesAnswer
<1> QED BY <1>1, <1>4, <1>6, <1>7, NodeOnly

\* The visa service pushes a visa.
LEMMA VisaPushedStep ==
    ASSUME IInv, Running, VisaPushed PROVE IInv'
<1>1. PICK tc \in Policy :
        /\ visa' = Append(visa, tc)
        /\ NodeBecomes(IF find_egress_link(node, tc.dst) = {} THEN node
                       ELSE insert_visa(node, Len(visa) + 1, tc), msgs)
        /\ UNCHANGED <<ad, pkt, got, budget>>
  BY DEF VisaPushed
<1> DEFINE id == Len(visa) + 1
           i == insert_visa(node, id, tc)
           o == IF find_egress_link(node, tc.dst) = {} THEN node ELSE i
<1>2. NodeBecomes(o, msgs) /\ visa' = Append(visa, tc) /\ UNCHANGED <<ad, pkt, got, budget>>
  BY <1>1
<1>3. /\ NodeOK(node, visa) /\ Messages(msgs, visa) /\ visa \in Seq(Policy)
      /\ Visas(node, visa) /\ AdaptersOK(ad, visa)
  BY Parts
<1>4. /\ visa' \in Seq(Policy) /\ id \notin DOMAIN visa /\ id \in DOMAIN visa' /\ visa'[id] = tc
      /\ \A k \in DOMAIN visa : k \in DOMAIN visa' /\ visa'[k] = visa[k]
      /\ Messages(msgs, visa') /\ NodeOK(node, visa')
      /\ \A s, a : AdapterOK(s, a, visa) => AdapterOK(s, a, visa')
  BY <1>2, <1>3, MoreIssued
<1>5. \A v \in node.visas : v.id # id
  BY <1>3, <1>4 DEF Visas
<1> HIDE DEF id, i, o
<1>6. /\ NodeOK(i, visa') /\ i.peers = node.peers /\ i.reqs = node.reqs /\ i.asked = node.asked
      /\ i.awaiting = node.awaiting
  <2>1. PICK vis : vis = visa'
    OBVIOUS
  <2>2. NodeOK(node, vis) /\ Fresh(node, vis, id, tc)
    BY <1>4, <1>5, <2>1 DEF Fresh
  <2>3. NodeOK(i, vis)
    BY <2>2, InsertVisa DEF i
  <2>4. /\ i.peers = node.peers /\ i.reqs = node.reqs /\ i.asked = node.asked
        /\ i.awaiting = node.awaiting
    BY <1>3 DEF i, insert_visa, NodeOK, NodeFields
  <2> QED BY <2>1, <2>3, <2>4
<1>7. Settles(node, node)
  BY SettlesSame
<1>8. Settles(node, i)
  BY <1>6, SettlesSame
<1>9. NodeOK(o, visa') /\ Settles(node, o)
  BY <1>4, <1>6, <1>7, <1>8 DEF o
<1>10. Served(node, o, msgs, msgs)
  BY <1>9 DEF Served
<1>11. AdaptersOK(ad', visa')
  BY <1>2, <1>3, <1>4 DEF AdaptersOK
<1>12. \A a \in Adapters : ad'[a].pending = ad[a].pending /\ ad'[a].up = ad[a].up
  BY <1>2
<1>13. msgs \in SUBSET msgs /\ UNCHANGED <<pkt, got, budget>>
  BY <1>2
<1> QED BY <1>2, <1>4, <1>9, <1>10, <1>11, <1>12, <1>13, Becomes

\* The visa service takes a visa back.
LEMMA VisaRevokedStep ==
    ASSUME IInv, Running, VisaRevoked PROVE IInv'
<1>1. PICK v \in node.visas : /\ NodeBecomes(revoke(node, {v}), msgs)
                              /\ UNCHANGED <<ad, pkt, got, visa, budget>>
  BY DEF VisaRevoked
<1>2. NodeOK(node, visa)
  BY Parts
<1> DEFINE o == revoke(node, {v})
<1>3. {v} \in SUBSET node.visas
  OBVIOUS
<1>4. /\ NodeOK(o, visa) /\ o.peers = node.peers /\ o.reqs = node.reqs /\ o.asked = node.asked
      /\ o.awaiting = node.awaiting
  BY <1>2, <1>3, Revoke
<1>5. NodeBecomes(o, msgs)
  BY <1>1
<1> HIDE DEF o
<1>6. Settles(node, o)
  BY <1>4, SettlesSame
<1> QED BY <1>1, <1>4, <1>5, <1>6, NodeOnly

\* The node drops a peer, and what only waits for it is not awaited any more.
LEMMA DropPeerStep ==
    ASSUME IInv, Running, NEW l \in Links, DropPeer(l) PROVE IInv'
<1> DEFINE o == drop_peer(node, l)
<1>1. NodeBecomes(o, msgs) /\ UNCHANGED <<ad, pkt, got, visa, budget>>
  BY DEF DropPeer
<1>2. NodeOK(node, visa)
  BY Parts
<1>3. /\ NodeOK(o, visa) /\ o.asked = node.asked
      /\ \A p : p \in o.peers <=> p \in node.peers /\ p.link # l
      /\ \A r : r \in o.reqs <=> r \in node.reqs /\ r.link # l
      /\ \A w : w \in o.awaiting <=> w \in node.awaiting /\ w.elink # l
  BY <1>2, DropPeerTables
<1> HIDE DEF o
<1>4. \A p : same_session(p, p)
  BY DEF same_session
<1>5. \A k : k # l => peer_of(o, k) = peer_of(node, k)
  BY <1>3 DEF peer_of
<1>6. ASSUME NEW k, NEW u, waits(node, k, u) PROVE Answers(o, k, u)
  <2>1. CASE k = l
    BY <1>3, <2>1 DEF Answers, peer_of
  <2>2. CASE k # l
    <3>1. waits(o, k, u)
      BY <1>3, <1>6, <2>2 DEF waits, request_of
    <3> QED BY <3>1 DEF Answers
  <2> QED BY <2>1, <2>2
<1>7. Settles(node, o)
  BY <1>3, <1>4, <1>5, <1>6 DEF Settles
<1> QED BY <1>1, <1>3, <1>7, NodeOnly

-----------------------------------------------------------------------------
(* Steps of the adapters.                                                  *)

\* A step of adapter a, which becomes s, with the messages M then on their way.
LEMMA AdapterStep ==
    ASSUME IInv, Running, NEW a \in Adapters, NEW s, NEW M,
           ad' = [ad EXCEPT ![a] = s], msgs' = M, UNCHANGED <<node, pkt, got, visa>>,
           AdapterOK(s, a, visa), Messages(M, visa), s.up => ad[a].up,
           panic' = "" => Underway(node, M, [ad EXCEPT ![a] = s])
                          /\ Asking(node, M, [ad EXCEPT ![a] = s]),
           DOMAIN budget' = DOMAIN budget, budget'.slots = budget.slots
    PROVE  IInv'
<1>1. /\ DOMAIN ad = Adapters /\ \A b \in Adapters : AdapterOK(ad[b], b, visa)
      /\ NodeOK(node, visa) /\ node.out = {} /\ node.panic = "" /\ visa \in Seq(Policy)
  BY Parts
<1>2. DOMAIN ad' = Adapters /\ \A b \in Adapters : ad'[b] = IF b = a THEN s ELSE ad[b]
  BY <1>1
<1>3. AdaptersOK(ad', visa')
  <2>1. \A b \in Adapters : AdapterOK(ad'[b], b, visa)
    BY <1>1, <1>2
  <2> QED BY <1>2, <2>1 DEF AdaptersOK
<1>4. Tables(node', msgs', ad', visa', panic')
  <2>1. node' = node /\ visa' = visa
    OBVIOUS
  <2> QED BY <1>1, <2>1 DEF Tables
<1>5. visa' \in Seq(Policy) /\ (\A i \in DOMAIN visa : i \in DOMAIN visa' /\ visa'[i] = visa[i])
      /\ UNCHANGED <<pkt, got>>
  BY <1>1
<1> QED BY <1>3, <1>4, <1>5, RestIsKept

\* A flow is asked for: its request is on its way.
LEMMA RequestTetherStep ==
    ASSUME IInv, Running, NEW a \in Adapters, NEW f \in Flows, RequestTether(a, f)
    PROVE  IInv'
<1> DEFINE t == ad[a].txns + 1
           x == [flow |-> f, txn |-> t]
           s == [ad[a] EXCEPT !.txns = t, !.tasks = @ \cup {t}, !.pending = @ \cup {x}]
           M == msgs \cup (IF link_of(node, a) = {} THEN {} ELSE {bind_req(a, t, f)})
           A == [ad EXCEPT ![a] = s]
<1>1. /\ DOMAIN ad = Adapters /\ AdapterOK(ad[a], a, visa) /\ Messages(msgs, visa)
      /\ Underway(node, msgs, ad) /\ Asking(node, msgs, ad)
      /\ DOMAIN budget = {"slots", "binds", "downs", "cancels", "packets"}
      /\ Peers(node)
  BY Parts
<1>2. /\ ad' = A /\ msgs' = M /\ UNCHANGED <<node, pkt, got, visa, panic>>
      /\ f.src = a /\ budget' = [budget EXCEPT !.binds = @ - 1]
  BY <1>1 DEF RequestTether
<1>3. DOMAIN ad[a] = AdapterFields
  BY <1>1 DEF AdapterOK
<1>4. /\ DOMAIN s = AdapterFields /\ s.pending = ad[a].pending \cup {x}
      /\ s.active = ad[a].active /\ s.dlt = ad[a].dlt /\ s.up = ad[a].up
  BY <1>3 DEF AdapterFields
<1>5. x.flow = f /\ x.txn = t
  OBVIOUS
<1>6. DOMAIN budget' = DOMAIN budget /\ budget'.slots = budget.slots
  BY <1>1, <1>2
<1>7. \A b \in Adapters : A[b] = IF b = a THEN s ELSE ad[b]
  BY <1>1
<1>8. Messages(M, visa)
  <2>1. \A x1 \in M : x1 \in msgs \/ x1 = bind_req(a, t, f)
    OBVIOUS
  <2>2. bind_req(a, t, f).kind = "bind_req" /\ bind_req(a, t, f).a = a
    BY DEF bind_req
  <2> HIDE DEF M, t
  <2> QED BY <1>1, <2>1, <2>2 DEF Messages
<1>9. \A p \in link_of(node, a) : told(M, BindKinds, a, t)
  <2> DEFINE m == bind_req(a, t, f)
  <2>1. m.kind = "bind_req" /\ m.a = a /\ m.txn = t
    BY DEF bind_req
  <2>2. link_of(node, a) # {} => m \in M
    OBVIOUS
  <2> HIDE DEF m, M
  <2> QED BY <2>1, <2>2 DEF told, BindKinds
<1>10. \A K, b, u : told(msgs, K, b, u) => told(M, K, b, u)
  BY DEF told
<1> HIDE DEF t, x, s, M, A
<1>11. AdapterOK(s, a, visa)
  BY <1>1, <1>2, <1>4, <1>5 DEF AdapterOK
<1>12. Underway(node, M, A)
  <2> SUFFICES ASSUME NEW b \in Adapters, NEW e \in A[b].pending, NEW p \in link_of(node, b),
                      p.owns, A[b].up
               PROVE  told(M, BindKinds, b, e.txn) \/ waits(node, p.link, e.txn)
    BY DEF Underway
  <2>1. CASE b = a /\ e = x
    BY <1>5, <1>9, <2>1
  <2>2. CASE ~(b = a /\ e = x)
    <3>1. e \in ad[b].pending /\ ad[b].up
      BY <1>4, <1>7, <2>2
    <3> QED BY <1>1, <1>10, <3>1 DEF Underway
  <2> QED BY <2>1, <2>2
<1>13. Asking(node, M, A)
  <2>1. \A l : \A h \in peer_of(node, l) : A[h.who].up = ad[h.who].up
    BY <1>1, <1>4, <1>7 DEF Peers, peer_of
  <2> QED BY <1>1, <1>10, <2>1 DEF Asking
<1>14. s.up => ad[a].up
  BY <1>4
<1> QED BY <1>2, <1>6, <1>8, <1>11, <1>12, <1>13, <1>14, AdapterStep DEF A

\* The pending entries of a transaction are gone, and so may be the messages
\* that were on their way for it.
LEMMA Settled ==
    ASSUME IInv, Running, NEW a \in Adapters, NEW t, NEW s, NEW M \in SUBSET msgs,
           s.pending = {e \in ad[a].pending : e.txn # t}, s.up = ad[a].up,
           \A m \in msgs \ M : m.kind \in BindKinds /\ m.a = a /\ m.txn = t
    PROVE  Underway(node, M, [ad EXCEPT ![a] = s]) /\ Asking(node, M, [ad EXCEPT ![a] = s])
<1> DEFINE A == [ad EXCEPT ![a] = s]
<1>1. /\ DOMAIN ad = Adapters /\ Underway(node, msgs, ad) /\ Asking(node, msgs, ad) /\ Peers(node)
  BY Parts
<1>2. \A b \in Adapters : A[b] = IF b = a THEN s ELSE ad[b]
  BY <1>1
<1> HIDE DEF A
<1>3. Underway(node, M, A)
  <2> SUFFICES ASSUME NEW b \in Adapters, NEW e \in A[b].pending, NEW p \in link_of(node, b),
                      p.owns, A[b].up
               PROVE  told(M, BindKinds, b, e.txn) \/ waits(node, p.link, e.txn)
    BY DEF Underway
  <2>1. e \in ad[b].pending /\ ad[b].up /\ ~(b = a /\ e.txn = t)
    BY <1>2
  <2>2. told(msgs, BindKinds, b, e.txn) \/ waits(node, p.link, e.txn)
    BY <1>1, <2>1 DEF Underway
  <2>3. told(msgs, BindKinds, b, e.txn) => told(M, BindKinds, b, e.txn)
    BY <2>1 DEF told
  <2> QED BY <2>2, <2>3
<1>4. Asking(node, M, A)
  <2>1. \A l : \A h \in peer_of(node, l) : A[h.who].up = ad[h.who].up
    BY <1>1, <1>2 DEF Peers, peer_of
  <2>2. \A b, u : told(msgs, EgressKinds, b, u) => told(M, EgressKinds, b, u)
    BY DEF told, EgressKinds, BindKinds
  <2> QED BY <1>1, <2>1, <2>2 DEF Asking
<1> QED BY <1>3, <1>4 DEF A

\* The request has run out of retries.
LEMMA RequestCanceledStep ==
    ASSUME IInv, Running, NEW a \in Adapters, RequestCanceled(a) PROVE IInv'
<1>1. PICK t \in ad[a].tasks :
        /\ budget' = [budget EXCEPT !.cancels = @ - 1]
        /\ ad' = [ad EXCEPT ![a] = [deny_tether(a, t) EXCEPT !.tasks = @ \ {t}]]
        /\ msgs' = {m \in msgs : ~(m.kind = "bind_req" /\ m.a = a /\ m.txn = t)}
        /\ UNCHANGED <<node, pkt, got, visa>>
  BY DEF RequestCanceled
<1> DEFINE s == [deny_tether(a, t) EXCEPT !.tasks = @ \ {t}]
           M == {m \in msgs : ~(m.kind = "bind_req" /\ m.a = a /\ m.txn = t)}
<1>2. /\ DOMAIN ad = Adapters /\ AdapterOK(ad[a], a, visa) /\ Messages(msgs, visa)
      /\ DOMAIN budget = {"slots", "binds", "downs", "cancels", "packets"}
  BY Parts
<1>3. DOMAIN ad[a] = AdapterFields
  BY <1>2 DEF AdapterOK
<1>4. /\ DOMAIN s = AdapterFields /\ s.pending = {e \in ad[a].pending : e.txn # t}
      /\ s.active = ad[a].active /\ s.dlt = ad[a].dlt /\ s.up = ad[a].up
  BY <1>3 DEF AdapterFields, deny_tether, lookup_pending
<1>5. M \in SUBSET msgs /\ \A m \in msgs \ M : m.kind \in BindKinds /\ m.a = a /\ m.txn = t
  BY DEF BindKinds
<1>6. DOMAIN budget' = DOMAIN budget /\ budget'.slots = budget.slots
  BY <1>1, <1>2
<1>7. ad' = [ad EXCEPT ![a] = s] /\ msgs' = M /\ UNCHANGED <<node, pkt, got, visa>>
  BY <1>1
<1> HIDE DEF s, M
<1>8. Underway(node, M, [ad EXCEPT ![a] = s]) /\ Asking(node, M, [ad EXCEPT ![a] = s])
  BY <1>4, <1>5, Settled
<1>9. AdapterOK(s, a, visa)
  BY <1>2, <1>4 DEF AdapterOK
<1>10. Messages(M, visa)
  BY <1>2, <1>5 DEF Messages
<1>11. s.up => ad[a].up
  BY <1>4
<1> QED BY <1>6, <1>7, <1>8, <1>9, <1>10, <1>11, AdapterStep

\* The adapter's end goes down: nothing is pending at it any more.
LEMMA LinkDown ==
    ASSUME IInv, Running, NEW a \in Adapters, adapter_link_down(a),
           UNCHANGED <<node, pkt, got, visa, panic>>,
           DOMAIN budget' = DOMAIN budget, budget'.slots = budget.slots
    PROVE  IInv'
<1> DEFINE s == [ad[a] EXCEPT !.up = FALSE, !.pending = {}, !.active = {}, !.dlt = {}]
           M == {m \in msgs : m.a # a}
           A == [ad EXCEPT ![a] = s]
<1>1. /\ DOMAIN ad = Adapters /\ AdapterOK(ad[a], a, visa) /\ Messages(msgs, visa)
      /\ Underway(node, msgs, ad) /\ Asking(node, msgs, ad) /\ Peers(node)
  BY Parts
<1>2. DOMAIN ad[a] = AdapterFields
  BY <1>1 DEF AdapterOK
<1>3. DOMAIN s = AdapterFields /\ s.up = FALSE /\ s.pending = {} /\ s.active = {} /\ s.dlt = {}
  BY <1>2 DEF AdapterFields
<1>4. ad' = A /\ msgs' = M
  BY <1>1 DEF adapter_link_down
<1>6. \A b \in Adapters : A[b] = IF b = a THEN s ELSE ad[b]
  BY <1>1
<1>7. Messages(M, visa)
  BY <1>1 DEF Messages
<1>8. \A K, b, u : b # a /\ told(msgs, K, b, u) => told(M, K, b, u)
  BY DEF told
<1> HIDE DEF s, M, A
<1>9. AdapterOK(s, a, visa)
  BY <1>3 DEF AdapterOK
<1>10. Underway(node, M, A)
  BY <1>1, <1>3, <1>6, <1>8 DEF Underway
<1>11. Asking(node, M, A)
  <2>1. \A l : \A h \in peer_of(node, l) : /\ h.who = a => ~A[h.who].up
                                           /\ h.who # a => A[h.who].up = ad[h.who].up
    BY <1>1, <1>3, <1>6 DEF Peers, peer_of
  <2> QED BY <1>1, <1>8, <2>1 DEF Asking
<1>12. s.up => ad[a].up
  BY <1>3
<1> QED BY <1>4, <1>7, <1>9, <1>10, <1>11, <1>12, AdapterStep DEF A

\* The answer to a pending request arrives.
LEMMA PendingAnswered ==
    ASSUME IInv, Running, NEW a \in Adapters, NEW m \in msgs,
           m.kind = "bind_resp" /\ m.a = a,
           ad' = [ad EXCEPT ![a] = IF m.ok THEN install_tether(a, m.txn, m.id, m.tc)
                                   ELSE deny_tether(a, m.txn)],
           msgs' = msgs \ {m},
           UNCHANGED <<node, pkt, got, visa, panic, budget>>
    PROVE  IInv'
<1> DEFINE t == m.txn
           s == IF m.ok THEN install_tether(a, t, m.id, m.tc) ELSE deny_tether(a, t)
           M == msgs \ {m}
<1>2. /\ DOMAIN ad = Adapters /\ AdapterOK(ad[a], a, visa) /\ Messages(msgs, visa)
  BY Parts
<1>3. DOMAIN ad[a] = AdapterFields
  BY <1>2 DEF AdapterOK
<1>4. /\ DOMAIN s = AdapterFields /\ s.pending = {e \in ad[a].pending : e.txn # t}
      /\ s.dlt = ad[a].dlt /\ s.up = ad[a].up
  <2>1. CASE m.ok
    <3>1. s = install_tether(a, t, m.id, m.tc)
      BY <2>1
    <3> HIDE DEF s, t
    <3> QED BY <1>3, <3>1 DEF AdapterFields, install_tether, lookup_pending
  <2>2. CASE ~m.ok
    <3>1. s = deny_tether(a, t)
      BY <2>2
    <3> HIDE DEF s, t
    <3> QED BY <1>3, <3>1 DEF AdapterFields, deny_tether, lookup_pending
  <2> QED BY <2>1, <2>2
<1>5. \A e \in s.active : e \in ad[a].active \/ \E d \in ad[a].pending : e.flow = d.flow
  <2>1. CASE m.ok
    <3>1. s = install_tether(a, t, m.id, m.tc)
      BY <2>1
    <3> HIDE DEF s, t
    <3>2. s.active = ad[a].active \cup
             {[flow |-> e.flow, id |-> m.id, tc |-> m.tc] :
                e \in {e \in lookup_pending(a, t) : classify_5t(m.tc, e.flow)}}
      BY <1>3, <3>1 DEF AdapterFields, install_tether
    <3>3. ASSUME NEW e \in s.active, e \notin ad[a].active
          PROVE  \E d \in ad[a].pending : e.flow = d.flow
      <4>1. PICK d \in {d \in lookup_pending(a, t) : classify_5t(m.tc, d.flow)} :
              e = [flow |-> d.flow, id |-> m.id, tc |-> m.tc]
        BY <3>2, <3>3
      <4>2. e.flow = d.flow /\ d \in lookup_pending(a, t)
        BY <4>1
      <4> QED BY <4>2 DEF lookup_pending
    <3> QED BY <3>3
  <2>2. CASE ~m.ok
    <3>1. s = deny_tether(a, t)
      BY <2>2
    <3> HIDE DEF s, t
    <3>2. s.active = ad[a].active
      BY <1>3, <3>1 DEF AdapterFields, deny_tether
    <3> QED BY <3>2
  <2> QED BY <2>1, <2>2
<1>6. M \in SUBSET msgs /\ \A x \in msgs \ M : x.kind \in BindKinds /\ x.a = a /\ x.txn = t
  BY DEF BindKinds
<1>7. ad' = [ad EXCEPT ![a] = s] /\ msgs' = M /\ UNCHANGED <<node, pkt, got, visa, panic, budget>>
  OBVIOUS
<1> HIDE DEF s, M, t
<1>8. Underway(node, M, [ad EXCEPT ![a] = s]) /\ Asking(node, M, [ad EXCEPT ![a] = s])
  BY <1>4, <1>6, Settled
<1>9. AdapterOK(s, a, visa)
  BY <1>2, <1>4, <1>5 DEF AdapterOK
<1>10. Messages(M, visa)
  BY <1>2, <1>6 DEF Messages
<1>11. s.up => ad[a].up
  BY <1>4
<1>12. DOMAIN budget' = DOMAIN budget /\ budget'.slots = budget.slots
  BY <1>7
<1> QED BY <1>7, <1>8, <1>9, <1>10, <1>11, <1>12, AdapterStep

\* An answer arrives: to a pending request, or to none, which closes the link.
LEMMA BindResponseStep ==
    ASSUME IInv, Running, NEW a \in Adapters, handle_bind_actor_address_response(a)
    PROVE  IInv'
<1>1. UNCHANGED <<node, pkt, got, visa, panic, budget>>
  BY DEF handle_bind_actor_address_response
<1>2. CASE adapter_link_down(a)
  BY <1>1, <1>2, LinkDown
<1>3. CASE ~adapter_link_down(a)
  <2>1. PICK m \in msgs :
          /\ m.kind = "bind_resp" /\ m.a = a
          /\ ad' = [ad EXCEPT ![a] = IF m.ok THEN install_tether(a, m.txn, m.id, m.tc)
                                     ELSE deny_tether(a, m.txn)]
          /\ msgs' = msgs \ {m}
    BY <1>3 DEF handle_bind_actor_address_response
  <2> QED BY <1>1, <2>1, PendingAnswered
<1> QED BY <1>2, <1>3

\* An egress adapter is asked, and answers.
LEMMA EgressRequestStep ==
    ASSUME IInv, Running, NEW a \in Adapters, handle_bind_egress_stream_request(a)
    PROVE  IInv'
<1>1. PICK m \in msgs :
        LET new == bind_egress_stream(a, m.tc)
        IN  /\ m.kind = "egress_req" /\ m.a = a
            /\ ad' = [ad EXCEPT ![a].dlt = @ \cup new]
            /\ msgs' = (msgs \ {m}) \cup
                 {egress_resp(a, m.txn, new # {}, IF new = {} THEN 0 ELSE (CHOOSE e \in new : TRUE).id)
                    : p \in link_of(node, a)}
            /\ UNCHANGED <<node, pkt, got, visa, panic, budget>>
  BY DEF handle_bind_egress_stream_request
<1> DEFINE new == bind_egress_stream(a, m.tc)
           t == m.txn
           r == egress_resp(a, t, new # {}, IF new = {} THEN 0 ELSE (CHOOSE e \in new : TRUE).id)
           s == [ad[a] EXCEPT !.dlt = @ \cup new]
           M == (msgs \ {m}) \cup {r : p \in link_of(node, a)}
           A == [ad EXCEPT ![a] = s]
<1>2. /\ DOMAIN ad = Adapters /\ AdapterOK(ad[a], a, visa) /\ Messages(msgs, visa)
      /\ Underway(node, msgs, ad) /\ Asking(node, msgs, ad) /\ Peers(node)
  BY Parts
<1>3. DOMAIN ad[a] = AdapterFields
  BY <1>2 DEF AdapterOK
<1>4. \A e \in new : e.tc = m.tc
  <2> DEFINE used == {e.id : e \in ad[a].dlt}
  <2>1. new = {[id |-> vacant_key(used), tc |-> m.tc] : x \in IF full(used) THEN {} ELSE {0}}
    BY DEF bind_egress_stream
  <2> HIDE DEF new, used
  <2> SUFFICES ASSUME NEW e \in new PROVE e.tc = m.tc
    OBVIOUS
  <2>2. e = [id |-> vacant_key(used), tc |-> m.tc]
    BY <2>1
  <2> QED BY <2>2
<1>5. issued(visa, m.tc) /\ m.tc.dst = a
  BY <1>1, <1>2 DEF Messages
<1>6. r.kind = "egress_resp" /\ r.a = a /\ r.txn = t
  BY DEF egress_resp
<1>7. ad' = A /\ msgs' = M /\ UNCHANGED <<node, pkt, got, visa, panic, budget>>
  BY <1>1, <1>2
<1>8. m.kind = "egress_req" /\ m.a = a /\ m.txn = t
  BY <1>1
<1> HIDE DEF new, r, t
<1>9. /\ DOMAIN s = AdapterFields /\ s.pending = ad[a].pending /\ s.active = ad[a].active
      /\ s.dlt = ad[a].dlt \cup new /\ s.up = ad[a].up
  BY <1>3 DEF AdapterFields
<1>10. \A x \in M : x \in msgs \/ x = r
  OBVIOUS
<1>11. (\A x \in msgs : x # m => x \in M) /\ \A p \in link_of(node, a) : r \in M
  OBVIOUS
<1>12. \A b \in Adapters : A[b] = IF b = a THEN s ELSE ad[b]
  BY <1>2
<1> HIDE DEF s, M, A
<1>13. AdapterOK(s, a, visa)
  BY <1>2, <1>4, <1>5, <1>9 DEF AdapterOK
<1>14. Messages(M, visa)
  BY <1>2, <1>6, <1>10 DEF Messages
<1>15. Underway(node, M, A)
  <2>1. \A b, u : told(msgs, BindKinds, b, u) => told(M, BindKinds, b, u)
    BY <1>8, <1>11 DEF told, BindKinds
  <2> QED BY <1>2, <1>9, <1>12, <2>1 DEF Underway
<1>16. Asking(node, M, A)
  <2>1. \A l : \A h \in peer_of(node, l) : A[h.who].up = ad[h.who].up
    BY <1>2, <1>9, <1>12 DEF Peers, peer_of
  <2>2. ASSUME NEW l, NEW h \in peer_of(node, l), NEW u, told(msgs, EgressKinds, h.who, u)
        PROVE  told(M, EgressKinds, h.who, u)
    <3>1. PICK x \in msgs : x.kind \in EgressKinds /\ x.a = h.who /\ x.txn = u
      BY <2>2 DEF told
    <3>2. CASE x # m
      BY <1>11, <3>1, <3>2 DEF told
    <3>3. CASE x = m
      <4>1. h \in link_of(node, a)
        BY <1>8, <3>1, <3>3 DEF peer_of, link_of
      <4>2. r \in M /\ r.kind \in EgressKinds /\ r.a = h.who /\ r.txn = u
        BY <1>6, <1>8, <1>11, <3>1, <3>3, <4>1 DEF EgressKinds
      <4> QED BY <4>2 DEF told
    <3> QED BY <3>2, <3>3
  <2> QED BY <1>2, <2>1, <2>2 DEF Asking
<1>17. (s.up => ad[a].up) /\ DOMAIN budget' = DOMAIN budget /\ budget'.slots = budget.slots
  BY <1>7, <1>9
<1> QED BY <1>7, <1>13, <1>14, <1>15, <1>16, <1>17, AdapterStep DEF A

-----------------------------------------------------------------------------
(* Sessions and packets.                                                   *)

\* The adapter's end goes down.
LEMMA AdapterDownStep ==
    ASSUME IInv, Running, NEW a \in Adapters, AdapterDown(a) PROVE IInv'
<1>1. DOMAIN budget = {"slots", "binds", "downs", "cancels", "packets"}
  BY Parts
<1>2. adapter_link_down(a) /\ UNCHANGED <<node, pkt, got, visa, panic>>
  BY DEF AdapterDown
<1>3. DOMAIN budget' = DOMAIN budget /\ budget'.slots = budget.slots
  BY <1>1 DEF AdapterDown, SessionEnds
<1> QED BY <1>2, <1>3, LinkDown

\* A step of the sessions that leaves the messages and the packets alone.
LEMMA SessionStep ==
    ASSUME IInv, Running, UNCHANGED <<msgs, pkt, got, visa, panic>>, AdaptersOK(ad', visa),
           NodeOK(node', visa), node'.out = {}, node'.panic = "",
           Underway(node', msgs, ad'), Asking(node', msgs, ad'),
           DOMAIN budget' = DOMAIN budget, budget'.slots = budget.slots
    PROVE  IInv'
<1>1. Messages(msgs, visa) /\ visa \in Seq(Policy)
  BY Parts
<1>2. msgs' = msgs /\ visa' = visa /\ UNCHANGED <<pkt, got>>
  OBVIOUS
<1>3. AdaptersOK(ad', visa') /\ Tables(node', msgs', ad', visa', panic')
  BY <1>1, <1>2 DEF Tables
<1>4. visa' \in Seq(Policy) /\ \A i \in DOMAIN visa : i \in DOMAIN visa' /\ visa'[i] = visa[i]
  BY <1>1, <1>2
<1> QED BY <1>2, <1>3, <1>4, RestIsKept

\* An adapter starts, and the node takes a new peer.
LEMMA ConnectStep ==
    ASSUME IInv, Running, NEW a \in Adapters, NEW l \in Links, Connect(a, l) PROVE IInv'
<1> DEFINE s == [new_adapter EXCEPT !.up = TRUE]
           q == new_peer(l, a)
           o == [node EXCEPT !.peers = @ \cup {q}]
           A == [ad EXCEPT ![a] = s]
<1>1. /\ DOMAIN ad = Adapters /\ \A b \in Adapters : AdapterOK(ad[b], b, visa)
      /\ NodeOK(node, visa) /\ node.out = {} /\ node.panic = "" /\ DOMAIN node = NodeFields
      /\ Underway(node, msgs, ad) /\ Asking(node, msgs, ad)
      /\ Peers(node) /\ Visas(node, visa) /\ Routes(node) /\ Hops(node)
  BY Parts
<1>2. /\ link_of(node, a) = {} /\ peer_of(node, l) = {} /\ ad' = A /\ node' = o
      /\ UNCHANGED <<msgs, pkt, got, visa, panic, budget>>
  BY DEF Connect
<1>3. DOMAIN s = AdapterFields /\ s.pending = {} /\ s.active = {} /\ s.dlt = {}
  BY DEF new_adapter, AdapterFields
<1>4. /\ DOMAIN q = {"link", "who", "owns", "txns"} /\ q.link = l /\ q.who = a /\ q.txns = 0
  BY DEF new_peer
<1>5. /\ DOMAIN o = NodeFields /\ o.peers = node.peers \cup {q} /\ o.pft = node.pft
      /\ o.visas = node.visas /\ o.awaiting = node.awaiting /\ o.reqs = node.reqs
      /\ o.asked = node.asked /\ o.out = {} /\ o.panic = ""
  BY <1>1 DEF NodeFields
<1>6. DOMAIN A = Adapters /\ \A b \in Adapters : A[b] = IF b = a THEN s ELSE ad[b]
  BY <1>1
<1> HIDE DEF s, q, o, A
<1>7. \A p \in node.peers : p.who # a /\ p.link # l
  BY <1>2 DEF link_of, peer_of
<1>8. Peers(o)
  <2>1. \A p \in o.peers : /\ DOMAIN p = {"link", "who", "owns", "txns"}
                           /\ p.who \in Adapters /\ p.txns \in Nat
    <3>1. DOMAIN q = {"link", "who", "owns", "txns"} /\ q.who \in Adapters /\ q.txns \in Nat
      <4>1. q.txns \in Nat
        BY <1>4
      <4>2. q.who \in Adapters
        BY <1>4
      <4>3. DOMAIN q = {"link", "who", "owns", "txns"}
        BY <1>4
      <4> QED BY <4>1, <4>2, <4>3
    <3>2. \A p \in node.peers : /\ DOMAIN p = {"link", "who", "owns", "txns"}
                                /\ p.who \in Adapters /\ p.txns \in Nat
      BY <1>1 DEF Peers
    <3> QED BY <1>5, <3>1, <3>2
  <2>2. \A p, h \in o.peers : p.link = h.link \/ p.who = h.who => p = h
    BY <1>1, <1>4, <1>5, <1>7 DEF Peers
  <2> QED BY <2>1, <2>2 DEF Peers
<1>9. Visas(o, visa)
  BY <1>1, <1>5 DEF Visas
<1>10. \A k : peer_of(node, k) \subseteq peer_of(o, k)
  BY <1>5 DEF peer_of
<1>11. Routes(o)
  BY <1>1, <1>5, <1>10 DEF Routes
<1>12. Hops(o)
  BY <1>1, <1>5, <1>10 DEF Hops
<1>13. Messages(o.out, visa)
  BY <1>5 DEF Messages
<1>14. NodeOK(o, visa)
  BY <1>5, <1>8, <1>9, <1>11, <1>12, <1>13 DEF NodeOK
<1>15. AdaptersOK(A, visa)
  <2>1. AdapterOK(s, a, visa)
    BY <1>3 DEF AdapterOK
  <2> QED BY <1>1, <1>6, <2>1 DEF AdaptersOK
<1>16. Underway(o, msgs, A)
  <2> SUFFICES ASSUME NEW b \in Adapters, NEW e \in A[b].pending, NEW p \in link_of(o, b),
                      p.owns, A[b].up
               PROVE  told(msgs, BindKinds, b, e.txn) \/ waits(o, p.link, e.txn)
    BY DEF Underway
  <2>1. b # a /\ A[b] = ad[b]
    BY <1>3, <1>6
  <2>2. p \in link_of(node, b)
    BY <1>4, <1>5, <2>1 DEF link_of
  <2>3. told(msgs, BindKinds, b, e.txn) \/ waits(node, p.link, e.txn)
    BY <1>1, <2>1, <2>2 DEF Underway
  <2> QED BY <1>5, <2>3 DEF waits, request_of
<1>17. Asking(o, msgs, A)
  <2>1. \A k : \A h \in peer_of(node, k) : A[h.who] = ad[h.who]
    BY <1>1, <1>6, <1>7 DEF Peers, peer_of
  <2> QED BY <1>1, <1>5, <1>10, <2>1 DEF Asking
<1>18. UNCHANGED <<msgs, pkt, got, visa, panic>> /\ DOMAIN budget' = DOMAIN budget
       /\ budget'.slots = budget.slots
  BY <1>2
<1> QED BY <1>2, <1>5, <1>14, <1>15, <1>16, <1>17, <1>18, SessionStep

\* The node's end goes down.
LEMMA NodeDownStep ==
    ASSUME IInv, Running, NEW l \in Links, NodeDown(l) PROVE IInv'
<1>1. PICK p \in peer_of(node, l) :
        /\ SessionEnds(~ad[p.who].up)
        /\ node' = [node EXCEPT !.peers = (@ \ {p}) \cup {[p EXCEPT !.owns = FALSE]}]
        /\ UNCHANGED <<ad, msgs, pkt, got, visa, panic>>
  BY DEF NodeDown
<1> DEFINE q == [p EXCEPT !.owns = FALSE]
           o == [node EXCEPT !.peers = (@ \ {p}) \cup {q}]
<1>2. /\ NodeOK(node, visa) /\ node.out = {} /\ node.panic = "" /\ DOMAIN node = NodeFields
      /\ Underway(node, msgs, ad) /\ Asking(node, msgs, ad) /\ AdaptersOK(ad, visa)
      /\ Peers(node) /\ Visas(node, visa) /\ Routes(node) /\ Hops(node)
      /\ DOMAIN budget = {"slots", "binds", "downs", "cancels", "packets"}
  BY Parts
<1>3. /\ p \in node.peers /\ DOMAIN p = {"link", "who", "owns", "txns"} /\ p.who \in Adapters
      /\ p.txns \in Nat
  BY <1>2 DEF peer_of, Peers
<1>4. /\ DOMAIN q = {"link", "who", "owns", "txns"} /\ q.link = p.link /\ q.who = p.who
      /\ q.txns = p.txns /\ q.owns = FALSE
  BY <1>3
<1>5. /\ DOMAIN o = NodeFields /\ o.peers = (node.peers \ {p}) \cup {q} /\ o.pft = node.pft
      /\ o.visas = node.visas /\ o.awaiting = node.awaiting /\ o.reqs = node.reqs
      /\ o.asked = node.asked /\ o.out = {} /\ o.panic = ""
  BY <1>2 DEF NodeFields
<1>6. node' = o /\ UNCHANGED <<msgs, pkt, got, visa, panic>> /\ ad' = ad
  BY <1>1
<1>7. DOMAIN budget' = DOMAIN budget /\ budget'.slots = budget.slots
  BY <1>1, <1>2 DEF SessionEnds
<1> HIDE DEF q, o
<1>8. Peers(o)
  <2>1. \A h \in o.peers : /\ DOMAIN h = {"link", "who", "owns", "txns"}
                           /\ h.who \in Adapters /\ h.txns \in Nat
    BY <1>2, <1>3, <1>4, <1>5 DEF Peers
  <2>2. \A h, g \in o.peers : h.link = g.link \/ h.who = g.who => h = g
    <3>1. \A h \in node.peers \ {p} : h.link # p.link /\ h.who # p.who
      BY <1>2, <1>3 DEF Peers
    <3>2. \A h, g \in node.peers : h.link = g.link \/ h.who = g.who => h = g
      BY <1>2 DEF Peers
    <3> SUFFICES ASSUME NEW h \in o.peers, NEW g \in o.peers, h.link = g.link \/ h.who = g.who
                 PROVE  h = g
      OBVIOUS
    <3>3. \A x \in o.peers : x = q \/ x \in node.peers \ {p}
      BY <1>5
    <3>4. CASE h = q
      BY <1>4, <3>1, <3>3, <3>4
    <3>5. CASE g = q
      BY <1>4, <3>1, <3>3, <3>5
    <3> QED BY <3>2, <3>3, <3>4, <3>5
  <2> QED BY <2>1, <2>2 DEF Peers
<1>9. Visas(o, visa)
  BY <1>2, <1>5 DEF Visas
<1>10. \A k : \A h \in peer_of(node, k) :
         \E g \in peer_of(o, k) : g.txns = h.txns /\ g.who = h.who /\ (g.owns => h.owns)
  BY <1>4, <1>5 DEF peer_of
<1>11. Routes(o)
  <2>1. \A k : peer_of(node, k) # {} => peer_of(o, k) # {}
    BY <1>10
  <2> QED BY <1>2, <1>5, <2>1 DEF Routes
<1>12. Hops(o)
  <2>1. ASSUME NEW w \in node.awaiting
        PROVE  w.etxn \in Nat /\ \E g \in peer_of(o, w.elink) : w.etxn <= g.txns
    <3>1. PICK h \in peer_of(node, w.elink) : w.etxn <= h.txns
      BY <1>2 DEF Hops
    <3>2. PICK g \in peer_of(o, w.elink) : g.txns = h.txns
      BY <1>10
    <3> QED BY <1>2, <3>1, <3>2 DEF Hops
  <2> QED BY <1>2, <1>5, <2>1 DEF Hops
<1>13. Messages(o.out, visa)
  BY <1>5 DEF Messages
<1>14. NodeOK(o, visa)
  BY <1>5, <1>8, <1>9, <1>11, <1>12, <1>13 DEF NodeOK
<1>15. Underway(o, msgs, ad)
  <2> SUFFICES ASSUME NEW b \in Adapters, NEW e \in ad[b].pending, NEW h \in link_of(o, b),
                      h.owns, ad[b].up
               PROVE  told(msgs, BindKinds, b, e.txn) \/ waits(o, h.link, e.txn)
    BY DEF Underway
  <2>1. h \in link_of(node, b)
    BY <1>4, <1>5 DEF link_of
  <2>2. told(msgs, BindKinds, b, e.txn) \/ waits(node, h.link, e.txn)
    BY <1>2, <2>1 DEF Underway
  <2> QED BY <1>5, <2>2 DEF waits, request_of
<1>16. Asking(o, msgs, ad)
  <2> SUFFICES ASSUME NEW w \in node.awaiting
               PROVE  \E g \in peer_of(o, w.elink) :
                        ~(g.owns /\ ad[g.who].up) \/ told(msgs, EgressKinds, g.who, w.etxn)
    BY <1>5 DEF Asking
  <2>1. PICK h \in peer_of(node, w.elink) :
          ~(h.owns /\ ad[h.who].up) \/ told(msgs, EgressKinds, h.who, w.etxn)
    BY <1>2 DEF Asking
  <2>2. PICK g \in peer_of(o, w.elink) : g.who = h.who /\ (g.owns => h.owns)
    BY <1>10
  <2> QED BY <2>1, <2>2
<1> QED BY <1>2, <1>5, <1>6, <1>7, <1>14, <1>15, <1>16, SessionStep

\* A step that leaves the management code alone.
LEMMA PacketStep ==
    ASSUME IInv, UNCHANGED <<ad, node, msgs, visa, panic>>, Carried(pkt'), DeliveredAsSent',
           DOMAIN budget' = DOMAIN budget, budget'.slots = budget.slots
    PROVE  IInv'
<1>1. AdaptersOK(ad', visa') /\ Tables(node', msgs', ad', visa', panic')
  BY DEF IInv
<1> QED BY <1>1 DEF IInv

\* A packet of a flow of its own that an adapter sends.
LEMMA SendPacketStep ==
    ASSUME IInv, Running, NEW a \in Adapters, SendPacket(a) PROVE IInv'
<1>1. PICK e \in ad[a].active, p \in link_of(node, a) :
        /\ budget' = [budget EXCEPT !.packets = @ - 1]
        /\ pkt' = forward(actor_output(a, e), p.link)
        /\ got' = {}
        /\ UNCHANGED <<ad, node, msgs, visa, panic>>
  BY DEF SendPacket
<1>2. /\ AdapterOK(ad[a], a, visa)
      /\ DOMAIN budget = {"slots", "binds", "downs", "cancels", "packets"}
  BY Parts
<1>3. e.flow \in Flows /\ e.flow.src = a
  BY <1>2 DEF AdapterOK
<1> DEFINE k == actor_output(a, e)
<1>4. k.body = e.flow /\ k.from = a /\ DOMAIN k = {"from", "id", "port", "body", "key", "link"}
  BY DEF actor_output
<1>5. pkt' = forward(k, p.link)
  BY <1>1
<1> HIDE DEF k
<1>6. Carried(pkt')
  <2> SUFFICES ASSUME NEW x \in pkt' PROVE x.body \in Flows /\ x.body.src = x.from
    BY DEF Carried
  <2>1. PICK d \in {d \in node.pft : d.link = p.link /\ d.id = k.id} :
          x = [k EXCEPT !.id = d.hop[2], !.link = d.hop[1]]
    BY <1>5 DEF forward
  <2>2. x.body = k.body /\ x.from = k.from
    BY <1>4, <2>1
  <2> QED BY <1>3, <1>4, <2>2
<1>7. DeliveredAsSent'
  BY <1>1 DEF DeliveredAsSent
<1>8. DOMAIN budget' = DOMAIN budget /\ budget'.slots = budget.slots
  BY <1>1, <1>2
<1> QED BY <1>1, <1>6, <1>7, <1>8, PacketStep

\* A packet that is given to an actor is one of the flow it was sent with, and
\* suits a traffic class of a visa towards this actor.
LEMMA ActorInputStep ==
    ASSUME IInv, Running, NEW a \in Adapters, actor_input(a) PROVE IInv'
<1>1. PICK k \in pkt : 
        /\ got' = {[flow |-> f, at |-> a, from |-> k.from, sent |-> k.body] :
                     f \in UNION {micv(k, e.tc) : e \in {e \in ad[a].dlt : e.id = k.id /\ e.tc.dst = a}}}
        /\ pkt' = {}
        /\ UNCHANGED <<ad, node, msgs, visa, panic, budget>>
  BY DEF actor_input
<1>2. /\ AdapterOK(ad[a], a, visa) /\ visa \in Seq(Policy)
      /\ k.body \in Flows /\ k.body.src = k.from
  BY Parts
<1>3. DeliveredAsSent'
  <2> SUFFICES ASSUME NEW g \in got'
               PROVE  /\ g.flow = g.sent /\ g.flow.src = g.from /\ g.flow.dst = g.at
                      /\ \E i \in DOMAIN visa' : classify_5t(visa'[i], g.flow)
    BY DEF DeliveredAsSent, classify_5t
  <2>1. PICK f \in UNION {micv(k, e.tc) : e \in {e \in ad[a].dlt : e.id = k.id /\ e.tc.dst = a}} :
          g = [flow |-> f, at |-> a, from |-> k.from, sent |-> k.body]
    BY <1>1
  <2>2. g.flow = f /\ g.at = a /\ g.from = k.from /\ g.sent = k.body
    BY <2>1
  <2>3. PICK e \in ad[a].dlt : f \in micv(k, e.tc)
    BY <2>1
  <2>4. f = k.body /\ f = expand(e.tc, k.port)
    BY <2>3 DEF micv
  <2>5. issued(visa, e.tc) /\ e.tc.dst = a
    BY <1>2 DEF AdapterOK
  <2>6. PICK i \in DOMAIN visa : visa[i] = e.tc
    BY <2>5 DEF issued
  <2>7. visa[i] \in Policy
    <3>1. visa \in Seq(Policy)
      BY <1>2
    <3>2. i \in 1 .. Len(visa)
      BY <3>1
    <3> QED BY <3>1, <3>2, ElementOfSeq
  <2>8. DOMAIN e.tc = {"src", "dst", "port"} /\ e.tc.port \in Nat
    BY <2>6, <2>7, TetherAssumption
  <2>9. f.port \in Nat \ {0}
    BY <1>2, <2>4, TetherAssumption
  <2>10. f.src = e.tc.src /\ f.dst = e.tc.dst
         /\ f.port = IF (e.tc.port = 0) = (k.port = 0) THEN 0
                     ELSE IF e.tc.port = 0 THEN k.port ELSE e.tc.port
    BY <2>4, <2>8 DEF expand
  <2>11. f.port # 0
    BY <2>9
  <2>12. e.tc.port # 0 => f.port = e.tc.port
    BY <2>10, <2>11
  <2>13. classify_5t(visa[i], f)
    BY <2>6, <2>10, <2>12 DEF classify_5t
  <2>14. i \in DOMAIN visa' /\ visa'[i] = visa[i]
    BY <1>1
  <2> QED BY <1>2, <2>2, <2>4, <2>5, <2>10, <2>13, <2>14
<1>4. Carried(pkt')
  BY <1>1 DEF Carried
<1> QED BY <1>1, <1>3, <1>4, PacketStep

-----------------------------------------------------------------------------

\* The invariant holds initially, when every adapter has a link of its own,
LEMMA InitIInv == Init => IInv
<1> SUFFICES ASSUME Init PROVE IInv
  OBVIOUS
<1> DEFINE l == CHOOSE l \in Injection(Adapters, Links) : TRUE
           s == [new_adapter EXCEPT !.up = TRUE]
<1>1. l \in Injection(Adapters, Links)
  BY TetherAssumption
<1>2. \A a, b \in Adapters : l[a] = l[b] => a = b
  BY <1>1 DEF Injection, IsInjective
<1>3. /\ ad = [a \in Adapters |-> s]
      /\ node = [new_node EXCEPT !.peers = {new_peer(l[a], a) : a \in Adapters}]
      /\ msgs = {} /\ pkt = {} /\ got = {} /\ visa = <<>> /\ panic = ""
      /\ budget \in [slots : TableSizes, binds : {MaxBinds}, downs : {MaxDowns},
                     cancels : {MaxCancels}, packets : {MaxPackets}]
  BY DEF Init
<1>4. DOMAIN s = AdapterFields /\ s.pending = {} /\ s.active = {} /\ s.dlt = {}
  BY DEF new_adapter, AdapterFields
<1> HIDE DEF s, l
<1>5. AdaptersOK(ad, visa)
  <2>1. \A a : AdapterOK(s, a, visa)
    BY <1>4 DEF AdapterOK
  <2> QED BY <1>3, <2>1 DEF AdaptersOK
<1>6. /\ DOMAIN node = NodeFields /\ node.peers = {new_peer(l[a], a) : a \in Adapters}
      /\ node.pft = {} /\ node.visas = {} /\ node.awaiting = {} /\ node.out = {}
      /\ node.panic = ""
  BY <1>3 DEF new_node, NodeFields
<1>7. Peers(node)
  <2>1. \A p \in node.peers : \E a \in Adapters : p = new_peer(l[a], a)
    BY <1>6
  <2>2. \A a : /\ DOMAIN new_peer(l[a], a) = {"link", "who", "owns", "txns"}
               /\ new_peer(l[a], a).link = l[a] /\ new_peer(l[a], a).who = a
               /\ new_peer(l[a], a).txns = 0
    BY DEF new_peer
  <2>3. ASSUME NEW p \in node.peers, NEW q \in node.peers, p.link = q.link \/ p.who = q.who
        PROVE  p = q
    <3>1. PICK a \in Adapters : p = new_peer(l[a], a)
      BY <2>1
    <3>2. PICK b \in Adapters : q = new_peer(l[b], b)
      BY <2>1
    <3>3. a = b
      BY <1>2, <2>2, <2>3, <3>1, <3>2
    <3> QED BY <3>1, <3>2, <3>3
  <2>4. \A p \in node.peers : /\ DOMAIN p = {"link", "who", "owns", "txns"}
                              /\ p.who \in Adapters /\ p.txns \in Nat
    BY <2>1, <2>2
  <2> QED BY <2>3, <2>4 DEF Peers
<1>8. NodeOK(node, visa)
  BY <1>6, <1>7 DEF NodeOK, Visas, Routes, Hops, Messages
<1>9. Underway(node, msgs, ad)
  BY <1>3, <1>4 DEF Underway
<1>10. Asking(node, msgs, ad)
  BY <1>6 DEF Asking
<1>11. Messages(msgs, visa) /\ Carried(pkt) /\ DeliveredAsSent
  BY <1>3 DEF Messages, Carried, DeliveredAsSent
<1>12. /\ DOMAIN budget = {"slots", "binds", "downs", "cancels", "packets"} /\ budget.slots \in Nat
  BY <1>3, TetherAssumption
<1>13. visa \in Seq(Policy)
  <2>1. <<>> \in Seq(Policy)
    OBVIOUS
  <2> QED BY <1>3, <2>1, Zenon
<1> QED BY <1>5, <1>6, <1>8, <1>9, <1>10, <1>11, <1>12, <1>13 DEF IInv, Tables

\* and every step keeps it.
LEMMA NextIInv == IInv /\ [Next]_vars => IInv'
<1> SUFFICES ASSUME IInv, [Next]_vars PROVE IInv'
  OBVIOUS
<1>1. CASE UNCHANGED vars
  <2>1. UNCHANGED <<ad, node, msgs, visa, panic>> /\ UNCHANGED <<pkt, got, budget>>
    BY <1>1 DEF vars
  <2>2. Carried(pkt')
    BY <2>1 DEF IInv
  <2>3. DeliveredAsSent'
    BY <2>1 DEF IInv, DeliveredAsSent, classify_5t
  <2> QED BY <2>1, <2>2, <2>3, PacketStep
<1>2. CASE Next
  <2>1. Running
    BY <1>2 DEF Next, Running
  <2>2. ASSUME NEW a \in Adapters, NEW f \in Flows, RequestTether(a, f) PROVE IInv'
    BY <2>1, <2>2, RequestTetherStep
  <2>3. ASSUME NEW a \in Adapters,
               \/ RequestCanceled(a) \/ handle_bind_actor_address_response(a)
               \/ handle_bind_egress_stream_request(a)
        PROVE  IInv'
    BY <2>1, <2>3, RequestCanceledStep, BindResponseStep, EgressRequestStep
  <2>4. ASSUME NEW a \in Adapters, AdapterDown(a) \/ SendPacket(a) \/ actor_input(a)
        PROVE  IInv'
    BY <2>1, <2>4, AdapterDownStep, SendPacketStep, ActorInputStep
  <2>5. ASSUME NEW a \in Adapters, NEW l \in Links, Connect(a, l) PROVE IInv'
    BY <2>1, <2>5, ConnectStep
  <2>6. ASSUME NEW l \in Links, NodeDown(l) \/ DropPeer(l) PROVE IInv'
    BY <2>1, <2>6, NodeDownStep, DropPeerStep
  <2>7. CASE handle_bind_actor_address_request \/ handle_bind_egress_stream_response
    BY <2>1, <2>7, BindRequestStep, EgressResponseStep
  <2>8. CASE VisaGranted \/ VisaRefused \/ VisaPushed \/ VisaRevoked
    BY <2>1, <2>8, VisaGrantedStep, VisaRefusedStep, VisaPushedStep, VisaRevokedStep
  <2> QED BY <1>2, <2>2, <2>3, <2>4, <2>5, <2>6, <2>7, <2>8 DEF Next
<1> QED BY <1>1, <1>2

-----------------------------------------------------------------------------
(* The theorems.                                                           *)

\* The inductive invariant holds always.
THEOREM TetherInvariance == Spec => []IInv
  BY InitIInv, NextIInv, PTL DEF Spec

\* The forwarding tables and the visas agree (visa_table.rs, peer_table.rs): an
\* entry is a stream of a visa that the node holds and of a peer that it has,
\* and every stream is an entry of its visa.  No two entries share a slot, so
\* what revocation or drop_peer removes is never another visa's.
THEOREM RoutesAreOfVisas == Spec => []RoutesFollowVisas
<1>1. IInv => RoutesFollowVisas
  BY DEF IInv, Tables, NodeOK, Routes, RoutesFollowVisas
<1> QED BY <1>1, TetherInvariance, PTL

\* An actor is given what was sent to it, as it was sent, by the actor of its
\* source (fastpath.rs), under a traffic class that a visa was issued for,
\* whatever slots and links have been used again since.
THEOREM ActorsGetTheirOwn == Spec => []DeliveredAsSent
<1>1. IInv => DeliveredAsSent
  BY DEF IInv
<1> QED BY <1>1, TetherInvariance, PTL

\* A pending flow always waits for something that happens (adapter_manager.rs,
\* mgmt/node.rs): its request or answer is on its way, the visa service is
\* asked, or the next hop is asked or is going; but for a request whose next
\* hop has been dropped.  A handler of the node answers each request that it
\* takes or forgets, and a next hop is asked in a transaction of its own.
THEOREM PendingFlowsAreUnderway == Spec => []PendingIsUnderway
<1>1. IInv => PendingIsUnderway
  <2> SUFFICES ASSUME IInv, NEW a \in Adapters, NEW e \in ad[a].pending, NEW p \in link_of(node, a),
                      lasts(p), panic = ""
               PROVE  \/ in_flight({"bind_req", "bind_resp"}, a, e.txn)
                      \/ \E r \in request_of(node, p.link, e.txn) :
                           \/ r.st = "visa" /\ \E q \in node.asked : q.link = p.link /\ q.txn = e.txn
                           \/ r.st = "hop" /\ ~awaited(node, r)
                           \/ r.st = "hop" /\ \E h \in peer_of(node, r.elink) :
                                ~lasts(h) \/ in_flight({"egress_req", "egress_resp"}, h.who, r.etxn)
    BY DEF PendingIsUnderway
  <2>1. Underway(node, msgs, ad) /\ Asking(node, msgs, ad)
    BY Parts DEF Running
  <2>2. p.owns /\ ad[a].up
    BY DEF lasts, link_of
  <2>3. told(msgs, BindKinds, a, e.txn) \/ waits(node, p.link, e.txn)
    BY <2>1, <2>2 DEF Underway
  <2>4. CASE told(msgs, BindKinds, a, e.txn)
    BY <2>4 DEF told, in_flight, BindKinds
  <2>5. CASE waits(node, p.link, e.txn)
    <3>1. PICK r \in request_of(node, p.link, e.txn) :
            \/ r.st = "hop"
            \/ r.st = "visa" /\ \E q \in node.asked : q.link = p.link /\ q.txn = e.txn
      BY <2>5 DEF waits
    <3>2. CASE r.st = "hop" /\ awaited(node, r)
      <4>1. PICK w \in node.awaiting : w.elink = r.elink /\ w.etxn = r.etxn
        BY <3>2 DEF awaited
      <4>2. PICK h \in peer_of(node, w.elink) :
              ~(h.owns /\ ad[h.who].up) \/ told(msgs, EgressKinds, h.who, w.etxn)
        BY <2>1 DEF Asking
      <4>3. ~lasts(h) \/ in_flight({"egress_req", "egress_resp"}, h.who, r.etxn)
        BY <4>1, <4>2 DEF lasts, told, in_flight, EgressKinds
      <4> QED BY <3>2, <4>1, <4>3
    <3> QED BY <3>1, <3>2
  <2> QED BY <2>3, <2>4, <2>5
<1> QED BY <1>1, TetherInvariance, PTL

=============================================================================
