------------------------------- MODULE Tether -------------------------------
(***************************************************************************)
(* Tethers: how a flow of an adapter's actor is bound, through the node,   *)
(* to the adapter of its destination, and how packets then follow it.      *)
(*                                                                         *)
(* An adapter that sees a packet of a new flow asks its node for a tether. *)
(* The node finds a visa for the flow, or asks the visa service for one,   *)
(* binds the flow at the egress adapter, installs a forwarding entry and   *)
(* answers.  Packets carry only the tether's id, the fields its traffic    *)
(* class leaves open and an integrity value over the packet as it was.     *)
(*                                                                         *)
(* One node; the adapters reach it over sessions that come and go.  The    *)
(* node's management code runs in one LocalSet: a handler runs to its end, *)
(* the visa service is waited for.  Messages are those of ZDPR: delivered  *)
(* once, in any order, unless the session ends first.                      *)
(***************************************************************************)
EXTENDS Integers, Sequences, FiniteSetsExt, Functions

CONSTANTS
    Adapters,       \* the adapters; each has one actor address
    Links,          \* link ids that the node's peer table hands out
    Flows,          \* the flows of the actors: [src, dst, port]
    Policy,         \* the traffic classes that the visa service grants visas for
    TableSizes,     \* slots of a PFT or a DLT
    TxnIds,         \* transaction ids that a peer has for requests to it
    MaxBinds,       \* bound: bind requests
    MaxVisas,       \* bound: visas that the visa service issues
    MaxDowns,       \* bound: sessions that end
    MaxPackets,     \* bound: packets that are sent over tethers
    MaxCancels      \* bound: bind requests that run out of retries

ASSUME TetherAssumption ==
    /\ \A f \in Flows : f.src \in Adapters /\ f.dst \in Adapters /\ f.port \in Nat \ {0}
    /\ \A tc \in Policy : DOMAIN tc = {"src", "dst", "port"} /\ tc.port \in Nat
    /\ Injection(Adapters, Links) # {}
    /\ TableSizes \subseteq Nat \ {0} /\ TxnIds \in Nat \ {0}
    /\ {MaxBinds, MaxVisas, MaxDowns, MaxPackets, MaxCancels} \subseteq Nat

VARIABLES
    ad,             \* the adapters' processes
    node,           \* the node's tables
    msgs,           \* management messages on their way
    pkt,            \* the packets on their way (at most one)
    got,            \* what the actors were last given (at most one)
    visa,           \* ghost: the traffic class of each visa issued so far
    panic,          \* the assertion that stopped a process, or ""
    budget          \* what is left of the bounds; and the size of tables

vars == <<ad, node, msgs, pkt, got, visa, panic, budget>>

\* up: the link is ready and the actor's address granted; txns: transactions
\* opened; tasks: bind requests whose fate ZDPR has not reported;
\* pending, active: the ELT; dlt: the DLT.
new_adapter == [up |-> FALSE, txns |-> 0, tasks |-> {}, pending |-> {},
                active |-> {}, dlt |-> {}]

\* peers: the peer table; pft: the forwarding tables of all the peers;
\* reqs: bind_request_state, waiting for a visa ("visa") or the next hop
\* ("hop"); awaiting: awaiting_next_hop_bind_table; visas: the visa table;
\* asked: visa requests that the visa service has not answered.
new_node == [peers |-> {}, pft |-> {}, reqs |-> {}, awaiting |-> {},
             visas |-> {}, asked |-> {}, out |-> {}, panic |-> ""]

\* owns: the actor's address is granted; txns: transactions opened.
new_peer(l, a) == [link |-> l, who |-> a, owns |-> TRUE, txns |-> 0]

\* Every adapter has a session.
Init ==
    /\ ad = [a \in Adapters |-> [new_adapter EXCEPT !.up = TRUE]]
    /\ LET l == CHOOSE l \in Injection(Adapters, Links) : TRUE
       IN  node = [new_node EXCEPT !.peers = {new_peer(l[a], a) : a \in Adapters}]
    /\ msgs = {} /\ pkt = {} /\ got = {} /\ visa = <<>> /\ panic = ""
    /\ budget \in [slots : TableSizes, binds : {MaxBinds}, downs : {MaxDowns},
                  cancels : {MaxCancels}, packets : {MaxPackets}]

-----------------------------------------------------------------------------
(* Traffic classes and tables.                                             *)

\* A port 0 of a traffic class stands for every port.
classify_5t(tc, f) ==
    tc.src = f.src /\ tc.dst = f.dst /\ (tc.port # 0 => tc.port = f.port)

vacant_key(used) == Min((1 .. budget.slots) \ used)

full(used) == (1 .. budget.slots) \subseteq used

peer_of(n, l) == {p \in n.peers : p.link = l}

link_of(n, a) == {p \in n.peers : p.who = a}

\* The peer that has been granted an address.
find_egress_link(n, addr) == {p \in n.peers : p.who = addr /\ p.owns}

key_of(tc) == {tc.src, tc.dst}

-----------------------------------------------------------------------------
(* The visa table.                                                         *)

insert_visa(n, id, tc) ==
    [n EXCEPT !.visas = @ \cup {[id |-> id, tc |-> tc, streams |-> {}]}]

link_forwarding_entry(n, id, entry) ==
    [n EXCEPT !.visas = {IF v.id = id THEN [v EXCEPT !.streams = @ \cup {entry}] ELSE v
                           : v \in @}]

match_traffic(n, f) == {v \in n.visas : classify_5t(v.tc, f)}

\* Mutant of remove_forwarding_entries: the entries stay.
forwarding_entries_kept(n, gone) == n.pft

\* remove_route of every stream of the visas.
remove_forwarding_entries(n, gone) ==
    {e \in n.pft : \A v \in gone : <<e.link, e.id>> \notin v.streams}

revoke(n, gone) ==
    [n EXCEPT !.visas = @ \ gone, !.pft = remove_forwarding_entries(n, gone)]

revoke_for_link(n, l) ==
    revoke(n, {v \in n.visas : \E s \in v.streams : s[1] = l})

drop_peer(n, l) ==
    LET m == revoke_for_link(n, l)
    IN  [m EXCEPT !.peers = {p \in @ : p.link # l},
                  !.pft = {e \in @ : e.link # l},
                  !.reqs = {r \in @ : r.link # l},
                  !.awaiting = {w \in @ : w.elink # l}]

-----------------------------------------------------------------------------
(* The node's side of a bind (mgmt/node.rs).                               *)

send(n, m) == [n EXCEPT !.out = @ \cup {m}]

bind_req(a, t, f) == [kind |-> "bind_req", a |-> a, txn |-> t, flow |-> f]

bind_resp(a, t, ok, id, tc) ==
    [kind |-> "bind_resp", a |-> a, txn |-> t, ok |-> ok, id |-> id, tc |-> tc]

egress_req(a, t, tc) == [kind |-> "egress_req", a |-> a, txn |-> t, tc |-> tc]

egress_resp(a, t, ok, id) ==
    [kind |-> "egress_resp", a |-> a, txn |-> t, ok |-> ok, id |-> id]

no_tc == [src |-> "", dst |-> "", port |-> 0]

request_of(n, l, t) == {r \in n.reqs : r.link = l /\ r.txn = t}

awaited(n, r) ==
    \E w \in n.awaiting : r.st = "hop" /\ w.elink = r.elink /\ w.etxn = r.etxn

\* Mutant of bind_reject: the request is forgotten, and not answered.
bind_reject_silently(n, l, t) == [n EXCEPT !.reqs = @ \ request_of(n, l, t)]

bind_reject(n, l, t) ==
    IF peer_of(n, l) = {} THEN n
    ELSE IF \E r \in request_of(n, l, t) : awaited(n, r)
    THEN [n EXCEPT !.panic = "bind_reject"]
    ELSE LET m == [n EXCEPT !.reqs = @ \ request_of(n, l, t)]
         IN  send(m, bind_resp((CHOOSE p \in peer_of(n, l) : TRUE).who, t, FALSE, 0, no_tc))

\* try_open: as many requests to the peer wait for an answer as there are ids.
no_txn_left(n, p) == Cardinality({w \in n.awaiting : w.elink = p.link}) >= TxnIds

\* The egress adapter is asked to bind the visa's traffic class.
requested_visa_granted(n, l, t, id) ==
    LET v  == {x \in n.visas : x.id = id}
        es == UNION {find_egress_link(n, x.tc.dst) : x \in v}
        e  == CHOOSE p \in es : TRUE
        etxn == e.txns + 1
    IN  CASE es = {} -> bind_reject(n, l, t)
          [] es # {} /\ no_txn_left(n, e) -> [n EXCEPT !.panic = "requested_visa_granted"]
          [] es # {} /\ ~no_txn_left(n, e) /\ peer_of(n, l) = {} -> n
          [] OTHER ->
                 [n EXCEPT
                   !.peers = (@ \ {e}) \cup {[e EXCEPT !.txns = etxn]},
                   !.reqs = (@ \ request_of(n, l, t)) \cup
                      {[link |-> l, txn |-> t, st |-> "hop", visa |-> id,
                        elink |-> e.link, etxn |-> etxn]},
                   !.awaiting = @ \cup
                      {[elink |-> e.link, etxn |-> etxn, link |-> l, txn |-> t]},
                   !.out = @ \cup
                      {egress_req(e.who, etxn, (CHOOSE x \in v : TRUE).tc)}]

\* A visa that matches is used; else the visa service is asked.
bind_actor_address(n, p, t, f) ==
    IF f.src # p.who \/ ~p.owns THEN {bind_reject(n, p.link, t)}
    ELSE IF match_traffic(n, f) # {}
    THEN {requested_visa_granted(n, p.link, t, v.id) : v \in match_traffic(n, f)}
    ELSE {[n EXCEPT
            !.reqs = (@ \ request_of(n, p.link, t)) \cup
               {[link |-> p.link, txn |-> t, st |-> "visa", visa |-> 0,
                 elink |-> 0, etxn |-> 0]},
            !.asked = @ \cup {[link |-> p.link, txn |-> t, flow |-> f]}]}

requested_tether_granted(n, l, t, hop) ==
    LET r == CHOOSE r \in request_of(n, l, t) : TRUE
        m == [n EXCEPT !.reqs = @ \ {r}]
        used == {e.id : e \in {e \in n.pft : e.link = l}}
        v == {x \in n.visas : x.id = r.visa}
    IN  IF peer_of(n, l) = {} \/ request_of(n, l, t) = {} THEN n
        ELSE IF full(used) \/ v = {} THEN bind_reject(m, l, t)
        ELSE LET id == vacant_key(used)
                 entry == [link |-> l, id |-> id, hop |-> <<r.elink, hop>>, visa |-> r.visa]
             IN  send([link_forwarding_entry(m, r.visa, <<l, id>>)
                         EXCEPT !.pft = @ \cup {entry}],
                      bind_resp((CHOOSE p \in peer_of(n, l) : TRUE).who, t, TRUE, id,
                                (CHOOSE x \in v : TRUE).tc))

\* The request that waits for the answer of the next hop must be there, and
\* wait for this very answer; it is not looked for when its link is gone.
resolve_next_hop_bind_originator(n, w) ==
    LET rs == request_of(n, w.link, w.txn)
        m == [n EXCEPT !.awaiting = @ \ {w}]
    IN  IF /\ peer_of(n, w.link) # {}
           /\ ~\E r \in rs : r.st = "hop" /\ r.elink = w.elink /\ r.etxn = w.etxn
        THEN [m EXCEPT !.panic = "resolve_next_hop_bind_originator"]
        ELSE m

\* install_tether and deny_tether of the node.
next_hop_bound(n, w, ok, hop) ==
    LET o == resolve_next_hop_bind_originator(n, w)
    IN  IF o.panic # "" THEN o
        ELSE IF ok THEN requested_tether_granted(o, w.link, w.txn, hop)
        ELSE bind_reject(o, w.link, w.txn)

-----------------------------------------------------------------------------
(* Steps of the node.                                                      *)

\* The node's handler ends in n: its messages are sent over sessions that
\* both ends still hold, or the process aborts.
NodeBecomes(n, rest) ==
    /\ node' = [n EXCEPT !.out = {}, !.panic = ""]
    /\ msgs' = {m \in rest \cup n.out : ad[m.a].up /\ link_of(n, m.a) # {}}
    /\ panic' = n.panic

\* ZDPR reports to the adapter that the node has the request, or its
\* acknowledgements are lost until the request is canceled.
handle_bind_actor_address_request ==
    \E m \in msgs : \E p \in link_of(node, m.a) :
        /\ m.kind = "bind_req"
        /\ \E n \in bind_actor_address(node, p, m.txn, m.flow) :
              NodeBecomes(n, msgs \ {m})
        /\ \/ ad' = [ad EXCEPT ![m.a].tasks = @ \ {m.txn}]
           \/ budget.cancels > 0 /\ UNCHANGED ad
        /\ UNCHANGED <<pkt, got, visa, budget>>

handle_bind_egress_stream_response ==
    \E m \in msgs : \E p \in link_of(node, m.a) :
        /\ m.kind = "egress_resp"
        /\ LET ws == {w \in node.awaiting : w.elink = p.link /\ w.etxn = m.txn}
           IN  NodeBecomes(IF ws = {} THEN node
                           ELSE next_hop_bound(node, CHOOSE w \in ws : TRUE, m.ok, m.id),
                           msgs \ {m})
        /\ UNCHANGED <<ad, pkt, got, visa, budget>>

\* visa_request_task resumes.  A visa whose destination is not reachable is
\* not inserted, which the task does not expect.
VisaGranted ==
    \E q \in node.asked, tc \in Policy :
        LET id == Len(visa) + 1
            n  == [node EXCEPT !.asked = @ \ {q}]
        IN  /\ id <= MaxVisas /\ classify_5t(tc, q.flow)
            /\ visa' = Append(visa, tc)
            /\ NodeBecomes(IF find_egress_link(n, tc.dst) = {}
                           THEN [n EXCEPT !.panic = "visa_request_task"]
                           ELSE requested_visa_granted(insert_visa(n, id, tc), q.link, q.txn, id),
                           msgs)
            /\ UNCHANGED <<ad, pkt, got, budget>>

\* Denied, or an error of the visa service or of the connection to it.
VisaRefused ==
    \E q \in node.asked :
        /\ NodeBecomes(bind_reject([node EXCEPT !.asked = @ \ {q}], q.link, q.txn), msgs)
        /\ UNCHANGED <<ad, pkt, got, visa, budget>>

\* process_visaop: the visa service pushes a visa, or takes one back.
VisaPushed ==
    \E tc \in Policy :
        /\ Len(visa) < MaxVisas
        /\ visa' = Append(visa, tc)
        /\ NodeBecomes(IF find_egress_link(node, tc.dst) = {} THEN node
                       ELSE insert_visa(node, Len(visa) + 1, tc), msgs)
        /\ UNCHANGED <<ad, pkt, got, budget>>

VisaRevoked ==
    \E v \in node.visas :
        /\ NodeBecomes(revoke(node, {v}), msgs)
        /\ UNCHANGED <<ad, pkt, got, visa, budget>>

-----------------------------------------------------------------------------
(* The adapter's side (adapter_manager_worker.rs, mgmt/adapter.rs).        *)

\* The pending entries of a transaction; none once it has been settled.
lookup_pending(a, t) == {e \in ad[a].pending : e.txn = t}

\* A pending entry becomes active, or is refused: the traffic class must suit
\* the flow.
install_tether(a, t, id, tc) ==
    [ad[a] EXCEPT !.pending = @ \ lookup_pending(a, t),
                  !.active = @ \cup
                     {[flow |-> e.flow, id |-> id, tc |-> tc] :
                        e \in {e \in lookup_pending(a, t) : classify_5t(tc, e.flow)}}]

deny_tether(a, t) == [ad[a] EXCEPT !.pending = @ \ lookup_pending(a, t)]

\* The traffic class gets a slot of the DLT, if one is free.
bind_egress_stream(a, tc) ==
    LET used == {e.id : e \in ad[a].dlt}
    IN  {[id |-> vacant_key(used), tc |-> tc] : x \in IF full(used) THEN {} ELSE {0}}

\* A packet of a flow that has no tether (do_request_tether_id).
RequestTether(a, f) ==
    LET t == ad[a].txns + 1
    IN  /\ f.src = a /\ ad[a].up /\ budget.binds > 0
        /\ \A e \in ad[a].pending \cup ad[a].active : e.flow # f
        /\ budget' = [budget EXCEPT !.binds = @ - 1]
        /\ ad' = [ad EXCEPT ![a].txns = t, ![a].tasks = @ \cup {t},
                            ![a].pending = @ \cup {[flow |-> f, txn |-> t]}]
        /\ msgs' = msgs \cup (IF link_of(node, a) = {} THEN {}
                              ELSE {bind_req(a, t, f)})
        /\ UNCHANGED <<node, pkt, got, visa, panic>>

\* The request has run out of retries: deny_tether, whose result is unwrapped.
\* Whether the node has got it is not known.
RequestCanceled(a) ==
    \E t \in ad[a].tasks :
        /\ budget.cancels > 0
        /\ budget' = [budget EXCEPT !.cancels = @ - 1]
        /\ ad' = [ad EXCEPT ![a] = [deny_tether(a, t) EXCEPT !.tasks = @ \ {t}]]
        /\ msgs' = {m \in msgs : ~(m.kind = "bind_req" /\ m.a = a /\ m.txn = t)}
        /\ panic' = IF lookup_pending(a, t) = {} THEN "do_request_tether_id" ELSE ""
        /\ UNCHANGED <<node, pkt, got, visa>>

\* The adapter's end goes down: link_down clears its tables.
adapter_link_down(a) ==
    /\ ad' = [ad EXCEPT ![a] = [@ EXCEPT !.up = FALSE, !.pending = {}, !.active = {}, !.dlt = {}]]
    /\ msgs' = {m \in msgs : m.a # a}

\* A transaction that is no longer pending is unknown, an error that closes the
\* adapter's link.
handle_bind_actor_address_response(a) ==
    \E m \in msgs :
        /\ m.kind = "bind_resp" /\ m.a = a
        /\ \/ /\ lookup_pending(a, m.txn) # {}
              /\ ad' = [ad EXCEPT ![a] = IF m.ok THEN install_tether(a, m.txn, m.id, m.tc)
                                         ELSE deny_tether(a, m.txn)]
              /\ msgs' = msgs \ {m}
           \/ lookup_pending(a, m.txn) = {} /\ adapter_link_down(a)
        /\ UNCHANGED <<node, pkt, got, visa, panic, budget>>

handle_bind_egress_stream_request(a) ==
    \E m \in msgs :
        LET new == bind_egress_stream(a, m.tc)
        IN  /\ m.kind = "egress_req" /\ m.a = a
            /\ ad' = [ad EXCEPT ![a].dlt = @ \cup new]
            /\ msgs' = (msgs \ {m}) \cup
                 {egress_resp(a, m.txn, new # {}, IF new = {} THEN 0 ELSE (CHOOSE e \in new : TRUE).id)
                    : p \in link_of(node, a)}
            /\ UNCHANGED <<node, pkt, got, visa, panic, budget>>

-----------------------------------------------------------------------------
(* Sessions.                                                               *)

\* An adapter's process starts; its link comes up and its actor is granted
\* its address.  The node gives the peer a link id that is free.
Connect(a, l) ==
    /\ ~ad[a].up /\ link_of(node, a) = {} /\ peer_of(node, l) = {}
    /\ ad' = [ad EXCEPT ![a] = [new_adapter EXCEPT !.up = TRUE]]
    /\ node' = [node EXCEPT !.peers = @ \cup {new_peer(l, a)}]
    /\ UNCHANGED <<msgs, pkt, got, visa, panic, budget>>

\* A session ends at one end, and then at the other.
SessionEnds(ended) ==
    \/ ended /\ UNCHANGED budget
    \/ ~ended /\ budget.downs > 0 /\ budget' = [budget EXCEPT !.downs = @ - 1]

AdapterDown(a) ==
    /\ ad[a].up /\ SessionEnds(\A p \in link_of(node, a) : ~p.owns)
    /\ adapter_link_down(a)
    /\ UNCHANGED <<node, pkt, got, visa, panic>>

\* The node's end goes down: link_down, and then drop_peer.
NodeDown(l) ==
    \E p \in peer_of(node, l) :
        /\ p.owns /\ SessionEnds(~ad[p.who].up)
        /\ node' = [node EXCEPT !.peers = (@ \ {p}) \cup {[p EXCEPT !.owns = FALSE]}]
        /\ UNCHANGED <<ad, msgs, pkt, got, visa, panic>>

DropPeer(l) ==
    \E p \in peer_of(node, l) :
        /\ ~p.owns
        /\ NodeBecomes(drop_peer(node, l), msgs)
        /\ UNCHANGED <<ad, pkt, got, visa, budget>>

-----------------------------------------------------------------------------
(* Packets (fastpath.rs).                                                  *)

\* What compression leaves of the ports: those the traffic class leaves open.
compress(tc, f) == IF tc.port = 0 THEN f.port ELSE 0

\* The packet that a traffic class makes of them.  Where one end kept a port
\* that the other took away the result is garbage, a packet with no port.
expand(tc, port) ==
    [tc EXCEPT !.port = IF (tc.port = 0) = (port = 0) THEN 0
                        ELSE IF tc.port = 0 THEN port ELSE tc.port]

\* The integrity value is that of the whole packet.
actor_output(a, e) ==
    [from |-> a, id |-> e.id, port |-> compress(e.tc, e.flow), body |-> e.flow,
     key |-> key_of(e.tc), link |-> 0]

\* The next hop of a packet that the node has received on a link.
forward(k, l) ==
    {[k EXCEPT !.id = e.hop[2], !.link = e.hop[1]] :
       e \in {e \in node.pft : e.link = l /\ e.id = k.id}}

\* An adapter sends a packet of its own address over a tether it believes in,
\* and the node forwards it.
SendPacket(a) ==
    \E e \in ad[a].active, p \in link_of(node, a) :
        /\ ad[a].up /\ e.flow.src = a /\ budget.packets > 0
        /\ budget' = [budget EXCEPT !.packets = @ - 1]
        /\ pkt' = forward(actor_output(a, e), p.link)
        /\ got' = {}
        /\ UNCHANGED <<ad, node, msgs, visa, panic>>

\* Mutant of micv: the integrity value is not compared.
micv_ignored(k, tc) == {expand(tc, k.port)}

\* The expanded packet, if it has the integrity value that it was sent with.
micv(k, tc) == {f \in {expand(tc, k.port)} : f = k.body /\ key_of(tc) = k.key}

actor_input(a) ==
    \E k \in pkt : \E p \in link_of(node, a) :
        LET es == {e \in ad[a].dlt : e.id = k.id /\ e.tc.dst = a}
        IN  /\ k.link = p.link /\ ad[a].up
            /\ got' = {[flow |-> f, at |-> a, from |-> k.from, sent |-> k.body] :
                         f \in UNION {micv(k, e.tc) : e \in es}}
            /\ pkt' = {}
            /\ UNCHANGED <<ad, node, msgs, visa, panic, budget>>

-----------------------------------------------------------------------------

Next ==
    /\ panic = ""
    /\ \/ handle_bind_actor_address_request \/ handle_bind_egress_stream_response
       \/ VisaGranted \/ VisaRefused \/ VisaPushed \/ VisaRevoked
       \/ \E a \in Adapters, f \in Flows : RequestTether(a, f)
       \/ \E a \in Adapters : \/ RequestCanceled(a)
                              \/ handle_bind_actor_address_response(a)
                              \/ handle_bind_egress_stream_request(a)
                              \/ AdapterDown(a) \/ SendPacket(a) \/ actor_input(a)
       \/ \E a \in Adapters, l \in Links : Connect(a, l)
       \/ \E l \in Links : NodeDown(l) \/ DropPeer(l)

Spec == Init /\ [][Next]_vars

-----------------------------------------------------------------------------
(* Properties.                                                             *)

TypeOK ==
    /\ \A a \in Adapters :
         /\ ad[a].up \in BOOLEAN
         /\ ad[a].txns \in 0 .. MaxBinds /\ ad[a].tasks \subseteq 1 .. MaxBinds
         /\ \A e \in ad[a].dlt \cup ad[a].active : e.id \in 1 .. budget.slots
    /\ \A p \in node.peers : p.link \in Links /\ p.who \in Adapters
    /\ Cardinality(pkt) <= 1 /\ Cardinality(got) <= 1

\* The forwarding tables and the visas agree: an entry belongs to a visa that
\* the node holds, and is one of its streams; and a stream is an entry of its
\* visa.  So what is revoked, or dropped with a link, forwards nothing, and
\* what revocation removes never was another visa's.
RoutesFollowVisas ==
    /\ \A e \in node.pft :
         /\ peer_of(node, e.link) # {}
         /\ \E v \in node.visas : v.id = e.visa /\ <<e.link, e.id>> \in v.streams
    /\ \A v \in node.visas : \A s \in v.streams :
         \E e \in node.pft : e.link = s[1] /\ e.id = s[2] /\ e.visa = v.id

\* What an actor is given was sent to this one, as it is, by the actor of its
\* source, and a visa has been issued for its flow.  ELT entries outlive their
\* visas, and slots and link ids are used again meanwhile.
DeliveredAsSent ==
    \A g \in got : /\ g.flow = g.sent /\ g.flow.src = g.from /\ g.flow.dst = g.at
                   /\ \E i \in DOMAIN visa : classify_5t(visa[i], g.flow)

\* The peer's session lasts at both ends.
lasts(p) == p.owns /\ ad[p.who].up

in_flight(kinds, a, t) == \E m \in msgs : m.kind \in kinds /\ m.a = a /\ m.txn = t

\* A pending flow, whose packets are dropped and which is not asked for again,
\* is always waiting for something that will happen: a message is on its way,
\* the visa service or the next hop has been asked and will answer, or the
\* adapter's session is ending.  The one exception is a next hop that went
\* down after it was asked: that request is never answered.
PendingIsUnderway ==
    \A a \in Adapters : \A e \in ad[a].pending : \A p \in link_of(node, a) :
        \/ ~lasts(p) \/ panic # ""
        \/ in_flight({"bind_req", "bind_resp"}, a, e.txn)
        \/ \E r \in request_of(node, p.link, e.txn) :
             \/ r.st = "visa" /\ \E q \in node.asked : q.link = p.link /\ q.txn = e.txn
             \/ r.st = "hop" /\ ~awaited(node, r)
             \/ r.st = "hop" /\ \E h \in peer_of(node, r.elink) :
                  ~lasts(h) \/ in_flight({"egress_req", "egress_resp"}, h.who, r.etxn)

\* What the node asserts while it handles a bind never fails: that a granted
\* visa can be inserted ("Got unexpected error type"), and that the request an
\* answer of the next hop belongs to is there and waits for it ("should never
\* happen").
NodeAssertionsHold ==
    panic \notin {"visa_request_task", "bind_reject", "resolve_next_hop_bind_originator"}

=============================================================================
