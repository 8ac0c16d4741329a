----------------------------- MODULE ActorAuth ------------------------------
(***************************************************************************)
(* Actor authorization (actor_auth.rs) between an adapter and its node,    *)
(* over the links that come and go between them: the adapter's worker with *)
(* its retries, the node's session for the adapter, and the calls to the   *)
(* visa service that outlive the link they were made for.                  *)
(*                                                                         *)
(* A message reaches the peer at most once while the link lasts, in any    *)
(* order (module ZdprService).  The adapter keeps its ActorAuthorization   *)
(* when the link is restarted; the node makes a new one for each link.     *)
(* The adapter's generation is written but never read, and is left out.    *)
(***************************************************************************)
EXTENDS Naturals, FiniteSets, Sequences

CONSTANTS
    TxnIds,         \* the u16 transaction ids
    Addrs,          \* addresses the visa service may assign
    MaxSessions,    \* bound: links established
    MaxAttempts,    \* bound: authentications started
    MaxFailures     \* bound: commands to the visa service that fail

ASSUME ActorAuthAssumption ==
    /\ TxnIds # {} /\ Addrs # {} /\ IsFiniteSet(Addrs) /\ "none" \notin TxnIds /\ "invalid" \notin Addrs
    /\ {MaxSessions, MaxAttempts, MaxFailures} \subseteq Nat

VARIABLES
    actor,          \* the adapter: [vs, asks]
    ad,             \* the adapter's actor_auth and its worker
    nd,             \* the node's actor_auth for the present link
    net,            \* messages on their way between them
    inq,            \* the node's mgmt_processor queue for the link
    cmds,           \* commands on their way to VSConn's run loop, in order
    answers,        \* answers of the run loop that their tasks have yet to read
    registered,     \* actor addresses the visa service holds for this adapter
    deferred,       \* deferred_vs_connect
    attempts, failures,     \* bounds: how many so far
    lost,           \* history: addresses a failed command left registered
    denied,         \* history: the adapter has seen an explicit denial
    errors          \* history: messages a handler refused on a link still up

calls == <<cmds, answers, registered, deferred, failures, lost>>
vars == <<actor, ad, nd, net, inq, calls, attempts, denied, errors>>

\* vs: it is the visa service's own; asks: the addresses of its configuration.
Actors == [vs : BOOLEAN, asks : SUBSET Addrs]
vs == actor.vs

Statuses == {"Success", "Rejected", "Retryable"}
Phases == {"up", "closing", "down"}
ActorStates == {"WaitingForLink", "RequestingAuthentication", "AwaitingEvidence",
                "Authenticating", "AcquiringAddress", "Authorizing",
                "AbandoningAuthentication", "RetryBackoff", "Rejected", "Authorized"}

Msg(type, txn, status, addrs) ==
    [type |-> type, txn |-> txn, status |-> status, addrs |-> addrs]
NoMsg == Msg("none", "none", "Success", {})

send_start_authentication(txn) == Msg("Start", txn, "Success", {})
send_abandon_authentication(txn) == Msg("Abandon", txn, "Success", {})
send_init_authentication_request(txn) == Msg("Init", txn, "Success", {})
send_acquire_zpr_address_request(txn, addrs) == Msg("Acquire", txn, "Success", addrs)
send_grant_zpr_address_request(txn, status, addrs) == Msg("Grant", txn, status, addrs)

\* What the handlers' parsers take; anything else is BadStructure.  An offer
\* that is no success carries no challenge, a grant has one address exactly
\* when it is a success, and at most one address can be asked for.
valid_auth_status(status) == status \in Statuses
parse_init_authentication_request(m) == valid_auth_status(m.status) /\ m.addrs = {}
parse_acquire_zpr_address_request(m) == Cardinality(m.addrs) <= 1
parse_grant_zpr_address_request(m) ==
    /\ valid_auth_status(m.status)
    /\ Cardinality(m.addrs) = IF m.status = "Success" THEN 1 ELSE 0

\* phase and sess: of the link, as the link state machine has it;
\* txn, waiting (reply is Some), addrs: of ActorData; tun: installed_address;
\* worker: where run() waits; got: what its oneshot holds; outcome: what it
\* makes of an attempt it abandons; rejected: Assembly::actor_rejected.
new_adapter ==
    [phase |-> "down", sess |-> 0, state |-> "WaitingForLink", txn |-> "none",
     waiting |-> FALSE, addrs |-> {}, tun |-> {}, worker |-> "none",
     got |-> NoMsg, outcome |-> "Success", rejected |-> FALSE]

\* ActorAuthorization::new, for the node's link number sess.
new_remote(sess, phase) ==
    [phase |-> phase, sess |-> sess, state |-> "WaitingForLink", generation |-> 0,
     remote_txn |-> "none", challenge |-> FALSE, addrs |-> {}]

Init ==
    /\ actor \in Actors
    /\ ad = new_adapter /\ nd = new_remote(0, "down")
    /\ net = {} /\ inq = <<>>
    /\ cmds = <<>> /\ answers = {} /\ registered = {} /\ deferred = {}
    /\ attempts = 0 /\ failures = 0
    /\ lost = {} /\ denied = FALSE /\ errors = {}

-----------------------------------------------------------------------------
(* The link.                                                               *)

Disconnect(addr) == [cmd |-> "notify_disconnect", addr |-> addr]

\* Mutant of adapter_down: the worker goes on.
adapter_down_working(a, phase) ==
    [a EXCEPT !.phase = phase, !.state = "WaitingForLink", !.txn = "none",
              !.waiting = FALSE, !.addrs = {}, !.tun = {}]

\* link_down on the adapter.
adapter_down(a, phase) ==
    [a EXCEPT !.phase = phase, !.state = "WaitingForLink", !.txn = "none",
              !.waiting = FALSE, !.addrs = {}, !.tun = {},
              !.worker = "none", !.got = NoMsg]

\* link_down on the node, and the disconnect it sends for its address.
node_down(n, phase) ==
    [n EXCEPT !.phase = phase, !.generation = @ + 1, !.remote_txn = "none",
              !.challenge = FALSE, !.state = "WaitingForLink", !.addrs = {}]

node_disconnects(n) ==
    IF vs \/ n.addrs = {} THEN <<>> ELSE <<Disconnect(CHOOSE a \in n.addrs : TRUE)>>

\* The node answers a Hello: a new link, with keys of its own.
NodeReady ==
    /\ nd.phase = "down" /\ ad.phase = "down" /\ nd.sess < MaxSessions
    /\ nd' = new_remote(nd.sess + 1, "up")
    /\ net' = {} /\ inq' = <<>>
    /\ UNCHANGED <<actor, ad, calls, attempts, denied, errors>>

\* link_ready: the adapter has the answer.  (No worker is left of an earlier
\* link: link_down has ended it.)
link_ready ==
    /\ ad.phase = "down" /\ nd.phase # "down" /\ ad.sess < nd.sess
    /\ ad' = [ad EXCEPT !.phase = "up", !.sess = nd.sess,
                        !.state = IF ad.rejected THEN "Rejected" ELSE @,
                        !.worker = IF ad.rejected THEN "none" ELSE "spawned"]
    /\ UNCHANGED <<actor, nd, net, inq, calls, attempts, denied, errors>>

\* However a link ends, link_down runs when it starts to close, when it is
\* cleaned up, or both.
Closes(from, to) == \/ from = "up" /\ to \in {"closing", "down"}
                    \/ from = "closing" /\ to = "down"

AdapterDown(phase) ==
    /\ Closes(ad.phase, phase)
    /\ ad' = adapter_down(ad, phase)
    /\ UNCHANGED <<actor, nd, net, inq, calls, attempts, denied, errors>>

NodeDown(phase) ==
    /\ Closes(nd.phase, phase)
    /\ nd' = node_down(nd, phase)
    /\ cmds' = cmds \o node_disconnects(nd)
    /\ UNCHANGED <<actor, ad, net, inq, answers, registered, deferred, failures, lost,
                   attempts, denied, errors>>

-----------------------------------------------------------------------------
(* The adapter's worker: run().                                            *)

Worker(a, msgs) ==
    /\ ad' = a /\ net' = net \cup msgs
    /\ UNCHANGED <<actor, nd, inq, calls, errors>>

prepare_reply(a, txn, state, worker) ==
    [a EXCEPT !.txn = txn, !.state = state, !.waiting = TRUE, !.worker = worker,
              !.got = NoMsg]

\* The top of the loop, first and after each backoff.
StartAttempt ==
    /\ ad.worker \in {"spawned", "backoff"} /\ attempts < MaxAttempts
    /\ attempts' = attempts + 1 /\ UNCHANGED denied
    /\ \E txn \in TxnIds :
         Worker(prepare_reply(ad, txn, "RequestingAuthentication", "offer"),
                {send_start_authentication(txn)})

\* The end of the loop: an attempt that did not succeed.
attempt_failed(a, status) ==
    [a EXCEPT !.txn = "none", !.waiting = FALSE, !.got = NoMsg,
              !.rejected = @ \/ status = "Rejected",
              !.state = IF status = "Rejected" THEN "Rejected" ELSE "RetryBackoff",
              !.worker = IF status = "Rejected" THEN "none" ELSE "backoff"]

Fail(status) ==
    /\ denied' = (denied \/ status = "Rejected")
    /\ Worker(attempt_failed(ad, status), {})
    /\ UNCHANGED attempts

\* The offer is there.
OfferReceived ==
    /\ ad.worker = "offer" /\ ad.got.type = "Init"
    /\ \/ /\ ad.got.status = "Success"
          /\ Worker([ad EXCEPT !.state = "Authenticating", !.worker = "authenticate"], {})
          /\ UNCHANGED <<attempts, denied>>
       \/ ad.got.status # "Success" /\ Fail(ad.got.status)

\* Mutant of authentication_denied: latched only when the abandonment is through.
authentication_denied_late(a, status) ==
    [a EXCEPT !.outcome = status, !.state = "AbandoningAuthentication", !.worker = "abandon"]

authentication_denied(a, status) ==
    [a EXCEPT !.rejected = @ \/ status = "Rejected", !.outcome = status,
              !.state = "AbandoningAuthentication", !.worker = "abandon"]

\* Mutant of validate_acquire_zpr_address_request: any number of addresses.
validate_acquire_unlimited(addrs) == TRUE

\* Evidence that does not fit the request is one of the failures below.
validate_acquire_zpr_address_request(addrs) == Cardinality(addrs) <= 1

\* authenticate has evidence for an Acquire, was denied, or failed.
Authenticated ==
    /\ ad.worker = "authenticate"
    /\ \/ /\ validate_acquire_zpr_address_request(actor.asks)
          /\ Worker(prepare_reply(ad, ad.txn, "AcquiringAddress", "grant"),
                    {send_acquire_zpr_address_request(ad.txn, actor.asks)})
          /\ UNCHANGED <<attempts, denied>>
       \/ \E status \in {"Rejected", "Retryable"} :
            /\ denied' = (denied \/ status = "Rejected")
            /\ Worker(authentication_denied(ad, status),
                      {send_abandon_authentication(ad.txn)})
            /\ UNCHANGED attempts

\* Mutant of abandon_acked: the adapter does not wait for the acknowledgement.
abandon_acked_unawaited(txn) == TRUE

\* The peer has the Abandon in its queue.
abandon_acked(txn) == send_abandon_authentication(txn) \notin net

Abandoned ==
    /\ ad.worker = "abandon" /\ abandon_acked(ad.txn)
    /\ Fail(ad.outcome)

\* install_address: the address may be on the TUN already, or installing it
\* fails, which ends the link.
install_address(a, addrs, existing) ==
    [a EXCEPT !.txn = "none", !.tun = IF existing THEN {} ELSE addrs,
              !.state = "Authorized", !.addrs = addrs, !.worker = "none", !.got = NoMsg]

GrantReceived ==
    /\ ad.worker = "grant" /\ ad.got.type = "Grant"
    /\ \/ /\ ad.got.status = "Success"
          /\ \/ \E existing \in BOOLEAN : Worker(install_address(ad, ad.got.addrs, existing), {})
             \/ Worker(adapter_down(ad, "closing"), {})
          /\ UNCHANGED <<attempts, denied>>
       \/ ad.got.status # "Success" /\ Fail(ad.got.status)

-----------------------------------------------------------------------------
(* The adapter's handlers.  A handler that returns an error ends the link. *)

\* deliver_reply: for an offer or a grant that somebody waits for.
AwaitedIn(type) ==
    IF type = "Init" THEN "RequestingAuthentication" ELSE "AcquiringAddress"

parsed(m) == IF m.type = "Init" THEN parse_init_authentication_request(m)
                                ELSE parse_grant_zpr_address_request(m)

Expected(m) ==
    parsed(m) /\ ad.state = AwaitedIn(m.type) /\ ad.txn = m.txn /\ ad.waiting

deliver_reply(m) ==
    /\ m \in net /\ m.type \in {"Init", "Grant"} /\ ad.phase # "down"
    /\ net' = net \ {m}
    /\ \/ /\ Expected(m)
          /\ ad' = [ad EXCEPT !.waiting = FALSE, !.got = m]
          /\ UNCHANGED errors
       \/ /\ ~Expected(m)
          /\ ad' = IF ad.phase = "up" THEN adapter_down(ad, "closing") ELSE ad
          /\ errors' = IF ad.phase = "up" THEN errors \cup {m.type} ELSE errors
    /\ UNCHANGED <<actor, nd, inq, calls, attempts, denied>>

-----------------------------------------------------------------------------
(* The node.                                                               *)

\* dispatch_mgmt_packet: into the queue of the link, and acknowledged.
Arrive(m) ==
    /\ m \in net /\ m.type \in {"Start", "Acquire", "Abandon"} /\ nd.phase # "down"
    /\ net' = net \ {m} /\ inq' = Append(inq, m)
    /\ UNCHANGED <<actor, ad, nd, calls, attempts, denied, errors>>

\* The mgmt_processor worker takes the next message.
Takes(type) == inq # <<>> /\ Head(inq).type = type /\ inq' = Tail(inq)
Taken == Head(inq)

\* The handler returns an error: LinkEvent::Error.
Refuse ==
    /\ nd' = IF nd.phase = "up" THEN node_down(nd, "closing") ELSE nd
    /\ cmds' = IF nd.phase = "up" THEN cmds \o node_disconnects(nd) ELSE cmds
    /\ errors' = IF nd.phase = "up" THEN errors \cup {Taken.type} ELSE errors
    /\ UNCHANGED <<net, answers, registered, deferred, failures, lost>>

start_remote ==
    /\ Takes("Start")
    /\ \/ /\ nd.phase = "up" /\ nd.remote_txn = "none" /\ nd.addrs = {}
          /\ nd' = [nd EXCEPT !.generation = @ + 1, !.state = "AwaitingEvidence",
                              !.remote_txn = Taken.txn, !.challenge = TRUE]
          /\ net' = net \cup {send_init_authentication_request(Taken.txn)}
          /\ UNCHANGED <<calls, errors>>
       \/ ~(nd.phase = "up" /\ nd.remote_txn = "none" /\ nd.addrs = {}) /\ Refuse
    /\ UNCHANGED <<actor, ad, attempts, denied>>

AwaitsEvidence == /\ nd.phase = "up" /\ nd.state = "AwaitingEvidence"
                  /\ nd.remote_txn = Taken.txn

abandon_remote ==
    /\ Takes("Abandon")
    /\ \/ /\ AwaitsEvidence
          /\ nd' = [nd EXCEPT !.remote_txn = "none", !.challenge = FALSE,
                              !.state = "WaitingForLink"]
          /\ UNCHANGED <<net, calls, errors>>
       \/ ~AwaitsEvidence /\ Refuse
    /\ UNCHANGED <<actor, ad, attempts, denied>>

\* finish_remote, once its guard holds.
finished(n, status, addrs) ==
    [n EXCEPT !.remote_txn = "none", !.challenge = FALSE,
              !.addrs = IF addrs = {} THEN @ ELSE addrs,
              !.state = IF status = "Success" THEN "Authorized" ELSE "WaitingForLink"]

Finish(txn, status, addrs) ==
    /\ nd' = finished(nd, status, addrs)
    /\ net' = net \cup {send_grant_zpr_address_request(txn, status, addrs)}

\* acquire_remote: evidence that is no good is rejected at once; the visa
\* service's adapter is granted the address it asks for, if it does, and
\* registered once the visa service can be reached; for others the visa
\* service is asked.
AcceptsEvidence == parse_acquire_zpr_address_request(Taken) /\ AwaitsEvidence

acquire_remote ==
    /\ Takes("Acquire")
    /\ \/ /\ AcceptsEvidence /\ Finish(Taken.txn, "Rejected", {})
          /\ UNCHANGED <<calls, errors>>
       \/ /\ AcceptsEvidence /\ vs /\ Taken.addrs # {}
          /\ deferred' = Taken.addrs /\ Finish(Taken.txn, "Success", Taken.addrs)
          /\ UNCHANGED <<cmds, answers, registered, failures, lost, errors>>
       \/ /\ AcceptsEvidence /\ ~vs
          /\ nd' = [nd EXCEPT !.state = "Authorizing", !.challenge = FALSE]
          /\ cmds' = Append(cmds, [cmd |-> "authorize_connect", sess |-> nd.sess,
                                   generation |-> nd.generation, txn |-> Taken.txn])
          /\ UNCHANGED <<net, answers, registered, deferred, failures, lost, errors>>
       \/ ~AcceptsEvidence /\ Refuse
    /\ UNCHANGED <<actor, ad, attempts, denied>>

-----------------------------------------------------------------------------
(* The visa service (external), and the tasks that call it.                *)

Answer(c, result, addr) ==
    [sess |-> c.sess, generation |-> c.generation, txn |-> c.txn,
     result |-> result, addr |-> addr]

\* VSConn's run loop passes on one command after the other.
RunLoop ==
    /\ cmds # <<>> /\ cmds' = Tail(cmds)
    /\ LET c == Head(cmds) IN
         \/ /\ c.cmd = "authorize_connect"
            /\ \E addr \in Addrs \cup {"invalid"} :
                 /\ registered' = registered \cup {addr} /\ lost' = lost \ {addr}
                 /\ answers' = answers \cup {Answer(c, "Success", addr)}
         \/ /\ c.cmd = "authorize_connect"
            /\ \E status \in {"Rejected", "Retryable"} :
                 answers' = answers \cup {Answer(c, status, "none")}
            /\ UNCHANGED <<registered, lost>>
         \/ /\ c.cmd = "notify_disconnect"
            /\ registered' = registered \ {c.addr}
            /\ UNCHANGED <<answers, lost>>
    /\ UNCHANGED <<actor, ad, nd, net, inq, deferred, attempts, failures, denied, errors>>

\* The run loop is reconnecting, or the call times out: nobody knows whether
\* the visa service has acted on it.
CommandFails ==
    /\ cmds # <<>> /\ cmds' = Tail(cmds)
    /\ failures < MaxFailures /\ failures' = failures + 1
    /\ LET c == Head(cmds) IN
         \/ /\ c.cmd = "authorize_connect"
            /\ \E addrs \in {{}} \cup {{a} : a \in Addrs} :
                 registered' = registered \cup addrs /\ lost' = lost \cup addrs
            /\ answers' = answers \cup {Answer(c, "Retryable", "none")}
         \/ /\ c.cmd = "notify_disconnect"
            /\ lost' = lost \cup {c.addr}
            /\ UNCHANGED <<answers, registered>>
    /\ UNCHANGED <<actor, ad, nd, net, inq, deferred, attempts, denied, errors>>

\* authorization_result: is the session that asked still the one that waits?
Current(r) ==
    /\ r.sess = nd.sess /\ r.generation = nd.generation
    /\ r.txn = nd.remote_txn /\ nd.state = "Authorizing"

\* Mutant of UnwantedSuccess: a late success is dropped.
UnwantedSuccess_kept(r) ==
    /\ r.result = "Success" /\ ~Current(r)
    /\ answers' = answers \ {r}
    /\ UNCHANGED <<cmds, nd, net>>

\* A success that comes too late is deregistered.
UnwantedSuccess(r) ==
    /\ r.result = "Success" /\ ~Current(r)
    /\ answers' = answers \ {r} /\ cmds' = Append(cmds, Disconnect(r.addr))
    /\ UNCHANGED <<nd, net>>

\* So is an address that is no good; the task then waits for the visa
\* service's answer before it reports.
InvalidSuccess(r) ==
    /\ r.result = "Success" /\ Current(r) /\ r.addr = "invalid"
    /\ cmds' = Append(cmds, Disconnect(r.addr))
    /\ answers' = (answers \ {r}) \cup {[r EXCEPT !.result = "Retryable", !.addr = "none"]}
    /\ UNCHANGED <<nd, net>>

WantedSuccess(r) ==
    /\ r.result = "Success" /\ Current(r) /\ r.addr # "invalid"
    /\ answers' = answers \ {r} /\ Finish(r.txn, "Success", {r.addr})
    /\ UNCHANGED cmds

\* Mutant of Failure: only a denial is reported.
Failure_unreported(r) ==
    /\ r.result # "Success"
    /\ answers' = answers \ {r}
    /\ IF Current(r) /\ r.result = "Rejected" THEN Finish(r.txn, r.result, {})
       ELSE UNCHANGED <<nd, net>>
    /\ UNCHANGED cmds

Failure(r) ==
    /\ r.result # "Success"
    /\ answers' = answers \ {r}
    /\ IF Current(r) THEN Finish(r.txn, r.result, {}) ELSE UNCHANGED <<nd, net>>
    /\ UNCHANGED cmds

authorization_result(r) ==
    /\ \/ UnwantedSuccess(r) \/ InvalidSuccess(r) \/ WantedSuccess(r) \/ Failure(r)
    /\ UNCHANGED <<actor, ad, inq, registered, deferred, failures, lost, attempts, denied, errors>>

\* vs_worker, once the node has access: the visa service's own adapter.
SendDeferred ==
    /\ deferred # {} /\ deferred' = {} /\ registered' = registered \cup deferred
    /\ UNCHANGED <<actor, ad, nd, net, inq, cmds, answers, failures, lost, attempts,
                   denied, errors>>

-----------------------------------------------------------------------------
Next ==
    \/ NodeReady \/ link_ready
    \/ \E phase \in Phases : AdapterDown(phase) \/ NodeDown(phase)
    \/ StartAttempt \/ OfferReceived \/ Authenticated \/ Abandoned \/ GrantReceived
    \/ \E m \in net : deliver_reply(m)
    \/ \E m \in net : Arrive(m)
    \/ start_remote \/ abandon_remote \/ acquire_remote
    \/ RunLoop \/ CommandFails
    \/ \E r \in answers : authorization_result(r)
    \/ SendDeferred

Spec == Init /\ [][Next]_vars

\* Tasks run; ZDPR delivers while the link lasts; the visa service or a
\* timeout answers every call; and keep-alives tell the adapter of a link the
\* node has given up.
Fairness ==
    /\ WF_vars(OfferReceived) /\ WF_vars(Authenticated)
    /\ WF_vars(Abandoned) /\ WF_vars(GrantReceived)
    /\ WF_vars(\E m \in net : deliver_reply(m)) /\ WF_vars(\E m \in net : Arrive(m))
    /\ WF_vars(start_remote) /\ WF_vars(abandon_remote) /\ WF_vars(acquire_remote)
    /\ WF_vars(RunLoop) /\ WF_vars(\E r \in answers : authorization_result(r))
    /\ WF_vars(nd.phase # "up" /\ \E phase \in Phases : AdapterDown(phase))

FairSpec == Spec /\ Fairness

-----------------------------------------------------------------------------
(* Properties.                                                             *)

\* Both ends, the messages and the commands have their types.
TypeOK ==
    /\ ad.phase \in Phases /\ nd.phase \in Phases
    /\ ad.state \in ActorStates /\ nd.state \in ActorStates
    /\ ad.txn \in TxnIds \cup {"none"} /\ nd.remote_txn \in TxnIds \cup {"none"}
    /\ ad.addrs \subseteq Addrs /\ ad.tun \subseteq ad.addrs /\ nd.addrs \subseteq Addrs
    /\ Cardinality(nd.addrs) <= 1
    /\ \A m \in net : m.txn \in TxnIds /\ m.status \in Statuses
    /\ actor \in Actors
    /\ registered \subseteq Addrs \cup {"invalid"}

\* An adapter that believes it is authorized is so at the node, with the same
\* address, as long as the node has not given up the link; and it has a
\* granted address, on its TUN or in its tables, only while its own link is
\* up: no late grant survives link_down.
AgreedAddress ==
    /\ ad.state = "Authorized" /\ ad.sess = nd.sess /\ nd.phase = "up" =>
         nd.state = "Authorized" /\ nd.addrs = ad.addrs
    /\ ad.addrs # {} \/ ad.tun # {} => ad.phase = "up"

\* "Keep in-flight VS work alive on link loss so late success can be
\* deregistered": every registration is the one the node's link holds, or
\* somebody is on the way to deregister it, unless a call to the visa service
\* failed.  (That of the visa service's own adapter is kept.)
NoOrphanedRegistration ==
    ~vs => registered \subseteq
             nd.addrs \cup lost
             \cup {r.addr : r \in answers}
             \cup {cmds[i].addr : i \in {j \in DOMAIN cmds : cmds[j].cmd = "notify_disconnect"}}

\* No handler of either end refuses a message of the other while its own link
\* is up, which would end the link: neither a new Start that overtakes an
\* Abandon, nor an offer or a grant nobody waits for.
NoProtocolErrors == errors = {}

\* After an explicit denial the adapter starts no further authentication,
\* not even when the link is lost while it abandons the one that was denied.
DenialIsFinal == [][denied => attempts' = attempts]_vars

Busy == {"RequestingAuthentication", "Authenticating", "AcquiringAddress",
         "AbandoningAuthentication"}

\* An attempt ends: with an address, a denial, a backoff, or the link.
AttemptsEnd == ad.state \in Busy ~> ad.state \notin Busy

=============================================================================
