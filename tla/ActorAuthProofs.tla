-------------------------- MODULE ActorAuthProofs ---------------------------
(***************************************************************************)
(* Actor authorization, for any transaction ids and addresses and any      *)
(* number of links, attempts and failed calls.                             *)
(***************************************************************************)
EXTENDS ActorAuth, FiniteSetTheorems, TLAPS

AdFields == {"phase", "sess", "state", "txn", "waiting", "addrs", "tun", "worker", "got",
             "outcome", "rejected"}
NdFields == {"phase", "sess", "state", "generation", "remote_txn", "challenge", "addrs"}

Start(t) == send_start_authentication(t)
Abandon(t) == send_abandon_authentication(t)
Offer(t) == send_init_authentication_request(t)
Acquire(t, addrs) == send_acquire_zpr_address_request(t, addrs)
Grant(t, status, addrs) == send_grant_zpr_address_request(t, status, addrs)

\* The messages on their way to the node, and those to the adapter.
requests == {m \in net : m.type \in {"Start", "Acquire", "Abandon"}}
replies == {m \in net : m.type \in {"Init", "Grant"}}

\* The states the adapter is in while its worker waits at a place.
StateOf(w, s) ==
    \/ w = "spawned" /\ s = "WaitingForLink"
    \/ w = "backoff" /\ s = "RetryBackoff"
    \/ w = "offer" /\ s = "RequestingAuthentication"
    \/ w = "authenticate" /\ s = "Authenticating"
    \/ w = "grant" /\ s = "AcquiringAddress"
    \/ w = "abandon" /\ s = "AbandoningAuthentication"
    \/ w = "none" /\ s \in {"Rejected", "Authorized"}

\* The adapter: its worker lives, and it has an address, only while the link is
\* up; nothing has come for a worker that waits.
AdShape ==
    /\ DOMAIN ad = AdFields
    /\ ad.phase \in Phases /\ ad.sess \in Nat
    /\ ad.phase # "up" => /\ ad.worker = "none" /\ ad.state = "WaitingForLink"
                          /\ ad.addrs = {} /\ ad.tun = {}
    /\ ad.phase = "up" => StateOf(ad.worker, ad.state)
    /\ ad.worker \in {"offer", "authenticate", "grant", "abandon"} => ad.txn \in TxnIds
    /\ ad.waiting => ad.got = NoMsg

\* The states of the node's session, with what it holds in each.
Idle == nd.state = "WaitingForLink" /\ nd.remote_txn = "none" /\ nd.addrs = {}
Awaits(t) == nd.state = "AwaitingEvidence" /\ nd.remote_txn = t /\ nd.addrs = {}
Asks(t) == nd.state = "Authorizing" /\ nd.remote_txn = t /\ nd.addrs = {}
Granted == nd.state = "Authorized" /\ nd.remote_txn = "none" /\ Cardinality(nd.addrs) = 1

NdShape ==
    /\ DOMAIN nd = NdFields
    /\ nd.phase \in Phases /\ nd.sess \in Nat /\ nd.addrs \subseteq Addrs
    /\ Idle \/ (nd.phase = "up" /\ (Granted \/ \E t \in TxnIds : Awaits(t) \/ Asks(t)))

\* What is on its way to the node, or in its queue: nothing, one message, or
\* one message that follows another.
Clear == inq = <<>> /\ requests = {}
InFlight(m) == \/ inq = <<>> /\ requests = {m}
               \/ inq = <<m>> /\ requests = {}
Behind(m, k) == \/ inq = <<m>> /\ requests = {k}
                \/ inq = <<m, k>> /\ requests = {}

\* Whether the adapter is still there or not, the node is in the state that the
\* messages for it need.
Flow ==
    nd.phase = "up" =>
        \/ Clear
        \/ Idle /\ \E t \in TxnIds : InFlight(Start(t))
        \/ \E t \in TxnIds :
             /\ Awaits(t)
             /\ \/ InFlight(Abandon(t))
                \/ \E addrs \in SUBSET Addrs : Cardinality(addrs) <= 1 /\ InFlight(Acquire(t, addrs))
                \/ \E u \in TxnIds : Behind(Abandon(t), Start(u))

\* The adapter is on the node's link, or has yet to hear of it; then nothing
\* has happened on it.
Sessions ==
    /\ ad.sess <= nd.sess
    /\ ad.phase # "down" => ad.sess = nd.sess
    /\ ad.sess < nd.sess => Clear /\ replies = {} /\ Idle

\* A grant has an address exactly when it is a success.
Fits(status, addrs) ==
    \/ status = "Success" /\ Cardinality(addrs) = 1
    \/ status \in {"Rejected", "Retryable"} /\ addrs = {}

\* At most one reply is on its way, and the adapter waits for it.
Reply ==
    ad.phase = "up" =>
       \/ replies = {}
       \/ ad.worker = "offer" /\ ad.waiting /\ replies = {Offer(ad.txn)}
       \/ /\ ad.worker = "grant" /\ ad.waiting
          /\ \E status \in Statuses, addrs \in SUBSET Addrs :
               Fits(status, addrs) /\ replies = {Grant(ad.txn, status, addrs)}

\* The node is in the state in which it has made this grant.
GrantOf(status, addrs) ==
    \/ status = "Success" /\ Granted /\ nd.addrs = addrs
    \/ status \in {"Rejected", "Retryable"} /\ addrs = {} /\ Idle

\* The stages of an attempt on a link that is up at both ends: between two
\* attempts, where an Abandon may still be in the node's queue, ...
Resting ==
    /\ ad.worker \in {"spawned", "backoff"} \/ (ad.worker = "none" /\ ad.state = "Rejected")
    /\ replies = {}
    /\ \/ Idle /\ Clear
       \/ \E t \in TxnIds : Awaits(t) /\ inq = <<Abandon(t)>> /\ requests = {}

\* ... a Start is on its way, perhaps behind that Abandon, ...
Asking ==
    /\ ad.worker = "offer" /\ ad.waiting /\ replies = {}
    /\ \/ Idle /\ InFlight(Start(ad.txn))
       \/ \E t \in TxnIds : Awaits(t) /\ Behind(Abandon(t), Start(ad.txn))

\* ... the offer is, ...
Offered ==
    /\ ad.worker = "offer" /\ ad.waiting /\ replies = {Offer(ad.txn)}
    /\ Clear /\ Awaits(ad.txn)

\* ... the adapter makes its evidence, ...
Proving ==
    /\ \/ ad.worker = "offer" /\ ~ad.waiting /\ ad.got = Offer(ad.txn)
       \/ ad.worker = "authenticate"
    /\ replies = {} /\ Clear /\ Awaits(ad.txn)

\* ... the node has it, or soon will, ...
Acquiring ==
    /\ ad.worker = "grant" /\ ad.waiting /\ replies = {}
    /\ \/ Awaits(ad.txn) /\ InFlight(Acquire(ad.txn, actor.asks))
       \/ Asks(ad.txn) /\ Clear

\* ... the grant is on its way or there, ...
Answered ==
    /\ ad.worker = "grant" /\ Clear
    /\ \E status \in Statuses, addrs \in SUBSET Addrs :
         /\ GrantOf(status, addrs)
         /\ \/ ad.waiting /\ replies = {Grant(ad.txn, status, addrs)}
            \/ ~ad.waiting /\ replies = {} /\ ad.got = Grant(ad.txn, status, addrs)

\* ... an Abandon is on its way, ...
Abandoning ==
    /\ ad.worker = "abandon" /\ replies = {}
    /\ \/ Awaits(ad.txn) /\ InFlight(Abandon(ad.txn))
       \/ Idle /\ Clear

\* ... or both ends have the same address.
Settled ==
    /\ ad.worker = "none" /\ ad.state = "Authorized" /\ replies = {} /\ Clear
    /\ Granted /\ nd.addrs = ad.addrs

InStep ==
    ad.phase = "up" /\ nd.phase = "up" =>
        Resting \/ Asking \/ Offered \/ Proving \/ Acquiring \/ Answered \/ Abandoning \/ Settled

\* A denial is latched when it is seen, and the worker at most abandons then.
Denial ==
    /\ denied => ad.rejected
    /\ ad.rejected => ad.worker = "none" \/ (ad.worker = "abandon" /\ ad.outcome = "Rejected")

Command == [cmd : {"notify_disconnect"}, addr : Addrs \cup {"invalid"}]
           \cup [cmd : {"authorize_connect"}, sess : Nat, generation : Nat, txn : TxnIds]

AnswerOK(r) ==
    /\ DOMAIN r = {"sess", "generation", "txn", "result", "addr"}
    /\ r.txn \in TxnIds /\ r.result \in Statuses
    /\ r.result = "Success" => r.addr \in Addrs \cup {"invalid"}

\* The calls to the visa service, their answers, and the deferred one.
Calls ==
    /\ cmds \in Seq(Command) /\ nd.generation \in Nat /\ actor \in Actors
    /\ \A r \in answers : AnswerOK(r)
    /\ ~vs => deferred = {}

\* The addresses that commands in c are about to deregister.
Deregisters(c) == {c[i].addr : i \in {j \in DOMAIN c : c[j].cmd = "notify_disconnect"}}

\* Every registration is the one the node's link holds, was lost by a call that
\* failed, or is in an answer, a success, or a command that will deregister it.
Registrations ==
    ~vs => \A a \in registered :
              \/ a \in nd.addrs \/ a \in lost \/ a \in Deregisters(cmds)
              \/ \E r \in answers : r.result = "Success" /\ r.addr = a

\* The inductive invariant.
IInv ==
    /\ AdShape /\ NdShape /\ Flow /\ Sessions /\ Reply /\ InStep /\ Denial /\ Calls
    /\ Registrations /\ NoProtocolErrors

-----------------------------------------------------------------------------
(* Messages and sets of messages.                                          *)

\* The fields of the five messages.
LEMMA MsgFields ==
    /\ \A t : /\ Start(t).type = "Start" /\ Abandon(t).type = "Abandon" /\ Offer(t).type = "Init"
              /\ Start(t).txn = t /\ Abandon(t).txn = t /\ Offer(t).txn = t
              /\ Offer(t).status = "Success" /\ Offer(t).addrs = {}
    /\ \A t, addrs : /\ Acquire(t, addrs).type = "Acquire" /\ Acquire(t, addrs).txn = t
                     /\ Acquire(t, addrs).addrs = addrs
    /\ \A t, status, addrs :
         /\ Grant(t, status, addrs).type = "Grant" /\ Grant(t, status, addrs).txn = t
         /\ Grant(t, status, addrs).status = status /\ Grant(t, status, addrs).addrs = addrs
  BY DEF Start, Abandon, Offer, Acquire, Grant, Msg, send_start_authentication,
         send_abandon_authentication, send_init_authentication_request,
         send_acquire_zpr_address_request, send_grant_zpr_address_request

\* A message is sent.
LEMMA SendRequest ==
    ASSUME NEW m, net' = net \cup {m}, m.type \in {"Start", "Acquire", "Abandon"}
    PROVE  requests' = requests \cup {m} /\ replies' = replies
  BY DEF requests, replies

\* The node sends one.
LEMMA SendReply ==
    ASSUME NEW m, net' = net \cup {m}, m.type \in {"Init", "Grant"}
    PROVE  requests' = requests /\ replies' = replies \cup {m}
  BY DEF requests, replies

\* A message is delivered.
LEMMA TakeRequest ==
    ASSUME NEW m \in net, net' = net \ {m}, m.type \in {"Start", "Acquire", "Abandon"}
    PROVE  m \in requests /\ requests' = requests \ {m} /\ replies' = replies
  BY DEF requests, replies

\* The adapter is given one.
LEMMA TakeReply ==
    ASSUME NEW m \in net, net' = net \ {m}, m.type \in {"Init", "Grant"}
    PROVE  m \in replies /\ requests' = requests /\ replies' = replies \ {m}
  BY DEF requests, replies

\* Nothing is sent or delivered.
LEMMA SameNet ==
    ASSUME net' = net PROVE requests' = requests /\ replies' = replies
  BY DEF requests, replies

\* A set of addresses is finite, and with one address it is that one.
LEMMA OneAddress ==
    ASSUME NEW A \in SUBSET Addrs
    PROVE  /\ Cardinality(A) \in Nat /\ Cardinality({}) = 0
           /\ Cardinality(A) = 1 => \E a \in Addrs : A = {a}
           /\ A # {} => Cardinality(A) # 0
<1>1. IsFiniteSet(A)
  BY ActorAuthAssumption, FS_Subset
<1>2. Cardinality(A) = 1 => \E a : A = {a}
  BY <1>1, FS_Singleton
<1> QED BY <1>1, <1>2, FS_CardinalityType, FS_EmptySet

-----------------------------------------------------------------------------
(* What a step leaves alone.                                               *)

\* Both ends have their fields.
LEMMA Domains == ASSUME IInv PROVE DOMAIN ad = AdFields /\ DOMAIN nd = NdFields
  BY DEF IInv, AdShape, NdShape

\* A step of one end leaves the other end as it was.
LEMMA SameAdapter ==
    ASSUME IInv, ad' = ad, denied' = denied PROVE AdShape' /\ Denial'
  BY DEF IInv, AdShape, Denial

\* A step of the adapter leaves the node as it was.
LEMMA SameNode ==
    ASSUME IInv, nd' = nd PROVE NdShape'
<1>1. (Idle <=> Idle') /\ (Granted <=> Granted')
  BY DEF Idle, Granted
<1>2. \A t : (Awaits(t) <=> Awaits(t)') /\ (Asks(t) <=> Asks(t)')
  BY DEF Awaits, Asks
<1> QED BY <1>1, <1>2 DEF IInv, NdShape

\* A step leaves the calls of the visa service as they were.
LEMMA SameCalls ==
    ASSUME IInv, UNCHANGED <<actor, nd, cmds, answers, registered, deferred, lost, errors>>
    PROVE  Calls' /\ Registrations' /\ NoProtocolErrors'
<1>1. Calls'
  BY DEF IInv, Calls, vs
<1>2. Registrations'
  BY DEF IInv, Registrations, Deregisters, vs
<1>3. NoProtocolErrors'
  BY DEF IInv, NoProtocolErrors
<1> QED BY <1>1, <1>2, <1>3

\* A step of the run loop or of a task that is not for the node's session.
LEMMA SameProtocol ==
    ASSUME IInv, UNCHANGED <<actor, ad, nd, net, inq, denied>>
    PROVE  AdShape' /\ NdShape' /\ Flow' /\ Sessions' /\ Reply' /\ InStep' /\ Denial'
<1>1. requests' = requests /\ replies' = replies
  BY SameNet
<1>2. AdShape' /\ Denial'
  BY SameAdapter
<1>3. NdShape'
  BY SameNode
<1>4. (Idle <=> Idle') /\ (Granted <=> Granted') /\ (Clear <=> Clear')
  BY <1>1 DEF Idle, Granted, Clear
<1>5. \A t : (Awaits(t) <=> Awaits(t)') /\ (Asks(t) <=> Asks(t)')
  BY DEF Awaits, Asks
<1>6. \A m : InFlight(m) <=> InFlight(m)'
  BY <1>1 DEF InFlight
<1>7. \A m, k : Behind(m, k) <=> Behind(m, k)'
  BY <1>1 DEF Behind
<1>8. Flow'
  BY <1>4, <1>5, <1>6, <1>7 DEF IInv, Flow
<1>9. Sessions'
  BY <1>1, <1>4 DEF IInv, Sessions
<1>10. Reply'
  BY <1>1 DEF IInv, Reply
<1>11. \A status, addrs : GrantOf(status, addrs) <=> GrantOf(status, addrs)'
  BY <1>4 DEF GrantOf
<1>12. InStep'
  <2>1. (Resting <=> Resting') /\ (Asking <=> Asking') /\ (Offered <=> Offered')
    BY <1>1, <1>4, <1>5, <1>6, <1>7 DEF Resting, Asking, Offered
  <2>2. (Proving <=> Proving') /\ (Acquiring <=> Acquiring')
    BY <1>1, <1>4, <1>5, <1>6, <1>7 DEF Proving, Acquiring
  <2>3. (Answered <=> Answered') /\ (Abandoning <=> Abandoning') /\ (Settled <=> Settled')
    BY <1>1, <1>4, <1>5, <1>6, <1>7, <1>11 DEF Answered, Abandoning, Settled
  <2> QED BY <2>1, <2>2, <2>3 DEF IInv, InStep
<1> QED BY <1>2, <1>3, <1>8, <1>9, <1>10, <1>12

\* A step of the adapter leaves the node's session, its queue and the calls.
LEMMA AdapterFrame ==
    ASSUME IInv, UNCHANGED <<actor, nd, inq, calls, errors>>
    PROVE  /\ NdShape' /\ Calls' /\ Registrations' /\ NoProtocolErrors'
           /\ (Idle <=> Idle') /\ (Granted <=> Granted')
           /\ \A t : (Awaits(t) <=> Awaits(t)') /\ (Asks(t) <=> Asks(t)')
           /\ nd'.phase = nd.phase /\ nd'.sess = nd.sess /\ nd'.addrs = nd.addrs
           /\ inq' = inq /\ actor' = actor
<1>1. UNCHANGED <<cmds, answers, registered, deferred, lost>>
  BY DEF calls
<1>2. Calls' /\ Registrations' /\ NoProtocolErrors'
  BY <1>1, SameCalls
<1>3. NdShape'
  BY SameNode
<1> QED BY <1>2, <1>3 DEF Idle, Granted, Awaits, Asks

\* A worker runs only on a link that is up, which is the node's.
LEMMA WorkerIsUp ==
    ASSUME IInv, ad.worker # "none"
    PROVE  ad.phase = "up" /\ ad.sess = nd.sess /\ ad.sess \in Nat /\ nd.sess \in Nat
  BY DEF IInv, AdShape, Sessions, NdShape

\* Nothing is on its way to a worker that does not wait.
LEMMA NoReply ==
    ASSUME IInv, ad.phase = "up", ad.worker \notin {"offer", "grant"} \/ ~ad.waiting
    PROVE  replies = {}
  BY DEF IInv, Reply

\* An attempt starts, perhaps before the node has seen the Abandon of the last.
LEMMA StartAttemptStep ==
    ASSUME IInv, StartAttempt PROVE IInv'
<1>1. PICK t \in TxnIds : Worker(prepare_reply(ad, t, "RequestingAuthentication", "offer"),
                                 {Start(t)})
  BY DEF StartAttempt, Start
<1>2. ad.worker \in {"spawned", "backoff"} /\ denied' = denied
  BY DEF StartAttempt
<1>3. /\ UNCHANGED <<actor, nd, inq, calls, errors>> /\ net' = net \cup {Start(t)}
      /\ ad' = prepare_reply(ad, t, "RequestingAuthentication", "offer")
  BY <1>1 DEF Worker
<1>4. requests' = requests \cup {Start(t)} /\ replies' = replies
  BY <1>3, MsgFields, SendRequest
<1>5. /\ DOMAIN ad' = AdFields /\ ad'.phase = ad.phase /\ ad'.sess = ad.sess
      /\ ad'.state = "RequestingAuthentication" /\ ad'.txn = t /\ ad'.waiting = TRUE
      /\ ad'.addrs = ad.addrs /\ ad'.tun = ad.tun /\ ad'.worker = "offer" /\ ad'.got = NoMsg
      /\ ad'.outcome = ad.outcome /\ ad'.rejected = ad.rejected
  BY <1>3, Domains DEF AdFields, prepare_reply
<1>6. ad.phase = "up" /\ ad.sess = nd.sess /\ ad.sess \in Nat /\ nd.sess \in Nat
  BY <1>2, WorkerIsUp
<1>7. /\ NdShape' /\ Calls' /\ Registrations' /\ NoProtocolErrors'
      /\ (Idle <=> Idle') /\ \A u : Awaits(u) <=> Awaits(u)'
      /\ nd'.phase = nd.phase /\ nd'.sess = nd.sess /\ inq' = inq
  BY <1>3, AdapterFrame
<1>8. replies = {}
  BY <1>2, <1>6, NoReply
<1>9. AdShape'
  BY <1>5, <1>6 DEF IInv, AdShape, StateOf
<1>10. Sessions'
  BY <1>5, <1>6, <1>7 DEF Sessions
<1>11. Reply'
  BY <1>4, <1>8 DEF Reply
<1>12. Denial'
  BY <1>2, <1>5 DEF IInv, Denial
<1>13. nd.phase = "up" => Asking'
  <2> SUFFICES ASSUME nd.phase = "up" PROVE Asking'
    OBVIOUS
  <2>1. Resting
    BY <1>2, <1>6 DEF IInv, InStep, Resting, Asking, Offered, Proving, Acquiring, Answered,
                      Abandoning, Settled
  <2>2. requests' = {Start(t)}
    BY <1>4, <2>1 DEF Resting, Clear
  <2>3. CASE Idle /\ Clear
    <3>1. InFlight(Start(t))'
      BY <1>7, <2>2, <2>3 DEF InFlight, Clear
    <3> QED BY <1>4, <1>5, <1>7, <1>8, <2>3, <3>1 DEF Asking
  <2>4. CASE \E u \in TxnIds : Awaits(u) /\ inq = <<Abandon(u)>> /\ requests = {}
    <3>1. PICK u \in TxnIds : Awaits(u) /\ inq = <<Abandon(u)>>
      BY <2>4
    <3>2. Behind(Abandon(u), Start(t))'
      BY <1>7, <2>2, <3>1 DEF Behind
    <3> QED BY <1>4, <1>5, <1>7, <1>8, <3>1, <3>2 DEF Asking
  <2> QED BY <2>1, <2>3, <2>4 DEF Resting
<1>14. Flow'
  BY <1>1, <1>5, <1>7, <1>13 DEF Flow, Asking
<1>15. InStep'
  BY <1>7, <1>13 DEF InStep
<1> QED BY <1>7, <1>9, <1>10, <1>11, <1>12, <1>14, <1>15 DEF IInv

\* An attempt has failed: nothing of it is left, but for an Abandon that the
\* node has in its queue.
LEMMA FailStep ==
    ASSUME IInv, NEW status, Fail(status), ad.worker \in {"offer", "grant", "abandon"},
           ad.worker = "abandon" \/ ~ad.waiting, ad.rejected => status = "Rejected",
           nd.phase = "up" => \/ Idle /\ Clear
                              \/ \E t \in TxnIds : Awaits(t) /\ inq = <<Abandon(t)>> /\ requests = {}
    PROVE  IInv'
<1>1. /\ UNCHANGED <<actor, nd, inq, calls, errors>> /\ net' = net
      /\ ad' = attempt_failed(ad, status) /\ (denied' <=> denied \/ status = "Rejected")
  BY DEF Fail, Worker
<1>2. requests' = requests /\ replies' = replies
  BY <1>1, SameNet
<1>3. /\ DOMAIN ad' = AdFields /\ ad'.phase = ad.phase /\ ad'.sess = ad.sess
      /\ ad'.state = (IF status = "Rejected" THEN "Rejected" ELSE "RetryBackoff")
      /\ ad'.txn = "none" /\ ad'.waiting = FALSE
      /\ ad'.addrs = ad.addrs /\ ad'.tun = ad.tun
      /\ ad'.worker = (IF status = "Rejected" THEN "none" ELSE "backoff") /\ ad'.got = NoMsg
      /\ ad'.outcome = ad.outcome /\ (ad'.rejected <=> ad.rejected \/ status = "Rejected")
  BY <1>1, Domains DEF AdFields, attempt_failed
<1>4. ad.phase = "up" /\ ad.sess = nd.sess /\ ad.sess \in Nat /\ nd.sess \in Nat
  BY WorkerIsUp
<1>5. /\ NdShape' /\ Calls' /\ Registrations' /\ NoProtocolErrors'
      /\ (Idle <=> Idle') /\ \A u : Awaits(u) <=> Awaits(u)'
      /\ nd'.phase = nd.phase /\ nd'.sess = nd.sess /\ inq' = inq
  BY <1>1, AdapterFrame
<1>6. replies = {}
  BY <1>4, NoReply
<1>7. AdShape'
  BY <1>3, <1>4 DEF IInv, AdShape, StateOf
<1>8. Sessions'
  BY <1>3, <1>4, <1>5 DEF Sessions
<1>9. Reply'
  BY <1>2, <1>6 DEF Reply
<1>10. Denial'
  BY <1>1, <1>3 DEF IInv, Denial
<1>11. nd.phase = "up" => Resting'
  BY <1>2, <1>3, <1>5, <1>6 DEF Resting, Clear
<1>12. Flow'
  BY <1>5, <1>11 DEF Flow, Resting, Clear, InFlight
<1>13. InStep'
  BY <1>5, <1>11 DEF InStep
<1> QED BY <1>5, <1>7, <1>8, <1>9, <1>10, <1>12, <1>13 DEF IInv

\* The worker has its offer, and an offer is a success.
LEMMA OfferStep ==
    ASSUME IInv, OfferReceived PROVE IInv'
<1>1. ad.worker = "offer" /\ ad.got.type = "Init"
  BY DEF OfferReceived
<1>2. ~ad.waiting /\ ~ad.rejected
  BY <1>1 DEF IInv, AdShape, Denial, NoMsg, Msg
<1>3. ad.phase = "up" /\ ad.sess = nd.sess /\ ad.sess \in Nat /\ nd.sess \in Nat
  BY <1>1, WorkerIsUp
<1>4. nd.phase = "up" => Proving
  BY <1>1, <1>2, <1>3 DEF IInv, InStep, Resting, Asking, Offered, Proving, Acquiring, Answered,
                          Abandoning, Settled
<1>5. replies = {}
  BY <1>2, <1>3, NoReply
<1>6. CASE ad.got.status # "Success"
  <2>1. Fail(ad.got.status)
    BY <1>6 DEF OfferReceived
  <2>2. nd.phase # "up"
    <3>1. nd.phase = "up" => ad.got = Offer(ad.txn)
      BY <1>1, <1>4 DEF Proving
    <3> QED BY <1>6, <3>1, MsgFields
  <2> QED BY <1>1, <1>2, <2>1, <2>2, FailStep
<1>7. CASE ad.got.status = "Success"
  <2>1. /\ UNCHANGED <<actor, nd, inq, calls, errors>> /\ net' = net
        /\ ad' = [ad EXCEPT !.state = "Authenticating", !.worker = "authenticate"]
        /\ denied' = denied
    BY <1>7 DEF OfferReceived, Worker
  <2>2. requests' = requests /\ replies' = replies
    BY <2>1, SameNet
  <2>3. /\ DOMAIN ad' = AdFields /\ ad'.phase = ad.phase /\ ad'.sess = ad.sess
        /\ ad'.state = "Authenticating" /\ ad'.txn = ad.txn /\ ad'.waiting = ad.waiting
        /\ ad'.addrs = ad.addrs /\ ad'.tun = ad.tun /\ ad'.worker = "authenticate"
        /\ ad'.got = ad.got /\ ad'.outcome = ad.outcome /\ ad'.rejected = ad.rejected
    BY <2>1, Domains DEF AdFields
  <2>4. /\ NdShape' /\ Calls' /\ Registrations' /\ NoProtocolErrors'
        /\ (Idle <=> Idle') /\ \A u : Awaits(u) <=> Awaits(u)'
        /\ nd'.phase = nd.phase /\ nd'.sess = nd.sess /\ inq' = inq
    BY <2>1, AdapterFrame
  <2>5. AdShape'
    BY <1>1, <1>3, <2>3 DEF IInv, AdShape, StateOf
  <2>6. Sessions'
    BY <1>3, <2>3, <2>4 DEF Sessions
  <2>7. Reply'
    BY <1>5, <2>2 DEF Reply
  <2>8. Denial'
    BY <1>2, <2>1, <2>3 DEF IInv, Denial
  <2>9. nd.phase = "up" => Proving'
    BY <1>4, <2>2, <2>3, <2>4 DEF Proving, Clear
  <2>10. Flow'
    BY <2>4, <2>9 DEF Flow, Proving
  <2>11. InStep'
    BY <2>4, <2>9 DEF InStep
  <2> QED BY <2>4, <2>5, <2>6, <2>7, <2>8, <2>10, <2>11 DEF IInv
<1> QED BY <1>6, <1>7

\* The worker has its evidence, or gives the attempt up.
LEMMA AuthenticatedStep ==
    ASSUME IInv, Authenticated PROVE IInv'
<1>1. ad.worker = "authenticate"
  BY DEF Authenticated
<1>2. ad.phase = "up" /\ ad.sess = nd.sess /\ ad.sess \in Nat /\ nd.sess \in Nat
  BY <1>1, WorkerIsUp
<1>3. ad.txn \in TxnIds /\ ~ad.rejected
  BY <1>1 DEF IInv, AdShape, Denial
<1>4. PICK t \in TxnIds : ad.txn = t
  BY <1>3
<1>5. PICK A \in SUBSET Addrs : actor.asks = A
  BY DEF IInv, Calls, Actors
<1>6. nd.phase = "up" => Proving
  BY <1>1, <1>2 DEF IInv, InStep, Resting, Asking, Offered, Proving, Acquiring, Answered,
                    Abandoning, Settled
<1>7. replies = {}
  BY <1>1, <1>2, NoReply
<1>8. CASE /\ validate_acquire_zpr_address_request(actor.asks)
           /\ Worker(prepare_reply(ad, ad.txn, "AcquiringAddress", "grant"),
                     {Acquire(t, A)})
           /\ UNCHANGED denied
  <2>1. /\ UNCHANGED <<actor, nd, inq, calls, errors>>
        /\ net' = net \cup {Acquire(t, A)}
        /\ ad' = prepare_reply(ad, ad.txn, "AcquiringAddress", "grant")
    BY <1>8 DEF Worker
  <2>2. requests' = requests \cup {Acquire(t, A)} /\ replies' = replies
    <3>1. Acquire(t, A).type = "Acquire"
      BY MsgFields
    <3> QED BY <2>1, <3>1, SendRequest
  <2>3. /\ DOMAIN ad' = AdFields /\ ad'.phase = ad.phase /\ ad'.sess = ad.sess
        /\ ad'.state = "AcquiringAddress" /\ ad'.txn = ad.txn /\ ad'.waiting = TRUE
        /\ ad'.addrs = ad.addrs /\ ad'.tun = ad.tun /\ ad'.worker = "grant" /\ ad'.got = NoMsg
        /\ ad'.outcome = ad.outcome /\ ad'.rejected = ad.rejected
    BY <2>1, Domains DEF AdFields, prepare_reply
  <2>4. /\ NdShape' /\ Calls' /\ Registrations' /\ NoProtocolErrors'
        /\ (Idle <=> Idle') /\ \A u : Awaits(u) <=> Awaits(u)'
        /\ nd'.phase = nd.phase /\ nd'.sess = nd.sess /\ inq' = inq /\ actor' = actor
    BY <2>1, AdapterFrame
  <2>5. AdShape'
    BY <1>2, <1>3, <2>3 DEF IInv, AdShape, StateOf
  <2>6. Sessions'
    BY <1>2, <2>3, <2>4 DEF Sessions
  <2>7. Reply'
    BY <1>7, <2>2 DEF Reply
  <2>8. Denial'
    BY <1>3, <1>8, <2>3 DEF IInv, Denial
  <2>9. Cardinality(A) <= 1
    BY <1>8, <1>5 DEF validate_acquire_zpr_address_request
  <2>10. nd.phase = "up" => Acquiring'
    <3> SUFFICES ASSUME nd.phase = "up" PROVE Acquiring'
      OBVIOUS
    <3>1. Awaits(t) /\ Clear
      BY <1>6, <1>4 DEF Proving
    <3>2. Awaits(t)' /\ InFlight(Acquire(t, A))'
      BY <2>2, <2>4, <3>1 DEF Clear, InFlight
    <3> QED BY <1>7, <1>4, <1>5, <2>2, <2>3, <2>4, <3>2 DEF Acquiring
  <2>11. Flow'
    <3>1. nd'.phase = "up" => \/ Awaits(t)' /\ InFlight(Acquire(t, A))'
                              \/ Clear'
      BY <1>4, <1>5, <2>3, <2>4, <2>10 DEF Acquiring
    <3> QED BY <2>9, <3>1 DEF Flow
  <2>12. InStep'
    BY <2>4, <2>10 DEF InStep
  <2> QED BY <2>4, <2>5, <2>6, <2>7, <2>8, <2>11, <2>12 DEF IInv
<1>9. ASSUME NEW status \in {"Rejected", "Retryable"},
             denied' = (denied \/ status = "Rejected"),
             Worker(authentication_denied(ad, status), {Abandon(t)})
      PROVE  IInv'
  <2>1. /\ UNCHANGED <<actor, nd, inq, calls, errors>> /\ net' = net \cup {Abandon(t)}
        /\ ad' = authentication_denied(ad, status)
    BY <1>9 DEF Worker
  <2>2. requests' = requests \cup {Abandon(t)} /\ replies' = replies
    BY <2>1, MsgFields, SendRequest
  <2>3. /\ DOMAIN ad' = AdFields /\ ad'.phase = ad.phase /\ ad'.sess = ad.sess
        /\ ad'.state = "AbandoningAuthentication" /\ ad'.txn = ad.txn /\ ad'.waiting = ad.waiting
        /\ ad'.addrs = ad.addrs /\ ad'.tun = ad.tun /\ ad'.worker = "abandon" /\ ad'.got = ad.got
        /\ ad'.outcome = status /\ (ad'.rejected <=> ad.rejected \/ status = "Rejected")
    BY <2>1, Domains DEF AdFields, authentication_denied
  <2>4. /\ NdShape' /\ Calls' /\ Registrations' /\ NoProtocolErrors'
        /\ (Idle <=> Idle') /\ \A u : Awaits(u) <=> Awaits(u)'
        /\ nd'.phase = nd.phase /\ nd'.sess = nd.sess /\ inq' = inq /\ actor' = actor
    BY <2>1, AdapterFrame
  <2>5. AdShape'
    BY <1>2, <1>3, <2>3 DEF IInv, AdShape, StateOf
  <2>6. Sessions'
    BY <1>2, <2>3, <2>4 DEF Sessions
  <2>7. Reply'
    BY <1>7, <2>2 DEF Reply
  <2>8. Denial'
    BY <1>3, <1>9, <2>3 DEF IInv, Denial
  <2>9. nd.phase = "up" => Abandoning'
    <3> SUFFICES ASSUME nd.phase = "up" PROVE Abandoning'
      OBVIOUS
    <3>1. Awaits(t) /\ Clear
      BY <1>6, <1>4 DEF Proving
    <3>2. Awaits(t)' /\ InFlight(Abandon(t))'
      BY <2>2, <2>4, <3>1 DEF Clear, InFlight
    <3> QED BY <1>7, <1>4, <2>2, <2>3, <2>4, <3>2 DEF Abandoning
  <2>10. Flow'
    <3>1. nd'.phase = "up" => (Awaits(t)' /\ InFlight(Abandon(t))') \/ Clear'
      BY <1>4, <2>3, <2>4, <2>9 DEF Abandoning
    <3> QED BY <3>1 DEF Flow
  <2>11. InStep'
    BY <2>4, <2>9 DEF InStep
  <2> QED BY <2>4, <2>5, <2>6, <2>7, <2>8, <2>10, <2>11 DEF IInv
<1>10. \/ /\ validate_acquire_zpr_address_request(actor.asks)
          /\ Worker(prepare_reply(ad, ad.txn, "AcquiringAddress", "grant"), {Acquire(t, A)})
          /\ UNCHANGED denied
       \/ \E status \in {"Rejected", "Retryable"} :
            /\ denied' = (denied \/ status = "Rejected")
            /\ Worker(authentication_denied(ad, status), {Abandon(t)})
  BY <1>4, <1>5 DEF Authenticated, Acquire, Abandon
<1> QED BY <1>8, <1>9, <1>10

\* The node has the Abandon, and the worker comes to its conclusion.
LEMMA AbandonedStep ==
    ASSUME IInv, Abandoned PROVE IInv'
<1>1. ad.worker = "abandon" /\ Abandon(ad.txn) \notin net /\ Fail(ad.outcome)
  BY DEF Abandoned, abandon_acked, Abandon
<1>2. ad.rejected => ad.outcome = "Rejected"
  BY <1>1 DEF IInv, Denial
<1>3. Abandon(ad.txn) \notin requests /\ ad.txn \in TxnIds
  BY <1>1 DEF IInv, AdShape, requests
<1>4. nd.phase = "up" => \/ Idle /\ Clear
                         \/ \E t \in TxnIds : Awaits(t) /\ inq = <<Abandon(t)>> /\ requests = {}
  <2> SUFFICES ASSUME nd.phase = "up"
               PROVE  \/ Idle /\ Clear
                      \/ \E t \in TxnIds : Awaits(t) /\ inq = <<Abandon(t)>> /\ requests = {}
    OBVIOUS
  <2>1. ad.phase = "up"
    BY <1>1, WorkerIsUp
  <2>2. Abandoning
    BY <1>1, <2>1 DEF IInv, InStep, Resting, Asking, Offered, Proving, Acquiring, Answered,
                      Abandoning, Settled
  <2> QED BY <1>3, <2>2 DEF Abandoning, InFlight
<1> QED BY <1>1, <1>2, <1>4, FailStep

\* The adapter's link closes, and with it all that was under way there.
LEMMA AdapterDownStep ==
    ASSUME IInv, NEW phase \in {"closing", "down"}, ad' = adapter_down(ad, phase), ad.phase # "down",
           UNCHANGED <<actor, nd, inq, calls, errors, denied>>, net' = net
    PROVE  IInv'
<1>1. requests' = requests /\ replies' = replies
  BY SameNet
<1>2. /\ DOMAIN ad' = AdFields /\ ad'.phase = phase /\ ad'.sess = ad.sess
      /\ ad'.state = "WaitingForLink" /\ ad'.txn = "none" /\ ad'.waiting = FALSE
      /\ ad'.addrs = {} /\ ad'.tun = {} /\ ad'.worker = "none" /\ ad'.got = NoMsg
      /\ ad'.outcome = ad.outcome /\ ad'.rejected = ad.rejected
  BY Domains DEF AdFields, adapter_down
<1>3. /\ NdShape' /\ Calls' /\ Registrations' /\ NoProtocolErrors'
      /\ (Idle <=> Idle') /\ \A u : Awaits(u) <=> Awaits(u)'
      /\ nd'.phase = nd.phase /\ nd'.sess = nd.sess /\ inq' = inq /\ actor' = actor
  BY AdapterFrame
<1>4. ad.sess = nd.sess /\ ad.sess \in Nat
  BY DEF IInv, Sessions, AdShape
<1>5. AdShape'
  BY <1>2, <1>4 DEF AdShape, Phases
<1>6. Sessions'
  BY <1>2, <1>3, <1>4 DEF Sessions
<1>7. Reply' /\ InStep'
  BY <1>2 DEF Reply, InStep
<1>8. Denial'
  BY <1>2 DEF IInv, Denial
<1>9. Flow'
  <2>1. Clear' <=> Clear
    BY <1>1, <1>3 DEF Clear
  <2>2. \A m : InFlight(m) <=> InFlight(m)'
    BY <1>1, <1>3 DEF InFlight
  <2>3. \A m, k : Behind(m, k) <=> Behind(m, k)'
    BY <1>1, <1>3 DEF Behind
  <2> QED BY <1>3, <2>1, <2>2, <2>3 DEF IInv, Flow
<1> QED BY <1>3, <1>5, <1>6, <1>7, <1>8, <1>9 DEF IInv

\* The worker has its grant, and installs the address the node has granted.
LEMMA GrantStep ==
    ASSUME IInv, GrantReceived PROVE IInv'
<1>1. ad.worker = "grant" /\ ad.got.type = "Grant"
  BY DEF GrantReceived
<1>2. ~ad.waiting /\ ~ad.rejected
  BY <1>1 DEF IInv, AdShape, Denial, NoMsg, Msg
<1>3. ad.phase = "up" /\ ad.sess = nd.sess /\ ad.sess \in Nat /\ nd.sess \in Nat
  BY <1>1, WorkerIsUp
<1>4. replies = {}
  BY <1>2, <1>3, NoReply
<1>5. nd.phase = "up" =>
        /\ Clear
        /\ \E status \in Statuses, addrs \in SUBSET Addrs :
             GrantOf(status, addrs) /\ ad.got = Grant(ad.txn, status, addrs)
  <2> SUFFICES ASSUME nd.phase = "up"
               PROVE  /\ Clear
                      /\ \E status \in Statuses, addrs \in SUBSET Addrs :
                           GrantOf(status, addrs) /\ ad.got = Grant(ad.txn, status, addrs)
    OBVIOUS
  <2>1. Answered
    BY <1>1, <1>2, <1>3 DEF IInv, InStep, Resting, Asking, Offered, Proving, Acquiring, Answered,
                            Abandoning, Settled
  <2> QED BY <1>2, <2>1 DEF Answered
<1>6. CASE ad.got.status # "Success"
  <2>1. Fail(ad.got.status)
    BY <1>6 DEF GrantReceived
  <2>2. nd.phase = "up" => Idle /\ Clear
    <3> SUFFICES ASSUME nd.phase = "up" PROVE Idle /\ Clear
      OBVIOUS
    <3>1. PICK status \in Statuses, addrs \in SUBSET Addrs :
            GrantOf(status, addrs) /\ ad.got = Grant(ad.txn, status, addrs)
      BY <1>5
    <3>2. status # "Success"
      BY <1>6, <3>1, MsgFields
    <3> QED BY <1>5, <3>1, <3>2 DEF GrantOf
  <2> QED BY <1>1, <1>2, <2>1, <2>2, FailStep
<1>7. CASE ad.got.status = "Success" /\ Worker(adapter_down(ad, "closing"), {}) /\ UNCHANGED denied
  <2>1. /\ UNCHANGED <<actor, nd, inq, calls, errors, denied>> /\ net' = net
        /\ ad' = adapter_down(ad, "closing")
    BY <1>7 DEF Worker
  <2> QED BY <1>3, <2>1, AdapterDownStep
<1>8. ASSUME ad.got.status = "Success", NEW existing \in BOOLEAN,
             Worker(install_address(ad, ad.got.addrs, existing), {}), UNCHANGED denied
      PROVE  IInv'
  <2>1. /\ UNCHANGED <<actor, nd, inq, calls, errors, denied>> /\ net' = net
        /\ ad' = install_address(ad, ad.got.addrs, existing)
    BY <1>8 DEF Worker
  <2>2. requests' = requests /\ replies' = replies
    BY <2>1, SameNet
  <2>3. /\ DOMAIN ad' = AdFields /\ ad'.phase = ad.phase /\ ad'.sess = ad.sess
        /\ ad'.state = "Authorized" /\ ad'.txn = "none" /\ ad'.waiting = ad.waiting
        /\ ad'.addrs = ad.got.addrs /\ ad'.worker = "none" /\ ad'.got = NoMsg
        /\ ad'.outcome = ad.outcome /\ ad'.rejected = ad.rejected
    BY <2>1, Domains DEF AdFields, install_address
  <2>4. /\ NdShape' /\ Calls' /\ Registrations' /\ NoProtocolErrors'
        /\ (Granted <=> Granted') /\ nd'.addrs = nd.addrs
        /\ nd'.phase = nd.phase /\ nd'.sess = nd.sess /\ inq' = inq /\ actor' = actor
    BY <2>1, AdapterFrame
  <2>5. AdShape'
    BY <1>3, <2>3 DEF IInv, AdShape, StateOf
  <2>6. Sessions'
    BY <1>3, <2>3, <2>4 DEF Sessions
  <2>7. Reply'
    BY <1>4, <2>2 DEF Reply
  <2>8. Denial'
    BY <1>2, <2>1, <2>3 DEF IInv, Denial
  <2>9. nd.phase = "up" => Settled'
    <3> SUFFICES ASSUME nd.phase = "up" PROVE Settled'
      OBVIOUS
    <3>1. PICK status \in Statuses, addrs \in SUBSET Addrs :
            GrantOf(status, addrs) /\ ad.got = Grant(ad.txn, status, addrs)
      BY <1>5
    <3>2. status = "Success" /\ ad.got.addrs = addrs
      BY <1>8, <3>1, MsgFields
    <3>3. Granted /\ nd.addrs = ad.got.addrs
      BY <3>1, <3>2 DEF GrantOf
    <3>4. Clear'
      BY <1>5, <2>2, <2>4 DEF Clear
    <3> QED BY <1>4, <2>2, <2>3, <2>4, <3>3, <3>4 DEF Settled
  <2>10. Flow'
    BY <2>4, <2>9 DEF Flow, Settled
  <2>11. InStep'
    BY <2>4, <2>9 DEF InStep
  <2> QED BY <2>4, <2>5, <2>6, <2>7, <2>8, <2>10, <2>11 DEF IInv
<1>9. CASE ad.got.status = "Success"
  <2>1. \/ \E existing \in BOOLEAN : Worker(install_address(ad, ad.got.addrs, existing), {})
        \/ Worker(adapter_down(ad, "closing"), {})
    BY <1>9 DEF GrantReceived
  <2>2. UNCHANGED denied
    BY <1>9 DEF GrantReceived
  <2> QED BY <1>7, <1>8, <1>9, <2>1, <2>2
<1> QED BY <1>6, <1>9

\* The adapter hears of the link: nothing has happened on it.
LEMMA LinkReadyStep ==
    ASSUME IInv, link_ready PROVE IInv'
<1>1. /\ UNCHANGED <<actor, nd, inq, calls, errors>> /\ net' = net /\ denied' = denied
      /\ ad' = [ad EXCEPT !.phase = "up", !.sess = nd.sess,
                          !.state = IF ad.rejected THEN "Rejected" ELSE @,
                          !.worker = IF ad.rejected THEN "none" ELSE "spawned"]
      /\ ad.phase = "down" /\ ad.sess < nd.sess
  BY DEF link_ready
<1>2. requests' = requests /\ replies' = replies
  BY <1>1, SameNet
<1>3. /\ DOMAIN ad' = AdFields /\ ad'.phase = "up" /\ ad'.sess = nd.sess
      /\ ad'.state = (IF ad.rejected THEN "Rejected" ELSE ad.state)
      /\ ad'.txn = ad.txn /\ ad'.waiting = ad.waiting
      /\ ad'.addrs = ad.addrs /\ ad'.tun = ad.tun
      /\ ad'.worker = (IF ad.rejected THEN "none" ELSE "spawned") /\ ad'.got = ad.got
      /\ ad'.outcome = ad.outcome /\ ad'.rejected = ad.rejected
  BY <1>1, Domains DEF AdFields
<1>4. /\ NdShape' /\ Calls' /\ Registrations' /\ NoProtocolErrors'
      /\ (Idle <=> Idle') /\ nd'.phase = nd.phase /\ nd'.sess = nd.sess /\ inq' = inq
  BY <1>1, AdapterFrame
<1>5. ad.state = "WaitingForLink" /\ nd.sess \in Nat
  BY <1>1 DEF IInv, AdShape, NdShape
<1>6. Clear /\ replies = {} /\ Idle
  BY <1>1 DEF IInv, Sessions
<1>7. Clear' /\ replies' = {} /\ Idle'
  BY <1>2, <1>4, <1>6 DEF Clear
<1>8. AdShape'
  BY <1>3, <1>5 DEF IInv, AdShape, StateOf, Phases
<1>9. Sessions'
  BY <1>3, <1>4, <1>5 DEF Sessions
<1>10. Reply' /\ Flow'
  BY <1>7 DEF Reply, Flow
<1>11. Denial'
  BY <1>1, <1>3 DEF IInv, Denial
<1>12. InStep'
  BY <1>3, <1>7 DEF InStep, Resting
<1> QED BY <1>4, <1>8, <1>9, <1>10, <1>11, <1>12 DEF IInv

\* A reply on a link that is up is one the worker waits for.
LEMMA ReplyExpected ==
    ASSUME IInv, NEW m \in replies, ad.phase = "up"
    PROVE  /\ Expected(m) /\ replies = {m} /\ ad.waiting
           /\ \/ ad.worker = "offer" /\ m = Offer(ad.txn)
              \/ ad.worker = "grant" /\ m.type = "Grant"
<1>1. CASE ad.worker = "offer" /\ ad.waiting /\ replies = {Offer(ad.txn)}
  <2>1. m = Offer(ad.txn) /\ m.type = "Init" /\ m.txn = ad.txn /\ m.status = "Success"
          /\ m.addrs = {}
    BY <1>1, MsgFields
  <2>2. ad.state = "RequestingAuthentication"
    BY <1>1 DEF IInv, AdShape, StateOf
  <2>3. parsed(m)
    BY <2>1 DEF parsed, parse_init_authentication_request, valid_auth_status, Statuses
  <2> QED BY <1>1, <2>1, <2>2, <2>3 DEF Expected, AwaitedIn
<1>2. ASSUME ad.worker = "grant", ad.waiting, NEW status \in Statuses, NEW addrs \in SUBSET Addrs,
             Fits(status, addrs), replies = {Grant(ad.txn, status, addrs)}
      PROVE  Expected(m) /\ replies = {m} /\ m.type = "Grant"
  <2>1. /\ m = Grant(ad.txn, status, addrs) /\ m.type = "Grant" /\ m.txn = ad.txn
        /\ m.status = status /\ m.addrs = addrs
    BY <1>2, MsgFields
  <2>2. ad.state = "AcquiringAddress"
    BY <1>2 DEF IInv, AdShape, StateOf
  <2>3. Cardinality(addrs) = IF status = "Success" THEN 1 ELSE 0
    BY <1>2, OneAddress DEF Fits
  <2>4. parsed(m)
    BY <2>1, <2>3 DEF parsed, parse_grant_zpr_address_request, valid_auth_status
  <2> QED BY <1>2, <2>1, <2>2, <2>4 DEF Expected, AwaitedIn
<1> QED BY <1>1, <1>2 DEF IInv, Reply

\* A reply is delivered.
LEMMA DeliverStep ==
    ASSUME IInv, NEW m \in net, deliver_reply(m) PROVE IInv'
<1>1. /\ m.type \in {"Init", "Grant"} /\ ad.phase # "down" /\ net' = net \ {m}
      /\ UNCHANGED <<actor, nd, inq, calls, denied>>
  BY DEF deliver_reply
<1>2. m \in replies /\ requests' = requests /\ replies' = replies \ {m}
  BY <1>1, TakeReply
<1>3. ad.phase \in Phases /\ ad.sess = nd.sess /\ ad.sess \in Nat
  BY <1>1 DEF IInv, AdShape, Sessions
<1>4. CASE ad.phase # "up"
  <2>1. ad' = ad /\ errors' = errors
    <3>1. ~Expected(m)
      <4>1. ad.state = "WaitingForLink"
        BY <1>4 DEF IInv, AdShape
      <4> QED BY <4>1 DEF Expected, AwaitedIn
    <3> QED BY <1>4, <3>1 DEF deliver_reply
  <2>2. /\ NdShape' /\ Calls' /\ Registrations' /\ NoProtocolErrors'
        /\ (Idle <=> Idle') /\ \A u : Awaits(u) <=> Awaits(u)'
        /\ nd'.phase = nd.phase /\ nd'.sess = nd.sess /\ inq' = inq
    BY <1>1, <2>1, AdapterFrame
  <2>3. AdShape' /\ Denial'
    BY <1>1, <2>1, SameAdapter
  <2>4. Sessions'
    BY <1>3, <2>1, <2>2 DEF Sessions
  <2>5. Reply' /\ InStep'
    BY <1>4, <2>1 DEF Reply, InStep
  <2>6. Flow'
    <3>1. Clear' <=> Clear
      BY <1>2, <2>2 DEF Clear
    <3>2. \A k : InFlight(k) <=> InFlight(k)'
      BY <1>2, <2>2 DEF InFlight
    <3>3. \A l, k : Behind(l, k) <=> Behind(l, k)'
      BY <1>2, <2>2 DEF Behind
    <3> QED BY <2>2, <3>1, <3>2, <3>3 DEF IInv, Flow
  <2> QED BY <2>2, <2>3, <2>4, <2>5, <2>6 DEF IInv
<1>5. CASE ad.phase = "up"
  <2>1. /\ Expected(m) /\ replies = {m} /\ ad.waiting
        /\ \/ ad.worker = "offer" /\ m = Offer(ad.txn)
           \/ ad.worker = "grant" /\ m.type = "Grant"
    BY <1>2, <1>5, ReplyExpected
  <2>2. ad' = [ad EXCEPT !.waiting = FALSE, !.got = m] /\ errors' = errors
    BY <2>1 DEF deliver_reply
  <2>3. /\ DOMAIN ad' = AdFields /\ ad'.phase = ad.phase /\ ad'.sess = ad.sess
        /\ ad'.state = ad.state /\ ad'.txn = ad.txn /\ ad'.waiting = FALSE
        /\ ad'.addrs = ad.addrs /\ ad'.tun = ad.tun /\ ad'.worker = ad.worker /\ ad'.got = m
        /\ ad'.outcome = ad.outcome /\ ad'.rejected = ad.rejected
    BY <2>2, Domains DEF AdFields
  <2>4. /\ NdShape' /\ Calls' /\ Registrations' /\ NoProtocolErrors'
        /\ (Idle <=> Idle') /\ (Granted <=> Granted') /\ \A u : Awaits(u) <=> Awaits(u)'
        /\ nd'.phase = nd.phase /\ nd'.sess = nd.sess /\ inq' = inq /\ nd'.addrs = nd.addrs
    BY <1>1, <2>2, AdapterFrame
  <2>5. replies' = {}
    BY <1>2, <2>1
  <2>6. AdShape'
    BY <1>3, <1>5, <2>3 DEF IInv, AdShape
  <2>7. Sessions'
    BY <1>3, <1>5, <2>3, <2>4 DEF Sessions
  <2>8. Reply'
    BY <2>5 DEF Reply
  <2>9. Denial'
    BY <1>1, <2>3 DEF IInv, Denial
  <2>10. nd.phase = "up" => Clear' /\ (Proving' \/ Answered')
    <3> SUFFICES ASSUME nd.phase = "up" PROVE Clear' /\ (Proving' \/ Answered')
      OBVIOUS
    <3>1. Offered \/ (Answered /\ ad.worker = "grant")
      BY <1>2, <1>5, <2>1 DEF IInv, InStep, Resting, Asking, Offered, Proving, Acquiring, Answered,
                              Abandoning, Settled
    <3>2. Clear /\ Clear'
      BY <1>2, <2>4, <3>1 DEF Offered, Answered, Clear
    <3>3. CASE Offered
      <4>1. PICK t : ad.txn = t
        OBVIOUS
      <4>2. Awaits(t)' /\ m = Offer(t) /\ ad.worker = "offer"
        BY <2>1, <2>4, <3>3, <4>1, MsgFields DEF Offered
      <4>3. Proving'
        BY <2>3, <2>5, <3>2, <4>1, <4>2 DEF Proving
      <4> QED BY <3>2, <4>3
    <3>4. CASE Answered /\ ad.worker = "grant"
      <4>1. PICK t : ad.txn = t
        OBVIOUS
      <4>2. PICK status \in Statuses, addrs \in SUBSET Addrs :
              GrantOf(status, addrs) /\ replies = {Grant(t, status, addrs)}
        BY <2>1, <3>4, <4>1 DEF Answered
      <4>3. m = Grant(t, status, addrs)
        BY <2>1, <4>2
      <4>4. GrantOf(status, addrs)'
        BY <2>4, <4>2 DEF GrantOf
      <4>5. Answered'
        BY <2>3, <2>5, <3>2, <3>4, <4>1, <4>3, <4>4 DEF Answered
      <4> QED BY <3>2, <4>5
    <3> QED BY <3>1, <3>3, <3>4
  <2>11. Flow'
    BY <2>4, <2>10 DEF Flow
  <2>12. InStep'
    BY <2>4, <2>10 DEF InStep
  <2> QED BY <2>4, <2>6, <2>7, <2>8, <2>9, <2>11, <2>12 DEF IInv
<1> QED BY <1>4, <1>5

-----------------------------------------------------------------------------
(* The node's calls to the visa service.                                   *)

\* A command is appended.
LEMMA DeregistersMore ==
    ASSUME NEW c \in Seq(Command), NEW d \in Command
    PROVE  /\ Append(c, d) \in Seq(Command) /\ Deregisters(c) \subseteq Deregisters(Append(c, d))
           /\ d.cmd = "notify_disconnect" => d.addr \in Deregisters(Append(c, d))
<1> DEFINE e == Append(c, d)  n == Len(c)
<1>1. /\ n \in Nat /\ DOMAIN c = 1 .. n /\ DOMAIN e = 1 .. (n + 1)
      /\ e[n + 1] = d /\ (\A i \in 1 .. n : e[i] = c[i]) /\ e \in Seq(Command)
  OBVIOUS
<1> HIDE DEF e, n
<1>2. n + 1 \in DOMAIN e /\ \A i \in DOMAIN c : i \in DOMAIN e /\ e[i] = c[i]
  BY <1>1
<1>3. Deregisters(c) \subseteq Deregisters(e)
  BY <1>2 DEF Deregisters
<1>4. d.cmd = "notify_disconnect" => d.addr \in Deregisters(e)
  BY <1>1, <1>2 DEF Deregisters
<1> QED BY <1>1, <1>3, <1>4 DEF e

\* A command is taken: what it was to deregister is up to the one who takes it.
LEMMA DeregistersLess ==
    ASSUME NEW c \in Seq(Command), c # <<>>
    PROVE  /\ Tail(c) \in Seq(Command) /\ Head(c) \in Command
           /\ \A a \in Deregisters(c) : \/ a \in Deregisters(Tail(c))
                                        \/ Head(c).cmd = "notify_disconnect" /\ a = Head(c).addr
<1> DEFINE e == Tail(c)  n == Len(c)  h == Head(c)
<1>1. /\ n \in Nat \ {0} /\ DOMAIN c = 1 .. n /\ DOMAIN e = 1 .. (n - 1)
      /\ h = c[1] /\ h \in Command /\ (\A i \in 1 .. (n - 1) : e[i] = c[i + 1]) /\ e \in Seq(Command)
  OBVIOUS
<1> HIDE DEF e, n, h
<1>2. \A i \in DOMAIN c : i = 1 \/ (i - 1 \in DOMAIN e /\ e[i - 1] = c[i])
  BY <1>1
<1>3. ASSUME NEW a \in Deregisters(c)
      PROVE  a \in Deregisters(e) \/ (h.cmd = "notify_disconnect" /\ a = h.addr)
  <2>1. PICK i \in DOMAIN c : c[i].cmd = "notify_disconnect" /\ c[i].addr = a
    BY DEF Deregisters
  <2>2. CASE i = 1
    BY <1>1, <2>1, <2>2
  <2>3. CASE i # 1
    BY <1>2, <2>1, <2>3 DEF Deregisters
  <2> QED BY <2>2, <2>3
<1> QED BY <1>1, <1>3 DEF e, h

\* The node's link ends: its address is deregistered.
LEMMA DisconnectsCover ==
    ASSUME IInv
    PROVE  /\ cmds \o node_disconnects(nd) \in Seq(Command)
           /\ ~vs => nd.addrs \cup Deregisters(cmds) \subseteq
                       Deregisters(cmds \o node_disconnects(nd))
           /\ Deregisters(cmds) \subseteq Deregisters(cmds \o node_disconnects(nd))
<1>1. cmds \in Seq(Command) /\ nd.addrs \in SUBSET Addrs
  BY DEF IInv, Calls, NdShape
<1>2. CASE vs \/ nd.addrs = {}
  <2>1. node_disconnects(nd) = <<>>
    BY <1>2 DEF node_disconnects
  <2>2. cmds \o <<>> = cmds
    BY <1>1
  <2> QED BY <1>1, <1>2, <2>1, <2>2
<1>3. CASE ~(vs \/ nd.addrs = {})
  <2>1. Cardinality(nd.addrs) = 1
    BY <1>3 DEF IInv, NdShape, Idle, Granted, Awaits, Asks
  <2>2. PICK a \in Addrs : nd.addrs = {a}
    BY <1>1, <2>1, OneAddress
  <2>3. (CHOOSE x \in nd.addrs : TRUE) = a
    BY <2>2
  <2>4. node_disconnects(nd) = <<Disconnect(a)>>
    BY <1>3, <2>3 DEF node_disconnects
  <2>5. Disconnect(a) \in Command /\ Disconnect(a).cmd = "notify_disconnect"
          /\ Disconnect(a).addr = a
    BY DEF Disconnect, Command
  <2>6. cmds \o <<Disconnect(a)>> = Append(cmds, Disconnect(a))
    BY <1>1, <2>5
  <2> QED BY <1>1, <2>2, <2>4, <2>5, <2>6, DeregistersMore
<1> QED BY <1>2, <1>3

\* Every registration is taken care of by somebody.
LEMMA Cared ==
    ASSUME IInv, ~vs, NEW a \in registered
    PROVE  \/ a \in nd.addrs \/ a \in lost \/ a \in Deregisters(cmds)
           \/ \E r \in answers : r.result = "Success" /\ r.addr = a
  BY DEF IInv, Registrations

\* It is enough that somebody does so after the step.
LEMMA StillCared ==
    ASSUME actor' = actor,
           ~vs => \A a \in registered' :
                     \/ a \in nd'.addrs \/ a \in lost' \/ a \in Deregisters(cmds')
                     \/ \E r \in answers' : r.result = "Success" /\ r.addr = a
    PROVE  Registrations'
<1>1. (vs' <=> vs) /\ Deregisters(cmds)' = Deregisters(cmds')
  BY DEF vs, Deregisters
<1> QED BY <1>1 DEF Registrations

-----------------------------------------------------------------------------
(* The links.                                                              *)

\* The program starts.
LEMMA InitIInv == ASSUME Init PROVE IInv
<1>1. /\ actor \in Actors /\ ad = new_adapter /\ nd = new_remote(0, "down")
      /\ net = {} /\ inq = <<>> /\ cmds = <<>> /\ answers = {} /\ registered = {}
      /\ deferred = {} /\ denied = FALSE /\ errors = {}
  BY DEF Init
<1>2. /\ DOMAIN ad = AdFields /\ ad.phase = "down" /\ ad.sess = 0 /\ ad.state = "WaitingForLink"
      /\ ad.waiting = FALSE /\ ad.addrs = {} /\ ad.tun = {} /\ ad.worker = "none"
      /\ ad.rejected = FALSE
  BY <1>1 DEF new_adapter, AdFields
<1>3. /\ DOMAIN nd = NdFields /\ nd.phase = "down" /\ nd.sess = 0 /\ nd.state = "WaitingForLink"
      /\ nd.remote_txn = "none" /\ nd.addrs = {} /\ nd.generation = 0
  BY <1>1 DEF new_remote, NdFields
<1>4. AdShape
  BY <1>2 DEF AdShape, Phases
<1>5. NdShape
  BY <1>3 DEF NdShape, Phases, Idle
<1>6. Flow /\ Sessions
  BY <1>2, <1>3 DEF Flow, Sessions
<1>7. Reply /\ InStep
  BY <1>2 DEF Reply, InStep
<1>8. Denial
  BY <1>1, <1>2 DEF Denial
<1>9. cmds \in Seq(Command)
  BY <1>1
<1>10. Calls
  BY <1>1, <1>3, <1>9 DEF Calls
<1>11. Registrations /\ NoProtocolErrors
  BY <1>1 DEF Registrations, NoProtocolErrors
<1> QED BY <1>4, <1>5, <1>6, <1>7, <1>8, <1>10, <1>11 DEF IInv

\* The adapter's link ends.
LEMMA AdapterDownAction ==
    ASSUME IInv, NEW phase \in Phases, AdapterDown(phase) PROVE IInv'
<1>1. phase \in {"closing", "down"} /\ ad.phase # "down"
  BY DEF AdapterDown, Closes
<1>2. /\ ad' = adapter_down(ad, phase)
      /\ UNCHANGED <<actor, nd, net, inq, calls, denied, errors>>
  BY DEF AdapterDown
<1> QED BY <1>1, <1>2, AdapterDownStep

\* A new link: nothing of the last one is left on it.
LEMMA NodeReadyStep ==
    ASSUME IInv, NodeReady PROVE IInv'
<1>1. /\ nd.phase = "down" /\ ad.phase = "down" /\ nd' = new_remote(nd.sess + 1, "up")
      /\ net' = {} /\ inq' = <<>>
      /\ UNCHANGED <<actor, ad, calls, denied, errors>>
  BY DEF NodeReady
<1>2. UNCHANGED <<cmds, answers, registered, deferred, lost>>
  BY <1>1 DEF calls
<1>3. nd.sess \in Nat /\ nd.addrs = {} /\ ad.sess \in Nat /\ ad.sess <= nd.sess
  BY <1>1 DEF IInv, NdShape, AdShape, Sessions, Idle
<1>4. /\ DOMAIN nd' = NdFields /\ nd'.phase = "up" /\ nd'.sess = nd.sess + 1
      /\ nd'.state = "WaitingForLink" /\ nd'.remote_txn = "none" /\ nd'.addrs = {}
      /\ nd'.generation = 0
  BY <1>1 DEF new_remote, NdFields
<1>5. requests' = {} /\ replies' = {}
  BY <1>1 DEF requests, replies
<1>6. Clear' /\ Idle'
  BY <1>1, <1>4, <1>5 DEF Clear, Idle
<1>7. AdShape' /\ Denial'
  BY <1>1, SameAdapter
<1>8. NdShape'
  BY <1>3, <1>4, <1>6 DEF NdShape, Phases
<1>9. Flow'
  BY <1>6 DEF Flow
<1>10. Sessions'
  BY <1>1, <1>3, <1>4, <1>5, <1>6 DEF Sessions
<1>11. Reply' /\ InStep'
  BY <1>1 DEF Reply, InStep
<1>12. Calls'
  BY <1>1, <1>2, <1>4 DEF IInv, Calls, vs
<1>13. Registrations'
  BY <1>1, <1>2, <1>3, Cared, StillCared
<1>14. NoProtocolErrors'
  BY <1>1 DEF IInv, NoProtocolErrors
<1> QED BY <1>7, <1>8, <1>9, <1>10, <1>11, <1>12, <1>13, <1>14 DEF IInv

\* The node's link ends.
LEMMA NodeDownStep ==
    ASSUME IInv, NEW phase \in Phases, NodeDown(phase) PROVE IInv'
<1>1. phase \in {"closing", "down"} /\ nd.phase # "down"
  BY DEF NodeDown, Closes
<1>2. /\ nd' = node_down(nd, phase) /\ cmds' = cmds \o node_disconnects(nd) /\ net' = net
      /\ UNCHANGED <<actor, ad, inq, answers, registered, deferred, lost, denied, errors>>
  BY DEF NodeDown
<1>3. nd.generation \in Nat
  BY DEF IInv, Calls
<1>4. /\ DOMAIN nd' = NdFields /\ nd'.phase = phase /\ nd'.sess = nd.sess
      /\ nd'.state = "WaitingForLink" /\ nd'.remote_txn = "none" /\ nd'.addrs = {}
      /\ nd'.generation = nd.generation + 1
  BY <1>2, Domains DEF node_down, NdFields
<1>5. requests' = requests /\ replies' = replies
  BY <1>2, SameNet
<1>6. Idle' /\ (Clear => Clear')
  BY <1>2, <1>4, <1>5 DEF Clear, Idle
<1>7. AdShape' /\ Denial'
  BY <1>2, SameAdapter
<1>8. NdShape'
  BY <1>4, <1>6 DEF IInv, NdShape
<1>9. Flow' /\ InStep'
  BY <1>1, <1>4 DEF Flow, InStep
<1>10. Sessions'
  BY <1>2, <1>4, <1>5, <1>6 DEF IInv, Sessions
<1>11. Reply'
  BY <1>2, <1>5 DEF IInv, Reply
<1>12. /\ cmds' \in Seq(Command) /\ Deregisters(cmds) \subseteq Deregisters(cmds')
       /\ ~vs => nd.addrs \subseteq Deregisters(cmds')
  BY <1>2, DisconnectsCover
<1>13. Calls'
  BY <1>2, <1>3, <1>4, <1>12 DEF IInv, Calls, vs
<1>14. Registrations'
  BY <1>2, <1>12, Cared, StillCared
<1>15. NoProtocolErrors'
  BY <1>2 DEF IInv, NoProtocolErrors
<1> QED BY <1>7, <1>8, <1>9, <1>10, <1>11, <1>13, <1>14, <1>15 DEF IInv

-----------------------------------------------------------------------------
(* The node's handlers.                                                    *)

\* What a queue is after another element has come.
LEMMA Appended ==
    ASSUME NEW S, NEW c \in Seq(S), NEW d \in S
    PROVE  /\ Append(c, d) \in Seq(S) /\ Len(Append(c, d)) = Len(c) + 1
           /\ DOMAIN Append(c, d) = 1 .. (Len(c) + 1)
           /\ \A i \in 1 .. Len(c) : Append(c, d)[i] = c[i]
           /\ Append(c, d)[Len(c) + 1] = d
<1>1. DOMAIN c = 1 .. Len(c) /\ Len(c) \in Nat
  OBVIOUS
<1> QED BY <1>1

\* A message joins another, ...
LEMMA AppendOne ==
    ASSUME NEW S, NEW c \in Seq(S), Len(c) = 1, NEW k, c[1] = k, NEW d \in S
    PROVE  Append(c, d) = <<k, d>>
<1> DEFINE e == Append(c, d)
<1>1. /\ e \in Seq(S) /\ DOMAIN e = 1 .. (Len(c) + 1) /\ e[Len(c) + 1] = d
      /\ \A i \in 1 .. Len(c) : e[i] = c[i]
  BY Appended
<1> HIDE DEF e
<1>2. e = [i \in DOMAIN e |-> e[i]] /\ DOMAIN e = 1 .. 2 /\ e[1] = k /\ e[2] = d
  BY <1>1
<1>3. DOMAIN <<k, d>> = 1 .. 2 /\ <<k, d>> = [i \in 1 .. 2 |-> <<k, d>>[i]]
  OBVIOUS
<1>4. <<k, d>>[1] = k /\ <<k, d>>[2] = d
  OBVIOUS
<1>5. 1 .. 2 = {1, 2}
  OBVIOUS
<1> QED BY <1>2, <1>3, <1>4, <1>5 DEF e

\* ... or an empty queue.
LEMMA AppendShort ==
    ASSUME NEW m, NEW k
    PROVE  Append(<<>>, m) = <<m>> /\ Append(<<k>>, m) = <<k, m>>
<1>1. Append(<<>>, m) = <<m>>
  OBVIOUS
<1>2. <<k>> \in Seq({k, m}) /\ m \in {k, m} /\ Len(<<k>>) = 1 /\ <<k>>[1] = k
  OBVIOUS
<1>3. Append(<<k>>, m) = <<k, m>>
  BY <1>2, AppendOne, Zenon
<1> QED BY <1>1, <1>3

\* A request reaches the node's queue.
LEMMA ArriveStep ==
    ASSUME IInv, NEW m \in net, Arrive(m) PROVE IInv'
<1>1. /\ m.type \in {"Start", "Acquire", "Abandon"} /\ net' = net \ {m} /\ inq' = Append(inq, m)
      /\ UNCHANGED <<actor, ad, nd, calls, denied, errors>>
  BY DEF Arrive
<1>2. m \in requests /\ requests' = requests \ {m} /\ replies' = replies
  BY <1>1, TakeRequest
<1>3. UNCHANGED <<cmds, answers, registered, deferred, lost>>
  BY <1>1 DEF calls
<1>4. AdShape' /\ Denial'
  BY <1>1, SameAdapter
<1>5. NdShape'
  BY <1>1, SameNode
<1>6. Calls' /\ Registrations' /\ NoProtocolErrors'
  BY <1>1, <1>3, SameCalls
<1>7. (Idle <=> Idle') /\ (Granted <=> Granted') /\ ~Clear
  BY <1>1, <1>2 DEF Idle, Granted, Clear
<1>8. \A t : (Awaits(t) <=> Awaits(t)') /\ (Asks(t) <=> Asks(t)')
  BY <1>1 DEF Awaits, Asks
<1>9. Append(<<>>, m) = <<m>> /\ \A k : Append(<<k>>, m) = <<k, m>>
  BY AppendShort
<1>10. \A k : InFlight(k) => InFlight(k)'
  BY <1>1, <1>2, <1>9 DEF InFlight
<1>11. \A l, k : Behind(l, k) => Behind(l, k)'
  BY <1>1, <1>2, <1>9 DEF Behind
<1>12. Flow'
  BY <1>1, <1>7, <1>8, <1>10, <1>11 DEF IInv, Flow
<1>13. Sessions'
  BY <1>1, <1>7 DEF IInv, Sessions
<1>14. Reply'
  BY <1>1, <1>2 DEF IInv, Reply
<1>15. InStep'
  <2> SUFFICES ASSUME ad.phase = "up", nd.phase = "up" PROVE InStep'
    BY <1>1 DEF InStep
  <2>1. Asking \/ Acquiring \/ Abandoning
    BY <1>2, <1>7 DEF IInv, InStep, Resting, Asking, Offered, Proving, Acquiring, Answered,
                      Abandoning, Settled
  <2>2. ad' = ad /\ actor' = actor
    BY <1>1
  <2>3. Asking => Asking'
    BY <1>2, <1>7, <1>8, <1>10, <1>11, <2>2 DEF Asking
  <2>4. Acquiring => Acquiring'
    BY <1>2, <1>7, <1>8, <1>10, <2>2 DEF Acquiring
  <2>5. Abandoning => Abandoning'
    BY <1>2, <1>7, <1>8, <1>10, <2>2 DEF Abandoning
  <2> QED BY <2>1, <2>3, <2>4, <2>5 DEF InStep
<1> QED BY <1>4, <1>5, <1>6, <1>12, <1>13, <1>14, <1>15 DEF IInv

\* A node that has given up the link drops what is left in its queue.
LEMMA RefuseStep ==
    ASSUME IInv, nd.phase # "up", inq # <<>>, Refuse, UNCHANGED <<actor, ad, denied>>
    PROVE  IInv'
<1>1. nd' = nd /\ UNCHANGED <<cmds, answers, registered, deferred, lost, errors>> /\ net' = net
  BY DEF Refuse
<1>2. replies' = replies
  BY <1>1, SameNet
<1>3. AdShape' /\ Denial'
  BY SameAdapter
<1>4. NdShape'
  BY <1>1, SameNode
<1>5. Calls' /\ Registrations' /\ NoProtocolErrors'
  BY <1>1, SameCalls
<1>6. Flow' /\ InStep'
  BY <1>1 DEF Flow, InStep
<1>7. Sessions'
  BY <1>1 DEF IInv, Sessions, Clear
<1>8. Reply'
  BY <1>2 DEF IInv, Reply
<1> QED BY <1>3, <1>4, <1>5, <1>6, <1>7, <1>8 DEF IInv

\* What a queue that is not empty begins with.
LEMMA QueueHead ==
    ASSUME inq # <<>>
    PROVE  /\ ~Clear
           /\ \A m : inq = <<m>> => Head(inq) = m /\ Tail(inq) = <<>>
           /\ \A m : InFlight(m) => Head(inq) = m /\ Tail(inq) = <<>> /\ requests = {}
           /\ \A m, k : Behind(m, k) =>
                /\ Head(inq) = m
                /\ \/ Tail(inq) = <<>> /\ requests = {k}
                   \/ Tail(inq) = <<k>> /\ requests = {}
<1>1. \A m : Head(<<m>>) = m /\ Tail(<<m>>) = <<>>
  OBVIOUS
<1>2. \A m, k : Head(<<m, k>>) = m /\ Tail(<<m, k>>) = <<k>>
  OBVIOUS
<1> QED BY <1>1, <1>2 DEF Clear, InFlight, Behind

\* The node takes a message only on the adapter's own link.
LEMMA SameSession ==
    ASSUME IInv, ~Clear \/ ~Idle
    PROVE  ad.sess = nd.sess /\ ad.sess \in Nat
  BY DEF IInv, Sessions, AdShape, NdShape

\* Nothing is lost on the way to Start: the node is idle and makes its offer.
LEMMA StartRemoteStep ==
    ASSUME IInv, start_remote PROVE IInv'
<1>1. /\ inq # <<>> /\ Head(inq).type = "Start" /\ inq' = Tail(inq)
      /\ UNCHANGED <<actor, ad, denied>>
  BY DEF start_remote, Takes
<1>2. CASE nd.phase # "up"
  <2>1. Refuse
    BY <1>2 DEF start_remote
  <2> QED BY <1>1, <1>2, <2>1, RefuseStep
<1>3. CASE nd.phase = "up"
  <2>1. PICK t \in TxnIds : Idle /\ InFlight(Start(t))
    BY <1>1, <1>3, QueueHead, MsgFields DEF IInv, Flow
  <2>2. Head(inq) = Start(t) /\ Tail(inq) = <<>> /\ requests = {} /\ ~Clear
    BY <1>1, <2>1, QueueHead
  <2>3. nd.remote_txn = "none" /\ nd.addrs = {} /\ Taken.txn = t
    BY <2>1, <2>2, MsgFields DEF Idle, Taken
  <2>4. /\ nd' = [nd EXCEPT !.generation = @ + 1, !.state = "AwaitingEvidence",
                            !.remote_txn = t, !.challenge = TRUE]
        /\ net' = net \cup {Offer(t)}
        /\ UNCHANGED <<calls, errors>>
    BY <1>3, <2>3 DEF start_remote, Offer
  <2>5. /\ DOMAIN nd' = NdFields /\ nd'.phase = "up" /\ nd'.sess = nd.sess
        /\ nd'.generation = nd.generation + 1 /\ nd'.state = "AwaitingEvidence"
        /\ nd'.remote_txn = t /\ nd'.addrs = {}
    BY <1>3, <2>3, <2>4, Domains DEF NdFields
  <2>6. requests' = {} /\ replies' = replies \cup {Offer(t)}
    BY <2>2, <2>4, MsgFields, SendReply
  <2>7. Clear' /\ Awaits(t)'
    BY <1>1, <2>2, <2>5, <2>6 DEF Clear, Awaits
  <2>8. UNCHANGED <<cmds, answers, registered, deferred, lost>>
    BY <2>4 DEF calls
  <2>9. ad.sess = nd.sess /\ ad.sess \in Nat
    BY <2>2, SameSession
  <2>10. ad.phase = "up" => /\ ad.worker = "offer" /\ ad.waiting /\ ad.txn = t /\ replies = {}
    <3> SUFFICES ASSUME ad.phase = "up"
                 PROVE  ad.worker = "offer" /\ ad.waiting /\ ad.txn = t /\ replies = {}
      OBVIOUS
    <3>1. Asking
      BY <1>1, <1>3, <2>1, <2>2, QueueHead, MsgFields
         DEF IInv, InStep, Resting, Asking, Offered, Proving, Acquiring, Answered, Abandoning,
             Settled, Idle, Awaits, Asks
    <3>2. InFlight(Start(ad.txn))
      BY <2>1, <3>1 DEF Asking, Idle, Awaits
    <3> QED BY <1>1, <2>2, <3>1, <3>2, QueueHead, MsgFields DEF Asking
  <2>11. AdShape' /\ Denial'
    BY <1>1, SameAdapter
  <2>12. NdShape'
    BY <2>5, <2>7, <2>9 DEF NdShape, Phases
  <2>13. Flow'
    BY <2>7 DEF Flow
  <2>14. Sessions'
    BY <1>1, <2>5, <2>9 DEF Sessions
  <2>15. Reply'
    BY <1>1, <2>6, <2>10 DEF Reply
  <2>16. InStep'
    <3>1. ad.phase = "up" => Offered'
      BY <1>1, <2>6, <2>7, <2>10 DEF Offered
    <3> QED BY <1>1, <3>1 DEF InStep
  <2>17. Calls'
    BY <1>1, <2>5, <2>8 DEF IInv, Calls, vs
  <2>18. Registrations'
    BY <1>1, <2>3, <2>8, Cared, StillCared
  <2>19. NoProtocolErrors'
    BY <2>4 DEF IInv, NoProtocolErrors
  <2> QED BY <2>11, <2>12, <2>13, <2>14, <2>15, <2>16, <2>17, <2>18, <2>19 DEF IInv
<1> QED BY <1>2, <1>3

\* An Abandon finds the node waiting for the evidence of that attempt.
LEMMA AbandonRemoteStep ==
    ASSUME IInv, abandon_remote PROVE IInv'
<1>1. /\ inq # <<>> /\ Head(inq).type = "Abandon" /\ inq' = Tail(inq)
      /\ UNCHANGED <<actor, ad, denied>>
  BY DEF abandon_remote, Takes
<1>2. CASE nd.phase # "up"
  <2>1. Refuse
    BY <1>2 DEF abandon_remote, AwaitsEvidence
  <2> QED BY <1>1, <1>2, <2>1, RefuseStep
<1>3. CASE nd.phase = "up"
  <2>1. PICK t \in TxnIds : /\ Awaits(t)
                            /\ \/ InFlight(Abandon(t))
                               \/ \E u \in TxnIds : Behind(Abandon(t), Start(u))
    BY <1>1, <1>3, QueueHead, MsgFields DEF IInv, Flow
  <2>2. Head(inq) = Abandon(t) /\ ~Clear
    BY <1>1, <2>1, QueueHead
  <2>3. nd.state = "AwaitingEvidence" /\ nd.remote_txn = t /\ nd.addrs = {} /\ Taken.txn = t
    BY <2>1, <2>2, MsgFields DEF Awaits, Taken
  <2>4. /\ nd' = [nd EXCEPT !.remote_txn = "none", !.challenge = FALSE, !.state = "WaitingForLink"]
        /\ net' = net /\ UNCHANGED <<calls, errors>>
    BY <1>3, <2>3 DEF abandon_remote, AwaitsEvidence
  <2>5. /\ DOMAIN nd' = NdFields /\ nd'.phase = "up" /\ nd'.sess = nd.sess
        /\ nd'.generation = nd.generation /\ nd'.state = "WaitingForLink"
        /\ nd'.remote_txn = "none" /\ nd'.addrs = {}
    BY <1>3, <2>3, <2>4, Domains DEF NdFields
  <2>6. requests' = requests /\ replies' = replies
    BY <2>4, SameNet
  <2>7. Idle'
    BY <2>5 DEF Idle
  <2>8. InFlight(Abandon(t)) => Clear'
    BY <1>1, <2>6, QueueHead DEF Clear
  <2>9. \A u : Behind(Abandon(t), Start(u)) => InFlight(Start(u))'
    BY <1>1, <2>6, QueueHead DEF InFlight
  <2>10. UNCHANGED <<cmds, answers, registered, deferred, lost>>
    BY <2>4 DEF calls
  <2>11. ad.sess = nd.sess /\ ad.sess \in Nat
    BY <2>2, SameSession
  <2>12. AdShape' /\ Denial'
    BY <1>1, SameAdapter
  <2>13. NdShape'
    BY <2>5, <2>7, <2>11 DEF NdShape, Phases
  <2>14. Flow'
    BY <2>1, <2>7, <2>8, <2>9 DEF Flow
  <2>15. Sessions'
    BY <1>1, <2>5, <2>11 DEF Sessions
  <2>16. Reply'
    BY <1>1, <2>6 DEF IInv, Reply
  <2>17. InStep'
    <3> SUFFICES ASSUME ad.phase = "up" PROVE InStep'
      BY <1>1 DEF InStep
    <3>1. Resting \/ Asking \/ Abandoning
      BY <1>1, <1>3, <2>1, <2>2, QueueHead, MsgFields
         DEF IInv, InStep, Resting, Asking, Offered, Proving, Acquiring, Answered, Abandoning,
             Settled
    <3>2. CASE Resting
      <4>1. PICK u \in TxnIds : inq = <<Abandon(u)>> /\ requests = {}
        BY <2>2, <3>2 DEF Resting
      <4>2. Clear'
        BY <1>1, <2>6, <4>1, QueueHead DEF Clear
      <4> QED BY <1>1, <2>6, <2>7, <3>2, <4>2 DEF Resting, InStep
    <3>3. CASE Asking
      <4>1. PICK v : ad.txn = v
        OBVIOUS
      <4>2. PICK u \in TxnIds : Awaits(u) /\ Behind(Abandon(u), Start(v))
        BY <2>1, <3>3, <4>1 DEF Asking, Awaits, Idle
      <4>3. u = t
        BY <2>1, <4>2 DEF Awaits
      <4>4. InFlight(Start(v))'
        BY <2>9, <4>2, <4>3
      <4> QED BY <1>1, <2>6, <2>7, <3>3, <4>1, <4>4 DEF Asking, InStep
    <3>4. CASE Abandoning
      <4>1. PICK v : ad.txn = v
        OBVIOUS
      <4>2. Awaits(v) /\ InFlight(Abandon(v))
        BY <2>2, <3>4, <4>1 DEF Abandoning
      <4>3. v = t
        BY <2>1, <4>2 DEF Awaits
      <4>4. Clear'
        BY <2>8, <4>2, <4>3
      <4> QED BY <1>1, <2>6, <2>7, <3>4, <4>4 DEF Abandoning, InStep
    <3> QED BY <3>1, <3>2, <3>3, <3>4
  <2>18. Calls'
    BY <1>1, <2>5, <2>10 DEF IInv, Calls, vs
  <2>19. Registrations'
    BY <1>1, <2>3, <2>10, Cared, StillCared
  <2>20. NoProtocolErrors'
    BY <2>4 DEF IInv, NoProtocolErrors
  <2> QED BY <2>12, <2>13, <2>14, <2>15, <2>16, <2>17, <2>18, <2>19, <2>20 DEF IInv
<1> QED BY <1>2, <1>3

\* The node answers the request of an attempt: nothing else is on its way.
LEMMA FinishStep ==
    ASSUME IInv, NEW t \in TxnIds, NEW status \in Statuses, NEW addrs \in SUBSET Addrs,
           Fits(status, addrs), nd.phase = "up", nd.addrs = {}, ~Idle,
           Finish(t, status, addrs), inq' = <<>>, requests = {}, UNCHANGED <<actor, ad, denied>>,
           ad.phase = "up" =>
             ad.worker = "grant" /\ ad.waiting /\ ad.txn = t /\ replies = {}
    PROVE  /\ AdShape' /\ NdShape' /\ Flow' /\ Sessions' /\ Reply' /\ InStep' /\ Denial'
           /\ nd'.addrs = addrs /\ nd'.generation = nd.generation
<1>1. nd' = finished(nd, status, addrs) /\ net' = net \cup {Grant(t, status, addrs)}
  BY DEF Finish, Grant
<1>2. /\ DOMAIN nd' = NdFields /\ nd'.phase = "up" /\ nd'.sess = nd.sess
      /\ nd'.generation = nd.generation /\ nd'.remote_txn = "none"
      /\ nd'.state = (IF status = "Success" THEN "Authorized" ELSE "WaitingForLink")
      /\ nd'.addrs = addrs
  BY <1>1, Domains DEF NdFields, finished
<1>3. requests' = {} /\ replies' = replies \cup {Grant(t, status, addrs)}
  BY <1>1, MsgFields, SendReply
<1>4. Clear' /\ GrantOf(status, addrs)'
  BY <1>2, <1>3 DEF Clear, GrantOf, Granted, Idle, Fits
<1>5. ad.sess = nd.sess /\ ad.sess \in Nat
  BY SameSession
<1>6. AdShape' /\ Denial'
  BY SameAdapter
<1>7. NdShape'
  BY <1>2, <1>4, <1>5 DEF NdShape, Phases, GrantOf
<1>8. Flow'
  BY <1>4 DEF Flow
<1>9. Sessions'
  BY <1>2, <1>5 DEF Sessions
<1>10. Reply'
  BY <1>3 DEF Reply
<1>11. InStep'
  <2>1. ad.phase = "up" => Answered'
    BY <1>3, <1>4 DEF Answered
  <2> QED BY <2>1 DEF InStep
<1> QED BY <1>2, <1>6, <1>7, <1>8, <1>9, <1>10, <1>11

\* Evidence finds the node waiting for it.
LEMMA AcquireRemoteStep ==
    ASSUME IInv, acquire_remote PROVE IInv'
<1>1. /\ inq # <<>> /\ Head(inq).type = "Acquire" /\ inq' = Tail(inq)
      /\ UNCHANGED <<actor, ad, denied>>
  BY DEF acquire_remote, Takes
<1>2. CASE nd.phase # "up"
  <2>1. Refuse
    BY <1>2 DEF acquire_remote, AcceptsEvidence, AwaitsEvidence
  <2> QED BY <1>1, <1>2, <2>1, RefuseStep
<1>3. CASE nd.phase = "up"
  <2>1. PICK t \in TxnIds, A \in SUBSET Addrs :
          Awaits(t) /\ Cardinality(A) <= 1 /\ InFlight(Acquire(t, A))
    BY <1>1, <1>3, QueueHead, MsgFields DEF IInv, Flow
  <2>2. Head(inq) = Acquire(t, A) /\ Tail(inq) = <<>> /\ requests = {} /\ ~Clear
    BY <1>1, <2>1, QueueHead
  <2>3. /\ nd.state = "AwaitingEvidence" /\ nd.remote_txn = t /\ nd.addrs = {}
        /\ Taken.txn = t /\ Taken.addrs = A /\ ~Idle
    BY <2>1, <2>2, MsgFields DEF Awaits, Idle, Taken
  <2>4. AcceptsEvidence
    BY <1>3, <2>1, <2>3 DEF AcceptsEvidence, AwaitsEvidence, parse_acquire_zpr_address_request
  <2>5. ad.phase = "up" => /\ ad.worker = "grant" /\ ad.waiting /\ ad.txn = t /\ replies = {}
    <3> SUFFICES ASSUME ad.phase = "up"
                 PROVE  ad.worker = "grant" /\ ad.waiting /\ ad.txn = t /\ replies = {}
      OBVIOUS
    <3>1. Acquiring
      BY <1>1, <1>3, <2>1, <2>2, QueueHead, MsgFields
         DEF IInv, InStep, Resting, Asking, Offered, Proving, Acquiring, Answered, Abandoning,
             Settled
    <3>2. Awaits(ad.txn)
      BY <2>2, <3>1 DEF Acquiring
    <3> QED BY <2>1, <3>1, <3>2 DEF Acquiring, Awaits
  <2>6. CASE Finish(t, "Rejected", {}) /\ UNCHANGED <<calls, errors>>
    <3>1. UNCHANGED <<cmds, answers, registered, deferred, lost>>
      BY <2>6 DEF calls
    <3>2. /\ AdShape' /\ NdShape' /\ Flow' /\ Sessions' /\ Reply' /\ InStep' /\ Denial'
          /\ nd'.addrs = {} /\ nd'.generation = nd.generation
      <4>1. "Rejected" \in Statuses /\ {} \in SUBSET Addrs /\ Fits("Rejected", {})
        BY DEF Statuses, Fits
      <4> QED BY <1>1, <1>3, <2>2, <2>3, <2>5, <2>6, <4>1, FinishStep
    <3>3. Calls'
      BY <1>1, <3>1, <3>2 DEF IInv, Calls, vs
    <3>4. Registrations'
      BY <1>1, <2>3, <3>1, Cared, StillCared
    <3>5. NoProtocolErrors'
      BY <2>6 DEF IInv, NoProtocolErrors
    <3> QED BY <3>2, <3>3, <3>4, <3>5 DEF IInv
  <2>7. CASE /\ vs /\ A # {} /\ deferred' = A /\ Finish(t, "Success", A)
             /\ UNCHANGED <<cmds, answers, registered, lost, errors>>
    <3>1. Fits("Success", A) /\ "Success" \in Statuses
      <4>1. Cardinality(A) \in Nat /\ Cardinality(A) # 0
        BY <2>7, OneAddress
      <4> QED BY <2>1, <4>1 DEF Fits, Statuses
    <3>2. /\ AdShape' /\ NdShape' /\ Flow' /\ Sessions' /\ Reply' /\ InStep' /\ Denial'
          /\ nd'.generation = nd.generation
      BY <1>1, <1>3, <2>2, <2>3, <2>5, <2>7, <3>1, FinishStep
    <3>3. Calls'
      BY <1>1, <2>7, <3>2 DEF IInv, Calls, vs
    <3>4. Registrations'
      BY <1>1, <2>7, StillCared
    <3>5. NoProtocolErrors'
      BY <2>7 DEF IInv, NoProtocolErrors
    <3> QED BY <3>2, <3>3, <3>4, <3>5 DEF IInv
  <2>8. CASE /\ nd' = [nd EXCEPT !.state = "Authorizing", !.challenge = FALSE]
             /\ cmds' = Append(cmds, [cmd |-> "authorize_connect", sess |-> nd.sess,
                                      generation |-> nd.generation, txn |-> t])
             /\ net' = net /\ UNCHANGED <<answers, registered, deferred, lost, errors>>
    <3>1. /\ DOMAIN nd' = NdFields /\ nd'.phase = "up" /\ nd'.sess = nd.sess
          /\ nd'.generation = nd.generation /\ nd'.state = "Authorizing"
          /\ nd'.remote_txn = t /\ nd'.addrs = {}
      BY <1>3, <2>3, <2>8, Domains DEF NdFields
    <3>2. requests' = {} /\ replies' = replies
      BY <2>2, <2>8, SameNet
    <3>3. Clear' /\ Asks(t)'
      BY <1>1, <2>2, <3>1, <3>2 DEF Clear, Asks
    <3>4. ad.sess = nd.sess /\ ad.sess \in Nat
      BY <2>2, SameSession
    <3>5. AdShape' /\ Denial'
      BY <1>1, SameAdapter
    <3>6. NdShape'
      BY <3>1, <3>3, <3>4 DEF NdShape, Phases
    <3>7. Flow'
      BY <3>3 DEF Flow
    <3>8. Sessions'
      BY <1>1, <3>1, <3>4 DEF Sessions
    <3>9. Reply'
      BY <1>1, <3>2 DEF IInv, Reply
    <3>10. InStep'
      <4>1. ad.phase = "up" => Acquiring'
        BY <1>1, <2>5, <3>2, <3>3 DEF Acquiring
      <4> QED BY <1>1, <4>1 DEF InStep
    <3>11. cmds' \in Seq(Command) /\ Deregisters(cmds) \subseteq Deregisters(cmds')
      <4>1. cmds \in Seq(Command) /\ nd.sess \in Nat /\ nd.generation \in Nat
        BY DEF IInv, Calls, NdShape
      <4>2. [cmd |-> "authorize_connect", sess |-> nd.sess,
             generation |-> nd.generation, txn |-> t] \in Command
        BY <4>1 DEF Command
      <4> QED BY <2>8, <4>1, <4>2, DeregistersMore
    <3>12. Calls'
      BY <1>1, <2>8, <3>1, <3>11 DEF IInv, Calls, vs
    <3>13. Registrations'
      BY <1>1, <2>3, <2>8, <3>11, Cared, StillCared
    <3>14. NoProtocolErrors'
      BY <2>8 DEF IInv, NoProtocolErrors
    <3> QED BY <3>5, <3>6, <3>7, <3>8, <3>9, <3>10, <3>12, <3>13, <3>14 DEF IInv
  <2> QED BY <2>3, <2>4, <2>6, <2>7, <2>8 DEF acquire_remote
<1> QED BY <1>2, <1>3

-----------------------------------------------------------------------------
(* The run loop and the tasks that call the visa service.                  *)

\* What the visa service, or nobody, answers to a call.
LEMMA AnswerFields ==
    ASSUME NEW c, c.txn \in TxnIds, NEW result \in Statuses, NEW addr,
           result = "Success" => addr \in Addrs \cup {"invalid"}
    PROVE  /\ AnswerOK(Answer(c, result, addr)) /\ Answer(c, result, addr).result = result
           /\ Answer(c, result, addr).addr = addr
  BY DEF Answer, AnswerOK

\* A command is taken from the queue.
LEMMA TakeCommand ==
    ASSUME IInv, cmds # <<>>, cmds' = Tail(cmds)
    PROVE  /\ cmds' \in Seq(Command) /\ Head(cmds) \in Command
           /\ \A a \in Deregisters(cmds) :
                a \in Deregisters(cmds') \/ (Head(cmds).cmd = "notify_disconnect" /\ a = Head(cmds).addr)
<1>1. cmds \in Seq(Command)
  BY DEF IInv, Calls
<1> QED BY <1>1, DeregistersLess

\* A call that authorizes has its transaction.
LEMMA CommandFields ==
    ASSUME NEW c \in Command
    PROVE  /\ c.cmd = "authorize_connect" => c.txn \in TxnIds
           /\ c.cmd = "notify_disconnect" => c.addr \in Addrs \cup {"invalid"}
  BY DEF Command

\* The run loop passes on a command.
LEMMA RunLoopStep ==
    ASSUME IInv, RunLoop PROVE IInv'
<1> DEFINE c == Head(cmds)
<1>1. /\ cmds # <<>> /\ cmds' = Tail(cmds)
      /\ UNCHANGED <<actor, ad, nd, net, inq, deferred, denied, errors>>
  BY DEF RunLoop
<1>2. /\ cmds' \in Seq(Command) /\ c \in Command
      /\ \A a \in Deregisters(cmds) :
           a \in Deregisters(cmds') \/ (c.cmd = "notify_disconnect" /\ a = c.addr)
  BY <1>1, TakeCommand
<1>3. AdShape' /\ NdShape' /\ Flow' /\ Sessions' /\ Reply' /\ InStep' /\ Denial'
  BY <1>1, SameProtocol
<1>4. NoProtocolErrors'
  BY <1>1 DEF IInv, NoProtocolErrors
<1>5. /\ nd.generation \in Nat /\ actor \in Actors /\ (~vs => deferred = {})
      /\ \A r \in answers : AnswerOK(r)
  BY DEF IInv, Calls
<1> HIDE DEF c
<1>6. ASSUME c.cmd = "authorize_connect", NEW addr \in Addrs \cup {"invalid"},
             registered' = registered \cup {addr}, lost' = lost \ {addr},
             answers' = answers \cup {Answer(c, "Success", addr)}
      PROVE  Calls' /\ Registrations'
  <2>1. /\ AnswerOK(Answer(c, "Success", addr))
        /\ Answer(c, "Success", addr).result = "Success" /\ Answer(c, "Success", addr).addr = addr
    BY <1>2, <1>6, AnswerFields, CommandFields DEF Statuses
  <2>2. Calls'
    BY <1>1, <1>2, <1>5, <1>6, <2>1 DEF Calls, vs
  <2>3. Registrations'
    BY <1>1, <1>2, <1>6, <2>1, Cared, StillCared
  <2> QED BY <2>2, <2>3
<1>7. ASSUME c.cmd = "authorize_connect", NEW status \in {"Rejected", "Retryable"},
             answers' = answers \cup {Answer(c, status, "none")}, UNCHANGED <<registered, lost>>
      PROVE  Calls' /\ Registrations'
  <2>1. AnswerOK(Answer(c, status, "none"))
    BY <1>2, <1>7, AnswerFields, CommandFields DEF Statuses
  <2>2. Calls'
    BY <1>1, <1>2, <1>5, <1>7, <2>1 DEF Calls, vs
  <2>3. Registrations'
    BY <1>1, <1>2, <1>7, Cared, StillCared
  <2> QED BY <2>2, <2>3
<1>8. CASE /\ c.cmd = "notify_disconnect" /\ registered' = registered \ {c.addr}
           /\ UNCHANGED <<answers, lost>>
  <2>1. Calls'
    BY <1>1, <1>2, <1>5, <1>8 DEF Calls, vs
  <2>2. Registrations'
    BY <1>1, <1>2, <1>8, Cared, StillCared
  <2> QED BY <1>3, <1>4, <2>1, <2>2 DEF IInv
<1>9. CASE \/ \E addr \in Addrs \cup {"invalid"} :
                /\ c.cmd = "authorize_connect"
                /\ registered' = registered \cup {addr} /\ lost' = lost \ {addr}
                /\ answers' = answers \cup {Answer(c, "Success", addr)}
           \/ \E status \in {"Rejected", "Retryable"} :
                /\ c.cmd = "authorize_connect"
                /\ answers' = answers \cup {Answer(c, status, "none")}
                /\ UNCHANGED <<registered, lost>>
  <2>1. Calls' /\ Registrations'
    BY <1>6, <1>7, <1>9
  <2> QED BY <1>3, <1>4, <2>1 DEF IInv
<1> QED BY <1>8, <1>9 DEF RunLoop, c

\* A command fails, and nobody knows what has become of it.
LEMMA CommandFailsStep ==
    ASSUME IInv, CommandFails PROVE IInv'
<1> DEFINE c == Head(cmds)
<1>1. /\ cmds # <<>> /\ cmds' = Tail(cmds)
      /\ UNCHANGED <<actor, ad, nd, net, inq, deferred, denied, errors>>
  BY DEF CommandFails
<1>2. /\ cmds' \in Seq(Command) /\ c \in Command
      /\ \A a \in Deregisters(cmds) :
           a \in Deregisters(cmds') \/ (c.cmd = "notify_disconnect" /\ a = c.addr)
  BY <1>1, TakeCommand
<1>3. AdShape' /\ NdShape' /\ Flow' /\ Sessions' /\ Reply' /\ InStep' /\ Denial'
  BY <1>1, SameProtocol
<1>4. NoProtocolErrors'
  BY <1>1 DEF IInv, NoProtocolErrors
<1>5. /\ nd.generation \in Nat /\ actor \in Actors /\ (~vs => deferred = {})
      /\ \A r \in answers : AnswerOK(r)
  BY DEF IInv, Calls
<1> HIDE DEF c
<1>6. ASSUME c.cmd = "authorize_connect", NEW addrs,
             registered' = registered \cup addrs, lost' = lost \cup addrs,
             answers' = answers \cup {Answer(c, "Retryable", "none")}
      PROVE  IInv'
  <2>1. AnswerOK(Answer(c, "Retryable", "none"))
    BY <1>2, <1>6, AnswerFields, CommandFields DEF Statuses
  <2>2. Calls'
    BY <1>1, <1>2, <1>5, <1>6, <2>1 DEF Calls, vs
  <2>3. Registrations'
    BY <1>1, <1>2, <1>6, Cared, StillCared
  <2> QED BY <1>3, <1>4, <2>2, <2>3 DEF IInv
<1>7. CASE /\ c.cmd = "notify_disconnect" /\ lost' = lost \cup {c.addr}
           /\ UNCHANGED <<answers, registered>>
  <2>1. Calls'
    BY <1>1, <1>2, <1>5, <1>7 DEF Calls, vs
  <2>2. Registrations'
    BY <1>1, <1>2, <1>7, Cared, StillCared
  <2> QED BY <1>3, <1>4, <2>1, <2>2 DEF IInv
<1> QED BY <1>6, <1>7 DEF CommandFails, c

\* The deferred registration of the visa service's own adapter is made.
LEMMA SendDeferredStep ==
    ASSUME IInv, SendDeferred PROVE IInv'
<1>1. /\ deferred # {} /\ deferred' = {}
      /\ UNCHANGED <<actor, ad, nd, net, inq, cmds, answers, lost, denied, errors>>
  BY DEF SendDeferred
<1>2. AdShape' /\ NdShape' /\ Flow' /\ Sessions' /\ Reply' /\ InStep' /\ Denial'
  BY <1>1, SameProtocol
<1>3. vs
  BY <1>1 DEF IInv, Calls
<1>4. Calls'
  BY <1>1 DEF IInv, Calls, vs
<1>5. Registrations'
  BY <1>1, <1>3, StillCared
<1>6. NoProtocolErrors'
  BY <1>1 DEF IInv, NoProtocolErrors
<1> QED BY <1>2, <1>4, <1>5, <1>6 DEF IInv

\* An answer of the session that waits for one: the link is up, and the grant
\* is the next message on it.
LEMMA CurrentAnswer ==
    ASSUME IInv, NEW r, Current(r)
    PROVE  /\ nd.phase = "up" /\ nd.addrs = {} /\ ~Idle /\ inq = <<>> /\ requests = {}
           /\ ad.phase = "up" =>
                ad.worker = "grant" /\ ad.waiting /\ ad.txn = r.txn /\ replies = {}
<1>1. nd.state = "Authorizing" /\ nd.remote_txn = r.txn
  BY DEF Current
<1>2. nd.phase = "up" /\ nd.addrs = {} /\ ~Idle
  BY <1>1 DEF IInv, NdShape, Idle, Granted, Awaits, Asks
<1>3. Clear
  BY <1>1, <1>2 DEF IInv, Flow, Idle, Awaits
<1>4. ASSUME ad.phase = "up"
      PROVE  ad.worker = "grant" /\ ad.waiting /\ ad.txn = r.txn /\ replies = {}
  <2>1. Acquiring
    BY <1>1, <1>2, <1>4 DEF IInv, InStep, Resting, Asking, Offered, Proving, Acquiring, Answered,
                            Abandoning, Settled, Idle, Awaits, Asks, Granted, GrantOf
  <2> QED BY <1>1, <2>1 DEF Acquiring, Awaits, Asks
<1> QED BY <1>2, <1>3, <1>4 DEF Clear

\* A task reads its answer.
LEMMA AuthorizationResultStep ==
    ASSUME IInv, NEW r \in answers, authorization_result(r) PROVE IInv'
<1>1. UNCHANGED <<actor, ad, inq, registered, deferred, lost, denied, errors>>
  BY DEF authorization_result
<1>2. /\ cmds \in Seq(Command) /\ nd.generation \in Nat /\ actor \in Actors
      /\ (~vs => deferred = {})
      /\ \A s \in answers : AnswerOK(s)
  BY DEF IInv, Calls
<1>3. NoProtocolErrors'
  BY <1>1 DEF IInv, NoProtocolErrors
<1>4. ASSUME r.result = "Success", cmds' = Append(cmds, Disconnect(r.addr)), UNCHANGED <<nd, net>>,
             answers \ {r} \subseteq answers',
             \A s \in answers' : AnswerOK(s)
      PROVE  IInv'
  <2>1. /\ Disconnect(r.addr) \in Command /\ Disconnect(r.addr).cmd = "notify_disconnect"
        /\ Disconnect(r.addr).addr = r.addr
    BY <1>2, <1>4 DEF AnswerOK, Disconnect, Command
  <2>2. /\ cmds' \in Seq(Command) /\ Deregisters(cmds) \subseteq Deregisters(cmds')
        /\ r.addr \in Deregisters(cmds')
    BY <1>2, <1>4, <2>1, DeregistersMore
  <2>3. AdShape' /\ NdShape' /\ Flow' /\ Sessions' /\ Reply' /\ InStep' /\ Denial'
    BY <1>1, <1>4, SameProtocol
  <2>4. Calls'
    BY <1>1, <1>2, <1>4, <2>2 DEF Calls, vs
  <2>5. Registrations'
    BY <1>1, <1>4, <2>2, Cared, StillCared
  <2> QED BY <1>3, <2>3, <2>4, <2>5 DEF IInv
<1>5. CASE UnwantedSuccess(r)
  BY <1>2, <1>4, <1>5 DEF UnwantedSuccess
<1>6. CASE InvalidSuccess(r)
  <2> DEFINE s == [r EXCEPT !.result = "Retryable", !.addr = "none"]
  <2>1. AnswerOK(s)
    BY <1>2 DEF AnswerOK, Statuses
  <2>2. answers' = (answers \ {r}) \cup {s}
    BY <1>6 DEF InvalidSuccess
  <2> HIDE DEF s
  <2> QED BY <1>2, <1>4, <1>6, <2>1, <2>2 DEF InvalidSuccess
<1>7. CASE WantedSuccess(r)
  <2>1. /\ r.result = "Success" /\ Current(r) /\ r.addr # "invalid" /\ answers' = answers \ {r}
        /\ Finish(r.txn, "Success", {r.addr}) /\ cmds' = cmds
    BY <1>7 DEF WantedSuccess
  <2>2. r.addr \in Addrs /\ r.txn \in TxnIds
    BY <1>2, <2>1 DEF AnswerOK
  <2>3. Fits("Success", {r.addr}) /\ "Success" \in Statuses
    <3>1. Cardinality({r.addr}) = 1
      BY FS_Singleton
    <3> QED BY <3>1 DEF Fits, Statuses
  <2>4. /\ nd.phase = "up" /\ nd.addrs = {} /\ ~Idle /\ inq = <<>> /\ requests = {}
        /\ ad.phase = "up" =>
             ad.worker = "grant" /\ ad.waiting /\ ad.txn = r.txn /\ replies = {}
    BY <2>1, CurrentAnswer
  <2>5. /\ AdShape' /\ NdShape' /\ Flow' /\ Sessions' /\ Reply' /\ InStep' /\ Denial'
        /\ nd'.addrs = {r.addr} /\ nd'.generation = nd.generation
    <3>1. {r.addr} \in SUBSET Addrs
      BY <2>2
    <3> QED BY <1>1, <2>1, <2>2, <2>3, <2>4, <3>1, FinishStep
  <2>6. Calls'
    BY <1>1, <1>2, <2>1, <2>5 DEF Calls, vs
  <2>7. Registrations'
    BY <1>1, <2>1, <2>4, <2>5, Cared, StillCared
  <2> QED BY <1>3, <2>5, <2>6, <2>7 DEF IInv
<1>8. CASE Failure(r)
  <2>1. r.result \in {"Rejected", "Retryable"} /\ answers' = answers \ {r} /\ cmds' = cmds
    BY <1>2, <1>8 DEF Failure, AnswerOK, Statuses
  <2>2. /\ AdShape' /\ NdShape' /\ Flow' /\ Sessions' /\ Reply' /\ InStep' /\ Denial'
        /\ nd'.addrs = nd.addrs /\ nd'.generation = nd.generation
    <3>1. CASE Current(r)
      <4>1. Finish(r.txn, r.result, {})
        BY <1>8, <3>1 DEF Failure
      <4>2. Fits(r.result, {}) /\ r.result \in Statuses /\ r.txn \in TxnIds
        BY <1>2, <2>1 DEF AnswerOK, Fits
      <4>3. /\ nd.phase = "up" /\ nd.addrs = {} /\ ~Idle /\ inq = <<>> /\ requests = {}
            /\ ad.phase = "up" =>
                 ad.worker = "grant" /\ ad.waiting /\ ad.txn = r.txn /\ replies = {}
        BY <3>1, CurrentAnswer
      <4>4. {} \in SUBSET Addrs
        OBVIOUS
      <4>5. /\ AdShape' /\ NdShape' /\ Flow' /\ Sessions' /\ Reply' /\ InStep' /\ Denial'
            /\ nd'.addrs = {} /\ nd'.generation = nd.generation
        BY <1>1, <4>1, <4>2, <4>3, <4>4, FinishStep
      <4> QED BY <4>3, <4>5
    <3>2. CASE ~Current(r)
      <4>1. UNCHANGED <<nd, net>>
        BY <1>8, <3>2 DEF Failure
      <4> QED BY <1>1, <4>1, SameProtocol
    <3> QED BY <3>1, <3>2
  <2>3. Calls'
    BY <1>1, <1>2, <2>1, <2>2 DEF Calls, vs
  <2>4. Registrations'
    BY <1>1, <2>1, <2>2, Cared, StillCared
  <2> QED BY <1>3, <2>2, <2>3, <2>4 DEF IInv
<1> QED BY <1>5, <1>6, <1>7, <1>8 DEF authorization_result

-----------------------------------------------------------------------------
(* The theorems.                                                           *)

\* Every step keeps the invariant.
LEMMA NextIInv == ASSUME IInv, [Next]_vars PROVE IInv'
<1>1. CASE UNCHANGED vars
  <2>1. UNCHANGED <<actor, ad, nd, net, inq, cmds, answers, registered, deferred, lost, denied, errors>>
    BY <1>1 DEF vars, calls
  <2>2. AdShape' /\ NdShape' /\ Flow' /\ Sessions' /\ Reply' /\ InStep' /\ Denial'
    BY <2>1, SameProtocol
  <2>3. Calls' /\ Registrations' /\ NoProtocolErrors'
    BY <2>1, SameCalls
  <2> QED BY <2>2, <2>3 DEF IInv
<1>2. CASE NodeReady
  BY <1>2, NodeReadyStep
<1>3. CASE link_ready
  BY <1>3, LinkReadyStep
<1>4. CASE \E phase \in Phases : AdapterDown(phase) \/ NodeDown(phase)
  BY <1>4, AdapterDownAction, NodeDownStep
<1>5. CASE StartAttempt
  BY <1>5, StartAttemptStep
<1>6. CASE OfferReceived
  BY <1>6, OfferStep
<1>7. CASE Authenticated
  BY <1>7, AuthenticatedStep
<1>8. CASE Abandoned
  BY <1>8, AbandonedStep
<1>9. CASE GrantReceived
  BY <1>9, GrantStep
<1>10. CASE \E m \in net : deliver_reply(m)
  BY <1>10, DeliverStep
<1>11. CASE \E m \in net : Arrive(m)
  BY <1>11, ArriveStep
<1>12. CASE start_remote
  BY <1>12, StartRemoteStep
<1>13. CASE abandon_remote
  BY <1>13, AbandonRemoteStep
<1>14. CASE acquire_remote
  BY <1>14, AcquireRemoteStep
<1>15. CASE RunLoop
  BY <1>15, RunLoopStep
<1>16. CASE CommandFails
  BY <1>16, CommandFailsStep
<1>17. CASE \E r \in answers : authorization_result(r)
  BY <1>17, AuthorizationResultStep
<1>18. CASE SendDeferred
  BY <1>18, SendDeferredStep
<1> QED BY <1>1, <1>2, <1>3, <1>4, <1>5, <1>6, <1>7, <1>8, <1>9, <1>10, <1>11, <1>12, <1>13,
           <1>14, <1>15, <1>16, <1>17, <1>18 DEF Next

\* The invariant holds in every reachable state.
THEOREM ActorAuthInvariance == Spec => []IInv
<1>1. Init => IInv
  BY InitIInv
<1>2. IInv /\ [Next]_vars => IInv'
  BY NextIInv
<1> QED BY <1>1, <1>2, PTL DEF Spec

\* An adapter that believes it is authorized is so at the node, with the same
\* address, as long as the node has not given up the link; and it has an
\* address, on its TUN or in its tables, only while its own link is up: neither
\* a late grant nor an attempt that outlives its link can part the two.
THEOREM AdapterAndNodeAgree == Spec => []AgreedAddress
<1>1. IInv => AgreedAddress
  <2> SUFFICES ASSUME IInv PROVE AgreedAddress
    OBVIOUS
  <2>1. ad.addrs # {} \/ ad.tun # {} => ad.phase = "up"
    BY DEF IInv, AdShape
  <2>2. ASSUME ad.state = "Authorized", nd.phase = "up"
        PROVE  nd.state = "Authorized" /\ nd.addrs = ad.addrs
    <3>1. ad.phase = "up" /\ ad.worker = "none"
      BY <2>2 DEF IInv, AdShape, StateOf
    <3>2. Settled
      BY <2>2, <3>1 DEF IInv, InStep, Resting, Asking, Offered, Proving, Acquiring, Answered,
                        Abandoning, Settled
    <3> QED BY <3>2 DEF Settled, Granted
  <2> QED BY <2>1, <2>2 DEF AgreedAddress
<1> QED BY <1>1, ActorAuthInvariance, PTL

\* Every registration at the visa service is the one the node's link holds, or
\* somebody is on the way to deregister it, unless a call failed: however a
\* link ends while the visa service is being asked.
THEOREM NoRegistrationIsOrphaned == Spec => []NoOrphanedRegistration
<1>1. IInv => NoOrphanedRegistration
  BY DEF IInv, Registrations, Deregisters, NoOrphanedRegistration
<1> QED BY <1>1, ActorAuthInvariance, PTL

\* No handler of either end refuses a message of the other while its own link
\* is up, in whatever order the messages of an attempt, of the one before it
\* and the answers of the visa service arrive.
THEOREM NothingIsRefused == Spec => []NoProtocolErrors
<1>1. IInv => NoProtocolErrors
  BY DEF IInv
<1> QED BY <1>1, ActorAuthInvariance, PTL

\* After a denial no step starts another authentication.
LEMMA DeniedStartsNothing ==
    ASSUME IInv, [Next]_vars, denied PROVE attempts' = attempts
<1>1. ad.worker \notin {"spawned", "backoff"}
  BY DEF IInv, Denial
<1>2. ~StartAttempt
  BY <1>1 DEF StartAttempt
<1>3. CASE UNCHANGED vars
  BY <1>3 DEF vars
<1>4. CASE NodeReady \/ link_ready \/ \E phase \in Phases : AdapterDown(phase) \/ NodeDown(phase)
  BY <1>4 DEF NodeReady, link_ready, AdapterDown, NodeDown
<1>5. CASE OfferReceived \/ Authenticated \/ Abandoned \/ GrantReceived
  BY <1>5 DEF OfferReceived, Authenticated, Abandoned, GrantReceived, Fail
<1>6. CASE (\E m \in net : deliver_reply(m)) \/ (\E m \in net : Arrive(m))
  BY <1>6 DEF deliver_reply, Arrive
<1>7. CASE start_remote \/ abandon_remote \/ acquire_remote
  BY <1>7 DEF start_remote, abandon_remote, acquire_remote
<1>8. CASE RunLoop \/ CommandFails \/ SendDeferred \/ \E r \in answers : authorization_result(r)
  BY <1>8 DEF RunLoop, CommandFails, SendDeferred, authorization_result
<1> QED BY <1>2, <1>3, <1>4, <1>5, <1>6, <1>7, <1>8 DEF Next

\* After an explicit denial the adapter starts no further authentication, on
\* this link or on a later one, even when the link is lost while it abandons
\* the one that was denied.
THEOREM DenialStays == Spec => DenialIsFinal
<1>1. IInv /\ [Next]_vars => [denied => attempts' = attempts]_vars
  BY DeniedStartsNothing
<1> QED BY <1>1, ActorAuthInvariance, PTL DEF Spec, DenialIsFinal

=============================================================================
