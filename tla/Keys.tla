-------------------------------- MODULE Keys --------------------------------
(***************************************************************************)
(* Keying a link: the key managers at its two ends (km.rs, km_noise.rs),   *)
(* the signal workers that store what they agree on and restart them when  *)
(* they fail (km_multiplexor.rs), and the ends of the link, which may be   *)
(* dropped and started again at any time.                                  *)
(*                                                                         *)
(* "A", the adapter, initiates; "N", the node, responds.  A handshake has  *)
(* three messages, sent in the clear and not by ZDPR: they may be lost,    *)
(* duplicated and reordered.  The key managers run on threads of their     *)
(* own; the signal worker and drop_link share one LocalSet.                *)
(***************************************************************************)
EXTENDS Naturals, Sequences, SequencesExt

CONSTANTS
    Certs,          \* what a node may present: "verified", "unverified", "none", "mismatch"
    Authority,      \* whether the adapter has an authority certificate
    QueueSize,      \* km_link_queue_size
    MaxFaults,      \* bound: messages lost or duplicated, timeouts that come
                    \* early, certificates that are not the node's verified one
    MaxCloses,      \* bound: links that are closed for reasons of their own
    MaxDraws,       \* bound: handshakes; one is always possible, unless the
                    \* adapter is stuck and tries for ever (see EventuallyUp)
    MaxAgain        \* bound: those before a link is started again although the
                    \* adapter's peer has kept something of an earlier one

ASSUME KeysAssumption ==
    /\ "verified" \in Certs /\ Authority \in BOOLEAN
    /\ QueueSize \in Nat \ {0} /\ {MaxFaults, MaxCloses, MaxDraws, MaxAgain} \subseteq Nat

Ends == {"A", "N"}
Other(e) == IF e = "A" THEN "N" ELSE "A"

VARIABLES
    km,             \* the key managers
    inq,            \* messages for them that have been received
    net,            \* messages on their way
    sigs,           \* signals of the key managers
    status,         \* ErrorStatus of the signal workers
    sa,             \* the security associations stored in the peer tables
    link,           \* the links' states
    heard,          \* the adapter's zdpr_recv has taken packet 0 of a node's peer
    owed,           \* its zdpr_send holds a terminate that was not acknowledged
    draws,          \* random values drawn so far
    faults, closes  \* against MaxFaults and MaxCloses

zdpr == <<heard, owed>>
vars == <<km, inq, net, sigs, status, sa, link, zdpr, draws, faults, closes>>

-----------------------------------------------------------------------------
(* The Noise XX state machine (KmNoise).                                   *)

\* st: KmSMState, or "None" where there is no key manager; nr: msg_nr;
\* hs: the transcript so far; timer: hs_sent_t is set; skey, rkey: the HMAC
\* keys; cert: peer_cert; restart: restart_request; canceled: its token.
new_km(id) ==
    [id |-> id, st |-> "Configuring", nr |-> 0, hs |-> <<>>, timer |-> FALSE,
     skey |-> 0, rkey |-> 0, cert |-> "none", restart |-> FALSE, canceled |-> FALSE]

no_km == [new_km(0) EXCEPT !.st = "None"]

message(to, nr, hs, key, cert) == [to |-> to, nr |-> nr, hs |-> hs, key |-> key, cert |-> cert]

\* Mutant of reset: the first message is not timed.
reset_untimed(e, k, draw) ==
    [k EXCEPT !.st = "Configuring", !.nr = IF e = "A" THEN 1 ELSE 0,
              !.hs = IF e = "A" THEN <<draw>> ELSE <<>>,
              !.timer = FALSE, !.rkey = draw, !.skey = 0, !.restart = FALSE]

\* A fresh HMAC key, which also stands for the ephemeral key; the keys and the
\* certificate of the peer are left as they were.
reset(e, k, draw) ==
    [k EXCEPT !.st = "Configuring", !.nr = IF e = "A" THEN 1 ELSE 0,
              !.hs = IF e = "A" THEN <<draw>> ELSE <<>>,
              !.timer = (e = "A"), !.rkey = draw, !.skey = 0, !.restart = FALSE]

first_message(e, draw) ==
    IF e = "A" THEN {message("N", 1, <<draw>>, 0, "none")} ELSE {}

msg_carries_zpi_payload(nr) == nr \in {1, 2}

\* Mutant of read_message: the last message may be of an earlier handshake.
read_any_last_message(k, m) ==
    \/ k.nr = 0
    \/ k.nr = 1 /\ m.nr = 2 /\ Front(m.hs) = k.hs
    \/ k.nr = 2 /\ m.nr = 3

\* Whether Noise can read a message.  The first is neither encrypted nor
\* authenticated, so that any message will do; the others belong to the
\* transcript of one handshake.
read_message(k, m) ==
    \/ k.nr = 0
    \/ k.nr = 1 /\ m.nr = 2 /\ Front(m.hs) = k.hs
    \/ k.nr = 2 /\ m.nr = 3 /\ m.hs = k.hs

parse_km_payload(k, m) == [k EXCEPT !.skey = m.key, !.cert = m.cert]

\* Mutant of payload_accepted: only a certificate that is there is judged.
accepted_without_cert(e, m) ==
    /\ m.cert # "mismatch"
    /\ e = "A" /\ Authority => m.cert # "unverified"

\* process_payload and the checks that follow it.
payload_accepted(e, m) ==
    /\ m.cert # "mismatch"
    /\ e = "A" /\ Authority => m.cert = "verified"

\* A handshake does not end without the keys of the peer.
keys_received(k, m) ==
    k.nr # 0 => IF msg_carries_zpi_payload(k.nr) THEN m.key # 0 ELSE k.skey # 0

\* After a message: the transcript, and the timer if an answer is sent that
\* does not end the handshake.
advanced(e, k, m) ==
    LET p == IF msg_carries_zpi_payload(k.nr) THEN parse_km_payload(k, m) ELSE k
    IN  CASE k.nr = 0 -> [p EXCEPT !.nr = 2, !.hs = Append(m.hs, k.rkey), !.timer = TRUE]
          [] k.nr = 1 -> [p EXCEPT !.nr = 3, !.hs = m.hs, !.timer = FALSE, !.st = "Transport"]
          [] k.nr = 2 -> [p EXCEPT !.nr = 3, !.timer = FALSE, !.st = "Transport"]

answers(e, k, cert) ==
    CASE k.nr = 2 /\ k.st = "Configuring" -> {message("A", 2, k.hs, k.rkey, cert)}
      [] e = "A" /\ k.st = "Transport" -> {message("N", 3, k.hs, k.rkey, "none")}
      [] OTHER -> {}

\* A failure after the certificate was looked at leaves it behind.
handle_message(e, k, m) ==
    IF k.st # "Configuring" THEN k
    ELSE IF /\ read_message(k, m)
            /\ msg_carries_zpi_payload(k.nr) => payload_accepted(e, m)
            /\ keys_received(k, m)
    THEN advanced(e, k, m)
    ELSE LET p == IF read_message(k, m) /\ m.cert # "mismatch"
                  THEN parse_km_payload(k, m) ELSE k
         IN  [p EXCEPT !.st = "Error", !.timer = FALSE]

-----------------------------------------------------------------------------
(* The key manager's loop (KeyManager::start).                             *)

Init ==
    /\ km = [e \in Ends |-> no_km] /\ inq = [e \in Ends |-> <<>>]
    /\ net = {} /\ sigs = [e \in Ends |-> <<>>]
    /\ status = [e \in Ends |-> [count |-> 0, due |-> FALSE]]
    /\ sa = [e \in Ends |-> {}]
    /\ link = [e \in Ends |-> IF e = "A" THEN "Inactive" ELSE "Absent"]
    /\ heard = FALSE /\ owed = FALSE
    /\ draws = 0 /\ faults = 0 /\ closes = 0

Fault == faults < MaxFaults /\ faults' = faults + 1

\* get_transport_state: what the two ends have agreed on.
association(k) == [km |-> k.id, hs |-> k.hs, skey |-> k.skey, rkey |-> k.rkey, cert |-> k.cert]

\* The signals of a transition; SaIdChange goes with SaEstablished.
handle_state_transition(old, new) ==
    IF old.st = new.st THEN <<>>
    ELSE CASE new.st = "Transport" -> <<[kind |-> "SaEstablished", sa |-> association(new)]>>
           [] new.st = "Error" -> <<[kind |-> "Error"]>>
           [] OTHER -> <<>>

\* The key manager of an end becomes k.
KmBecomes(e, k) ==
    /\ km' = [km EXCEPT ![e] = k]
    /\ sigs' = [sigs EXCEPT ![e] = @ \o handle_state_transition(km[e], k)]
    /\ UNCHANGED <<status, sa, link, zdpr, closes>>

\* The loop may still choose a message when it has been told to stop.
dispatch_km_message(e) ==
    /\ km[e].st # "None" /\ inq[e] # <<>>
    /\ inq' = [inq EXCEPT ![e] = Tail(@)]
    /\ LET k == handle_message(e, km[e], Head(inq[e]))
       IN  /\ KmBecomes(e, k)
           /\ IF k = km[e] THEN UNCHANGED <<net, faults>>
              ELSE \E cert \in Certs :
                     /\ net' = net \cup answers(e, k, cert)
                     /\ IF cert = "verified" THEN UNCHANGED faults
                        ELSE e = "N" /\ answers(e, k, cert) # {} /\ Fault
    /\ UNCHANGED draws

\* Nothing is underway: every message has arrived and been handled, no end is
\* about to restart its key manager or to drop its link.
Idle ==
    /\ net = {}
    /\ \A e \in Ends : /\ inq[e] = <<>> /\ sigs[e] = <<>>
                       /\ ~status[e].due /\ ~km[e].restart
                       /\ link[e] \notin {"Inactive", "Closing", "Dropping"}

\* The two ends can talk.
shared == \E a \in sa["A"], n \in sa["N"] : a.hs = n.hs

\* The adapter's peer outlives its link, and what it has heard over an earlier
\* one makes duplicates of the first packets of the node's next peer.
worn == heard /\ link["A"] # "Active"

\* A link whose hello (LINK_HELLO_TIMEOUT, of an adapter) or keep-alive is not
\* answered.  A keep-alive is answered by its acknowledgement, a hello is not.
unanswered(e) ==
    \/ link[e] = "Active" /\ ~shared
    \/ e = "A" /\ link[e] = "Helloing" /\ (~shared \/ worn)

\* A handshake times out after 15 seconds, a hello or a keep-alive after 3, and
\* key managers are restarted after a few: it comes when all that is over, or
\* else counts as a fault.
Patience ==
    IF Idle /\ \A e \in Ends : ~unanswered(e) THEN UNCHANGED faults ELSE Fault

\* tick of the state machine, HANDSHAKE_TIMEOUT after the last message sent.
HandshakeTimeout(e) ==
    /\ km[e].st = "Configuring" /\ km[e].timer /\ Patience
    /\ KmBecomes(e, [km[e] EXCEPT !.st = "Error", !.timer = FALSE])
    /\ UNCHANGED <<inq, net, draws>>

\* tick_statemachine of a key manager that has been asked to restart.
tick_statemachine(e) ==
    /\ km[e].st = "Error" /\ km[e].restart /\ draws < MaxDraws
    /\ draws' = draws + 1
    /\ KmBecomes(e, reset(e, km[e], draws + 1))
    /\ net' = net \cup first_message(e, draws + 1)
    /\ UNCHANGED <<inq, faults>>

\* The token is canceled: the last signal is Termination.
Terminate(e) ==
    /\ km[e].canceled
    /\ km' = [km EXCEPT ![e] = no_km] /\ inq' = [inq EXCEPT ![e] = <<>>]
    /\ sigs' = [sigs EXCEPT ![e] = Append(@, [kind |-> "Termination"])]
    /\ UNCHANGED <<net, status, sa, link, zdpr, draws, faults, closes>>

-----------------------------------------------------------------------------
(* The signal worker (launch_signal_worker).                               *)

present(e) == link[e] # "Absent"

\* Names that a verified certificate carries are not modelled here.
process_keying_done(l) == IF l = "Keying" THEN "Helloing" ELSE l

\* SaIdChange and SaEstablished: the association is stored, and the link told.
SaEstablished(e, a) ==
    /\ status' = [status EXCEPT ![e] = [count |-> 0, due |-> FALSE]]
    /\ sa' = [sa EXCEPT ![e] = IF present(e) THEN {a} ELSE {}]
    /\ link' = [link EXCEPT ![e] = process_keying_done(@)]

launch_signal_worker(e) ==
    /\ sigs[e] # <<>>
    /\ sigs' = [sigs EXCEPT ![e] = Tail(@)]
    /\ LET s == Head(sigs[e])
       IN  \/ s.kind = "SaEstablished" /\ SaEstablished(e, s.sa)
          \/ /\ s.kind = "Error"
             /\ status' = [status EXCEPT ![e] = [count |-> @.count + 1, due |-> TRUE]]
             /\ UNCHANGED <<sa, link>>
          \/ /\ s.kind = "Termination"
             /\ status' = [status EXCEPT ![e] = [count |-> 0, due |-> FALSE]]
             /\ UNCHANGED <<sa, link>>
    /\ UNCHANGED <<km, inq, net, zdpr, draws, faults, closes>>

\* KeyManager::restart of the link's key manager, which still has its handle.
restart(e) ==
    /\ status[e].due /\ km[e].st # "None" /\ ~km[e].canceled
    /\ IF km[e].st = "Error"
       THEN /\ km' = [km EXCEPT ![e].restart = TRUE]
            /\ status' = [status EXCEPT ![e].due = FALSE]
       ELSE /\ status' = [status EXCEPT ![e].count = @ + 1]
            /\ UNCHANGED km
    /\ UNCHANGED <<inq, net, sigs, sa, link, zdpr, draws, faults, closes>>

-----------------------------------------------------------------------------
(* The link.                                                               *)

\* add_adapter_link and add_node_link: a key manager is made and started.
add_link(e) ==
    /\ draws' = draws + 1
    /\ km' = [km EXCEPT ![e] = reset(e, new_km(draws + 1), draws + 1)]
    /\ link' = [link EXCEPT ![e] = "Keying"]

\* The adapter starts, or its hold-down is over.
Start ==
    /\ link["A"] = "Inactive" /\ (heard \/ owed => draws < MaxAgain) /\ add_link("A")
    /\ net' = net \cup first_message("A", draws + 1)
    /\ UNCHANGED <<inq, sigs, status, sa, zdpr, faults, closes>>

\* A link with an association takes no message in the clear.
decrypt(e) == sa[e] = {}

\* The queue of the link's key manager, which may be full, or gone.
handle_inbound_km_msg(e, m) ==
    IF km[e].st = "None" \/ km[e].canceled \/ Len(inq[e]) = QueueSize
    THEN inq ELSE [inq EXCEPT ![e] = Append(@, m)]

\* Messages of key management are sent in the clear.
handle_key_management(e, m) == IF decrypt(e) THEN handle_inbound_km_msg(e, m) ELSE inq

\* A message arrives; a node makes a link for a peer that it does not know.
Receive(m, lasts) ==
    LET e == m.to
    IN  /\ net' = IF lasts THEN net ELSE net \ {m}
        /\ IF lasts THEN Fault ELSE UNCHANGED faults
        /\ IF e = "N" /\ ~present(e)
           THEN /\ add_link(e) /\ inq' = [inq EXCEPT ![e] = <<m>>]
           ELSE /\ inq' = handle_key_management(e, m)
                /\ UNCHANGED <<km, link, draws>>
        /\ UNCHANGED <<sigs, status, sa, zdpr, closes>>

Lose(m) == Fault /\ net' = net \ {m}
           /\ UNCHANGED <<km, inq, sigs, status, sa, link, zdpr, draws, closes>>

\* The adapter's hello reaches the node, or its answer, packet 0 of the node's
\* peer, the adapter.
Hello(e) ==
    /\ shared /\ link[e] = "Helloing"
    /\ link[Other(e)] = IF e = "N" THEN "Helloing" ELSE "Active"
    /\ e = "A" => ~heard
    /\ link' = [link EXCEPT ![e] = "Active"]
    /\ heard' = (heard \/ e = "A")
    /\ UNCHANGED <<km, inq, net, sigs, status, sa, owed, draws, faults, closes>>

Running == {"Keying", "Helloing", "Active"}

\* initiate_close up to the terminate, which a peer that has the keys hears; or
\* it is lost, or it is a duplicate to an adapter that is worn and too new to
\* the node after many links of such an adapter.  The adapter's is repeated for
\* ever (zdpr_worker) unless it is acknowledged, and the node, which drops its
\* keys, may not get to do that.
close(e) ==
    \/ /\ shared /\ link[Other(e)] \in Running
       /\ link' = [d \in Ends |-> "Closing"]
       /\ heard' = (heard \/ e = "N") /\ owed' \in IF e = "A" THEN BOOLEAN ELSE {owed}
       /\ UNCHANGED faults
    \/ /\ link' = [link EXCEPT ![e] = "Closing"]
       /\ owed' = (owed \/ e = "A") /\ UNCHANGED heard
       /\ IF shared /\ link[Other(e)] \in Running /\ ~worn THEN Fault ELSE UNCHANGED faults

\* The link is closed, by an operator or an error.
Close(e) ==
    /\ link[e] \in Running /\ closes < MaxCloses /\ closes' = closes + 1
    /\ close(e)
    /\ UNCHANGED <<km, inq, net, sigs, status, sa, draws>>

Timeout(e) ==
    /\ unanswered(e) /\ Idle /\ close(e)
    /\ UNCHANGED <<km, inq, net, sigs, status, sa, draws, closes>>

\* The adapter's zdpr_worker repeats what an earlier link still owes, over the
\* keys of this one: a hello that the node does not expect, upon which it closes
\* the link, or a terminate.
Repeat ==
    /\ owed /\ shared /\ link["N"] \in Running /\ owed' = FALSE
    /\ \/ /\ link["A"] \in Running /\ link' = [d \in Ends |-> "Closing"] /\ heard' = TRUE
       \/ link' = [link EXCEPT !["N"] = "Closing"] /\ UNCHANGED heard
    /\ UNCHANGED <<km, inq, net, sigs, status, sa, draws, faults, closes>>

\* The adapter's process ends, and another one starts at the same address.
Crash ==
    /\ link["A"] \in Running /\ closes < MaxCloses /\ closes' = closes + 1
    /\ km' = [km EXCEPT !["A"] = no_km] /\ inq' = [inq EXCEPT !["A"] = <<>>]
    /\ sigs' = [sigs EXCEPT !["A"] = <<>>] /\ sa' = [sa EXCEPT !["A"] = {}]
    /\ status' = [status EXCEPT !["A"] = [count |-> 0, due |-> FALSE]]
    /\ link' = [link EXCEPT !["A"] = "Inactive"]
    /\ heard' = FALSE /\ owed' = FALSE
    /\ UNCHANGED <<net, draws, faults>>

\* drop_link, up to where it waits for the key manager.
drop_link(e) ==
    /\ link[e] = "Closing"
    /\ link' = [link EXCEPT ![e] = "Dropping"]
    /\ sa' = [sa EXCEPT ![e] = {}]
    /\ km' = [km EXCEPT ![e].canceled = (km[e].st # "None")]
    /\ UNCHANGED <<inq, net, sigs, status, zdpr, draws, faults, closes>>

\* The rest of drop_link, and complete_close.  The signals of a key manager
\* wake the worker before its end wakes drop_link.
Dropped(e) ==
    /\ link[e] = "Dropping" /\ km[e].st = "None" /\ sigs[e] = <<>>
    /\ link' = [link EXCEPT ![e] = IF e = "A" THEN "Inactive" ELSE "Absent"]
    /\ sa' = IF e = "A" THEN sa ELSE [sa EXCEPT ![e] = {}]
    /\ UNCHANGED <<km, inq, net, sigs, status, zdpr, draws, faults, closes>>

Progress ==
    \/ \E e \in Ends :
         \/ dispatch_km_message(e) \/ HandshakeTimeout(e) \/ tick_statemachine(e)
         \/ Terminate(e) \/ launch_signal_worker(e) \/ restart(e)
         \/ Hello(e) \/ Timeout(e) \/ drop_link(e) \/ Dropped(e)
    \/ Start \/ Repeat
    \/ \E m \in net : Receive(m, FALSE)

Next ==
    \/ Progress
    \/ \E m \in net : Receive(m, TRUE) \/ Lose(m)
    \/ \E e \in Ends : Close(e)
    \/ Crash

Spec == Init /\ [][Next]_vars

\* Tasks are polled, timers expire and messages arrive, unless they are lost.
FairSpec == Spec /\ WF_vars(Progress)

-----------------------------------------------------------------------------
(* Properties.                                                             *)

\* The two ends never believe in different keys: whatever is lost, repeated,
\* delayed, dropped and started again, when both have an association it comes
\* from one handshake, and each sends with the key that the other expects.
KeysAgree ==
    \A a \in sa["A"], n \in sa["N"] :
        a.hs = n.hs /\ a.skey = n.rkey /\ n.skey = a.rkey

stale(e) == \E a \in sa[e] : a.km # km[e].id

\* A link that says hello does so with the keys of its own key manager; and an
\* adapter that has an authority does so with a node that has just shown the
\* certificate it vouches for, not with one that took its place.
KeyedIsSound ==
    \A e \in Ends : link[e] \in {"Helloing", "Active"} =>
        /\ sa[e] # {} /\ ~stale(e)
        /\ e = "A" /\ Authority => \A a \in sa[e] : a.cert = "verified"

up == shared /\ \A e \in Ends : link[e] = "Active"

\* Nothing is left to bring an adapter up whose worker stored an association
\* after drop_link had cleared it, or a node that waits for the hello of an
\* adapter that has started again: an end that has an association takes no more
\* key management messages, and neither has a timeout.
stuck == stale("A") \/ (link["N"] = "Helloing" /\ ~shared)

\* Once nothing goes wrong any more the link comes up for good, with shared
\* keys, however handshakes were cut off, repeated and timed out before.  It need
\* not do so where one of the ends is stuck, nor under an adapter that for ever
\* restarts its link with what its peer has kept of earlier ones: an answer to
\* its hello that it takes for a duplicate, or a terminate that it repeats.
EventuallyUp == <>[](up \/ stuck) \/ []<>(worn \/ owed)

\* A hello that does not come is not waited for for ever.
HelloTimesOut == link["N"] = "Helloing" ~> link["N"] # "Helloing"

=============================================================================
