----------------------------- MODULE LinkState ------------------------------
(***************************************************************************)
(* The life of one encrypted link (link_state.rs), from the insertion of   *)
(* its peer to its removal: the state machine, its timeout with the        *)
(* logical clock, the tasks it spawns, and what it holds while it is up    *)
(* (key manager and security association, AAA address, TUN carrier, actor  *)
(* authorization).                                                         *)
(*                                                                         *)
(* All of it runs in one LocalSet, so a handler runs to its end; what the  *)
(* handlers spawn or wait for is an action of its own, which finds the     *)
(* link in whatever state it is by then.  Internal links are always up and *)
(* node-to-node links are refused by the code; neither is modelled.        *)
(***************************************************************************)
EXTENDS Integers

CONSTANTS
    MaxClock,       \* bound: the logical clock up to which a link starts, and
                    \* an active one sends keep-alives
    MaxEvents       \* bound: closes, resets, errors and terminates from outside

ASSUME LinkStateAssumption == MaxClock \in Nat /\ MaxEvents \in Nat

VARIABLES
    link,           \* what the link is: [type, vs, pool]
    lk,             \* its state
    events          \* events from outside so far

vars == <<link, lk, events>>

LinkTypes == {"AdapterToNode", "NodeToAdapter"}
States == {"Inactive", "Keying", "Helloing", "Disconnecting", "Closing",
           "Resetting", "Active", "Error"}

\* vs: the peer's certificate names it the visa service's adapter, on a node
\* with a VSConn;
\* pool: the node has been given an AAA pool.
Links == {l \in [type : LinkTypes, vs : BOOLEAN, pool : BOOLEAN] :
            l.vs \/ l.pool => l.type = "NodeToAdapter"}

Adapter == link.type = "AdapterToNode"

\* The state machine:
\*   state, up (LinkStatus), ready, clock, echo (echo_handle), shutting_down;
\*   timers: the timeout callbacks that may be invoked, by logical clock.
\* What the link holds:
\*   km: a key manager; sa: the security association; aaa: aaa_address;
\*   installed: installed_aaa; tun: an address it put on the TUN; carrier: the
\*   TUN's; auth: actor_auth was told link_ready; reserved: AAA addresses of
\*   the node's pool that were allocated for it.
\* The tasks it has spawned, or that report to it:
\*   drops: drop_link that has yet to run; joins: drop_link that waits for the
\*   key manager to end; terms: await the acknowledgement of a terminate;
\*   stops: VSConn::stop; restarts: hold-downs; echoes: keep-alives; signals:
\*   SaEstablished on its way from the key manager.
\* present: the peer is in the peer table; special: as the visa service's.
new_link ==
    [state |-> "Inactive", up |-> FALSE, ready |-> FALSE, clock |-> 0,
     echo |-> FALSE, shutting_down |-> FALSE, timers |-> {},
     km |-> FALSE, sa |-> FALSE, aaa |-> FALSE, installed |-> FALSE, tun |-> FALSE,
     carrier |-> FALSE, auth |-> FALSE, reserved |-> 0,
     drops |-> 0, joins |-> 0, terms |-> 0, stops |-> 0, restarts |-> 0,
     echoes |-> 0, signals |-> 0,
     present |-> TRUE, special |-> FALSE]

Init == link \in Links /\ lk = new_link /\ events = 0

-----------------------------------------------------------------------------
(* LinkStateMachine.                                                       *)

\* A timeout that is canceled may still be invoked, but its clock is past.
cancel_timeout(s) == [s EXCEPT !.clock = @ + 1]

set_state(s, state) ==
    [cancel_timeout(s) EXCEPT !.state = state, !.ready = s.up /\ state = "Active"]

set_timeout(s) ==
    LET t == cancel_timeout(s) IN [t EXCEPT !.timers = @ \cup {t.clock}]

-----------------------------------------------------------------------------
(* Closing.                                                                *)

\* Mutant of continue_close: only the acknowledgement is waited for.
continue_close_untimed(s) ==
    [set_state(s, "Closing") EXCEPT !.auth = FALSE, !.terms = @ + 1]

\* Closing with a timeout, and a terminate for the peer to acknowledge.
continue_close(s) ==
    [set_timeout(set_state(s, "Closing")) EXCEPT !.auth = FALSE, !.terms = @ + 1]

\* initiate_close and maybe_disconnect_visa_service_client: the link of the
\* visa service waits for VSConn to stop first.
initiate_close(s, reason) ==
    LET t == [s EXCEPT !.shutting_down = @ \/ reason = "Shutdown"]
    IN  IF s.special THEN [set_state(t, "Disconnecting") EXCEPT !.stops = @ + 1]
                   ELSE continue_close(t)

\* Mutant of clean_up_link_state: only links in Closing are cleaned up, but
\* all are dropped.
clean_up_closing(s) ==
    IF s.state \notin {"Closing", "Resetting"} THEN s
    ELSE [s EXCEPT !.auth = FALSE,
                   !.reserved = IF link.pool /\ s.aaa /\ s.state = "Closing" THEN @ - 1 ELSE @,
                   !.tun = @ /\ ~(s.aaa /\ s.installed),
                   !.aaa = FALSE, !.installed = FALSE,
                   !.carrier = @ /\ ~Adapter,
                   !.drops = @ + 1]

\* The link gives up what it holds, but for the keys, which drop_link drops.
clean_up_link_state(s) ==
    IF s.state \notin {"Closing", "Resetting"} THEN s
    ELSE [s EXCEPT !.auth = FALSE,
                   !.reserved = IF link.pool /\ s.aaa THEN @ - 1 ELSE @,
                   !.tun = @ /\ ~(s.aaa /\ s.installed),
                   !.aaa = FALSE, !.installed = FALSE,
                   !.carrier = @ /\ ~Adapter,
                   !.drops = @ + 1]

\* complete_close, on CloseDone: a node's link, or one that was reset, is
\* removed; an adapter's starts again later, unless the adapter shuts down.
complete_close(s) ==
    CASE s.state = "Resetting" \/ (s.state = "Closing" /\ ~Adapter) ->
           [s EXCEPT !.present = FALSE]
      [] s.state = "Closing" /\ Adapter ->
           IF s.shutting_down THEN [set_state(s, "Inactive") EXCEPT !.present = FALSE]
           ELSE [set_state(s, "Inactive") EXCEPT !.restarts = @ + 1]
      [] OTHER -> s

-----------------------------------------------------------------------------
(* Bringing the link up.                                                   *)

\* The link does s, and nothing else happens.
Becomes(s) == lk' = s /\ UNCHANGED <<link, events>>

\* process_start: the tether is new, or the hold-down is over.  By then the
\* tasks that cleaned up have ended: all they wait for is a key manager that
\* was told to stop, and the hold-down takes seconds.
process_start ==
    /\ lk.present /\ lk.state = "Inactive" /\ lk.clock <= MaxClock
    /\ lk.drops + lk.joins + lk.signals = 0
    /\ Becomes([set_state([lk EXCEPT !.up = TRUE], "Keying") EXCEPT
                  !.km = TRUE, !.restarts = IF @ > 0 THEN @ - 1 ELSE 0])

\* A restart that finds the link gone or running.
StartIgnored ==
    /\ lk.restarts > 0 /\ (~lk.present \/ lk.state # "Inactive")
    /\ Becomes([lk EXCEPT !.restarts = @ - 1])

\* The key manager has agreed on keys, for the first time or again.
SaEstablished ==
    /\ lk.km /\ lk.signals = 0
    /\ Becomes([lk EXCEPT !.signals = 1])

\* The signal worker stores the association and reports KeyingDone.  The peer
\* gets its special name; an adapter says hello, and waits for the answer.
process_keying_done ==
    /\ lk.signals > 0
    /\ LET s == [lk EXCEPT !.signals = @ - 1, !.sa = lk.present]
           t == set_state([s EXCEPT !.special = link.vs], "Helloing")
       IN  Becomes(IF ~lk.present \/ lk.state # "Keying" THEN s
                   ELSE IF Adapter THEN set_timeout(t) ELSE t)

\* Entering Active aborts a keep-alive that is left from earlier.
run_active(s) ==
    [set_timeout(set_state(s, "Active")) EXCEPT !.echo = FALSE, !.echoes = 0]

\* The event is one of those that are bounded.
Counted == events < MaxEvents /\ events' = events + 1

\* The node's answer: an AAA address if it has a pool, or the visa service's
\* link; else it is closed.
process_hello_request(s) ==
    IF ~link.pool /\ ~s.special THEN initiate_close(s, "Other")
    ELSE run_active([s EXCEPT !.aaa = link.pool,
                              !.reserved = IF link.pool THEN @ + 1 ELSE @])

\* A hello that does not parse, is of another protocol or is out of place is
\* an error, on which the management processor closes the link.  (For the
\* one out of place see Close.)
handle_hello_request ==
    /\ lk.present /\ ~Adapter /\ lk.state = "Helloing"
    /\ \E has_actor_auth_protocol \in BOOLEAN :
         Becomes(IF has_actor_auth_protocol THEN process_hello_request(lk)
                 ELSE initiate_close(lk, "Other"))

\* The address may be on the TUN already, and either TUN operation may fail.
process_hello_response(s, r, exists, fails) ==
    LET a == [s EXCEPT !.aaa = r.aaa = 1]
        t == IF a.aaa THEN [a EXCEPT !.tun = @ \/ ~exists, !.installed = ~exists] ELSE a
    IN  CASE ~r.success \/ (r.aaa = 0 /\ ~r.vs_bootstrap) -> initiate_close(s, "Other")
          [] OTHER -> IF a.aaa /\ fails = "address" THEN initiate_close(a, "Other")
                      ELSE IF fails = "carrier" THEN initiate_close(t, "Other")
                      ELSE run_active([t EXCEPT !.carrier = TRUE, !.auth = TRUE])

\* protocol: the node's is ours; aaa: how many AAA addresses there are.
HelloResponses ==
    [success : BOOLEAN, protocol : BOOLEAN, aaa : 0..2, vs_bootstrap : BOOLEAN]

\* Refused before the link's state machine sees it.
bad_hello_response(r) == ~r.protocol \/ r.aaa > 1

handle_hello_response ==
    /\ lk.present /\ Adapter /\ lk.state = "Helloing"
    /\ \E r \in HelloResponses, exists \in BOOLEAN, fails \in {"no", "address", "carrier"} :
         Becomes(IF bad_hello_response(r) THEN initiate_close(lk, "Other")
                 ELSE process_hello_response(lk, r, exists, fails))

-----------------------------------------------------------------------------
(* Timeouts and keep-alives.                                               *)

\* Whether a timeout that was set at clock c is still meant.
heeds(s, c) == s.present /\ c = s.clock

\* A heeded timeout: the adapter's hello was not answered, a keep-alive is
\* due or was not answered, or a terminate was not.
timed_out(s) ==
    CASE Adapter /\ s.state = "Helloing" ->
           initiate_close(set_state(s, "Error"), "RequestTimedOut")
      [] s.state = "Active" /\ s.echo ->
           initiate_close(set_state([s EXCEPT !.echo = FALSE, !.echoes = 0], "Error"),
                          "RequestTimedOut")
      [] s.state = "Active" /\ ~s.echo ->
           set_timeout([s EXCEPT !.echo = TRUE, !.echoes = @ + 1])
      [] s.state = "Closing" -> clean_up_link_state(s)
      [] OTHER -> s

process_timeout(c) ==
    /\ c \in lk.timers
    /\ lk.state = "Active" => lk.clock <= MaxClock
    /\ Becomes(IF heeds(lk, c) THEN timed_out([lk EXCEPT !.timers = @ \ {c}]) ELSE lk)

\* Mutant of process_keep_alive_response: the next keep-alive is not scheduled.
process_keep_alive_last ==
    /\ lk.present /\ lk.echoes > 0
    /\ LET s == [lk EXCEPT !.echoes = @ - 1]
       IN  Becomes(IF lk.state = "Active" /\ lk.echo
                   THEN cancel_timeout([s EXCEPT !.echo = FALSE]) ELSE s)

\* A keep-alive is acknowledged; only an active link that waits for one cares.
process_keep_alive_response ==
    /\ lk.present /\ lk.echoes > 0
    /\ LET s == [lk EXCEPT !.echoes = @ - 1]
       IN  Becomes(IF lk.state = "Active" /\ lk.echo
                   THEN set_timeout([s EXCEPT !.echo = FALSE]) ELSE s)

-----------------------------------------------------------------------------
(* Events that end a link, and what the spawned tasks do then.             *)

\* stop_link of an operator, shutdown_adapter, and errors: a handler that
\* fails, a hello out of place, an actor authorization that gives up.
Close(reason) ==
    /\ lk.present /\ (reason = "Shutdown" => Adapter)
    /\ Counted /\ lk' = initiate_close(lk, reason) /\ UNCHANGED link

process_terminate_link(s) == clean_up_link_state(set_state(s, "Closing"))

\* The peer ends the link.
handle_terminate_link_or_docking_session ==
    /\ lk.present /\ Counted
    /\ lk' = process_terminate_link(lk) /\ UNCHANGED link

reset ==
    /\ lk.present /\ Counted
    /\ lk' = clean_up_link_state(set_state(lk, "Resetting")) /\ UNCHANGED link

\* The peer acknowledges a terminate, perhaps that of an earlier close.
process_terminate_ack ==
    /\ lk.present /\ lk.terms > 0
    /\ LET s == [lk EXCEPT !.terms = @ - 1]
       IN  Becomes(IF lk.state = "Closing" THEN clean_up_link_state(cancel_timeout(s))
                                           ELSE s)

\* VSConn has stopped.
process_disconnect_ack ==
    /\ lk.stops > 0
    /\ LET s == [lk EXCEPT !.stops = @ - 1]
       IN  Becomes(IF lk.present /\ lk.state = "Disconnecting" THEN continue_close(s) ELSE s)

\* drop_link gives up the keys, and waits for the key manager if there was one.
drop_link ==
    /\ lk.drops > 0
    /\ LET s == [lk EXCEPT !.drops = @ - 1, !.sa = FALSE, !.km = FALSE]
       IN  Becomes(IF lk.km THEN [s EXCEPT !.joins = @ + 1]
                   ELSE IF lk.present THEN complete_close(s) ELSE s)

\* The key manager has ended.
KmJoined ==
    /\ lk.joins > 0
    /\ LET s == [lk EXCEPT !.joins = @ - 1]
       IN  Becomes(IF lk.present THEN complete_close(s) ELSE s)

Next ==
    \/ process_start \/ StartIgnored
    \/ SaEstablished \/ process_keying_done
    \/ handle_hello_request \/ handle_hello_response
    \/ \E c \in lk.timers : process_timeout(c)
    \/ process_keep_alive_response
    \/ \E reason \in {"Other", "Shutdown"} : Close(reason)
    \/ handle_terminate_link_or_docking_session \/ reset
    \/ process_terminate_ack \/ process_disconnect_ack
    \/ drop_link \/ KmJoined

Spec == Init /\ [][Next]_vars

\* Timers expire, spawned tasks run, and the key manager and VSConn end when
\* they are told to.  Nothing is assumed of the peer.
Fairness ==
    /\ WF_vars(\E c \in lk.timers : process_timeout(c))
    /\ WF_vars(drop_link) /\ WF_vars(KmJoined) /\ WF_vars(process_disconnect_ack)

FairSpec == Spec /\ Fairness

-----------------------------------------------------------------------------
(* Properties.                                                             *)

\* The link has its type; in particular its logical clock never falls behind
\* a timer, and a node reserves at most one AAA address for it.
TypeOK ==
    /\ link \in Links
    /\ DOMAIN lk = DOMAIN new_link
    /\ lk.state \in States /\ lk.clock \in Nat /\ lk.timers \subseteq 1..lk.clock
    /\ lk.reserved \in {0, 1}
    /\ events \in 0..MaxEvents

\* A link that is ready for traffic has keys and a key manager, on an adapter
\* the TUN's carrier too, and is watched: a timeout that will be heeded is on
\* its way, so that a peer that falls silent is noticed.  And actor
\* authorization believes in the link only while it is ready.
ReadyIsSound ==
    /\ lk.ready => /\ lk.state = "Active" /\ lk.sa /\ lk.km
                   /\ Adapter => lk.carrier /\ lk.auth
                   /\ lk.clock \in lk.timers
    /\ lk.auth => lk.ready

\* However a link ends, once it is removed or waits to be restarted it holds
\* nothing: no key manager, address, reservation, carrier or authorization.
NothingHeldWhenDown ==
    (~lk.present \/ lk.state = "Inactive") =>
        /\ ~lk.km /\ ~lk.aaa /\ ~lk.tun /\ ~lk.carrier /\ ~lk.auth
        /\ lk.reserved = 0

\* A link that is being closed is eventually removed, or down until it is
\* restarted, even when the peer answers nothing; and what the loop at the end
\* of shutdown_adapter waits for happens, whatever restarts are scheduled.
CloseCompletes ==
    /\ lk.state \in {"Disconnecting", "Closing", "Resetting"} ~>
         ~lk.present \/ lk.state = "Inactive"
    /\ lk.shutting_down ~> ~lk.present

=============================================================================
