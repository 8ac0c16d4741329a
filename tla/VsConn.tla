------------------------------- MODULE VsConn -------------------------------
(***************************************************************************)
(* The node's connection to the visa service: VSConn's run loop, which     *)
(* dials the service, serves commands one at a time and pings; vs_worker,  *)
(* which follows its lifecycle events and connects, registers the VSS and  *)
(* resets the adapters when the service has lost its state; the tasks that *)
(* send commands for adapters and bind requests; and the VSS, by which the *)
(* visa service pushes visas and revocations over a connection of its own. *)
(*                                                                         *)
(* The visa service is external: it may crash and start again without its  *)
(* state, and a call to it may fail, before or after it had its effect.    *)
(***************************************************************************)
EXTENDS Naturals, FiniteSets, Sequences, SequencesExt

CONSTANTS
    Adapters,       \* actors behind the node, each with its address
    MaxVisas,       \* bound: visas the visa service issues
    MaxCommands,    \* bound: commands in the channel when a request is made, which
                    \* waits for room there
    MaxEvents       \* bound: crashes of the visa service, other calls that fail or
                    \* time out, Stop commands, and what the visa service decides
                    \* of its own accord, together

ASSUME VsConnAssumption ==
    /\ IsFiniteSet(Adapters) /\ "nobody" \notin Adapters
    /\ {MaxVisas, MaxCommands, MaxEvents} \subseteq Nat

VSAPI_MAX_PING_FAILURES == 2

VARIABLES
    vs,         \* the visa service
    conn,       \* VSConn's run loop
    cmds,       \* its command channel
    ans,        \* what the oneshot channels of the callers hold
    events,     \* lifecycle events vs_worker has yet to read
    wk,         \* vs_worker
    ad,         \* the adapters' links, as far as the visa service matters
    table,      \* the visa table
    vssq,       \* the VSS queue
    chances,    \* bound: how many of these so far
    refused,    \* history: a VSS registration failed, and the session was ended
    overtaken   \* history: visas whose revocation was sent while their grant was on its
                \* way over another connection

vars == <<vs, conn, cmds, ans, events, wk, ad, table, vssq, chances, refused, overtaken>>

\* A caller is vs_worker, the authorization task of an adapter, or a visa
\* request made for one; actor_disconnect does not look at its answer.
worker == <<"worker", "nobody">>
nobody == <<"nobody", "nobody">>
Callers == {worker} \cup ({"actor", "visa"} \X Adapters)

\* What the visa service has done to a visa, for the node to follow.
grant(v) == [op |-> "Grant", visa |-> v]
revoke(v) == [op |-> "RevokeVisaId", visa |-> v]

visas(op, ops) == {o.visa : o \in {p \in ops : p.op = op}}

\* ops: the visa granted, or all that was pending when the VSS was registered.
answer(st) == [st |-> st, ops |-> {}]

\* gen: of the visas it issues; node: whether it knows this node; handle: whether
\* it serves the one it gave out last; known: the actors; vss: where to push;
\* pending: what it has yet to tell the node.
new_vs == [up |-> TRUE, gen |-> 1, node |-> FALSE, handle |-> FALSE, known |-> {}, vss |-> FALSE,
           issued |-> {}, revoked |-> {}, pending |-> {}]

\* live: whether the connection it runs on still is; handle: vs_handle.
new_conn == [st |-> "Tcp", live |-> FALSE, handle |-> FALSE, ping_failures |-> 0]

Init ==
    /\ vs = new_vs /\ conn = new_conn
    /\ cmds = <<>> /\ ans = [c \in Callers |-> answer("none")] /\ events = <<>>
    /\ wk = [pc |-> "Gate", flag |-> "NoState", sent |-> FALSE, todo |-> {}, deferred |-> TRUE]
    /\ ad = [a \in Adapters |-> [st |-> "down", asks |-> "none"]]
    /\ table = {} /\ vssq = <<>>
    /\ chances = 0 /\ refused = FALSE /\ overtaken = {}

\* One more thing happens that need not.
Chance == chances < MaxEvents /\ chances' = chances + 1

-----------------------------------------------------------------------------
(* The visa service.                                                       *)

command(op, who, arg) == [op |-> op, who |-> who, arg |-> arg]

NewVisa(a) == [id |-> Cardinality(vs.issued) + 1, gen |-> vs.gen, for |-> a]

\* The service forgets the visas it has issued.
NextGen == IF \E v \in vs.issued : v.gen = vs.gen THEN vs.gen + 1 ELSE vs.gen

\* What it knows after a node has connected, and after that node has left.
joined(flag) ==
    [vs EXCEPT !.handle = TRUE, !.node = TRUE,
               !.gen = IF flag = "NoState" THEN NextGen ELSE @,
               !.known = IF flag = "NoState" THEN {} ELSE @,
               !.revoked = IF flag = "NoState" THEN {} ELSE @,
               !.pending = IF flag = "NoState" THEN {} ELSE @]

left == [vs EXCEPT !.node = FALSE, !.handle = FALSE, !.known = {}, !.vss = FALSE]

ok == answer("ok")
Failed == answer("failed")

-----------------------------------------------------------------------------
(* VSConn.                                                                 *)

\* Lifecycle events are broadcast; vs_worker is the only one to listen.
send_lifecycle_event(e) == events' = Append(events, e)

reply(answers, who, a) ==
    IF who \in Callers THEN [answers EXCEPT ![who] = a] ELSE answers

\* The call works, which changes the service to served, and the answer is a; or
\* it fails, and nobody knows whether it had its effect.  On a dead connection
\* it fails at once.
rpc_with_timeout(alive, served, a, r) ==
    \/ alive /\ vs' = served /\ r = a /\ UNCHANGED chances
    \/ ~alive /\ r = Failed /\ UNCHANGED <<vs, chances>>
    \/ alive /\ Chance /\ r = Failed /\ vs' \in {vs, served}

\* Whether the handle that the run loop holds still is one.
connected == conn.live /\ conn.handle /\ vs.handle

exit(st) == conn' = [conn EXCEPT !.st = st, !.live = FALSE, !.handle = FALSE]

\* Stop, with or without a notice to the service, which may refuse it: that is
\* only logged.
handle_stop(c) ==
    IF c.arg = "deregister" /\ conn.handle
    THEN \E r \in {ok, Failed} : \E served \in {left, vs} :
           /\ rpc_with_timeout(connected, served, ok, r)
           /\ send_lifecycle_event("RunLoopExits")
           /\ exit(IF r = ok THEN "Stopped" ELSE "Delay")
    ELSE /\ send_lifecycle_event("RunLoopExits") /\ exit("Stopped")
         /\ UNCHANGED <<vs, chances>>

\* The calls of connect, challenge and authenticate: only the last counts.
do_connect(c, r) ==
    IF c.arg = "HasState" /\ ~vs.node
    THEN rpc_with_timeout(conn.live, vs, answer("OutOfSync"), r)
    ELSE rpc_with_timeout(conn.live, joined(c.arg), ok, r)

\* Connect, unless there is a handle already.
handle_connect(c) ==
    IF conn.handle
    THEN /\ ans' = reply(ans, c.who, Failed) /\ UNCHANGED <<vs, chances, conn, events>>
    ELSE \E r \in {ok, answer("OutOfSync"), Failed} :
           /\ do_connect(c, r)
           /\ ans' = reply(ans, c.who, r)
           /\ IF r = ok
              THEN /\ conn' = [conn EXCEPT !.handle = TRUE]
                   /\ send_lifecycle_event("ConnectedToVsApi")
              ELSE UNCHANGED <<conn, events>>

\* The other commands need a handle.
request(c, served, a) ==
    /\ \E r \in {a, Failed} :
         rpc_with_timeout(connected, served, a, r) /\ ans' = reply(ans, c.who, r)
    /\ UNCHANGED <<conn, events>>

\* A visa is granted, or denied, which its caller treats as a failure.
do_visa_request(c) ==
    \/ request(c, [vs EXCEPT !.issued = @ \cup {NewVisa(c.arg)}],
                  [st |-> "ok", ops |-> {grant(NewVisa(c.arg))}])
    \/ connected /\ request(c, vs, Failed)

do_authorize_connect(c) ==
    \/ request(c, [vs EXCEPT !.known = @ \cup {c.arg}], ok)
    \/ connected /\ c.arg \in Adapters /\ request(c, vs, Failed)

do_notify_disconnect(c) ==
    request(c, IF c.arg \in Adapters THEN [vs EXCEPT !.known = @ \ {c.arg}] ELSE left, ok)

\* The answer brings all that was pending.
do_register_vss(c) ==
    request(c, [vs EXCEPT !.vss = TRUE, !.pending = {}], [st |-> "ok", ops |-> vs.pending])

\* The grant of v is in an answer that nobody has read; o is in the VSS queue.
InAnswer(v) == \E c \in Callers : grant(v) \in ans[c].ops
Queued(o) == \E i \in DOMAIN vssq : vssq[i].do = o

\* The run loop serves the next command.
handle_command ==
    /\ conn.st = "Running" /\ cmds # <<>>
    /\ cmds' = Tail(cmds)
    /\ LET c == Head(cmds)
       IN  \/ c.op = "Stop" /\ handle_stop(c) /\ UNCHANGED ans
           \/ c.op = "Connect" /\ handle_connect(c)
           \/ c.op = "VisaRequest" /\ do_visa_request(c)
           \/ c.op = "AuthorizeConnect" /\ do_authorize_connect(c)
           \/ c.op = "NotifyDisconnect" /\ do_notify_disconnect(c)
           \/ c.op = "RegisterVss" /\ do_register_vss(c)
    /\ overtaken' = overtaken \cup
         {v \in vs.issued : revoke(v) \in vs.pending \ vs'.pending /\ (InAnswer(v) \/ Queued(grant(v)))}
    /\ UNCHANGED <<wk, ad, table, vssq, refused>>

\* While it dials, while it waits to dial again, and when it has returned,
\* commands are dropped; but a Stop ends it.
drop_command ==
    /\ conn.st \in {"Tcp", "Delay", "Stopped"} /\ cmds # <<>>
    /\ cmds' = Tail(cmds)
    /\ IF Head(cmds).op = "Stop" /\ conn.st # "Stopped"
       THEN /\ exit("Stopped") /\ UNCHANGED ans
            /\ IF conn.st = "Tcp" THEN send_lifecycle_event("RunLoopExits") ELSE UNCHANGED events
       ELSE ans' = reply(ans, Head(cmds).who, Failed) /\ UNCHANGED <<conn, events>>
    /\ UNCHANGED <<vs, wk, ad, table, vssq, chances, refused, overtaken>>

\* The loop of run_with_reconnect: the delay is over, and no Stop has come.
\* (The next phase drops what other commands there are just as the delay does.)
run_with_reconnect ==
    /\ conn.st = "Delay" /\ ~\E i \in DOMAIN cmds : cmds[i].op = "Stop"
    /\ conn' = [conn EXCEPT !.st = "Tcp"]
    /\ UNCHANGED <<vs, cmds, ans, events, wk, ad, table, vssq, chances, refused, overtaken>>

\* The start of run: TCP, then TLS, which no command interrupts.
run ==
    /\ \/ /\ conn.st = "Tcp" /\ UNCHANGED events
          /\ conn' = [conn EXCEPT !.st = IF vs.up THEN "Tls" ELSE "Delay", !.live = vs.up]
       \/ /\ conn.st = "Tls" /\ conn.live /\ send_lifecycle_event("RunLoopStarts")
          /\ conn' = [conn EXCEPT !.st = "Running", !.ping_failures = 0]
       \/ conn.st = "Tls" /\ ~conn.live /\ exit("Delay") /\ UNCHANGED events
    /\ UNCHANGED <<vs, cmds, ans, wk, ad, table, vssq, chances, refused, overtaken>>

\* Mutant of do_ping: a failure is not counted.
do_ping_uncounted(answered) ==
    conn' = [conn EXCEPT !.ping_failures = 0] /\ UNCHANGED events

\* A ping works, or not; while there is no handle none is sent.
do_ping(answered) ==
    IF answered THEN conn' = [conn EXCEPT !.ping_failures = 0] /\ UNCHANGED events
    ELSE IF conn.ping_failures + 1 >= VSAPI_MAX_PING_FAILURES
    THEN send_lifecycle_event("RunLoopExits") /\ exit("Delay")
    ELSE conn' = [conn EXCEPT !.ping_failures = @ + 1] /\ UNCHANGED events

ping ==
    /\ conn.st = "Running" /\ conn.handle
    /\ \/ connected /\ do_ping(TRUE) /\ UNCHANGED chances
       \/ ~connected /\ do_ping(FALSE) /\ UNCHANGED chances
       \/ connected /\ Chance /\ do_ping(FALSE)
    /\ UNCHANGED <<vs, cmds, ans, wk, ad, table, vssq, refused, overtaken>>

-----------------------------------------------------------------------------
(* vs_worker.                                                              *)

\* The worker goes on, its answer taken, and sends a command if there is one.
WorkerDoes(pc, sends) ==
    /\ wk' = [wk EXCEPT !.pc = pc, !.sent = FALSE]
    /\ cmds' = cmds \o sends
    /\ ans' = [ans EXCEPT ![worker] = answer("none")]

\* The worker's future is dropped: nobody waits for the answer any more.
abandoned ==
    [i \in DOMAIN cmds |-> IF cmds[i].who = worker THEN [cmds[i] EXCEPT !.who = nobody] ELSE cmds[i]]

wait_for_runloop_start ==
    /\ wk.pc = "Gate" /\ events # <<>>
    /\ events' = Tail(events)
    /\ wk' = [wk EXCEPT !.pc = IF Head(events) = "RunLoopStarts" THEN "Select" ELSE @]
    /\ UNCHANGED <<vs, conn, cmds, ans, ad, table, vssq, chances, refused, overtaken>>

\* connect() raced with lifecycle events: the command is sent, and waited for
\* unless an event is there already,
connect ==
    /\ wk.pc = "Select" /\ ~wk.sent /\ events = <<>>
    /\ wk' = [wk EXCEPT !.sent = TRUE]
    /\ cmds' = Append(cmds, command("Connect", worker, wk.flag))
    /\ UNCHANGED <<vs, conn, ans, events, ad, table, vssq, chances, refused, overtaken>>

\* Mutant of out_of_sync: the adapters are left alone.
out_of_sync_kept ==
    /\ wk' = [wk EXCEPT !.pc = "Sleep", !.sent = FALSE, !.flag = "NoState"]
    /\ ans' = [ans EXCEPT ![worker] = answer("none")] /\ UNCHANGED cmds

out_of_sync ==
    /\ wk' = [wk EXCEPT !.pc = "Resetting", !.sent = FALSE, !.flag = "NoState", !.todo = Adapters]
    /\ ans' = [ans EXCEPT ![worker] = answer("none")] /\ UNCHANGED cmds

\* answered,
ConnectAnswered ==
    /\ wk.pc = "Select" /\ ans[worker].st # "none"
    /\ \/ ans[worker].st = "ok" /\ WorkerDoes("Connected", <<>>)
       \/ ans[worker].st = "OutOfSync" /\ out_of_sync
       \/ ans[worker].st = "failed" /\ WorkerDoes("Sleep", <<>>)
    /\ UNCHANGED <<vs, conn, events, ad, table, vssq, chances, refused, overtaken>>

\* or an event comes first: select! takes one that is there at once, and whether
\* it has sent the command before is chance.
ConnectRaced ==
    /\ wk.pc = "Select" /\ events # <<>>
    /\ events' = Tail(events)
    /\ wk' = [wk EXCEPT !.sent = FALSE,
                        !.pc = CASE Head(events) = "RunLoopExits" -> "Gate"
                                 [] Head(events) = "RunLoopStarts" -> "Sleep"
                                 [] OTHER -> "Connected"]
    /\ \/ cmds' = abandoned
       \/ ~wk.sent /\ cmds' = Append(cmds, command("Connect", nobody, wk.flag))
    /\ ans' = [ans EXCEPT ![worker] = answer("none")]
    /\ UNCHANGED <<vs, conn, ad, table, vssq, chances, refused, overtaken>>

\* Connected: the visa service's own adapter is registered, then the VSS.  If
\* that fails the session is ended, and the node with it if that fails too.
register_vss ==
    /\ \/ /\ wk.pc = "Connected" /\ wk.deferred
          /\ wk' = [wk EXCEPT !.pc = "Deferred", !.deferred = FALSE] /\ UNCHANGED <<ans, refused>>
          /\ cmds' = Append(cmds, command("AuthorizeConnect", worker, "nobody"))
       \/ /\ wk.pc = "Connected" /\ ~wk.deferred /\ UNCHANGED refused
          /\ WorkerDoes("Register", <<command("RegisterVss", worker, "nobody")>>)
       \/ /\ wk.pc = "Deferred" /\ ans[worker].st = "ok" /\ UNCHANGED refused
          /\ WorkerDoes("Register", <<command("RegisterVss", worker, "nobody")>>)
       \/ /\ wk.pc = "Deferred" /\ ans[worker].st = "failed" /\ UNCHANGED refused
          /\ WorkerDoes("Panicked", <<>>)
       \/ /\ wk.pc = "Register" /\ ans[worker].st = "failed" /\ UNCHANGED refused
          /\ WorkerDoes("Disconnect", <<command("NotifyDisconnect", worker, "nobody")>>)
       \/ /\ wk.pc = "Disconnect" /\ ans[worker].st = "ok" /\ refused' = TRUE
          /\ WorkerDoes("Sleep", <<>>)
       \/ /\ wk.pc = "Disconnect" /\ ans[worker].st = "failed" /\ UNCHANGED refused
          /\ WorkerDoes("Panicked", <<>>)
    /\ UNCHANGED <<vs, conn, events, ad, table, vssq, chances, overtaken>>

\* VSCONN_RETRY_WAIT.  Once the run loop has returned the worker ends too.
Retry ==
    /\ \/ /\ wk.pc = "Sleep" /\ wk' = [wk EXCEPT !.pc = "Select"]
       \/ /\ wk.pc \in {"Gate", "Select"} /\ ~wk.sent /\ events = <<>> /\ conn.st = "Stopped"
          /\ wk' = [wk EXCEPT !.pc = "Ended"]
    /\ UNCHANGED <<vs, conn, cmds, ans, events, ad, table, vssq, chances, refused, overtaken>>

-----------------------------------------------------------------------------
(* Adapters and their visas.                                               *)

\* What the link of an adapter leaves when it goes: a notice for the visa
\* service, and no visa that has a forwarding entry on it.
reset_peer(a) ==
    /\ ad' = [ad EXCEPT ![a] =
                [st |-> CASE @.st = "asking" -> "gone" [] @.st = "up" -> "down" [] OTHER -> @.st,
                 asks |-> IF @.asks = "asked" THEN "orphan" ELSE @.asks]]
    /\ cmds' = IF ad[a].st = "up" THEN Append(cmds, command("NotifyDisconnect", nobody, a)) ELSE cmds
    /\ table' = {v \in table : ~(v.bound /\ v.visa.for = a)}

\* disconnect_adapters: every link there is, but the visa service's.
disconnect_adapters ==
    /\ wk.pc = "Resetting"
    /\ \/ \E a \in wk.todo : /\ reset_peer(a)
                             /\ wk' = [wk EXCEPT !.todo = @ \ {a}]
       \/ /\ wk.todo = {} /\ wk' = [wk EXCEPT !.pc = "Sleep"]
          /\ table' = {[v EXCEPT !.left = TRUE] : v \in table} /\ UNCHANGED <<ad, cmds>>
    /\ UNCHANGED <<vs, conn, ans, events, vssq, chances, refused, overtaken>>

\* An adapter comes, or goes for reasons of its own.
AdapterChanges(a) ==
    /\ \/ /\ ad[a].st = "down" /\ ad' = [ad EXCEPT ![a].st = "asking"]
          /\ cmds' = Append(cmds, command("AuthorizeConnect", <<"actor", a>>, a))
          /\ UNCHANGED table
       \/ ad[a].st \in {"asking", "up"} /\ reset_peer(a)
    /\ UNCHANGED <<vs, conn, ans, events, wk, vssq, chances, refused, overtaken>>

\* authorization_result; a late success is deregistered.
authorization_result(a) ==
    LET r == ans[<<"actor", a>>].st
    IN  /\ r # "none" /\ ans' = [ans EXCEPT ![<<"actor", a>>] = answer("none")]
        /\ ad' = [ad EXCEPT ![a].st = IF r = "ok" /\ @ = "asking" THEN "up" ELSE "down"]
        /\ cmds' = IF r = "ok" /\ ad[a].st = "gone"
                   THEN Append(cmds, command("NotifyDisconnect", nobody, a)) ELSE cmds
        /\ UNCHANGED <<vs, conn, events, wk, table, vssq, chances, refused, overtaken>>

\* left: whether it was there without a forwarding entry when the adapters were
\* reset, or came too late for that.
entry(v, bound) == [visa |-> v, bound |-> bound, left |-> ~bound]

\* A bind request of an adapter asks for a visa, or uses one that is there;
\* when the visa comes it gets a forwarding entry if the link still is there,
\* unless there is no link to its destination: then it is not inserted.
visa_request_task(a) ==
    LET me == <<"visa", a>>  r == ans[me]
    IN  /\ \/ /\ ad[a] = [st |-> "up", asks |-> "none"] /\ Cardinality(vs.issued) < MaxVisas
              /\ \A e \in table : e.visa.for # a
              /\ cmds' = Append(cmds, command("VisaRequest", me, a))
              /\ ad' = [ad EXCEPT ![a].asks = "asked"] /\ UNCHANGED <<ans, table>>
           \/ /\ r.st # "none" /\ ans' = [ans EXCEPT ![me] = answer("none")]
              /\ \/ table' = table \cup {entry(v, ad[a].asks = "asked") : v \in visas("Grant", r.ops)}
                 \/ UNCHANGED table
              /\ ad' = [ad EXCEPT ![a].asks = "none"] /\ UNCHANGED cmds
           \/ \E e \in table :
                /\ ad[a].st = "up" /\ e.visa.for = a /\ ~e.bound
                /\ table' = (table \ {e}) \cup {[e EXCEPT !.bound = TRUE]}
                /\ UNCHANGED <<ad, cmds, ans>>
        /\ UNCHANGED <<vs, conn, events, wk, vssq, chances, refused, overtaken>>

-----------------------------------------------------------------------------
(* The VSS.                                                                *)

\* What the visa service may decide of its own accord: a grant, the revocation
\* of a visa that the node was told of, or both.
NewGrants == {{grant(NewVisa(a))} : a \in {b \in Adapters : Cardinality(vs.issued) < MaxVisas}}
NewRevocations ==
    {{revoke(v)} : v \in {w \in vs.issued \ vs.revoked : w.gen = vs.gen /\ grant(w) \notin vs.pending}}
Decisions ==
    NewGrants \cup NewRevocations \cup {g \cup r : g \in NewGrants, r \in NewRevocations}

\* It does so, and pushes all that is pending in one list if it knows a VSS.
\* rest: how many operations follow in the list.
push_visa_op(new) ==
    LET all == vs.pending \cup new
    IN  /\ vs.up /\ Chance
        /\ vs' = [vs EXCEPT !.issued = @ \cup visas("Grant", new),
                            !.revoked = @ \cup visas("RevokeVisaId", new),
                            !.pending = IF vs.vss THEN {} ELSE all]
        /\ IF vs.vss
           THEN /\ \E ops \in SeqOf(all, Cardinality(all)) :
                     /\ Range(ops) = all
                     /\ vssq' = vssq \o [i \in DOMAIN ops |-> [do |-> ops[i], rest |-> Len(ops) - i]]
                /\ overtaken' = overtaken \cup {v \in visas("RevokeVisaId", all) : InAnswer(v)}
           ELSE UNCHANGED <<vssq, overtaken>>
        /\ UNCHANGED <<conn, cmds, ans, events, wk, ad, table, refused>>

\* A grant fails if there is no link to its destination; a revocation is done
\* although the visa may not be in the table.
process_visaop(o, done) ==
    \/ o.op = "Grant" /\ done /\ table' = table \cup {entry(o.visa, FALSE)}
    \/ o.op = "Grant" /\ ~done /\ UNCHANGED table
    \/ o.op = "RevokeVisaId" /\ done /\ table' = {e \in table : e.visa # o.visa}

\* Mutant of unprocessed: a list is acknowledged as a whole.
unprocessed_none(q, n) == {}

\* What an answer that reports less than the whole list leaves to be revoked.
unprocessed(q, n) ==
    {revoke(v) : v \in {w \in vs.revoked : \E i \in DOMAIN q : i <= n /\ q[i].do = revoke(w)}}

\* The operations of a list are processed one by one until one fails.
vss_worker ==
    /\ vssq # <<>>
    /\ \/ /\ process_visaop(Head(vssq).do, TRUE)
          /\ vssq' = Tail(vssq) /\ UNCHANGED vs
       \/ LET n == Head(vssq).rest + 1
          IN  /\ process_visaop(Head(vssq).do, FALSE)
              /\ vssq' = SubSeq(vssq, n + 1, Len(vssq))
              /\ vs' = [vs EXCEPT !.pending = @ \cup unprocessed(vssq, n)]
    /\ UNCHANGED <<conn, cmds, ans, events, wk, ad, chances, refused, overtaken>>

\* The VSS is registered: what was pending is done, one by one, whether or not
\* one fails, and the node has state from now on.
registered ==
    /\ wk.pc = "Register" /\ ans[worker].st = "ok"
    /\ IF ans[worker].ops = {}
       THEN /\ wk' = [wk EXCEPT !.pc = "Gate", !.flag = "HasState"]
            /\ ans' = [ans EXCEPT ![worker] = answer("none")] /\ UNCHANGED table
       ELSE \E o \in ans[worker].ops : \E done \in BOOLEAN :
              /\ process_visaop(o, done)
              /\ ans' = [ans EXCEPT ![worker].ops = @ \ {o}] /\ UNCHANGED wk
    /\ UNCHANGED <<vs, conn, cmds, events, ad, vssq, chances, refused, overtaken>>

-----------------------------------------------------------------------------
(* Faults.                                                                 *)

\* The visa service loses its state and its connections.
Crash ==
    /\ vs.up /\ Chance
    /\ vs' = [vs EXCEPT !.up = FALSE, !.node = FALSE, !.handle = FALSE, !.known = {},
                        !.vss = FALSE, !.gen = NextGen, !.revoked = {}, !.pending = {}]
    /\ conn' = [conn EXCEPT !.live = FALSE]
    /\ UNCHANGED <<cmds, ans, events, wk, ad, table, vssq, refused, overtaken>>

Restart ==
    /\ ~vs.up /\ vs' = [vs EXCEPT !.up = TRUE]
    /\ UNCHANGED <<conn, cmds, ans, events, wk, ad, table, vssq, chances, refused, overtaken>>

\* The link to the visa service's adapter is closed, or the node shuts down.
stop ==
    /\ Chance
    /\ \E how \in {"deregister", "leave"} : cmds' = Append(cmds, command("Stop", nobody, how))
    /\ UNCHANGED <<vs, conn, ans, events, wk, ad, table, vssq, refused, overtaken>>

\* The worker's panic ends the process.
Alive == wk.pc # "Panicked"

Loop == Alive /\ (handle_command \/ drop_command \/ run_with_reconnect \/ run)
Ping == Alive /\ ping
Worker ==
    /\ Alive
    /\ \/ wait_for_runloop_start \/ connect \/ ConnectAnswered \/ ConnectRaced
       \/ register_vss \/ registered \/ Retry \/ disconnect_adapters
Tasks ==
    /\ Alive
    /\ \/ \E a \in Adapters : authorization_result(a)
       \/ \E a \in Adapters : ans[<<"visa", a>>].st # "none" /\ visa_request_task(a)
       \/ vss_worker

Requests ==
    /\ Alive /\ Len(cmds) < MaxCommands
    /\ \/ \E a \in Adapters : AdapterChanges(a)
       \/ \E a \in Adapters : ans[<<"visa", a>>].st = "none" /\ visa_request_task(a)
       \/ stop

Next ==
    \/ Loop \/ Ping \/ Worker \/ Tasks
    \/ Requests
    \/ \E new \in Decisions : push_visa_op(new)
    \/ Crash \/ Restart

Spec == Init /\ [][Next]_vars

\* The run loop and the worker are polled, and timers expire, however many
\* commands come meanwhile; a visa service that is down comes back.
FairSpec ==
    /\ Spec
    /\ WF_vars(Alive /\ (handle_command \/ drop_command)) /\ WF_vars(Alive /\ run)
    /\ WF_vars(Alive /\ run_with_reconnect) /\ WF_vars(Ping) /\ WF_vars(Worker) /\ WF_vars(Restart)

-----------------------------------------------------------------------------
(* Properties.                                                             *)

\* The worker has done its part, and waits for the run loop to start again.
serving == wk.pc = "Gate" /\ wk.flag = "HasState" /\ connected

\* A visa service that lost its state is not served with what it does not know:
\* whenever the node has registered with it, the adapters that are up are ones
\* it has authorized, and every visa in use is one that it has issued since, or
\* one that had no forwarding entry when the adapters were reset, for those are
\* not dropped.  (Not so if a registration of the VSS failed and the session was
\* ended: the node then starts over without resetting its adapters.)
SyncedWhenServing ==
    serving /\ ~refused =>
        /\ \A a \in Adapters : ad[a].st = "up" => a \in vs.known
        /\ \A e \in table : e.bound => e.visa.gen = vs.gen \/ e.left

\* A registration of the VSS has failed, and the session is being ended.
giving_up ==
    \/ wk.pc = "Register" /\ ans[worker].st = "failed"
    \/ wk.pc = "Disconnect" /\ ans[worker].st # "ok"
    \/ ~Alive

\* The visas in the table that the visa service has revoked while it has not
\* told the node, and no one is about to revoke them here.
Forgotten ==
    {v \in {e.visa : e \in table} \cap vs.revoked :
       ~Queued(revoke(v)) /\ revoke(v) \notin vs.pending \cup ans[worker].ops}

\* No revocation is lost: while the visa service knows the node, a visa in the
\* table that it has revoked is still to be revoked here.  The revocation waits
\* at the service, among the operations a registration of the VSS has brought, or
\* in a list that the VSS worker goes through, also when an operation before it
\* fails, the list is pushed while the session is being made, the connection is
\* lost or the answer to a registration comes too late.  (Not so for a visa whose
\* revocation overtook its grant, nor when a registration has failed and the
\* session is being ended.)
NoRevocationLost == vs.node /\ ~giving_up => Forgotten \subseteq overtaken

\* The same without the first exception, as the comment in revoke has it that a
\* visa that is not there need not be revoked.
RevocationsTakeEffect == vs.node /\ ~giving_up => Forgotten = {}

\* The connection is dead and the run loop does not know.
unnoticed == conn.st = "Running" /\ ~conn.live /\ ~conn.handle

\* When the visa service stays up the node ends up registered with it, unless
\* it was stopped, gave up in a panic, or lost the connection before it had a
\* handle to ping with.
EventuallyServing ==
    <>[](serving \/ conn.st = "Stopped" \/ ~Alive \/ unnoticed)

\* A connection that is lost is dialled again.
ReconnectsWhenLost == (conn.st = "Running" /\ ~conn.live) ~> conn.st # "Running"

=============================================================================
