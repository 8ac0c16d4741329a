---------------------------- MODULE VsConnProofs ----------------------------
(***************************************************************************)
(* The node and the visa service agree, for any number of adapters, visas  *)
(* and chances: what the node serves once it has registered, adapters and  *)
(* visas, the visa service knows; and no revocation is lost between them,  *)
(* whichever way it comes, unless it overtook its grant.                   *)
(***************************************************************************)
EXTENDS VsConn, FiniteSetTheorems, SequenceTheorems, TLAPS

Flags == {"NoState", "HasState"}

\* Only a visa request is answered with a visa, to the request that was made
\* for its adapter; pending revocations go to vs_worker, if it still waits.  The
\* authorization of an adapter is answered to its task, and no one waits for the
\* answer to a notice.
Commands ==
    {c \in [op : {"Stop", "Connect", "VisaRequest", "AuthorizeConnect", "NotifyDisconnect",
                  "RegisterVss"},
            who : Callers \cup {nobody},
            arg : Adapters \cup Flags \cup {"nobody", "deregister", "leave"}] :
       /\ c.op = "VisaRequest" => c.arg \in Adapters /\ c.who = <<"visa", c.arg>>
       /\ c.op = "RegisterVss" => c.who \in {worker, nobody}
       /\ c.op = "Connect" => c.arg \in Flags
       /\ c.op = "AuthorizeConnect" /\ c.arg \in Adapters => c.who = <<"actor", c.arg>>
       /\ c.op = "NotifyDisconnect" /\ c.arg \in Adapters => c.who = nobody
       /\ \A a \in Adapters : /\ c.who = <<"actor", a>> => c.op = "AuthorizeConnect" /\ c.arg = a
                              /\ c.who = <<"visa", a>> => c.op = "VisaRequest" /\ c.arg = a}

WorkerTyped(w) ==
    /\ DOMAIN w = {"pc", "flag", "sent", "todo", "deferred"}
    /\ w.flag \in Flags /\ w.todo \subseteq Adapters

Statuses == {"none", "ok", "failed", "OutOfSync"}

VisaOps == [op : {"Grant", "RevokeVisaId"}, visa : vs.issued]
Answers == [st : Statuses, ops : SUBSET VisaOps]
Items == [do : VisaOps, rest : Nat]
Entries == [visa : vs.issued, bound : BOOLEAN, left : BOOLEAN]

\* Everything that names a visa names one that was issued, and the ids of the
\* issued ones are below the next.
TypeOK ==
    /\ DOMAIN vs = {"up", "gen", "node", "handle", "known", "vss", "issued", "revoked", "pending"}
    /\ IsFiniteSet(vs.issued) /\ vs.revoked \subseteq vs.issued /\ vs.pending \subseteq VisaOps
    /\ \A v \in vs.issued : v.id \in 1..Cardinality(vs.issued)
    /\ cmds \in Seq(Commands)
    /\ ans \in [Callers -> Answers]
    /\ WorkerTyped(wk)
    /\ table \subseteq Entries
    /\ vssq \in Seq(Items)

Granted(a) == {o.visa : o \in ans[<<"visa", a>>].ops}

\* No visa has been issued yet.
LEMMA InitTypes == Init => TypeOK
<1> SUFFICES ASSUME Init PROVE TypeOK
  OBVIOUS
<1>1. vs.issued = {} /\ vs.revoked = {} /\ vs.pending = {}
  BY DEF Init, new_vs
<1>2. ans \in [Callers -> Answers]
  BY DEF Init, answer, Statuses, Answers
<1> QED BY <1>1, <1>2, FS_EmptySet DEF Init, TypeOK, WorkerTyped, new_vs, Flags

-----------------------------------------------------------------------------
(* What the steps have in common.                                          *)

\* A new visa is none of those issued before, and its id is the highest.
LEMMA NewVisaFresh ==
    ASSUME TypeOK, NEW a
    PROVE  LET issued == vs.issued \cup {NewVisa(a)}
           IN  /\ NewVisa(a) \notin vs.issued
               /\ IsFiniteSet(issued)
               /\ \A v \in issued : v.id \in 1..Cardinality(issued)
<1> DEFINE n == NewVisa(a)  issued == vs.issued \cup {n}
<1>1. Cardinality(vs.issued) \in Nat
  BY FS_CardinalityType DEF TypeOK
<1>2. n.id = Cardinality(vs.issued) + 1
  BY DEF NewVisa
<1> HIDE DEF n
<1>3. n \notin vs.issued
  BY <1>1, <1>2 DEF TypeOK
<1>4. IsFiniteSet(issued) /\ Cardinality(issued) = Cardinality(vs.issued) + 1
  BY <1>3, FS_AddElement DEF TypeOK
<1>5. \A v \in issued : v.id \in 1..Cardinality(issued)
  BY <1>1, <1>2, <1>4 DEF TypeOK
<1> QED BY <1>3, <1>4, <1>5 DEF n

\* The visa service goes on: it issues at most one visa, and has nothing more to
\* tell.
Served ==
    /\ DOMAIN vs' = DOMAIN vs
    /\ vs'.revoked \subseteq vs.revoked /\ vs'.pending \subseteq vs.pending
    /\ \/ vs'.issued = vs.issued
       \/ \E a \in Adapters : vs'.issued = vs.issued \cup {NewVisa(a)}

\* What names an issued visa still does when there are more.
LEMMA MoreIssued ==
    ASSUME vs.issued \subseteq vs'.issued
    PROVE  VisaOps \subseteq VisaOps' /\ Answers \subseteq Answers' /\ Items \subseteq Items'
           /\ Entries \subseteq Entries'
<1>1. VisaOps \subseteq VisaOps'
  BY DEF VisaOps
<1>2. Answers \subseteq Answers'
  BY <1>1 DEF Answers
<1>3. Items \subseteq Items'
  BY <1>1 DEF Items
<1> QED BY <1>1, <1>2, <1>3 DEF Entries

\* What Served keeps of the types.
LEMMA ServedTypes ==
    ASSUME TypeOK, Served
    PROVE  /\ DOMAIN vs' = {"up", "gen", "node", "handle", "known", "vss", "issued", "revoked",
                            "pending"}
           /\ IsFiniteSet(vs'.issued) /\ vs'.revoked \subseteq vs'.issued
           /\ vs'.pending \subseteq VisaOps'
           /\ \A v \in vs'.issued : v.id \in 1..Cardinality(vs'.issued)
           /\ vs.issued \subseteq vs'.issued
<1>1. vs.issued \subseteq vs'.issued
  BY DEF Served
<1>2. vs'.pending \subseteq VisaOps'
  BY <1>1, MoreIssued DEF TypeOK, Served
<1>3. CASE vs'.issued = vs.issued
  BY <1>1, <1>2, <1>3 DEF TypeOK, Served
<1>4. ASSUME NEW a \in Adapters, vs'.issued = vs.issued \cup {NewVisa(a)}
      PROVE  /\ IsFiniteSet(vs'.issued) /\ vs'.revoked \subseteq vs'.issued
             /\ \A v \in vs'.issued : v.id \in 1..Cardinality(vs'.issued)
  BY <1>4, NewVisaFresh DEF TypeOK, Served
<1> QED BY <1>1, <1>2, <1>3, <1>4 DEF TypeOK, Served

\* Commands that are taken, sent and abandoned.
LEMMA CommandsTyped ==
    ASSUME cmds \in Seq(Commands)
    PROVE  /\ cmds # <<>> => Head(cmds) \in Commands /\ Tail(cmds) \in Seq(Commands)
           /\ \A c \in Commands : Append(cmds, c) \in Seq(Commands)
           /\ abandoned \in Seq(Commands)
<1>1. cmds # <<>> => Head(cmds) \in Commands /\ Tail(cmds) \in Seq(Commands)
  OBVIOUS
<1>2. \A c \in Commands : Append(cmds, c) \in Seq(Commands)
  OBVIOUS
<1>3. abandoned \in Seq(Commands)
  <2> DEFINE f(i) == IF cmds[i].who = worker THEN [cmds[i] EXCEPT !.who = nobody] ELSE cmds[i]
  <2>1. DOMAIN cmds = 1..Len(cmds) /\ Len(cmds) \in Nat
    OBVIOUS
  <2>2. ASSUME NEW i \in 1..Len(cmds) PROVE f(i) \in Commands
    <3>1. cmds[i] \in Commands
      OBVIOUS
    <3> DEFINE c == cmds[i]  d == [c EXCEPT !.who = nobody]
    <3>2. CASE c.who # worker
      BY <3>1, <3>2
    <3>3. CASE c.who = worker
      <4> HIDE DEF c
      <4>1. c.op # "VisaRequest"
        <5>1. c.op = "VisaRequest" => c.who = <<"visa", c.arg>>
          BY <3>1 DEF Commands, c
        <5> QED BY <3>3, <5>1 DEF worker
      <4>2. d.op = c.op /\ d.arg = c.arg /\ d.who = nobody
        BY <3>1 DEF Commands, c
      <4>3. d \in [op : {"Stop", "Connect", "VisaRequest", "AuthorizeConnect",
                         "NotifyDisconnect", "RegisterVss"},
                   who : Callers \cup {nobody},
                   arg : Adapters \cup Flags \cup {"nobody", "deregister", "leave"}]
        BY <3>1, <4>2 DEF Commands, c
      <4>4. ~(c.op = "AuthorizeConnect" /\ c.arg \in Adapters)
        <5>1. \A a : worker # <<"actor", a>>
          BY DEF worker
        <5> QED BY <3>1, <3>3, <5>1 DEF Commands, c
      <4>5. \A a \in Adapters : d.who # <<"actor", a>> /\ d.who # <<"visa", a>>
        BY <4>2 DEF nobody
      <4>6. c.op = "Connect" => c.arg \in Flags
        BY <3>1 DEF Commands, c
      <4>7. d \in Commands
        BY <4>1, <4>2, <4>3, <4>4, <4>5, <4>6 DEF Commands
      <4> QED BY <3>3, <4>7 DEF c
    <3> QED BY <3>2, <3>3
  <2> HIDE DEF f
  <2>3. abandoned = [i \in 1..Len(cmds) |-> f(i)]
    BY <2>1 DEF abandoned, f
  <2> QED BY <2>1, <2>2, <2>3
<1> QED BY <1>1, <1>2, <1>3

\* A command is answered.
LEMMA AnsweredStep ==
    ASSUME TypeOK, Served, cmds' \in Seq(Commands), NEW who, NEW r \in Answers',
           ans' = reply(ans, who, r) \/ ans' = ans, UNCHANGED <<wk, table, vssq>>
    PROVE  TypeOK'
<1>1. vs.issued \subseteq vs'.issued
  BY ServedTypes
<1>2. Answers \subseteq Answers' /\ Items \subseteq Items' /\ Entries \subseteq Entries'
  BY <1>1, MoreIssued
<1>3. ans \in [Callers -> Answers']
  BY <1>2 DEF TypeOK
<1>4. ans' \in [Callers -> Answers']
  <2> HIDE DEF Answers
  <2> QED BY <1>3 DEF reply
<1>5. table' \subseteq Entries' /\ vssq' \in Seq(Items') /\ WorkerTyped(wk')
  BY <1>2 DEF TypeOK
<1> QED BY <1>4, <1>5, ServedTypes DEF TypeOK

\* What a call leaves of the visa service, and its answer.
LEMMA CallServed ==
    ASSUME NEW alive, NEW served, NEW a, NEW r, rpc_with_timeout(alive, served, a, r)
    PROVE  vs' \in {vs, served} /\ (r = Failed \/ (r = a /\ vs' = served))
  BY DEF rpc_with_timeout

\* The same for a command that needs a handle.
LEMMA RequestServed ==
    ASSUME NEW c, NEW served, NEW a, request(c, served, a)
    PROVE  /\ vs' \in {vs, served}
           /\ \E r : ans' = reply(ans, c.who, r) /\ (r = Failed \/ (r = a /\ vs' = served))
  BY CallServed DEF request

\* The answers without visas.
LEMMA PlainAnswers ==
    ASSUME NEW r \in {ok, Failed, answer("OutOfSync")}
    PROVE  r \in Answers' /\ r.ops = {}
  BY DEF ok, Failed, answer, Statuses, Answers

\* The run loop serves a command.
LEMMA HandleStep == ASSUME TypeOK, handle_command PROVE TypeOK'
<1> DEFINE c == Head(cmds)
<1>1. c \in Commands /\ cmds' \in Seq(Commands)
  BY CommandsTyped DEF TypeOK, handle_command
<1>2. UNCHANGED <<wk, ad, table, vssq, refused>>
  BY DEF handle_command
<1>3. ASSUME NEW served, vs' \in {vs, served}, DOMAIN served = DOMAIN vs,
             served.issued = vs.issued, served.revoked \subseteq vs.revoked,
             served.pending \subseteq vs.pending
      PROVE  Served
  BY <1>3 DEF Served
<1>4. DOMAIN vs = {"up", "gen", "node", "handle", "known", "vss", "issued", "revoked",
                    "pending"}
  BY DEF TypeOK
<1>5. /\ DOMAIN left = DOMAIN vs /\ left.issued = vs.issued /\ left.revoked = vs.revoked
      /\ left.pending = vs.pending
      /\ \A f : /\ DOMAIN joined(f) = DOMAIN vs /\ joined(f).issued = vs.issued
                /\ joined(f).revoked \subseteq vs.revoked /\ joined(f).pending \subseteq vs.pending
  BY <1>4 DEF left, joined
<1>6. ASSUME Served, NEW r \in {ok, Failed, answer("OutOfSync")},
             ans' = reply(ans, c.who, r) \/ ans' = ans
      PROVE  TypeOK'
  BY <1>1, <1>2, <1>6, PlainAnswers, AnsweredStep
<1>7. ASSUME NEW served, NEW a \in {ok, Failed}, request(c, served, a),
             DOMAIN served = DOMAIN vs,
             served.issued = vs.issued, served.revoked \subseteq vs.revoked,
             served.pending \subseteq vs.pending
      PROVE  TypeOK'
  <2>1. Served
    BY <1>3, <1>7, RequestServed
  <2>2. PICK r : ans' = reply(ans, c.who, r) /\ r \in {ok, Failed}
    BY <1>7, RequestServed
  <2> QED BY <1>6, <2>1, <2>2
<1>8. CASE c.op = "Stop" /\ handle_stop(c) /\ UNCHANGED ans
  <2>1. vs' \in {vs, left}
    BY <1>8, CallServed DEF handle_stop
  <2> QED BY <1>3, <1>5, <1>6, <1>8, <2>1
<1>9. CASE c.op = "Connect" /\ handle_connect(c)
  <2>1. CASE conn.handle
    <3>1. vs' = vs /\ ans' = reply(ans, c.who, Failed)
      BY <1>9, <2>1 DEF handle_connect
    <3> QED BY <1>3, <1>6, <3>1
  <2>2. CASE ~conn.handle
    <3>1. PICK r \in {ok, answer("OutOfSync"), Failed} :
            do_connect(c, r) /\ ans' = reply(ans, c.who, r)
      BY <1>9, <2>2 DEF handle_connect
    <3>2. vs' \in {vs, joined(c.arg)}
      BY <3>1, CallServed DEF do_connect
    <3>3. Served
      BY <1>3, <1>5, <3>2
    <3> QED BY <1>6, <3>1, <3>3
  <2> QED BY <2>1, <2>2
<1>10. CASE c.op = "VisaRequest" /\ do_visa_request(c)
  <2> DEFINE n == NewVisa(c.arg)  served == [vs EXCEPT !.issued = @ \cup {n}]
             a == [st |-> "ok", ops |-> {grant(n)}]
  <2>1. CASE request(c, served, a)
    <3>1. c.arg \in Adapters
      BY <1>1, <1>10 DEF Commands
    <3>3. /\ DOMAIN served = DOMAIN vs /\ served.issued = vs.issued \cup {n}
          /\ served.revoked = vs.revoked /\ served.pending = vs.pending
      BY <1>4
    <3> HIDE DEF n, served
    <3>4. Served
      BY <2>1, <3>1, <3>3, RequestServed DEF Served, n
    <3>5. PICK r : ans' = reply(ans, c.who, r) /\ (r = Failed \/ (r = a /\ vs' = served))
      BY <2>1, RequestServed
    <3>6. CASE r = Failed
      BY <1>6, <3>4, <3>5, <3>6
    <3>7. CASE r = a /\ vs' = served
      <4>1. r \in Answers'
        BY <3>3, <3>7 DEF Statuses, Answers, VisaOps, grant
      <4> QED BY <1>1, <1>2, <3>4, <3>5, <4>1, AnsweredStep
    <3> QED BY <3>5, <3>6, <3>7
  <2>2. CASE request(c, vs, Failed)
    BY <1>7, <2>2
  <2> QED BY <1>10, <2>1, <2>2 DEF do_visa_request
<1>11. CASE c.op = "AuthorizeConnect" /\ do_authorize_connect(c)
  <2> DEFINE served == [vs EXCEPT !.known = @ \cup {c.arg}]
  <2>1. DOMAIN served = DOMAIN vs /\ served.issued = vs.issued /\ served.revoked = vs.revoked
        /\ served.pending \subseteq vs.pending
    BY <1>4
  <2> QED BY <1>7, <1>11, <2>1 DEF do_authorize_connect
<1>12. CASE c.op = "NotifyDisconnect" /\ do_notify_disconnect(c)
  <2> DEFINE served == [vs EXCEPT !.known = @ \ {c.arg}]
  <2>1. DOMAIN served = DOMAIN vs /\ served.issued = vs.issued /\ served.revoked = vs.revoked
        /\ served.pending \subseteq vs.pending
    BY <1>4
  <2>2. request(c, served, ok) \/ request(c, left, ok)
    BY <1>12 DEF do_notify_disconnect
  <2> QED BY <1>5, <1>7, <2>1, <2>2
<1>13. CASE c.op = "RegisterVss" /\ do_register_vss(c)
  <2> DEFINE served == [vs EXCEPT !.vss = TRUE, !.pending = {}]
             a == [st |-> "ok", ops |-> vs.pending]
  <2>1. DOMAIN served = DOMAIN vs /\ served.issued = vs.issued /\ served.revoked = vs.revoked
        /\ served.pending \subseteq vs.pending
    BY <1>4
  <2>2. request(c, served, a)
    BY <1>13 DEF do_register_vss
  <2> HIDE DEF served
  <2>3. Served
    BY <1>3, <2>1, <2>2, RequestServed
  <2>4. PICK r : ans' = reply(ans, c.who, r) /\ (r = Failed \/ (r = a /\ vs' = served))
    BY <2>2, RequestServed
  <2>5. CASE r = Failed
    BY <1>6, <2>3, <2>4, <2>5
  <2>6. CASE r = a /\ vs' = served
    <3>1. r \in Answers'
      BY <2>1, <2>6 DEF Statuses, Answers, VisaOps, TypeOK
    <3> QED BY <1>1, <1>2, <2>3, <2>4, <3>1, AnsweredStep
  <2> QED BY <2>4, <2>5, <2>6
<1> QED BY <1>8, <1>9, <1>10, <1>11, <1>12, <1>13 DEF handle_command

\* A step that issues no visa.
LEMMA OtherStep ==
    ASSUME TypeOK, DOMAIN vs' = DOMAIN vs, vs'.issued = vs.issued, vs'.revoked \subseteq vs.issued,
           vs'.pending \subseteq VisaOps, cmds' \in Seq(Commands), WorkerTyped(wk'),
           vssq' \in Seq(Items), ans' \in [Callers -> Answers], table' \subseteq Entries
    PROVE  TypeOK'
<1>1. VisaOps' = VisaOps
  BY DEF VisaOps
<1>2. Answers' = Answers /\ Items' = Items /\ Entries' = Entries
  BY <1>1 DEF Answers, Items, Entries
<1> QED BY <1>1, <1>2 DEF TypeOK, WorkerTyped

\* An answer is taken, or part of it.
LEMMA AnswerTaken ==
    ASSUME TypeOK, NEW who \in Callers, NEW r \in [st : Statuses, ops : SUBSET ans[who].ops],
           ans' = [ans EXCEPT ![who] = r]
    PROVE  /\ ans' \in [Callers -> Answers]
           /\ \A a \in Adapters : Granted(a)' \subseteq Granted(a)
<1>1. ans \in [Callers -> Answers] /\ r \in Answers
  BY DEF TypeOK, Answers
<1>2. ans' \in [Callers -> Answers]
  BY <1>1
<1>3. \A c \in Callers : ans'[c] = IF c = who THEN r ELSE ans[c]
  BY <1>1
<1>4. ASSUME NEW a \in Adapters PROVE Granted(a)' \subseteq Granted(a)
  <2>1. <<"visa", a>> \in Callers
    BY DEF Callers
  <2> QED BY <1>3, <2>1 DEF Granted
<1> QED BY <1>2, <1>4

\* After its answer is taken a oneshot channel is empty.
LEMMA AnswerNone ==
    ASSUME TypeOK, NEW who \in Callers, ans' = [ans EXCEPT ![who] = answer("none")]
    PROVE  /\ ans' \in [Callers -> Answers]
           /\ \A a \in Adapters : Granted(a)' \subseteq Granted(a)
<1>1. answer("none") \in [st : Statuses, ops : SUBSET ans[who].ops]
  BY DEF answer, Statuses
<1> QED BY <1>1, AnswerTaken

\* What a step that leaves the parts of the state alone has to show of them.
LEMMA SameParts ==
    ASSUME TypeOK
    PROVE  /\ vs.revoked \subseteq vs.issued /\ cmds \in Seq(Commands) /\ WorkerTyped(wk)
           /\ vs.pending \subseteq VisaOps /\ vssq \in Seq(Items)
           /\ ans \in [Callers -> Answers] /\ table \subseteq Entries
           /\ worker \in Callers
           /\ \A a \in Adapters : <<"visa", a>> \in Callers /\ <<"actor", a>> \in Callers
  BY DEF TypeOK, Callers

\* The run loop dials, drops commands and pings.
LEMMA LoopStep ==
    ASSUME TypeOK, drop_command \/ run_with_reconnect \/ run \/ ping PROVE TypeOK'
<1>1. CASE drop_command
  <2> DEFINE c == Head(cmds)
  <2>1. cmds' \in Seq(Commands)
    BY <1>1, CommandsTyped DEF TypeOK, drop_command
  <2>2. ans' = reply(ans, c.who, Failed) \/ ans' = ans
    BY <1>1 DEF drop_command
  <2>3. Served /\ UNCHANGED <<wk, table, vssq>>
    BY <1>1 DEF drop_command, Served
  <2>4. Failed \in Answers'
    BY PlainAnswers
  <2> QED BY <2>1, <2>2, <2>3, <2>4, AnsweredStep
<1>2. CASE run_with_reconnect \/ run \/ ping
  <2>1. UNCHANGED <<vs, cmds, ans, wk, table, vssq>>
    BY <1>2 DEF run_with_reconnect, run, ping
  <2> QED BY <2>1, SameParts, OtherStep
<1> QED BY <1>1, <1>2

\* What vs_worker and stop send are commands.
LEMMA WorkerCommands ==
    /\ \A f \in Flags : \A w \in {worker, nobody} : command("Connect", w, f) \in Commands
    /\ command("AuthorizeConnect", worker, "nobody") \in Commands
    /\ command("RegisterVss", worker, "nobody") \in Commands
    /\ command("NotifyDisconnect", worker, "nobody") \in Commands
    /\ \A how \in {"deregister", "leave"} : command("Stop", nobody, how) \in Commands
<1>1. \A a : \A w \in {worker, nobody} : w # <<"actor", a>> /\ w # <<"visa", a>>
  BY DEF worker, nobody
<1>2. worker \in Callers /\ "nobody" \notin Adapters
  BY VsConnAssumption DEF Callers
<1> HIDE DEF worker, nobody
<1> DEFINE C == [op : {"Stop", "Connect", "VisaRequest", "AuthorizeConnect",
                       "NotifyDisconnect", "RegisterVss"},
                 who : Callers \cup {nobody},
                 arg : Adapters \cup Flags \cup {"nobody", "deregister", "leave"}]
<1>3. ASSUME NEW op \in {"Stop", "Connect", "AuthorizeConnect", "NotifyDisconnect", "RegisterVss"},
             NEW w \in {worker, nobody},
             NEW x \in Flags \cup {"nobody", "deregister", "leave"},
             op = "Stop" \/ (op = "Connect" /\ x \in Flags) \/ (op # "Connect" /\ x = "nobody")
      PROVE  command(op, w, x) \in Commands
  <2> DEFINE c == command(op, w, x)
  <2>1. c \in C /\ c.op = op /\ c.who = w /\ c.arg = x
    BY <1>2, <1>3 DEF command
  <2> HIDE DEF c
  <2>2. \A a \in Adapters : c.who # <<"actor", a>> /\ c.who # <<"visa", a>>
    BY <1>1, <2>1
  <2>3. c \in Commands
    BY <1>2, <1>3, <2>1, <2>2 DEF Commands
  <2> QED BY <2>3 DEF c
<1> QED BY <1>3 DEF Flags

\* The notices and requests sent for adapters are commands.
LEMMA AdapterCommands ==
    ASSUME NEW a \in Adapters
    PROVE  /\ command("NotifyDisconnect", nobody, a) \in Commands
           /\ command("AuthorizeConnect", <<"actor", a>>, a) \in Commands
           /\ command("VisaRequest", <<"visa", a>>, a) \in Commands
<1> DEFINE C == [op : {"Stop", "Connect", "VisaRequest", "AuthorizeConnect",
                       "NotifyDisconnect", "RegisterVss"},
                 who : Callers \cup {nobody},
                 arg : Adapters \cup Flags \cup {"nobody", "deregister", "leave"}]
<1>1. /\ command("NotifyDisconnect", nobody, a) \in C
      /\ command("AuthorizeConnect", <<"actor", a>>, a) \in C
      /\ command("VisaRequest", <<"visa", a>>, a) \in C
  BY DEF command, Callers
<1>2. \A b : /\ nobody # <<"actor", b>> /\ nobody # <<"visa", b>>
             /\ <<"actor", a>> # <<"visa", b>> /\ <<"visa", a>> # <<"actor", b>>
  BY DEF nobody
<1>3. \A b : /\ <<"actor", a>> = <<"actor", b>> => a = b
             /\ <<"visa", a>> = <<"visa", b>> => a = b
  OBVIOUS
<1> QED BY <1>1, <1>2, <1>3 DEF Commands, command

\* vs_worker: its commands, and the answers it takes.
LEMMA WorkerStep ==
    ASSUME TypeOK,
           \/ wait_for_runloop_start \/ connect \/ ConnectAnswered \/ ConnectRaced
           \/ register_vss \/ Retry
    PROVE  TypeOK'
<1>1. UNCHANGED <<vs, table, vssq, overtaken>>
  BY DEF wait_for_runloop_start, connect, ConnectAnswered, ConnectRaced, register_vss, Retry
<1>2. WorkerTyped(wk')
  <2>1. WorkerTyped(wk)
    BY SameParts
  <2>2. CASE wait_for_runloop_start \/ connect \/ ConnectAnswered \/ Retry
    BY <2>1, <2>2
       DEF wait_for_runloop_start, connect, ConnectAnswered, Retry, out_of_sync, WorkerDoes,
           WorkerTyped, Flags
  <2>3. CASE ConnectRaced
    BY <2>1, <2>3 DEF ConnectRaced, WorkerTyped
  <2>4. CASE register_vss
    BY <2>1, <2>4 DEF register_vss, WorkerDoes, WorkerTyped
  <2> QED BY <2>2, <2>3, <2>4
<1>3. cmds' \in Seq(Commands)
  <2>1. cmds \in Seq(Commands) /\ wk.flag \in Flags
    BY SameParts DEF WorkerTyped
  <2>2. \A f \in Flags : \A w \in {worker, nobody} : command("Connect", w, f) \in Commands
    BY WorkerCommands
  <2>3. /\ command("AuthorizeConnect", worker, "nobody") \in Commands
        /\ command("RegisterVss", worker, "nobody") \in Commands
        /\ command("NotifyDisconnect", worker, "nobody") \in Commands
    BY WorkerCommands
  <2>4. \A c \in Commands : <<c>> \in Seq(Commands)
    OBVIOUS
  <2>5. cmds \o <<>> \in Seq(Commands) /\ \A s \in Seq(Commands) : cmds \o s \in Seq(Commands)
    BY <2>1
  <2>6. CASE wait_for_runloop_start \/ Retry
    BY <2>1, <2>6 DEF wait_for_runloop_start, Retry
  <2>7. CASE connect
    BY <2>1, <2>2, <2>7, CommandsTyped DEF connect
  <2>8. CASE ConnectAnswered
    BY <2>1, <2>5, <2>8 DEF ConnectAnswered, WorkerDoes, out_of_sync
  <2>9. CASE ConnectRaced
    BY <2>1, <2>2, <2>9, CommandsTyped DEF ConnectRaced
  <2>10. CASE register_vss
    BY <2>1, <2>3, <2>4, <2>5, <2>10, CommandsTyped DEF register_vss, WorkerDoes
  <2> QED BY <2>6, <2>7, <2>8, <2>9, <2>10
<1>4. ans' = ans \/ ans' = [ans EXCEPT ![worker] = answer("none")]
  BY DEF wait_for_runloop_start, connect, ConnectAnswered, ConnectRaced, register_vss, Retry,
         WorkerDoes, out_of_sync
<1>5. ans' \in [Callers -> Answers]
  <2>1. CASE ans' = ans
    BY <2>1, SameParts
  <2>2. CASE ans' = [ans EXCEPT ![worker] = answer("none")]
    BY <2>2, SameParts, AnswerNone
  <2> QED BY <1>4, <2>1, <2>2
<1> QED BY <1>1, <1>2, <1>3, <1>5, SameParts, OtherStep

\* A reset link takes visas out of the table, and puts none in.
LEMMA ResetParts ==
    ASSUME TypeOK, NEW a \in Adapters, reset_peer(a)
    PROVE  /\ cmds' \in Seq(Commands)
           /\ table' \subseteq table
<1>1. cmds' = cmds \/ cmds' = Append(cmds, command("NotifyDisconnect", nobody, a))
  BY DEF reset_peer
<1>2. cmds' \in Seq(Commands)
  BY <1>1, CommandsTyped, AdapterCommands, SameParts
<1> QED BY <1>2 DEF reset_peer

\* disconnect_adapters resets link after link.
LEMMA DisconnectStep == ASSUME TypeOK, disconnect_adapters PROVE TypeOK'
<1>1. UNCHANGED <<vs, conn, ans, events, vssq, chances, refused, overtaken>>
  BY DEF disconnect_adapters
<1>2. ASSUME NEW a \in wk.todo, reset_peer(a), wk' = [wk EXCEPT !.todo = @ \ {a}]
      PROVE  TypeOK'
  <2>1. a \in Adapters /\ WorkerTyped(wk')
    BY <1>2, SameParts DEF WorkerTyped
  <2>2. cmds' \in Seq(Commands) /\ table' \subseteq Entries
    BY <1>2, <2>1, ResetParts, SameParts
  <2> QED BY <1>1, <2>1, <2>2, SameParts, OtherStep
<1>3. CASE /\ wk' = [wk EXCEPT !.pc = "Sleep"] /\ UNCHANGED <<ad, cmds>>
           /\ table' = {[v EXCEPT !.left = TRUE] : v \in table}
  <2>1. WorkerTyped(wk')
    BY <1>3, SameParts DEF WorkerTyped
  <2>2. ASSUME NEW e \in table' PROVE e \in Entries
    <3>1. PICK f \in table : e = [f EXCEPT !.left = TRUE]
      BY <1>3, <2>2
    <3>2. f \in [visa : vs.issued, bound : BOOLEAN, left : BOOLEAN]
      BY SameParts DEF Entries
    <3> QED BY <3>1, <3>2 DEF Entries
  <2> QED BY <1>1, <1>3, <2>1, <2>2, SameParts, OtherStep
<1> QED BY <1>2, <1>3 DEF disconnect_adapters

\* An adapter comes or goes, or learns of its authorization.
LEMMA AdapterStep ==
    ASSUME TypeOK, NEW a \in Adapters, AdapterChanges(a) \/ authorization_result(a)
    PROVE  TypeOK'
<1>1. UNCHANGED <<vs, wk, vssq>>
  BY DEF AdapterChanges, authorization_result
<1>2. CASE AdapterChanges(a)
  <2>1. cmds' \in Seq(Commands) /\ table' \subseteq Entries
    BY <1>2, ResetParts, CommandsTyped, AdapterCommands, SameParts DEF AdapterChanges
  <2>2. ans' = ans
    BY <1>2 DEF AdapterChanges
  <2> QED BY <1>1, <2>1, <2>2, SameParts, OtherStep
<1>3. CASE authorization_result(a)
  <2>1. ans' = [ans EXCEPT ![<<"actor", a>>] = answer("none")] /\ table' = table
    BY <1>3 DEF authorization_result
  <2>2. cmds' = cmds \/ cmds' = Append(cmds, command("NotifyDisconnect", nobody, a))
    BY <1>3 DEF authorization_result
  <2>3. cmds' \in Seq(Commands)
    BY <2>2, CommandsTyped, AdapterCommands, SameParts
  <2>4. ans' \in [Callers -> Answers]
    BY <2>1, SameParts, AnswerNone
  <2> QED BY <1>1, <2>1, <2>3, <2>4, SameParts, OtherStep
<1> QED BY <1>2, <1>3

\* Entries are for the visas they are made of.
LEMMA EntryOf ==
    ASSUME NEW v, NEW x \in BOOLEAN
    PROVE  /\ entry(v, x).visa = v /\ entry(v, x).bound = x /\ entry(v, x).left = ~x
           /\ v \in vs.issued => entry(v, x) \in Entries
  BY DEF entry, Entries

\* What enters the table is what was granted.
LEMMA GrantEntries ==
    ASSUME NEW S, NEW x, table' = table \/ table' = table \cup {entry(v, x) : v \in visas("Grant", S)}
    PROVE  \A e \in table' : e \in table \/ \E o \in S : o.op = "Grant" /\ e = entry(o.visa, x)
  BY DEF visas

\* A visa request is made, its visa enters the table, or a bind request uses a
\* visa that is there.
LEMMA VisaStep == ASSUME TypeOK, NEW a \in Adapters, visa_request_task(a) PROVE TypeOK'
<1> DEFINE me == <<"visa", a>>
<1>1. UNCHANGED <<vs, wk, vssq>>
  BY DEF visa_request_task
<1>2. CASE cmds' = Append(cmds, command("VisaRequest", me, a)) /\ UNCHANGED <<ans, table>>
  <2>1. cmds' \in Seq(Commands)
    BY <1>2, CommandsTyped, AdapterCommands, SameParts
  <2> QED BY <1>1, <1>2, <2>1, SameParts, OtherStep
<1>3. CASE /\ ans' = [ans EXCEPT ![me] = answer("none")] /\ UNCHANGED cmds
           /\ \/ table' = table
              \/ table' = table \cup {entry(v, ad[a].asks = "asked") : v \in visas("Grant", ans[me].ops)}
  <2>1. ans' \in [Callers -> Answers]
    BY <1>3, SameParts, AnswerNone
  <2>2. ASSUME NEW o \in ans[me].ops PROVE entry(o.visa, ad[a].asks = "asked") \in Entries
    <3>1. me \in Callers /\ ans \in [Callers -> Answers]
      BY SameParts
    <3>2. ans[me] \in Answers
      BY <3>1
    <3>3. o \in VisaOps
      BY <3>2 DEF Answers
    <3>4. o.visa \in vs.issued
      BY <3>3 DEF VisaOps
    <3> QED BY <3>4, EntryOf
  <2>3. table' \subseteq Entries
    <3>1. \A e \in table' : \/ e \in table
                           \/ \E o \in ans[me].ops : e = entry(o.visa, ad[a].asks = "asked")
      BY <1>3, GrantEntries
    <3> QED BY <2>2, <3>1, SameParts
  <2> QED BY <1>1, <1>3, <2>1, <2>3, SameParts, OtherStep
<1>4. ASSUME NEW e \in table, table' = (table \ {e}) \cup {[e EXCEPT !.bound = TRUE]},
             UNCHANGED <<cmds, ans>>
      PROVE  TypeOK'
  <2>1. e \in Entries
    BY SameParts
  <2>2. [e EXCEPT !.bound = TRUE] \in Entries
    BY <2>1 DEF Entries
  <2>3. table' \subseteq Entries
    BY <1>4, <2>2, SameParts
  <2> QED BY <1>1, <1>4, <2>3, SameParts, OtherStep
<1> QED BY <1>2, <1>3, <1>4 DEF visa_request_task

\* An operation puts a visa into the table that is not bound, takes one out, or
\* leaves the table alone.
LEMMA VisaOpTable ==
    ASSUME TypeOK, NEW o \in VisaOps, NEW done, process_visaop(o, done)
    PROVE  /\ table' \subseteq Entries
           /\ \A e \in table' : e \in table \/ (o = grant(e.visa) /\ e.left /\ ~e.bound)
           /\ o.op = "RevokeVisaId" => done /\ \A e \in table' : e.visa # o.visa
<1>1. entry(o.visa, FALSE) \in Entries /\ entry(o.visa, FALSE).visa = o.visa
      /\ entry(o.visa, FALSE).left /\ ~entry(o.visa, FALSE).bound
  BY EntryOf DEF VisaOps
<1>2. o.op = "Grant" => o = grant(o.visa)
  BY DEF VisaOps, grant
<1> QED BY <1>1, <1>2, SameParts DEF process_visaop

\* What is in the VSS queue and behind its head.
LEMMA QueueParts ==
    ASSUME TypeOK, vssq # <<>>
    PROVE  /\ Head(vssq) \in Items /\ Head(vssq) = vssq[1] /\ 1 \in DOMAIN vssq
           /\ Tail(vssq) \in Seq(Items)
           /\ \A n \in Nat : SubSeq(vssq, n + 1, Len(vssq)) \in Seq(Items)
  BY DEF TypeOK

\* Operations arrive over the VSS, or with the answer to its registration.
LEMMA VssStep == ASSUME TypeOK, vss_worker \/ registered PROVE TypeOK'
<1>1. CASE vss_worker
  <2>1. vssq # <<>> /\ UNCHANGED <<cmds, ans, wk>>
    BY <1>1 DEF vss_worker
  <2>2. Head(vssq).do \in VisaOps /\ Head(vssq).rest + 1 \in Nat
    BY <2>1, QueueParts DEF Items
  <2>3. CASE process_visaop(Head(vssq).do, TRUE) /\ vssq' = Tail(vssq) /\ UNCHANGED vs
    <3>1. table' \subseteq Entries
      BY <2>2, <2>3, VisaOpTable
    <3> QED BY <2>1, <2>3, <3>1, QueueParts, SameParts, OtherStep
  <2>4. ASSUME NEW n \in Nat, process_visaop(Head(vssq).do, FALSE),
               vssq' = SubSeq(vssq, n + 1, Len(vssq)),
               vs' = [vs EXCEPT !.pending = @ \cup unprocessed(vssq, n)]
        PROVE  TypeOK'
    <3>1. table' \subseteq Entries
      BY <2>2, <2>4, VisaOpTable
    <3>2. unprocessed(vssq, n) \subseteq VisaOps
      <4>1. \A v \in vs.revoked : revoke(v) \in VisaOps
        BY SameParts DEF revoke, VisaOps
      <4> QED BY <4>1 DEF unprocessed
    <3>3. /\ DOMAIN vs' = DOMAIN vs /\ vs'.issued = vs.issued /\ vs'.revoked = vs.revoked
          /\ vs'.pending = vs.pending \cup unprocessed(vssq, n)
      BY <2>4 DEF TypeOK
    <3> QED BY <2>1, <2>4, <3>1, <3>2, <3>3, QueueParts, SameParts, OtherStep
  <2> QED BY <1>1, <2>2, <2>3, <2>4 DEF vss_worker
<1>2. CASE registered
  <2>1. UNCHANGED <<vs, cmds, vssq>>
    BY <1>2 DEF registered
  <2>2. CASE /\ wk' = [wk EXCEPT !.pc = "Gate", !.flag = "HasState"]
             /\ ans' = [ans EXCEPT ![worker] = answer("none")] /\ UNCHANGED table
    <3>1. WorkerTyped(wk')
      BY <2>2, SameParts DEF WorkerTyped, Flags
    <3>2. ans' \in [Callers -> Answers]
      BY <2>2, SameParts, AnswerNone
    <3> QED BY <2>1, <2>2, <3>1, <3>2, SameParts, OtherStep
  <2>3. ASSUME NEW o \in ans[worker].ops, NEW done \in BOOLEAN, process_visaop(o, done),
               UNCHANGED wk, ans' = [ans EXCEPT ![worker].ops = @ \ {o}]
        PROVE  TypeOK'
    <3> DEFINE r == [ans[worker] EXCEPT !.ops = @ \ {o}]
    <3>1. ans[worker] \in Answers
      BY SameParts
    <3>2. r \in [st : Statuses, ops : SUBSET ans[worker].ops] /\ o \in VisaOps
      BY <3>1 DEF Answers
    <3>3. ans' = [ans EXCEPT ![worker] = r]
      BY <2>3
    <3>4. ans' \in [Callers -> Answers]
      BY <3>2, <3>3, SameParts, AnswerTaken
    <3>5. table' \subseteq Entries
      BY <2>3, <3>2, VisaOpTable
    <3> QED BY <2>1, <2>3, <3>4, <3>5, SameParts, OtherStep
  <2> QED BY <1>2, <2>2, <2>3 DEF registered
<1> QED BY <1>1, <1>2

\* The kinds of operations that the visa service decides on: a new visa at most,
\* and one of those it has issued.
LEMMA DecisionParts ==
    ASSUME NEW new \in Decisions
    PROVE  /\ \A o \in new :
                \/ \E a \in Adapters : o = grant(NewVisa(a))
                \/ \E v \in vs.issued \ vs.revoked : o = revoke(v) /\ grant(v) \notin vs.pending
           /\ \A o, p \in new : o.op = p.op => o = p
<1>0. \/ new \in NewGrants \/ new \in NewRevocations
      \/ \E g \in NewGrants, r \in NewRevocations : new = g \cup r
  BY DEF Decisions
<1>1. PICK g \in NewGrants \cup {{}}, r \in NewRevocations \cup {{}} : new = g \cup r
  <2>1. CASE new \in NewGrants
    <3>1. new = new \cup {}
      OBVIOUS
    <3> QED BY <2>1, <3>1, Zenon
  <2>2. CASE new \in NewRevocations
    <3>1. new = {} \cup new
      OBVIOUS
    <3> QED BY <2>2, <3>1, Zenon
  <2>3. CASE \E g \in NewGrants, r \in NewRevocations : new = g \cup r
    BY <2>3, Zenon
  <2> QED BY <1>0, <2>1, <2>2, <2>3
<1>2. g = {} \/ \E a \in Adapters : g = {grant(NewVisa(a))}
  BY <1>1 DEF NewGrants
<1>3. r = {} \/ \E v \in vs.issued \ vs.revoked : r = {revoke(v)} /\ grant(v) \notin vs.pending
  BY <1>1 DEF NewRevocations
<1>4. \A v, w : grant(v).op = "Grant" /\ revoke(w).op = "RevokeVisaId"
  BY DEF grant, revoke
<1> QED BY <1>1, <1>2, <1>3, <1>4

\* What a push adds to the visas, and to the queue.
LEMMA PushParts ==
    ASSUME TypeOK, NEW new \in Decisions, push_visa_op(new)
    PROVE  /\ DOMAIN vs' = DOMAIN vs
           /\ vs'.issued = vs.issued \/ \E a \in Adapters : vs'.issued = vs.issued \cup {NewVisa(a)}
           /\ vs.issued \subseteq vs'.issued
           /\ vs'.revoked = vs.revoked \cup visas("RevokeVisaId", new)
           /\ visas("RevokeVisaId", new) \subseteq vs.issued
           /\ vs'.pending = IF vs.vss THEN {} ELSE vs.pending \cup new
           /\ vs.pending \cup new \subseteq VisaOps'
           /\ vs'.node = vs.node /\ vs'.handle = vs.handle /\ vs'.gen = vs.gen /\ vs'.known = vs.known
<1>1. /\ DOMAIN vs' = DOMAIN vs
      /\ vs'.issued = vs.issued \cup visas("Grant", new)
      /\ vs'.revoked = vs.revoked \cup visas("RevokeVisaId", new)
      /\ vs'.pending = IF vs.vss THEN {} ELSE vs.pending \cup new
      /\ vs'.node = vs.node /\ vs'.handle = vs.handle /\ vs'.gen = vs.gen /\ vs'.known = vs.known
  BY DEF push_visa_op, TypeOK
<1>2. \A v : /\ grant(v).op = "Grant" /\ grant(v).visa = v
             /\ revoke(v).op = "RevokeVisaId" /\ revoke(v).visa = v
  BY DEF grant, revoke
<1>3. visas("RevokeVisaId", new) \subseteq vs.issued
  BY <1>2, DecisionParts DEF visas
<1>4. visas("Grant", new) = {} \/ \E a \in Adapters : visas("Grant", new) = {NewVisa(a)}
  <2>1. CASE \E o \in new : o.op = "Grant"
    <3>1. PICK o \in new : o.op = "Grant"
      BY <2>1
    <3>2. PICK a \in Adapters : o = grant(NewVisa(a))
      BY <1>2, <3>1, DecisionParts
    <3>3. \A p \in new : p.op = "Grant" => p = o
      BY <3>1, DecisionParts
    <3>4. visas("Grant", new) = {o.visa}
      BY <3>1, <3>3 DEF visas
    <3> QED BY <1>2, <3>2, <3>4
  <2>2. CASE ~\E o \in new : o.op = "Grant"
    BY <2>2 DEF visas
  <2> QED BY <2>1, <2>2
<1>5. vs.issued \subseteq vs'.issued
  BY <1>1
<1>6. ASSUME NEW o \in new PROVE o \in VisaOps'
  <2>1. CASE \E a \in Adapters : o = grant(NewVisa(a))
    <3>1. o.visa \in visas("Grant", new) /\ o = [op |-> "Grant", visa |-> o.visa]
      BY <1>2, <2>1 DEF visas, grant
    <3> QED BY <1>1, <3>1 DEF VisaOps
  <2>2. CASE \E v \in vs.issued : o = revoke(v)
    BY <1>5, <2>2 DEF revoke, VisaOps
  <2> QED BY <2>1, <2>2, DecisionParts
<1>7. vs.pending \subseteq VisaOps'
  BY <1>5, MoreIssued DEF TypeOK
<1> QED BY <1>1, <1>3, <1>4, <1>5, <1>6, <1>7

\* What a list adds to the VSS queue.
LEMMA PushQueue ==
    ASSUME TypeOK, NEW new \in Decisions, push_visa_op(new), vs.vss
    PROVE  \E ops \in Seq(vs.pending \cup new), q \in Seq(Items') :
             /\ Range(ops) = vs.pending \cup new
             /\ Len(q) = Len(ops) /\ \A i \in DOMAIN q : q[i].do = ops[i]
             /\ vssq' = vssq \o q
<1> DEFINE all == vs.pending \cup new
<1>1. PICK ops \in SeqOf(all, Cardinality(all)) :
        /\ Range(ops) = all
        /\ vssq' = vssq \o [i \in DOMAIN ops |-> [do |-> ops[i], rest |-> Len(ops) - i]]
  BY DEF push_visa_op
<1>2. PICK m \in Nat : ops \in [1..m -> all]
  <2> DEFINE k == Cardinality(all)
  <2> HIDE DEF all, k
  <2>1. ops \in UNION {[1..m -> all] : m \in 0..k}
    BY <1>1 DEF SeqOf, k
  <2>2. PICK m \in 0..k : ops \in [1..m -> all]
    BY <2>1
  <2>3. m \in Nat
    BY <2>2
  <2> QED BY <2>2, <2>3
<1>3. ops \in Seq(all) /\ Len(ops) = m /\ DOMAIN ops = 1..m
  BY <1>2
<1> DEFINE q == [i \in DOMAIN ops |-> [do |-> ops[i], rest |-> Len(ops) - i]]
<1>4. ASSUME NEW i \in 1..m PROVE q[i] \in Items' /\ q[i].do = ops[i]
  <2>1. ops[i] \in VisaOps' /\ m - i \in Nat
    BY <1>2, PushParts
  <2>2. q[i] = [do |-> ops[i], rest |-> m - i]
    BY <1>3
  <2> QED BY <2>1, <2>2 DEF Items
<1>5. q \in [1..m -> Items']
  BY <1>3, <1>4
<1>6. q \in Seq(Items') /\ Len(q) = m /\ DOMAIN q = 1..m
  <2> HIDE DEF q
  <2> QED BY <1>5
<1>7. vssq' = vssq \o q
  BY <1>1
<1> HIDE DEF q
<1> QED BY <1>1, <1>3, <1>4, <1>6, <1>7

\* The visa service pushes operations, crashes, or starts again.
LEMMA ServiceStep ==
    ASSUME TypeOK, (\E new \in Decisions : push_visa_op(new)) \/ Crash \/ Restart PROVE TypeOK'
<1>1. UNCHANGED <<cmds, ans, wk, table>>
  BY DEF push_visa_op, Crash, Restart
<1>2. ASSUME NEW new \in Decisions, push_visa_op(new) PROVE TypeOK'
  <2>1. /\ Answers \subseteq Answers' /\ Items \subseteq Items' /\ Entries \subseteq Entries'
    BY <1>2, PushParts, MoreIssued
  <2>2. vssq' \in Seq(Items')
    <3>1. vssq \in Seq(Items')
      BY <2>1 DEF TypeOK
    <3>2. CASE vs.vss
      <4>1. PICK ops \in Seq(vs.pending \cup new), q \in Seq(Items') : vssq' = vssq \o q
        BY <1>2, <3>2, PushQueue
      <4> QED BY <3>1, <4>1
    <3>3. CASE ~vs.vss
      BY <1>2, <3>1, <3>3 DEF push_visa_op
    <3> QED BY <3>2, <3>3
  <2>3. ans' \in [Callers -> Answers'] /\ table' \subseteq Entries'
    BY <1>1, <2>1 DEF TypeOK
  <2>4. /\ IsFiniteSet(vs'.issued) /\ \A v \in vs'.issued : v.id \in 1..Cardinality(vs'.issued)
    BY <1>2, PushParts, NewVisaFresh DEF TypeOK
  <2>5. vs'.revoked \subseteq vs'.issued /\ vs'.pending \subseteq VisaOps'
    BY <1>2, PushParts DEF TypeOK
  <2>6. DOMAIN vs' = {"up", "gen", "node", "handle", "known", "vss", "issued", "revoked", "pending"}
    BY <1>2, PushParts DEF TypeOK
  <2>7. cmds' \in Seq(Commands) /\ WorkerTyped(wk')
    BY <1>1 DEF TypeOK
  <2> QED BY <2>2, <2>3, <2>4, <2>5, <2>6, <2>7 DEF TypeOK
<1>3. CASE Crash \/ Restart
  <2>1. /\ DOMAIN vs' = DOMAIN vs /\ vs'.issued = vs.issued
        /\ vs'.revoked \subseteq vs.revoked /\ vs'.pending \subseteq vs.pending
    BY <1>3 DEF Crash, Restart, TypeOK
  <2>2. vssq' = vssq
    BY <1>3 DEF Crash, Restart
  <2> QED BY <1>1, <2>1, <2>2, SameParts, OtherStep
<1> QED BY <1>2, <1>3

-----------------------------------------------------------------------------
(* The types.                                                              *)

\* They are kept by every step.
LEMMA StepTypes == TypeOK /\ [Next]_vars => TypeOK'
<1> SUFFICES ASSUME TypeOK, [Next]_vars PROVE TypeOK'
  OBVIOUS
<1>1. CASE UNCHANGED vars
  <2>1. UNCHANGED <<vs, cmds, ans, wk, table, vssq>>
    BY <1>1 DEF vars
  <2> QED BY <2>1, SameParts, OtherStep
<1>2. CASE Loop \/ Ping
  BY <1>2, HandleStep, LoopStep DEF Loop, Ping
<1>3. CASE Worker
  BY <1>3, WorkerStep, VssStep, DisconnectStep DEF Worker
<1>4. CASE Tasks
  BY <1>4, AdapterStep, VisaStep, VssStep DEF Tasks
<1>5. CASE Requests
  <2>1. CASE stop
    <3>1. PICK how \in {"deregister", "leave"} :
            cmds' = Append(cmds, command("Stop", nobody, how))
      BY <2>1 DEF stop
    <3>2. command("Stop", nobody, how) \in Commands
      BY WorkerCommands
    <3>3. cmds' \in Seq(Commands)
      BY <3>1, <3>2, CommandsTyped, SameParts
    <3>4. UNCHANGED <<vs, ans, wk, table, vssq>>
      BY <2>1 DEF stop
    <3> QED BY <3>3, <3>4, SameParts, OtherStep
  <2> QED BY <1>5, <2>1, AdapterStep, VisaStep DEF Requests
<1>6. CASE (\E new \in Decisions : push_visa_op(new)) \/ Crash \/ Restart
  BY <1>6, ServiceStep
<1> QED BY <1>1, <1>2, <1>3, <1>4, <1>5, <1>6 DEF Next

\* Every reachable state is typed.
THEOREM VsConnTypes == Spec => []TypeOK
<1>1. Init => TypeOK
  BY InitTypes
<1>2. TypeOK /\ [Next]_vars => TypeOK'
  BY StepTypes
<1> QED
  BY <1>1, <1>2, PTL DEF Spec

-----------------------------------------------------------------------------
(* What the node serves, the visa service knows.                           *)

actor(a) == <<"actor", a>>
asker(a) == <<"visa", a>>

\* Adapter a, with d for its link, q for the commands, n for the answer to its
\* authorization and p for that to its visa request.  Each of the two is under
\* way once at most, in the queue or answered; and a notice that the adapter has
\* gone is ahead of the request for its next authorization.
AdapterOK(a, d, q, n, p) ==
    /\ d.asks = "asked" => d.st = "up"
    /\ n.st # "none" => d.st \in {"asking", "gone"}
    /\ p.st # "none" => d.asks # "none"
    /\ p.st = "none" => p.ops = {}
    /\ \A x \in p.ops : x.visa.for = a
    /\ \A i \in DOMAIN q : q[i].who = actor(a) =>
         /\ d.st \in {"asking", "gone"} /\ n.st = "none"
         /\ \A j \in DOMAIN q : q[j].who = actor(a) => i = j
    /\ \A i \in DOMAIN q : q[i].who = asker(a) =>
         /\ d.asks # "none" /\ p.st = "none"
         /\ \A j \in DOMAIN q : q[j].who = asker(a) => i = j
    /\ \A i \in DOMAIN q : q[i].op = "NotifyDisconnect" /\ q[i].arg = a =>
         \/ d.st = "down"
         \/ d.st \in {"asking", "gone"} /\ \E j \in DOMAIN q : j > i /\ q[j].who = actor(a)

AdaptersOK ==
    /\ ad \in [Adapters -> [st : {"down", "asking", "gone", "up"},
                            asks : {"none", "asked", "orphan"}]]
    /\ \A a \in Adapters : AdapterOK(a, ad[a], cmds, ans[actor(a)], ans[asker(a)])

ConnOK ==
    /\ DOMAIN conn = {"st", "live", "handle", "ping_failures"}
    /\ conn.handle => conn.st = "Running"
    /\ events \in Seq({"RunLoopStarts", "RunLoopExits", "ConnectedToVsApi"})

\* The visa service knows the nodes it serves; visas are for adapters, and one
\* that was put into the table without a forwarding entry is left over.
VisasOK ==
    /\ vs.handle => vs.node
    /\ \A v \in vs.issued : v.for \in Adapters
    /\ \A e \in table : e.bound \/ e.left

Shape == AdaptersOK /\ ConnOK /\ VisasOK

-----------------------------------------------------------------------------
(* The worker, w, with r for the status of its answer.                     *)

\* From these it does not come back to serve, or only after a refusal.
Escaped == refused \/ wk.pc \in {"Disconnect", "Panicked"} \/ conn.st = "Stopped"

\* What the worker waits for at each place.
Asks(w, op) ==
    \/ w.pc = "Select" /\ w.sent /\ op = "Connect"
    \/ w.pc = "Deferred" /\ op = "AuthorizeConnect"
    \/ w.pc = "Register" /\ op = "RegisterVss"

\* There is one command of the worker at most, and no connect of another, old
\* one.
Sole(q, r, w) ==
    /\ \A i \in DOMAIN q : q[i].op = "Connect" => q[i].who = worker /\ q[i].arg = w.flag
    /\ \A i \in DOMAIN q : q[i].who = worker =>
         /\ r = "none" /\ Asks(w, q[i].op)
         /\ \A j \in DOMAIN q : q[j].who = worker => i = j

Answered(r, w) ==
    r # "none" => \/ w.pc = "Select" /\ w.sent
                  \/ w.pc \in {"Deferred", "Register"}

\* It is about to connect, and nothing has come of that yet.
Retrying(r, w) == w.pc \in {"Sleep", "Resetting"} \/ (w.pc = "Select" /\ r # "ok")

\* Then the run loop runs without a handle, and all its events have been read.
\* At other times the last event may be a start, but only of a run that has no
\* handle yet.
Dialing(r, w, ev, cn) ==
    /\ Retrying(r, w) => ev = <<>> /\ ~cn.handle /\ cn.st = "Running"
    /\ w.pc = "Select" /\ r = "ok" => ev # <<>> /\ Head(ev) = "ConnectedToVsApi"
    /\ \A i \in DOMAIN ev : ev[i] = "RunLoopStarts" =>
         i = Len(ev) /\ cn.st = "Running" /\ ~cn.handle

WorkerOK ==
    /\ Sole(cmds, ans[worker].st, wk) /\ Answered(ans[worker].st, wk)
    /\ Dialing(ans[worker].st, wk, events, conn)

\* The adapter is up, or will be when it reads its answer.
Up(a) == ad[a].st = "up" \/ (ad[a].st = "asking" /\ ans[actor(a)].st = "ok")

\* The node has nothing that the visa service would have to know: it has yet to
\* connect for the first time, or has reset its adapters,
Blank(r, w) == w.flag = "NoState" /\ w.pc # "Resetting" /\ (w.pc = "Gate" \/ Retrying(r, w))

BlankOK == ~conn.handle /\ (\A a \in Adapters : ~Up(a)) /\ \A e \in table : e.left

\* or is about to do so.
ResetOK == /\ \A a \in Adapters : Up(a) => a \in wk.todo
           /\ \A e \in table : e.left \/ e.visa.for \in wk.todo

\* Else the visa service knows it all, unless it has forgotten the node itself.
KnownOK ==
    vs.node => /\ \A a \in Adapters : Up(a) => a \in vs.known
               /\ \A a \in Adapters : ad[a].asks = "asked" => \A v \in Granted(a) : v.gen = vs.gen
               /\ \A e \in table : e.left \/ e.visa.gen = vs.gen

Synced ==
    /\ Blank(ans[worker].st, wk) => BlankOK
    /\ wk.pc = "Resetting" => ResetOK
    /\ ~Blank(ans[worker].st, wk) /\ wk.pc # "Resetting" => KnownOK

\* The inductive invariant, on top of the first one.
SyncInv == Shape /\ (Escaped \/ (WorkerOK /\ Synced))

-----------------------------------------------------------------------------
(* Commands come and go.                                                   *)

\* Elements of a queue whose head is taken, and of one that has grown.
LEMMA Places ==
    ASSUME NEW S, NEW q \in Seq(S)
    PROVE  /\ q # <<>> => /\ Head(q) = q[1] /\ 1 \in DOMAIN q
                          /\ \A i \in DOMAIN Tail(q) : i + 1 \in DOMAIN q /\ Tail(q)[i] = q[i + 1]
                          /\ \A i \in DOMAIN q : i > 1 => i - 1 \in DOMAIN Tail(q)
           /\ \A x \in S : /\ DOMAIN q \subseteq DOMAIN Append(q, x)
                           /\ \A i \in DOMAIN q : Append(q, x)[i] = q[i]
                           /\ Len(q) + 1 \in DOMAIN Append(q, x)
                           /\ Append(q, x)[Len(q) + 1] = x
                           /\ \A i \in DOMAIN Append(q, x) : i \in DOMAIN q \/ i = Len(q) + 1
                           /\ \A i \in DOMAIN q : i < Len(q) + 1
           /\ DOMAIN q \subseteq Nat
<1>1. DOMAIN q = 1 .. Len(q) /\ Len(q) \in Nat
  OBVIOUS
<1>2. CASE q # <<>>
  <2>1. Len(q) >= 1
    BY <1>1, <1>2
  <2>2. Tail(q) \in Seq(S) /\ Len(Tail(q)) = Len(q) - 1
    BY <1>1, <1>2
  <2>3. \A i \in 1 .. Len(Tail(q)) : Tail(q)[i] = q[i + 1]
    BY <1>1, <1>2, <2>2
  <2>4. DOMAIN Tail(q) = 1 .. (Len(q) - 1)
    BY <2>2
  <2> QED BY <1>1, <1>2, <2>1, <2>2, <2>3, <2>4
<1>3. ASSUME NEW x \in S
      PROVE  /\ Append(q, x) \in Seq(S) /\ Len(Append(q, x)) = Len(q) + 1
             /\ \A i \in 1 .. Len(q) : Append(q, x)[i] = q[i]
             /\ Append(q, x)[Len(q) + 1] = x
             /\ DOMAIN Append(q, x) = 1 .. (Len(q) + 1)
  BY <1>1, <1>3
<1> QED BY <1>1, <1>2, <1>3

\* A command is taken, and answered perhaps.
LEMMA AdapterTake ==
    ASSUME NEW a \in Adapters, NEW d, NEW q \in Seq(Commands), q # <<>>,
           NEW n, NEW p, AdapterOK(a, d, q, n, p),
           NEW m, m = n \/ Head(q).who = actor(a),
           NEW o, \/ o = p
                  \/ /\ Head(q).who = asker(a) /\ \A x \in o.ops : x.visa.for = a
                     /\ o.st # "none"
    PROVE  AdapterOK(a, d, Tail(q), m, o)
<1>1. /\ Head(q) = q[1] /\ 1 \in DOMAIN q /\ DOMAIN q \subseteq Nat
      /\ \A i \in DOMAIN Tail(q) : i + 1 \in DOMAIN q /\ Tail(q)[i] = q[i + 1]
      /\ \A i \in DOMAIN q : i > 1 => i - 1 \in DOMAIN Tail(q)
  BY Places
<1>2. DOMAIN Tail(q) \subseteq Nat \ {0}
  OBVIOUS
<1>3. ASSUME NEW i \in DOMAIN Tail(q), Tail(q)[i].who = actor(a)
      PROVE  /\ d.st \in {"asking", "gone"} /\ m.st = "none"
             /\ \A j \in DOMAIN Tail(q) : Tail(q)[j].who = actor(a) => i = j
  <2>1. /\ i + 1 \in DOMAIN q /\ q[i + 1].who = actor(a) /\ i \in Nat \ {0}
    BY <1>1, <1>2, <1>3
  <2>2. /\ d.st \in {"asking", "gone"} /\ n.st = "none"
        /\ \A j \in DOMAIN q : q[j].who = actor(a) => i + 1 = j
    BY <2>1 DEF AdapterOK
  <2>3. Head(q).who # actor(a)
    BY <1>1, <2>1, <2>2
  <2>4. \A j \in DOMAIN Tail(q) : Tail(q)[j].who = actor(a) => i = j
    BY <1>1, <1>2, <2>1, <2>2
  <2> QED BY <2>2, <2>3, <2>4
<1>4. ASSUME NEW i \in DOMAIN Tail(q), Tail(q)[i].who = asker(a)
      PROVE  /\ d.asks # "none" /\ o.st = "none"
             /\ \A j \in DOMAIN Tail(q) : Tail(q)[j].who = asker(a) => i = j
  <2>1. /\ i + 1 \in DOMAIN q /\ q[i + 1].who = asker(a) /\ i \in Nat \ {0}
    BY <1>1, <1>2, <1>4
  <2>2. /\ d.asks # "none" /\ p.st = "none"
        /\ \A j \in DOMAIN q : q[j].who = asker(a) => i + 1 = j
    BY <2>1 DEF AdapterOK
  <2>3. Head(q).who # asker(a)
    BY <1>1, <2>1, <2>2
  <2>4. \A j \in DOMAIN Tail(q) : Tail(q)[j].who = asker(a) => i = j
    BY <1>1, <1>2, <2>1, <2>2
  <2> QED BY <2>2, <2>3, <2>4
<1>5. ASSUME NEW i \in DOMAIN Tail(q), Tail(q)[i].op = "NotifyDisconnect", Tail(q)[i].arg = a
      PROVE  \/ d.st = "down"
             \/ /\ d.st \in {"asking", "gone"}
                /\ \E j \in DOMAIN Tail(q) : j > i /\ Tail(q)[j].who = actor(a)
  <2>1. /\ i + 1 \in DOMAIN q /\ i \in Nat \ {0}
        /\ q[i + 1].op = "NotifyDisconnect" /\ q[i + 1].arg = a
    BY <1>1, <1>2, <1>5
  <2>2. CASE d.st # "down"
    <3>1. /\ d.st \in {"asking", "gone"}
          /\ \E j \in DOMAIN q : j > i + 1 /\ q[j].who = actor(a)
      BY <2>1, <2>2 DEF AdapterOK
    <3>2. PICK j \in DOMAIN q : j > i + 1 /\ q[j].who = actor(a)
      BY <3>1
    <3>3. j \in Nat /\ j > 1 /\ j - 1 \in DOMAIN Tail(q) /\ (j - 1) + 1 = j /\ j - 1 > i
      BY <1>1, <2>1, <3>2
    <3>4. Tail(q)[j - 1] = q[j]
      BY <1>1, <3>3
    <3> QED BY <3>1, <3>2, <3>3, <3>4
  <2> QED BY <2>2
<1>6. /\ m.st # "none" => d.st \in {"asking", "gone"}
      /\ o.st # "none" => d.asks # "none"
      /\ o.st = "none" => o.ops = {}
      /\ \A x \in o.ops : x.visa.for = a
      /\ d.asks = "asked" => d.st = "up"
  BY <1>1 DEF AdapterOK
<1> QED BY <1>3, <1>4, <1>5, <1>6 DEF AdapterOK

\* A command of another is sent.
LEMMA AdapterSend ==
    ASSUME NEW a \in Adapters, NEW d, NEW q \in Seq(Commands), NEW c \in Commands,
           NEW n, NEW p, AdapterOK(a, d, q, n, p),
           c.who # actor(a), c.who # asker(a),
           c.op = "NotifyDisconnect" /\ c.arg = a => d.st = "down"
    PROVE  AdapterOK(a, d, Append(q, c), n, p)
<1> DEFINE k == Append(q, c)
<1>1. /\ DOMAIN q \subseteq DOMAIN k
      /\ \A i \in DOMAIN q : k[i] = q[i]
      /\ \A i \in DOMAIN k : i \in DOMAIN q \/ k[i] = c
  BY Places
<1> HIDE DEF k
<1>2. \A i \in DOMAIN k : k[i].who \in {actor(a), asker(a)} => i \in DOMAIN q /\ k[i] = q[i]
  BY <1>1
<1>3. \A i \in DOMAIN k : k[i].who = actor(a) =>
         /\ d.st \in {"asking", "gone"} /\ n.st = "none"
         /\ \A j \in DOMAIN k : k[j].who = actor(a) => i = j
  BY <1>2 DEF AdapterOK
<1>4. \A i \in DOMAIN k : k[i].who = asker(a) =>
         /\ d.asks # "none" /\ p.st = "none"
         /\ \A j \in DOMAIN k : k[j].who = asker(a) => i = j
  BY <1>2 DEF AdapterOK
<1>5. \A i \in DOMAIN k : k[i].op = "NotifyDisconnect" /\ k[i].arg = a =>
         \/ d.st = "down"
         \/ d.st \in {"asking", "gone"} /\ \E j \in DOMAIN k : j > i /\ k[j].who = actor(a)
  BY <1>1 DEF AdapterOK
<1>6. /\ n.st # "none" => d.st \in {"asking", "gone"}
      /\ p.st # "none" => d.asks # "none"
      /\ p.st = "none" => p.ops = {}
      /\ \A x \in p.ops : x.visa.for = a
      /\ d.asks = "asked" => d.st = "up"
  BY DEF AdapterOK
<1> QED BY <1>3, <1>4, <1>5, <1>6 DEF AdapterOK, k

\* The callers are different ones.
LEMMA DifferentCallers ==
    /\ \A a : /\ worker # actor(a) /\ worker # asker(a)
              /\ nobody # actor(a) /\ nobody # asker(a)
    /\ \A a, b : /\ actor(a) # asker(b)
                 /\ actor(a) = actor(b) => a = b
                 /\ asker(a) = asker(b) => a = b
    /\ worker # nobody
    /\ worker \in Callers /\ nobody \notin Callers
    /\ \A a \in Adapters : actor(a) \in Callers /\ asker(a) \in Callers
  BY DEF worker, nobody, actor, asker, Callers

\* An answer reaches the one who waits for it.
LEMMA AnswerAt ==
    ASSUME TypeOK, NEW who, NEW r, ans' = reply(ans, who, r), NEW w \in Callers
    PROVE  ans'[w] = IF w = who THEN r ELSE ans[w]
  BY DEF TypeOK, reply

\* So does one that is taken.
LEMMA AnswerTakenAt ==
    ASSUME TypeOK, NEW who \in Callers, NEW r, ans' = [ans EXCEPT ![who] = r], NEW w \in Callers
    PROVE  ans'[w] = IF w = who THEN r ELSE ans[w]
  BY DEF TypeOK

\* The run loop takes a command, and answers it perhaps.
LEMMA AdaptersTake ==
    ASSUME TypeOK, AdaptersOK, cmds # <<>>, cmds' = Tail(cmds), ad' = ad,
           NEW r, ans' = reply(ans, Head(cmds).who, r) \/ ans' = ans, r.st # "none",
           \A a \in Adapters : Head(cmds).who = asker(a) => \A x \in r.ops : x.visa.for = a
    PROVE  AdaptersOK'
<1>1. cmds \in Seq(Commands)
  BY DEF TypeOK
<1>2. ASSUME NEW a \in Adapters
      PROVE  AdapterOK(a, ad[a], Tail(cmds), ans'[actor(a)], ans'[asker(a)])
  <2>1. AdapterOK(a, ad[a], cmds, ans[actor(a)], ans[asker(a)])
    BY DEF AdaptersOK
  <2>2. \A w \in Callers : ans'[w] = ans[w] \/ (Head(cmds).who = w /\ ans'[w] = r)
    BY AnswerAt
  <2>3. actor(a) \in Callers /\ asker(a) \in Callers
    BY DifferentCallers
  <2>4. ans'[actor(a)] = ans[actor(a)] \/ Head(cmds).who = actor(a)
    BY <2>2, <2>3
  <2>5. \/ ans'[asker(a)] = ans[asker(a)]
        \/ /\ Head(cmds).who = asker(a) /\ \A x \in ans'[asker(a)].ops : x.visa.for = a
           /\ ans'[asker(a)].st # "none"
    BY <2>2, <2>3
  <2> QED BY <1>1, <2>1, <2>4, <2>5, AdapterTake
<1> QED BY <1>2 DEF AdaptersOK

\* The answers that adapters wait for stay.
AnswersStay == \A a \in Adapters : ans'[actor(a)] = ans[actor(a)] /\ ans'[asker(a)] = ans[asker(a)]

\* They do so if the worker takes its own.
LEMMA WorkerTakes ==
    ASSUME TypeOK, NEW r, ans' = [ans EXCEPT ![worker] = r]
    PROVE  AnswersStay /\ ans'[worker] = r
<1>1. worker \in Callers
  BY DifferentCallers
<1>2. \A w \in Callers : ans'[w] = IF w = worker THEN r ELSE ans[w]
  BY <1>1, AnswerTakenAt
<1> QED BY <1>1, <1>2, DifferentCallers DEF AnswersStay

\* Nothing happens to the adapters, or a command is sent that is not theirs.
LEMMA AdaptersSend ==
    ASSUME TypeOK, AdaptersOK, ad' = ad, AnswersStay,
           \/ cmds' = cmds
           \/ \E c \in Commands :
                /\ cmds' = Append(cmds, c) /\ c.who \in {worker, nobody}
                /\ c.op = "NotifyDisconnect" => c.arg \notin Adapters
    PROVE  AdaptersOK'
<1>1. cmds \in Seq(Commands)
  BY DEF TypeOK
<1>2. ASSUME NEW a \in Adapters
      PROVE  AdapterOK(a, ad[a], cmds', ans[actor(a)], ans[asker(a)])
  <2>1. AdapterOK(a, ad[a], cmds, ans[actor(a)], ans[asker(a)])
    BY DEF AdaptersOK
  <2>2. CASE cmds' = cmds
    BY <2>1, <2>2
  <2>3. ASSUME NEW c \in Commands, cmds' = Append(cmds, c), c.who \in {worker, nobody},
               c.op = "NotifyDisconnect" => c.arg \notin Adapters
        PROVE  AdapterOK(a, ad[a], cmds', ans[actor(a)], ans[asker(a)])
    <3>1. c.who # actor(a) /\ c.who # asker(a)
      BY <2>3, DifferentCallers
    <3> QED BY <1>1, <2>1, <2>3, <3>1, AdapterSend
  <2> QED BY <2>2, <2>3
<1>3. \A a \in Adapters : AdapterOK(a, ad'[a], cmds', ans'[actor(a)], ans'[asker(a)])
  BY <1>2 DEF AnswersStay
<1> QED BY <1>3 DEF AdaptersOK

\* The worker's command is abandoned.
LEMMA AdaptersAbandon ==
    ASSUME TypeOK, AdaptersOK, ad' = ad, AnswersStay, cmds' = abandoned
    PROVE  AdaptersOK'
<1>1. cmds \in Seq(Commands)
  BY DEF TypeOK
<1>2. DOMAIN abandoned = DOMAIN cmds
  BY DEF abandoned
<1>3. ASSUME NEW i \in DOMAIN cmds
      PROVE  /\ abandoned[i].op = cmds[i].op /\ abandoned[i].arg = cmds[i].arg
             /\ abandoned[i].who = IF cmds[i].who = worker THEN nobody ELSE cmds[i].who
  <2>1. cmds[i] \in Commands
    BY <1>1
  <2>2. DOMAIN cmds[i] = {"op", "who", "arg"}
    BY <2>1 DEF Commands
  <2> QED BY <2>2 DEF abandoned
<1> DEFINE k == abandoned
<1>4. \A i \in DOMAIN cmds : \A a : /\ k[i].who = actor(a) <=> cmds[i].who = actor(a)
                                    /\ k[i].who = asker(a) <=> cmds[i].who = asker(a)
  BY <1>3, DifferentCallers
<1>5. DOMAIN k = DOMAIN cmds /\ \A i \in DOMAIN cmds : k[i].op = cmds[i].op /\ k[i].arg = cmds[i].arg
  BY <1>2, <1>3
<1> HIDE DEF k
<1>6. ASSUME NEW a \in Adapters
      PROVE  AdapterOK(a, ad[a], k, ans[actor(a)], ans[asker(a)])
  <2>1. AdapterOK(a, ad[a], cmds, ans[actor(a)], ans[asker(a)])
    BY DEF AdaptersOK
  <2> QED BY <1>4, <1>5, <2>1 DEF AdapterOK
<1>7. \A a \in Adapters : AdapterOK(a, ad'[a], cmds', ans'[actor(a)], ans'[asker(a)])
  BY <1>6 DEF AnswersStay, k
<1> QED BY <1>7 DEF AdaptersOK

-----------------------------------------------------------------------------
(* The worker's commands.                                                  *)

Free(q) == \A i \in DOMAIN q : q[i].op # "Connect" /\ q[i].who # worker

\* A queue without any is as it should be, wherever the worker is; and it is
\* so after an answer and where the worker waits for none.
LEMMA FreeIsSole ==
    ASSUME NEW q, NEW r, NEW w
    PROVE  /\ Free(q) => Sole(q, r, w)
           /\ Sole(q, r, w) /\ r # "none" => Free(q)
           /\ Sole(q, r, w) /\ (\A op : ~Asks(w, op)) => Free(q)
  BY DEF Free, Sole

\* A command is taken,
LEMMA SoleTake ==
    ASSUME NEW q \in Seq(Commands), q # <<>>, NEW r, NEW w, Sole(q, r, w),
           NEW s, s = r \/ Head(q).who = worker
    PROVE  Sole(Tail(q), s, w)
<1>1. /\ Head(q) = q[1] /\ 1 \in DOMAIN q /\ DOMAIN q \subseteq Nat
      /\ \A i \in DOMAIN Tail(q) : i + 1 \in DOMAIN q /\ Tail(q)[i] = q[i + 1]
  BY Places
<1>2. DOMAIN Tail(q) \subseteq Nat \ {0}
  OBVIOUS
<1>3. \A i \in DOMAIN Tail(q) : Tail(q)[i].op = "Connect" =>
         Tail(q)[i].who = worker /\ Tail(q)[i].arg = w.flag
  BY <1>1 DEF Sole
<1>4. ASSUME NEW i \in DOMAIN Tail(q), Tail(q)[i].who = worker
      PROVE  /\ s = "none" /\ Asks(w, Tail(q)[i].op)
             /\ \A j \in DOMAIN Tail(q) : Tail(q)[j].who = worker => i = j
  <2>1. i \in Nat \ {0} /\ i + 1 \in DOMAIN q /\ q[i + 1].who = worker /\ Tail(q)[i] = q[i + 1]
    BY <1>1, <1>2, <1>4
  <2>2. /\ r = "none" /\ Asks(w, q[i + 1].op)
        /\ \A j \in DOMAIN q : q[j].who = worker => i + 1 = j
    BY <2>1 DEF Sole
  <2>3. q[1].who # worker
    BY <1>1, <2>1, <2>2
  <2>4. \A j \in DOMAIN Tail(q) : Tail(q)[j].who = worker => i = j
    BY <1>1, <1>2, <2>1, <2>2
  <2> QED BY <1>1, <2>1, <2>2, <2>3, <2>4
<1> QED BY <1>3, <1>4 DEF Sole

\* one of another is sent,
LEMMA SoleSend ==
    ASSUME NEW q \in Seq(Commands), NEW c \in Commands, NEW r, NEW w, Sole(q, r, w),
           c.who # worker, c.op # "Connect"
    PROVE  Sole(Append(q, c), r, w)
<1> DEFINE k == Append(q, c)
<1>1. /\ \A i \in DOMAIN q : k[i] = q[i]
      /\ \A i \in DOMAIN k : i \in DOMAIN q \/ k[i] = c
  BY Places
<1> HIDE DEF k
<1>2. \A i \in DOMAIN k : k[i].who = worker \/ k[i].op = "Connect" => i \in DOMAIN q /\ k[i] = q[i]
  BY <1>1
<1>3. Sole(k, r, w)
  BY <1>2 DEF Sole
<1> QED BY <1>3 DEF k

\* the worker sends its own.
LEMMA SoleAsk ==
    ASSUME NEW q \in Seq(Commands), Free(q), NEW c \in Commands, NEW w,
           c.who = worker, Asks(w, c.op), c.op = "Connect" => c.arg = w.flag
    PROVE  Sole(Append(q, c), "none", w)
<1> DEFINE k == Append(q, c)
<1>1. /\ \A i \in DOMAIN q : k[i] = q[i]
      /\ \A i \in DOMAIN k : i \in DOMAIN q \/ (i = Len(q) + 1 /\ k[i] = c)
  BY Places
<1> HIDE DEF k
<1>2. \A i \in DOMAIN k : k[i].who = worker \/ k[i].op = "Connect" => i = Len(q) + 1 /\ k[i] = c
  BY <1>1 DEF Free
<1>3. Sole(k, "none", w)
  BY <1>2 DEF Sole
<1> QED BY <1>3 DEF k

\* Where the worker is not about to connect, its answer changes nothing.
LEMMA AnswerElsewhere ==
    ASSUME NEW r, NEW s, NEW w, w.pc # "Select", NEW ev, NEW cn
    PROVE  /\ Retrying(r, w) <=> Retrying(s, w)
           /\ Blank(r, w) <=> Blank(s, w)
           /\ Dialing(r, w, ev, cn) <=> Dialing(s, w, ev, cn)
  BY DEF Retrying, Blank, Dialing

-----------------------------------------------------------------------------
(* The run loop.                                                           *)

\* The beginning.
LEMMA InitSync == Init => SyncInv
<1> SUFFICES ASSUME Init PROVE SyncInv
  OBVIOUS
<1>1. /\ \A w \in Callers : ans[w] = answer("none")
      /\ answer("none").st = "none" /\ answer("none").ops = {}
  BY DEF Init, answer
<1>2. AdaptersOK
  <2>1. \A a \in Adapters : ad[a] = [st |-> "down", asks |-> "none"] /\ cmds = <<>>
    BY DEF Init
  <2>2. \A a \in Adapters : AdapterOK(a, ad[a], cmds, ans[actor(a)], ans[asker(a)])
    BY <1>1, <2>1, DifferentCallers DEF AdapterOK
  <2> QED BY <2>2 DEF AdaptersOK, Init
<1>3. ConnOK
  BY DEF Init, ConnOK, new_conn
<1>4. VisasOK
  BY DEF Init, VisasOK, new_vs
<1>5. ans[worker].st = "none"
  BY <1>1, DifferentCallers
<1>6. WorkerOK
  BY <1>5 DEF Init, WorkerOK, Sole, Answered, Dialing, Retrying
<1>7. Synced
  BY <1>5 DEF Init, Synced, Blank, BlankOK, Up, new_conn
<1> QED BY <1>2, <1>3, <1>4, <1>6, <1>7 DEF SyncInv, Shape

\* The run loop ends, or dies on the way.
LEMMA Exits ==
    ASSUME ConnOK, NEW st, exit(st)
    PROVE  /\ DOMAIN conn' = DOMAIN conn /\ conn'.st = st /\ ~conn'.handle
           /\ UNCHANGED events \/ send_lifecycle_event("RunLoopExits") => ConnOK'
<1>1. DOMAIN conn' = DOMAIN conn /\ conn'.st = st /\ conn'.handle = FALSE
  BY DEF ConnOK, exit
<1>2. ASSUME UNCHANGED events \/ send_lifecycle_event("RunLoopExits")
      PROVE  events' \in Seq({"RunLoopStarts", "RunLoopExits", "ConnectedToVsApi"})
  BY <1>2 DEF ConnOK, send_lifecycle_event
<1> QED BY <1>1, <1>2 DEF ConnOK

\* What a command does to the visa service.
LEMMA ServedShape ==
    ASSUME TypeOK, VisasOK
    PROVE  /\ left.node = FALSE /\ left.handle = FALSE /\ left.issued = vs.issued
           /\ \A f : /\ joined(f).node /\ joined(f).issued = vs.issued
                     /\ f # "NoState" => joined(f).known = vs.known /\ joined(f).gen = vs.gen
           /\ \A a : LET s == [vs EXCEPT !.issued = @ \cup {NewVisa(a)}]
                     IN  /\ s.node = vs.node /\ s.handle = vs.handle /\ s.known = vs.known
                         /\ s.gen = vs.gen /\ s.issued = vs.issued \cup {NewVisa(a)}
           /\ \A x : LET s == [vs EXCEPT !.known = x]
                     IN  /\ s.node = vs.node /\ s.handle = vs.handle /\ s.known = x
                         /\ s.gen = vs.gen /\ s.issued = vs.issued
           /\ LET s == [vs EXCEPT !.vss = TRUE, !.pending = {}]
              IN  /\ s.node = vs.node /\ s.handle = vs.handle /\ s.known = vs.known
                  /\ s.gen = vs.gen /\ s.issued = vs.issued
<1>1. DOMAIN vs = {"up", "gen", "node", "handle", "known", "vss", "issued", "revoked",
                    "pending"}
  BY DEF TypeOK
<1> QED BY <1>1 DEF left, joined

\* A connect gives the loop a handle, of a visa service that has joined the node
\* as the worker has asked, or has no visible effect.
LEMMA Connects ==
    ASSUME TypeOK, NEW c, c.arg \in Flags, handle_connect(c)
    PROVE  \E r \in {ok, answer("OutOfSync"), Failed} :
             /\ ans' = reply(ans, c.who, r)
             /\ vs' = vs \/ (vs' = joined(c.arg) /\ (c.arg = "HasState" => vs.node))
             /\ \/ /\ r # ok /\ UNCHANGED <<conn, events>>
                \/ /\ r = ok /\ ~conn.handle /\ vs' = joined(c.arg)
                   /\ c.arg = "HasState" => vs.node
                   /\ conn' = [conn EXCEPT !.handle = TRUE]
                   /\ send_lifecycle_event("ConnectedToVsApi")
<1>1. ok # Failed /\ ok # answer("OutOfSync") /\ Failed # answer("OutOfSync")
  BY DEF ok, Failed, answer
<1>2. CASE conn.handle
  BY <1>1, <1>2 DEF handle_connect
<1>3. CASE ~conn.handle
  <2>1. PICK r \in {ok, answer("OutOfSync"), Failed} :
           /\ do_connect(c, r) /\ ans' = reply(ans, c.who, r)
           /\ IF r = ok
              THEN /\ conn' = [conn EXCEPT !.handle = TRUE]
                   /\ send_lifecycle_event("ConnectedToVsApi")
              ELSE UNCHANGED <<conn, events>>
    BY <1>3 DEF handle_connect
  <2>2. CASE c.arg = "HasState" /\ ~vs.node
    <3>1. vs' = vs /\ r # ok
      BY <1>1, <2>1, <2>2, CallServed DEF do_connect
    <3> QED BY <2>1, <3>1
  <2>3. CASE ~(c.arg = "HasState" /\ ~vs.node)
    <3>1. rpc_with_timeout(conn.live, joined(c.arg), ok, r)
      BY <2>1, <2>3 DEF do_connect
    <3>2. vs' \in {vs, joined(c.arg)} /\ (r = Failed \/ (r = ok /\ vs' = joined(c.arg)))
      BY <3>1, CallServed
    <3> QED BY <1>1, <1>3, <2>1, <2>3, <3>2
  <2> QED BY <2>2, <2>3
<1> QED BY <1>2, <1>3

\* A request, unless it is made over a connection that is not one, may have its
\* effect; its answer is a success only if it had.
LEMMA Requested ==
    ASSUME NEW c, NEW served, NEW a, request(c, served, a)
    PROVE  /\ UNCHANGED <<conn, events>>
           /\ \E r \in {a, Failed} :
                /\ ans' = reply(ans, c.who, r)
                /\ \/ ~connected /\ r = Failed /\ vs' = vs
                   \/ connected /\ r = Failed /\ vs' \in {vs, served}
                   \/ connected /\ r = a /\ vs' = served
  BY DEF request, rpc_with_timeout

\* The four commands that need a handle, in one form.
Performs(c, served, a, r) ==
    /\ UNCHANGED <<conn, events>> /\ ans' = reply(ans, c.who, r)
    /\ \/ ~connected /\ r = Failed /\ vs' = vs
       \/ connected /\ r = Failed /\ vs' \in {vs, served}
       \/ connected /\ r = a /\ vs' = served

\* What they do and answer.
Effects(c, served, a) ==
    \/ /\ c.op = "VisaRequest" /\ served = [vs EXCEPT !.issued = @ \cup {NewVisa(c.arg)}]
       /\ a = [st |-> "ok", ops |-> {grant(NewVisa(c.arg))}]
    \/ c.op = "AuthorizeConnect" /\ served = [vs EXCEPT !.known = vs.known \cup {c.arg}] /\ a = ok
    \/ /\ c.op = "NotifyDisconnect" /\ c.arg \in Adapters /\ a = ok
       /\ served = [vs EXCEPT !.known = vs.known \ {c.arg}]
    \/ c.op = "NotifyDisconnect" /\ c.arg \notin Adapters /\ served = left /\ a = ok
    \/ /\ c.op = "RegisterVss" /\ served = [vs EXCEPT !.vss = TRUE, !.pending = {}]
       /\ a = [st |-> "ok", ops |-> vs.pending]

\* The run loop serves one of these, a connect or a stop.
LEMMA Handles ==
    ASSUME TypeOK, handle_command
    PROVE  LET c == Head(cmds)
           IN  /\ cmds # <<>> /\ cmds' = Tail(cmds) /\ c \in Commands /\ conn.st = "Running"
               /\ UNCHANGED <<wk, ad, table, refused>>
               /\ \/ c.op = "Stop" /\ handle_stop(c) /\ UNCHANGED ans
                  \/ c.op = "Connect" /\ handle_connect(c)
                  \/ \E served, a, r : Effects(c, served, a) /\ Performs(c, served, a, r)
<1> DEFINE c == Head(cmds)
<1>1. cmds # <<>> /\ cmds' = Tail(cmds) /\ c \in Commands /\ conn.st = "Running"
  BY DEF handle_command, TypeOK
<1>2. UNCHANGED <<wk, ad, table, refused>>
  BY DEF handle_command
<1> HIDE DEF c
<1>3. ASSUME NEW served, NEW a, Effects(c, served, a), request(c, served, a)
      PROVE  \E r : Performs(c, served, a, r)
  BY <1>3, Requested DEF Performs
<1>4. ASSUME NEW served, NEW a, Effects(c, served, a), connected, request(c, vs, Failed)
      PROVE  \E r : Performs(c, served, a, r)
  BY <1>4, Requested DEF Performs
<1>5. ASSUME c.op = "VisaRequest", do_visa_request(c)
      PROVE  \E served, a, r : Effects(c, served, a) /\ Performs(c, served, a, r)
  <2> DEFINE served == [vs EXCEPT !.issued = @ \cup {NewVisa(c.arg)}]
             a == [st |-> "ok", ops |-> {grant(NewVisa(c.arg))}]
  <2>1. Effects(c, served, a)
    BY <1>5 DEF Effects
  <2>2. request(c, served, a) \/ (connected /\ request(c, vs, Failed))
    BY <1>5 DEF do_visa_request
  <2> HIDE DEF served, a
  <2> QED BY <1>3, <1>4, <2>1, <2>2
<1>6. ASSUME c.op = "AuthorizeConnect", do_authorize_connect(c)
      PROVE  \E served, a, r : Effects(c, served, a) /\ Performs(c, served, a, r)
  <2> DEFINE served == [vs EXCEPT !.known = vs.known \cup {c.arg}]
  <2>1. Effects(c, served, ok)
    BY <1>6 DEF Effects
  <2>2. request(c, served, ok) \/ (connected /\ request(c, vs, Failed))
    BY <1>6 DEF do_authorize_connect
  <2> HIDE DEF served
  <2> QED BY <1>3, <1>4, <2>1, <2>2
<1>7. ASSUME c.op = "NotifyDisconnect", do_notify_disconnect(c)
      PROVE  \E served, a, r : Effects(c, served, a) /\ Performs(c, served, a, r)
  <2> DEFINE served == IF c.arg \in Adapters THEN [vs EXCEPT !.known = vs.known \ {c.arg}] ELSE left
  <2>1. Effects(c, served, ok)
    BY <1>7 DEF Effects
  <2>2. request(c, served, ok)
    BY <1>7 DEF do_notify_disconnect
  <2> HIDE DEF served
  <2> QED BY <1>3, <2>1, <2>2
<1>8. ASSUME c.op = "RegisterVss", do_register_vss(c)
      PROVE  \E served, a, r : Effects(c, served, a) /\ Performs(c, served, a, r)
  <2> DEFINE served == [vs EXCEPT !.vss = TRUE, !.pending = {}]  a == [st |-> "ok", ops |-> vs.pending]
  <2>1. Effects(c, served, a)
    BY <1>8 DEF Effects
  <2>2. request(c, served, a)
    BY <1>8 DEF do_register_vss
  <2> HIDE DEF served, a
  <2> QED BY <1>3, <2>1, <2>2
<1>9. \/ c.op = "Stop" /\ handle_stop(c) /\ UNCHANGED ans
      \/ c.op = "Connect" /\ handle_connect(c)
      \/ \E served, a, r : Effects(c, served, a) /\ Performs(c, served, a, r)
  <2>1. \/ c.op = "Stop" /\ handle_stop(c) /\ UNCHANGED ans
        \/ c.op = "Connect" /\ handle_connect(c)
        \/ c.op = "VisaRequest" /\ do_visa_request(c)
        \/ c.op = "AuthorizeConnect" /\ do_authorize_connect(c)
        \/ c.op = "NotifyDisconnect" /\ do_notify_disconnect(c)
        \/ c.op = "RegisterVss" /\ do_register_vss(c)
    BY DEF handle_command, c
  <2> QED BY <1>5, <1>6, <1>7, <1>8, <2>1
<1> QED BY <1>1, <1>2, <1>9 DEF c

\* A stop ends the loop for good, or it dials again, having left the service
\* perhaps.
LEMMA Stops ==
    ASSUME ConnOK, NEW c, handle_stop(c)
    PROVE  /\ send_lifecycle_event("RunLoopExits") /\ vs' \in {vs, left}
           /\ exit("Stopped") \/ (conn.handle /\ exit("Delay"))
<1>1. CASE c.arg = "deregister" /\ conn.handle
  <2>1. PICK r \in {ok, Failed}, served \in {left, vs} :
           /\ rpc_with_timeout(connected, served, ok, r)
           /\ send_lifecycle_event("RunLoopExits")
           /\ exit(IF r = ok THEN "Stopped" ELSE "Delay")
    BY <1>1 DEF handle_stop
  <2>2. vs' \in {vs, left}
    BY <2>1, CallServed
  <2> QED BY <1>1, <2>1, <2>2
<1>2. CASE ~(c.arg = "deregister" /\ conn.handle)
  BY <1>2 DEF handle_stop
<1> QED BY <1>1, <1>2

\* What holds of the visa service, s.
Sane(s) == (s.handle => s.node) /\ \A v \in s.issued : v.for \in Adapters

\* It stays so.
LEMMA EffectsSane ==
    ASSUME TypeOK, VisasOK, NEW c \in Commands, NEW served, NEW a, Effects(c, served, a)
    PROVE  /\ Sane(served)
           /\ served = left \/ (served.node = vs.node /\ served.gen = vs.gen)
           /\ \A b \in Adapters : c.who = asker(b) => \A x \in a.ops : x.visa.for = b /\ x.visa.gen = vs.gen
           /\ a.st = "ok"
<1>1. Sane(vs)
  BY DEF VisasOK, Sane
<1>2. \A x : NewVisa(x).for = x /\ NewVisa(x).gen = vs.gen /\ grant(NewVisa(x)).visa = NewVisa(x)
  BY DEF NewVisa, grant
<1>3. \A b \in Adapters : c.who = asker(b) => c.op = "VisaRequest" /\ c.arg = b
  BY DEF Commands, asker
<1>4. ok.ops = {} /\ ok.st = "ok"
  BY DEF ok, answer
<1>5. CASE /\ c.op = "VisaRequest" /\ served = [vs EXCEPT !.issued = @ \cup {NewVisa(c.arg)}]
           /\ a = [st |-> "ok", ops |-> {grant(NewVisa(c.arg))}]
  <2>1. c.arg \in Adapters
    BY <1>5 DEF Commands
  <2>2. /\ served.node = vs.node /\ served.handle = vs.handle /\ served.gen = vs.gen
        /\ served.issued = vs.issued \cup {NewVisa(c.arg)}
    BY <1>5, ServedShape
  <2>3. a.st = "ok" /\ a.ops = {grant(NewVisa(c.arg))}
    BY <1>5
  <2>4. Sane(served)
    BY <1>1, <1>2, <2>1, <2>2 DEF Sane
  <2> QED BY <1>2, <1>3, <2>2, <2>3, <2>4
<1>6. ASSUME NEW x, c.op # "VisaRequest", served = [vs EXCEPT !.known = x], a = ok
      PROVE  Sane(served) /\ served.node = vs.node /\ served.gen = vs.gen
  <2>1. /\ served.node = vs.node /\ served.handle = vs.handle /\ served.gen = vs.gen
        /\ served.issued = vs.issued
    BY <1>6, ServedShape
  <2> QED BY <1>1, <2>1 DEF Sane
<1>7. Sane(left)
  BY <1>1, ServedShape DEF Sane
<1>8. ASSUME served = [vs EXCEPT !.vss = TRUE, !.pending = {}]
      PROVE  Sane(served) /\ served.node = vs.node /\ served.gen = vs.gen
  <2>1. /\ served.node = vs.node /\ served.handle = vs.handle /\ served.gen = vs.gen
        /\ served.issued = vs.issued
    BY <1>8, ServedShape
  <2> QED BY <1>1, <2>1 DEF Sane
<1>9. CASE c.op # "VisaRequest"
  <2>1. Sane(served) /\ (served = left \/ (served.node = vs.node /\ served.gen = vs.gen))
    BY <1>6, <1>7, <1>8, <1>9 DEF Effects
  <2>2. a.st = "ok"
    BY <1>4, <1>9 DEF Effects
  <2> QED BY <1>3, <1>9, <2>1, <2>2
<1> QED BY <1>5, <1>9 DEF Effects

\* The shape of things after a command.
LEMMA HandleShape == ASSUME TypeOK, Shape, handle_command PROVE Shape'
<1> DEFINE c == Head(cmds)
<1>1. /\ cmds # <<>> /\ cmds' = Tail(cmds) /\ c \in Commands /\ conn.st = "Running"
      /\ UNCHANGED <<wk, ad, table, refused>>
      /\ \/ c.op = "Stop" /\ handle_stop(c) /\ UNCHANGED ans
         \/ c.op = "Connect" /\ handle_connect(c)
         \/ \E served, a, r : Effects(c, served, a) /\ Performs(c, served, a, r)
  BY Handles
<1>2. ASSUME NEW r, r.st # "none", ans' = reply(ans, c.who, r) \/ ans' = ans,
             \A a \in Adapters : c.who = asker(a) => \A x \in r.ops : x.visa.for = a
      PROVE  AdaptersOK'
  BY <1>1, <1>2, AdaptersTake DEF Shape
<1>3. \A r \in {ok, answer("OutOfSync"), Failed} : r.st # "none" /\ r.ops = {}
  BY DEF ok, Failed, answer
<1>4. ASSUME Sane(vs') PROVE VisasOK'
  BY <1>1, <1>4 DEF Shape, VisasOK, Sane
<1>5. Sane(vs) /\ Sane(left) /\ \A f : Sane(joined(f))
  BY ServedShape DEF Shape, VisasOK, Sane
<1> HIDE DEF c
<1>6. CASE c.op = "Stop" /\ handle_stop(c) /\ UNCHANGED ans
  <2>1. /\ send_lifecycle_event("RunLoopExits") /\ vs' \in {vs, left}
        /\ exit("Stopped") \/ exit("Delay")
    BY <1>6, Stops DEF Shape
  <2>2. ConnOK'
    BY <2>1, Exits DEF Shape
  <2>3. AdaptersOK'
    BY <1>2, <1>3, <1>6
  <2> QED BY <1>4, <1>5, <2>1, <2>2, <2>3 DEF Shape
<1>7. CASE c.op = "Connect" /\ handle_connect(c)
  <2>1. c.arg \in Flags
    BY <1>1, <1>7 DEF Commands
  <2>2. PICK r \in {ok, answer("OutOfSync"), Failed} :
             /\ ans' = reply(ans, c.who, r)
             /\ vs' = vs \/ vs' = joined(c.arg)
             /\ \/ UNCHANGED <<conn, events>>
                \/ /\ conn' = [conn EXCEPT !.handle = TRUE]
                   /\ send_lifecycle_event("ConnectedToVsApi")
    BY <1>7, <2>1, Connects DEF Shape
  <2>3. AdaptersOK'
    BY <1>2, <1>3, <2>2
  <2>4. ConnOK'
    <3>1. CASE UNCHANGED <<conn, events>>
      BY <3>1 DEF Shape, ConnOK
    <3>2. CASE conn' = [conn EXCEPT !.handle = TRUE] /\ send_lifecycle_event("ConnectedToVsApi")
      <4>1. DOMAIN conn' = DOMAIN conn /\ conn'.st = conn.st
        BY <3>2 DEF Shape, ConnOK
      <4>2. events' \in Seq({"RunLoopStarts", "RunLoopExits", "ConnectedToVsApi"})
        BY <3>2 DEF Shape, ConnOK, send_lifecycle_event
      <4> QED BY <1>1, <4>1, <4>2 DEF Shape, ConnOK
    <3> QED BY <2>2, <3>1, <3>2
  <2> QED BY <1>4, <1>5, <2>2, <2>3, <2>4 DEF Shape
<1>8. ASSUME NEW served, NEW a, NEW r, Effects(c, served, a), Performs(c, served, a, r)
      PROVE  Shape'
  <2>1. /\ UNCHANGED <<conn, events>> /\ ans' = reply(ans, c.who, r)
        /\ r \in {a, Failed} /\ vs' \in {vs, served}
    BY <1>8 DEF Performs
  <2>2. /\ Sane(served) /\ a.st = "ok"
        /\ \A b \in Adapters : c.who = asker(b) => \A x \in a.ops : x.visa.for = b
    BY <1>1, <1>8, EffectsSane DEF Shape
  <2>3. AdaptersOK'
    BY <1>2, <1>3, <2>1, <2>2
  <2>4. ConnOK'
    BY <2>1 DEF Shape, ConnOK
  <2> QED BY <1>4, <1>5, <2>1, <2>2, <2>3, <2>4 DEF Shape
<1> QED BY <1>1, <1>6, <1>7, <1>8

-----------------------------------------------------------------------------
(* What the visa service knows, after a command.                           *)

\* Nothing comes up, is granted or is put into the table but what counts as left
\* over,
Lessens ==
    /\ \A a \in Adapters : Up(a)' => Up(a)
    /\ \A a \in Adapters : ad'[a].asks = "asked" =>
         \A v \in Granted(a)' : ad[a].asks = "asked" /\ v \in Granted(a)
    /\ \A e \in table' : e.left \/ \E f \in table : f.visa = e.visa /\ ~f.left

\* and nothing is forgotten but the node itself.
Remembers == vs'.node => vs.node /\ vs'.gen = vs.gen /\ vs.known \subseteq vs'.known

\* Then what is known stays known.
LEMMA KnownKept == ASSUME KnownOK, Lessens, Remembers PROVE KnownOK'
<1> SUFFICES ASSUME vs'.node
             PROVE  /\ \A a \in Adapters : Up(a)' => a \in vs'.known
                    /\ \A a \in Adapters : ad'[a].asks = "asked" =>
                         \A v \in Granted(a)' : v.gen = vs'.gen
                    /\ \A e \in table' : e.left \/ e.visa.gen = vs'.gen
  BY DEF KnownOK
<1>1. vs.node /\ vs'.gen = vs.gen /\ vs.known \subseteq vs'.known
  BY DEF Remembers
<1>2. \A a \in Adapters : Up(a)' => a \in vs'.known
  BY <1>1 DEF KnownOK, Lessens
<1>3. \A a \in Adapters : ad'[a].asks = "asked" => \A v \in Granted(a)' : v.gen = vs'.gen
  BY <1>1 DEF KnownOK, Lessens
<1>4. \A e \in table' : e.left \/ e.visa.gen = vs'.gen
  BY <1>1 DEF KnownOK, Lessens
<1> QED BY <1>2, <1>3, <1>4

\* A blank node stays one.
LEMMA BlankKept == ASSUME BlankOK, Lessens, ~conn'.handle PROVE BlankOK'
  BY DEF BlankOK, Lessens

\* The same of a node that is about to reset.
LEMMA ResetKept == ASSUME ResetOK, Lessens, wk'.todo = wk.todo PROVE ResetOK'
<1>1. \A a \in Adapters : Up(a)' => a \in wk'.todo
  BY DEF ResetOK, Lessens
<1>2. \A e \in table' : e.left \/ e.visa.for \in wk'.todo
  BY DEF ResetOK, Lessens
<1> QED BY <1>1, <1>2 DEF ResetOK

\* The worker stays where it is, or where that is the same to it.
SamePlace ==
    /\ wk'.pc = "Resetting" <=> wk.pc = "Resetting"
    /\ wk'.todo = wk.todo
    /\ Blank(ans'[worker].st, wk') <=> Blank(ans[worker].st, wk)

\* All three.
LEMMA SyncedKept ==
    ASSUME Synced, SamePlace, Lessens, Remembers, conn'.handle => conn.handle
    PROVE  Synced'
<1>1. Blank(ans'[worker].st, wk') => BlankOK'
  BY BlankKept DEF Synced, SamePlace, BlankOK
<1>2. wk'.pc = "Resetting" => ResetOK'
  BY ResetKept DEF Synced, SamePlace
<1>3. ~Blank(ans'[worker].st, wk') /\ wk'.pc # "Resetting" => KnownOK'
  BY KnownKept DEF Synced, SamePlace
<1> QED BY <1>1, <1>2, <1>3 DEF Synced

\* A command is answered, and that brings no adapter up, nor a visa.
LEMMA AnswerLessens ==
    ASSUME TypeOK, NEW who, NEW r, ans' = reply(ans, who, r) \/ ans' = ans, UNCHANGED <<ad, table>>,
           \A a \in Adapters : who = actor(a) => r.st # "ok",
           \A a \in Adapters : who = asker(a) => r.ops = {}
    PROVE  Lessens
<1>1. \A w \in Callers : ans'[w] = ans[w] \/ (who = w /\ ans'[w] = r)
  BY AnswerAt
<1>2. \A a \in Adapters : Up(a)' => Up(a)
  BY <1>1, DifferentCallers DEF Up
<1>3. \A a \in Adapters : Granted(a)' \subseteq Granted(a)
  BY <1>1, DifferentCallers DEF Granted, asker
<1> QED BY <1>2, <1>3 DEF Lessens

\* A command that needs a handle.
LEMMA EffectsKnown ==
    ASSUME TypeOK, Shape, KnownOK, cmds # <<>>, UNCHANGED <<ad, table>>,
           NEW served, NEW a, NEW r,
           Effects(Head(cmds), served, a), Performs(Head(cmds), served, a, r), connected
    PROVE  KnownOK'
<1> DEFINE c == Head(cmds)
<1>1. /\ c = cmds[1] /\ 1 \in DOMAIN cmds /\ c \in Commands /\ DOMAIN cmds \subseteq Nat
  BY Places DEF TypeOK
<1>2. /\ ans' = reply(ans, c.who, r) /\ vs' \in {vs, served}
      /\ r = Failed \/ (r = a /\ vs' = served)
  BY DEF Performs
<1>3. /\ served = left \/ (served.node = vs.node /\ served.gen = vs.gen)
      /\ \A b \in Adapters : c.who = asker(b) => \A x \in a.ops : x.visa.gen = vs.gen
  BY <1>1, EffectsSane DEF Shape
<1>4. CASE vs' = left
  <2>1. ~vs'.node
    BY <1>4, ServedShape DEF Shape
  <2> QED BY <2>1 DEF KnownOK
<1>5. CASE vs' # left
  <2>1. vs'.node = vs.node /\ vs'.gen = vs.gen /\ vs.node
    BY <1>2, <1>3, <1>5 DEF Shape, VisasOK, connected
  <2>2. /\ \A w \in Callers : ans'[w] = ans[w] \/ (c.who = w /\ ans'[w] = r)
        /\ Failed.st # "ok" /\ Failed.ops = {}
    BY <1>2, AnswerAt DEF Failed, answer
  <2>3. \A b \in Adapters : b \in vs.known /\ Up(b) => b \in vs'.known
    <3>1. CASE vs' = vs
      BY <3>1
    <3>2. CASE vs' = served
      <4>1. CASE /\ c.op = "NotifyDisconnect" /\ c.arg \in Adapters
                 /\ served = [vs EXCEPT !.known = vs.known \ {c.arg}]
        <5>1. vs'.known = vs.known \ {c.arg}
          BY <3>2, <4>1, ServedShape DEF Shape
        <5>2. ASSUME NEW b \in Adapters, c.arg = b PROVE ~Up(b)
          <6>1. AdapterOK(b, ad[b], cmds, ans[actor(b)], ans[asker(b)])
            BY DEF Shape, AdaptersOK
          <6>2. \/ ad[b].st = "down"
                \/ /\ ad[b].st \in {"asking", "gone"}
                   /\ \E j \in DOMAIN cmds : cmds[j].who = actor(b)
            BY <1>1, <4>1, <5>2, <6>1 DEF AdapterOK
          <6>3. ad[b].st = "down" \/ (ad[b].st \in {"asking", "gone"} /\ ans[actor(b)].st = "none")
            BY <6>1, <6>2 DEF AdapterOK
          <6> QED BY <6>3 DEF Up
        <5> QED BY <5>1, <5>2
      <4>2. CASE served = [vs EXCEPT !.known = vs.known \cup {c.arg}]
        <5>1. vs'.known = vs.known \cup {c.arg}
          BY <3>2, <4>2, ServedShape DEF Shape
        <5> QED BY <5>1
      <4>3. CASE \/ served = [vs EXCEPT !.issued = @ \cup {NewVisa(c.arg)}]
                 \/ served = [vs EXCEPT !.vss = TRUE, !.pending = {}]
        <5>1. \A x : [vs EXCEPT !.issued = @ \cup {NewVisa(x)}].known = vs.known
          BY ServedShape DEF Shape
        <5>2. [vs EXCEPT !.vss = TRUE, !.pending = {}].known = vs.known
          BY ServedShape DEF Shape
        <5>3. vs'.known = vs.known
          BY <3>2, <4>3, <5>1, <5>2
        <5> QED BY <5>3
      <4> QED BY <1>5, <3>2, <4>1, <4>2, <4>3 DEF Effects
    <3> QED BY <1>2, <3>1, <3>2
  <2>4. ASSUME NEW b \in Adapters, Up(b)', ~Up(b) PROVE b \in vs'.known
    <3>1. c.who = actor(b) /\ r.st = "ok"
      <4>1. actor(b) \in Callers
        BY DifferentCallers
      <4> QED BY <2>2, <2>4, <4>1 DEF Up
    <3>2. c.op = "AuthorizeConnect" /\ c.arg = b
      BY <1>1, <3>1 DEF Commands, actor
    <3>3. vs' = served
      BY <1>2, <2>2, <3>1
    <3>4. served = [vs EXCEPT !.known = vs.known \cup {c.arg}]
      BY <3>2 DEF Effects
    <3>5. vs'.known = vs.known \cup {c.arg}
      BY <3>3, <3>4, ServedShape DEF Shape
    <3> QED BY <3>2, <3>5
  <2>5. \A b \in Adapters : Up(b)' => b \in vs'.known
    BY <2>1, <2>3, <2>4 DEF KnownOK
  <2>6. ASSUME NEW b \in Adapters, ad[b].asks = "asked", NEW v \in Granted(b)' PROVE v.gen = vs.gen
    <3>1. ans'[asker(b)] = ans[asker(b)] \/ (c.who = asker(b) /\ ans'[asker(b)] = r)
      BY <2>2, DifferentCallers
    <3>2. CASE ans'[asker(b)] = ans[asker(b)]
      BY <2>1, <2>6, <3>2 DEF KnownOK, Granted, asker
    <3>3. CASE c.who = asker(b) /\ ans'[asker(b)] = r
      <4>1. \E x \in r.ops : v = x.visa
        BY <2>6, <3>3 DEF Granted, asker
      <4> QED BY <1>2, <1>3, <2>2, <3>3, <4>1
    <3> QED BY <3>1, <3>2, <3>3
  <2>7. \A e \in table' : e.left \/ e.visa.gen = vs'.gen
    BY <2>1 DEF KnownOK
  <2> QED BY <2>1, <2>5, <2>6, <2>7 DEF KnownOK
<1> QED BY <1>4, <1>5

\* The state of the worker and of what is known, as it should be.
Fine == WorkerOK /\ Synced

\* The loop ends, to dial again, where it has a handle: after a stop, or a ping
\* that failed.
LEMMA StopSync ==
    ASSUME TypeOK, Shape, Fine, cmds' = cmds \/ (cmds # <<>> /\ cmds' = Tail(cmds)),
           conn.handle, exit("Delay"), send_lifecycle_event("RunLoopExits"),
           UNCHANGED <<wk, ad, table, ans>>, vs' \in {vs, left}
    PROVE  Fine'
<1> DEFINE r == ans[worker].st
<1>1. ~Retrying(r, wk)
  BY DEF Fine, WorkerOK, Dialing
<1>2. ~conn'.handle
  BY Exits DEF Shape
<1>3. Sole(cmds', r, wk)
  <2>1. cmds \in Seq(Commands) /\ Sole(cmds, r, wk)
    BY DEF Fine, WorkerOK, TypeOK
  <2>2. CASE cmds' = cmds
    BY <2>1, <2>2
  <2>3. CASE cmds # <<>> /\ cmds' = Tail(cmds)
    BY <2>1, <2>3, SoleTake
  <2> QED BY <2>2, <2>3
<1>4. Dialing(r, wk, events', conn')
  <2>1. \A i \in DOMAIN events : events[i] # "RunLoopStarts"
    BY DEF Fine, WorkerOK, Dialing
  <2>2. events' = Append(events, "RunLoopExits")
    BY DEF send_lifecycle_event
  <2>3. events \in Seq({"RunLoopStarts", "RunLoopExits", "ConnectedToVsApi"})
    BY DEF Shape, ConnOK
  <2>4. \A i \in DOMAIN events' : events'[i] # "RunLoopStarts"
    BY <2>1, <2>2, <2>3, Places
  <2>5. events # <<>> => events' # <<>> /\ Head(events') = Head(events)
    BY <2>2, <2>3
  <2> QED BY <1>1, <2>4, <2>5 DEF Fine, WorkerOK, Dialing
<1>5. WorkerOK'
  BY <1>3, <1>4 DEF Fine, WorkerOK
<1>6. Lessens
  BY DEF Lessens, Up, Granted
<1>7. Remembers
  BY ServedShape DEF Shape, Remembers
<1>8. Synced'
  BY <1>2, <1>6, <1>7, SyncedKept DEF Fine, SamePlace
<1> QED BY <1>5, <1>8 DEF Fine

\* A connect is the one that the worker waits for; when it works, the visa
\* service knows all there is.
LEMMA ConnectSync ==
    ASSUME TypeOK, Shape, Fine, cmds # <<>>, cmds' = Tail(cmds), Head(cmds).op = "Connect",
           UNCHANGED <<wk, ad, table>>, handle_connect(Head(cmds))
    PROVE  Fine'
<1> DEFINE c == Head(cmds)
<1>1. c = cmds[1] /\ 1 \in DOMAIN cmds /\ c \in Commands /\ cmds \in Seq(Commands)
  BY Places DEF TypeOK
<1>2. c.arg \in Flags
  BY <1>1 DEF Commands
<1>3. /\ c.who = worker /\ c.arg = wk.flag /\ ans[worker].st = "none"
      /\ wk.pc = "Select" /\ wk.sent
  BY <1>1 DEF Fine, WorkerOK, Sole, Asks
<1>4. Retrying(ans[worker].st, wk) /\ events = <<>> /\ ~conn.handle /\ conn.st = "Running"
  BY <1>3 DEF Fine, WorkerOK, Dialing, Retrying
<1>5. PICK r \in {ok, answer("OutOfSync"), Failed} :
             /\ ans' = reply(ans, c.who, r)
             /\ vs' = vs \/ (vs' = joined(c.arg) /\ (c.arg = "HasState" => vs.node))
             /\ \/ /\ r # ok /\ UNCHANGED <<conn, events>>
                \/ /\ r = ok /\ ~conn.handle /\ vs' = joined(c.arg)
                   /\ c.arg = "HasState" => vs.node
                   /\ conn' = [conn EXCEPT !.handle = TRUE]
                   /\ send_lifecycle_event("ConnectedToVsApi")
  BY <1>2, Connects DEF Shape
<1> HIDE DEF c
<1>6. ans'[worker] = r /\ \A w \in Callers : w # worker => ans'[w] = ans[w]
  BY <1>3, <1>5, AnswerAt, DifferentCallers
<1>7. r.st # "none" /\ (r # ok => r.st # "ok") /\ (r = ok => r.st = "ok")
  BY DEF ok, Failed, answer
<1>8. Sole(cmds', r.st, wk)
  BY <1>1, <1>3, SoleTake DEF Fine, WorkerOK, c
<1>9. Answered(r.st, wk)
  BY <1>3 DEF Answered
<1>10. Lessens
  BY <1>3, <1>5, AnswerLessens, DifferentCallers
<1>11. ASSUME c.arg = "HasState" PROVE Remembers
  BY <1>2, <1>5, <1>11, ServedShape DEF Remembers, Shape
<1>12. Blank(ans[worker].st, wk) <=> c.arg = "NoState"
  BY <1>3, <1>4 DEF Blank
<1>13. CASE r # ok
  <2>1. UNCHANGED <<conn, events>>
    BY <1>5, <1>13
  <2>2. Retrying(r.st, wk) /\ (Blank(r.st, wk) <=> c.arg = "NoState")
    BY <1>3, <1>7, <1>13 DEF Retrying, Blank
  <2>3. Dialing(r.st, wk, events, conn)
    BY <1>4, <1>7, <1>13 DEF Dialing
  <2>4. WorkerOK'
    BY <1>6, <1>8, <1>9, <2>1, <2>3 DEF WorkerOK
  <2>5. CASE c.arg = "NoState"
    <3>1. BlankOK'
      BY <1>4, <1>10, <1>12, <2>1, <2>5, BlankKept DEF Fine, Synced
    <3>2. Synced'
      BY <1>3, <1>6, <2>2, <2>5, <3>1 DEF Synced
    <3> QED BY <2>4, <3>2 DEF Fine
  <2>6. CASE c.arg = "HasState"
    <3>1. KnownOK'
      BY <1>3, <1>10, <1>11, <1>12, <2>6, KnownKept DEF Fine, Synced
    <3>2. Synced'
      BY <1>3, <1>6, <2>2, <2>6, <3>1 DEF Synced
    <3> QED BY <2>4, <3>2 DEF Fine
  <2> QED BY <1>2, <2>5, <2>6 DEF Flags
<1>14. CASE r = ok
  <2>1. /\ vs' = joined(c.arg) /\ (c.arg = "HasState" => vs.node)
        /\ conn' = [conn EXCEPT !.handle = TRUE] /\ events' = Append(<<>>, "ConnectedToVsApi")
    BY <1>4, <1>5, <1>14 DEF send_lifecycle_event
  <2>2. events' = <<"ConnectedToVsApi">>
    BY <2>1
  <2>3. ~Retrying(r.st, wk) /\ ~Blank(r.st, wk)
    BY <1>3, <1>7, <1>14 DEF Retrying, Blank
  <2>4. Dialing(r.st, wk, events', conn')
    BY <2>2, <2>3 DEF Dialing
  <2>5. WorkerOK'
    BY <1>6, <1>8, <1>9, <2>4 DEF WorkerOK
  <2>6. ASSUME c.arg = "HasState" PROVE KnownOK'
    BY <1>3, <1>10, <1>11, <1>12, <2>6, KnownKept DEF Fine, Synced
  <2>7. ASSUME c.arg = "NoState" PROVE KnownOK'
    <3>1. BlankOK
      BY <1>12, <2>7 DEF Fine, Synced
    <3>2. \A a \in Adapters : ~Up(a)' /\ ad'[a].asks # "asked"
      <4>1. \A a \in Adapters : ~Up(a)
        BY <3>1 DEF BlankOK
      <4>2. \A a \in Adapters : ad[a].asks = "asked" => ad[a].st = "up"
        BY DEF Shape, AdaptersOK, AdapterOK
      <4> QED BY <1>10, <4>1, <4>2 DEF Lessens, Up
    <3>3. \A e \in table' : e.left
      BY <3>1 DEF BlankOK
    <3> QED BY <3>2, <3>3 DEF KnownOK
  <2>8. KnownOK'
    BY <1>2, <2>6, <2>7 DEF Flags
  <2>9. Synced'
    BY <1>3, <1>6, <2>3, <2>8 DEF Synced
  <2> QED BY <2>5, <2>9 DEF Fine
<1> QED BY <1>13, <1>14

\* Another command is taken and answered.
LEMMA TakenSync ==
    ASSUME TypeOK, Fine, cmds # <<>>, cmds' = Tail(cmds), UNCHANGED <<wk, conn, events>>,
           NEW r, ans' = reply(ans, Head(cmds).who, r),
           Head(cmds).who = worker => wk.pc # "Select"
    PROVE  WorkerOK' /\ (Blank(ans'[worker].st, wk) <=> Blank(ans[worker].st, wk))
<1> DEFINE c == Head(cmds)
<1>1. c = cmds[1] /\ 1 \in DOMAIN cmds /\ c \in Commands /\ cmds \in Seq(Commands)
  BY Places DEF TypeOK
<1>2. \/ ans'[worker] = ans[worker] /\ c.who # worker
      \/ c.who = worker /\ wk.pc \in {"Deferred", "Register"}
  <2>1. CASE c.who = worker
    BY <1>1, <2>1 DEF Fine, WorkerOK, Sole, Asks
  <2>2. CASE c.who # worker
    BY <2>2, AnswerAt, DifferentCallers
  <2> QED BY <2>1, <2>2
<1> HIDE DEF c
<1>3. /\ Dialing(ans'[worker].st, wk, events, conn)
      /\ Blank(ans'[worker].st, wk) <=> Blank(ans[worker].st, wk)
      /\ Answered(ans'[worker].st, wk)
  <2>1. CASE ans'[worker] = ans[worker]
    BY <2>1 DEF Fine, WorkerOK
  <2>2. CASE wk.pc \in {"Deferred", "Register"}
    <3>1. wk.pc # "Select"
      BY <2>2
    <3> QED BY <2>2, <3>1, AnswerElsewhere DEF Fine, WorkerOK, Answered
  <2> QED BY <1>2, <2>1, <2>2
<1>4. Sole(cmds', ans'[worker].st, wk)
  <2>1. ans'[worker].st = ans[worker].st \/ c.who = worker
    BY <1>2
  <2> QED BY <1>1, <2>1, SoleTake DEF Fine, WorkerOK, c
<1> QED BY <1>3, <1>4 DEF WorkerOK

\* The command has failed.
LEMMA FailedSync ==
    ASSUME TypeOK, Fine, cmds # <<>>, cmds' = Tail(cmds),
           UNCHANGED <<vs, wk, conn, events, ad, table>>,
           ans' = reply(ans, Head(cmds).who, Failed), Head(cmds).who = worker => wk.pc # "Select"
    PROVE  Fine'
<1>1. WorkerOK' /\ (Blank(ans'[worker].st, wk) <=> Blank(ans[worker].st, wk))
  BY TakenSync
<1>2. Failed.st # "ok" /\ Failed.ops = {}
  BY DEF Failed, answer
<1>3. Lessens
  BY <1>2, AnswerLessens
<1>4. Remembers
  BY DEF Remembers
<1>5. Synced'
  BY <1>1, <1>3, <1>4, SyncedKept DEF Fine, SamePlace
<1> QED BY <1>1, <1>5 DEF Fine

\* It needs a handle.
LEMMA RequestSync ==
    ASSUME TypeOK, Shape, Fine, cmds # <<>>, cmds' = Tail(cmds),
           UNCHANGED <<wk, ad, table>>, NEW served, NEW a, NEW r,
           Effects(Head(cmds), served, a), Performs(Head(cmds), served, a, r)
    PROVE  Fine'
<1> DEFINE c == Head(cmds)
<1>1. c = cmds[1] /\ 1 \in DOMAIN cmds
  BY Places DEF TypeOK
<1>2. /\ UNCHANGED <<conn, events>> /\ ans' = reply(ans, c.who, r)
      /\ ~connected => r = Failed /\ vs' = vs
  BY DEF Performs
<1>3. c.op # "Connect"
  BY DEF Effects
<1>4. c.who = worker => wk.pc # "Select"
  BY <1>1, <1>3 DEF Fine, WorkerOK, Sole, Asks
<1> HIDE DEF c
<1>5. WorkerOK' /\ (Blank(ans'[worker].st, wk) <=> Blank(ans[worker].st, wk))
  BY <1>2, <1>4, TakenSync DEF c
<1>6. CASE ~connected
  BY <1>2, <1>4, <1>6, FailedSync DEF c
<1>7. CASE connected
  <2>1. ~Blank(ans[worker].st, wk) /\ wk.pc # "Resetting"
    BY <1>7 DEF Fine, Synced, WorkerOK, BlankOK, Dialing, Retrying, connected
  <2>2. KnownOK'
    BY <1>7, <2>1, EffectsKnown DEF Fine, Synced
  <2>3. Synced'
    BY <1>5, <2>1, <2>2 DEF Synced
  <2> QED BY <1>5, <2>3 DEF Fine
<1> QED BY <1>6, <1>7

\* The run loop serves a command.
LEMMA HandleSync == ASSUME TypeOK, Shape, Fine, handle_command PROVE Escaped' \/ Fine'
<1> DEFINE c == Head(cmds)
<1>1. /\ cmds # <<>> /\ cmds' = Tail(cmds) /\ c \in Commands /\ conn.st = "Running"
      /\ UNCHANGED <<wk, ad, table, refused>>
      /\ \/ c.op = "Stop" /\ handle_stop(c) /\ UNCHANGED ans
         \/ c.op = "Connect" /\ handle_connect(c)
         \/ \E served, a, r : Effects(c, served, a) /\ Performs(c, served, a, r)
  BY Handles
<1>2. CASE c.op = "Stop" /\ handle_stop(c) /\ UNCHANGED ans
  <2>1. /\ send_lifecycle_event("RunLoopExits") /\ vs' \in {vs, left}
        /\ exit("Stopped") \/ (conn.handle /\ exit("Delay"))
    BY <1>2, Stops DEF Shape
  <2>2. CASE exit("Stopped")
    BY <2>2, Exits DEF Shape, Escaped
  <2>3. CASE conn.handle /\ exit("Delay")
    BY <1>1, <1>2, <2>1, <2>3, StopSync
  <2> QED BY <2>1, <2>2, <2>3
<1>3. CASE c.op = "Connect" /\ handle_connect(c)
  BY <1>1, <1>3, ConnectSync
<1>4. ASSUME NEW served, NEW a, NEW r, Effects(c, served, a), Performs(c, served, a, r)
      PROVE  Fine'
  BY <1>1, <1>4, RequestSync
<1> QED BY <1>1, <1>2, <1>3, <1>4

\* The run loop drops a command, or is stopped.
LEMMA DropSync ==
    ASSUME TypeOK, Shape, drop_command
    PROVE  Shape' /\ (Fine => conn.st = "Stopped" \/ Escaped' \/ Fine')
<1> DEFINE c == Head(cmds)
<1>1. /\ cmds # <<>> /\ cmds' = Tail(cmds) /\ conn.st \in {"Tcp", "Delay", "Stopped"}
      /\ UNCHANGED <<vs, wk, ad, table, refused>>
  BY DEF drop_command
<1>2. Failed.st # "none" /\ Failed.ops = {}
  BY DEF Failed, answer
<1>3. VisasOK'
  BY <1>1 DEF Shape, VisasOK
<1>4. AdaptersOK'
  <2>1. ans' = reply(ans, c.who, Failed) \/ ans' = ans
    BY DEF drop_command
  <2> QED BY <1>1, <1>2, <2>1, AdaptersTake DEF Shape
<1>5. CASE c.op = "Stop" /\ conn.st # "Stopped"
  <2>1. exit("Stopped") /\ (UNCHANGED events \/ send_lifecycle_event("RunLoopExits"))
    BY <1>5 DEF drop_command
  <2>2. conn'.st = "Stopped" /\ ConnOK'
    BY <2>1, Exits DEF Shape
  <2> QED BY <1>3, <1>4, <2>2 DEF Shape, Escaped
<1>6. CASE ~(c.op = "Stop" /\ conn.st # "Stopped")
  <2>1. ans' = reply(ans, c.who, Failed) /\ UNCHANGED <<conn, events>>
    BY <1>6 DEF drop_command
  <2>2. ConnOK'
    BY <2>1 DEF Shape, ConnOK
  <2>3. ASSUME Fine, conn.st # "Stopped" PROVE Fine'
    <3>1. c = cmds[1] /\ 1 \in DOMAIN cmds
      BY <1>1, Places DEF TypeOK
    <3>2. c.who = worker => wk.pc # "Select"
      BY <1>1, <2>3, <3>1 DEF Fine, WorkerOK, Sole, Dialing, Retrying
    <3> QED BY <1>1, <2>1, <2>3, <3>2, FailedSync
  <2> QED BY <1>3, <1>4, <2>2, <2>3 DEF Shape
<1> QED BY <1>5, <1>6

\* What the loop does besides has nothing to do with the adapters.
LEMMA LoopShape ==
    ASSUME TypeOK, Shape, UNCHANGED <<vs, cmds, ans, ad, table>>, ConnOK'
    PROVE  Shape'
<1>1. AdaptersOK'
  BY DEF Shape, AdaptersOK
<1>2. VisasOK'
  BY DEF Shape, VisasOK
<1> QED BY <1>1, <1>2 DEF Shape

\* The loop dials, and starts.
LEMMA DialSync ==
    ASSUME TypeOK, Shape, Fine, UNCHANGED <<vs, cmds, ans, wk, ad, table>>,
           conn.st # "Running", ~conn'.handle,
           \/ events' = events
           \/ events' = Append(events, "RunLoopStarts") /\ conn'.st = "Running"
    PROVE  Fine'
<1>1. ~Retrying(ans[worker].st, wk) /\ \A i \in DOMAIN events : events[i] # "RunLoopStarts"
  BY DEF Fine, WorkerOK, Dialing
<1>2. Dialing(ans[worker].st, wk, events', conn')
  <2>1. CASE events' = events
    BY <1>1, <2>1 DEF Fine, WorkerOK, Dialing
  <2>2. CASE events' = Append(events, "RunLoopStarts") /\ conn'.st = "Running"
    <3>1. events \in Seq({"RunLoopStarts", "RunLoopExits", "ConnectedToVsApi"})
      BY DEF Shape, ConnOK
    <3>2. Len(events') = Len(events) + 1
      BY <2>2, <3>1
    <3>3. \A i \in DOMAIN events' : events'[i] = "RunLoopStarts" => i = Len(events')
      BY <1>1, <2>2, <3>1, <3>2, Places
    <3>4. events # <<>> => events' # <<>> /\ Head(events') = Head(events)
      BY <2>2, <3>1
    <3> QED BY <1>1, <2>2, <3>3, <3>4 DEF Fine, WorkerOK, Dialing
  <2> QED BY <2>1, <2>2
<1>3. WorkerOK'
  BY <1>2 DEF Fine, WorkerOK
<1>4. Lessens /\ Remembers
  BY DEF Lessens, Up, Granted, Remembers
<1>5. Synced'
  BY <1>4, SyncedKept DEF Fine, SamePlace
<1> QED BY <1>3, <1>5 DEF Fine

\* So do both loops of VSConn.
LEMMA RunSync ==
    ASSUME TypeOK, Shape, run_with_reconnect \/ run
    PROVE  Shape' /\ (Fine => Fine')
<1>1. UNCHANGED <<vs, cmds, ans, wk, ad, table>> /\ conn.st # "Running"
  BY DEF run_with_reconnect, run
<1>2. ~conn.handle /\ DOMAIN conn = {"st", "live", "handle", "ping_failures"}
  BY <1>1 DEF Shape, ConnOK
<1>3. /\ ConnOK' /\ ~conn'.handle
      /\ \/ events' = events
         \/ events' = Append(events, "RunLoopStarts") /\ conn'.st = "Running"
  <2>1. CASE run_with_reconnect
    BY <1>2, <2>1 DEF run_with_reconnect, Shape, ConnOK
  <2>2. CASE /\ conn.st = "Tcp" /\ UNCHANGED events
             /\ conn' = [conn EXCEPT !.st = IF vs.up THEN "Tls" ELSE "Delay", !.live = vs.up]
    BY <1>2, <2>2 DEF Shape, ConnOK
  <2>3. CASE /\ conn.st = "Tls" /\ conn.live /\ send_lifecycle_event("RunLoopStarts")
             /\ conn' = [conn EXCEPT !.st = "Running", !.ping_failures = 0]
    <3>1. conn'.st = "Running" /\ ~conn'.handle /\ DOMAIN conn' = DOMAIN conn
      BY <1>2, <2>3
    <3>2. events' = Append(events, "RunLoopStarts")
      BY <2>3 DEF send_lifecycle_event
    <3>3. events' \in Seq({"RunLoopStarts", "RunLoopExits", "ConnectedToVsApi"})
      BY <3>2 DEF Shape, ConnOK
    <3> QED BY <1>2, <3>1, <3>2, <3>3 DEF ConnOK
  <2>4. CASE conn.st = "Tls" /\ ~conn.live /\ exit("Delay") /\ UNCHANGED events
    BY <2>4, Exits DEF Shape
  <2> QED BY <2>1, <2>2, <2>3, <2>4 DEF run
<1>4. Shape'
  BY <1>1, <1>3, LoopShape
<1>5. Fine => Fine'
  BY <1>1, <1>3, DialSync
<1> QED BY <1>4, <1>5

\* A ping.
LEMMA PingSync == ASSUME TypeOK, Shape, ping PROVE Shape' /\ (Fine => Fine')
<1>1. UNCHANGED <<vs, cmds, ans, wk, ad, table>> /\ conn.handle
  BY DEF ping
<1>2. do_ping(TRUE) \/ do_ping(FALSE)
  BY DEF ping
<1>3. CASE exit("Delay") /\ send_lifecycle_event("RunLoopExits")
  <2>1. ConnOK'
    BY <1>3, Exits DEF Shape
  <2>2. Shape'
    BY <1>1, <2>1, LoopShape
  <2>3. Fine => Fine'
    BY <1>1, <1>3, StopSync
  <2> QED BY <2>2, <2>3
<1>4. CASE UNCHANGED events /\ \E n : conn' = [conn EXCEPT !.ping_failures = n]
  <2>1. PICK n : conn' = [conn EXCEPT !.ping_failures = n]
    BY <1>4
  <2>2. conn'.st = conn.st /\ conn'.handle = conn.handle /\ DOMAIN conn' = DOMAIN conn
    BY <2>1 DEF Shape, ConnOK
  <2>3. ConnOK'
    BY <1>4, <2>2 DEF Shape, ConnOK
  <2>4. Shape'
    BY <1>1, <2>3, LoopShape
  <2>5. ASSUME Fine PROVE Fine'
    <3>1. WorkerOK'
      BY <1>1, <1>4, <2>2, <2>5 DEF Fine, WorkerOK, Dialing
    <3>2. Lessens /\ Remembers
      BY <1>1 DEF Lessens, Up, Granted, Remembers
    <3>3. Synced'
      BY <1>1, <2>2, <2>5, <3>2, SyncedKept DEF Fine, SamePlace
    <3> QED BY <3>1, <3>3 DEF Fine
  <2> QED BY <2>4, <2>5
<1>5. \/ exit("Delay") /\ send_lifecycle_event("RunLoopExits")
      \/ UNCHANGED events /\ \E n : conn' = [conn EXCEPT !.ping_failures = n]
  BY <1>2 DEF do_ping
<1> QED BY <1>3, <1>4, <1>5

-----------------------------------------------------------------------------
(* vs_worker.                                                              *)

\* A start is the last event, of a run without a handle.
StartIsLast(ev, cn) ==
    \A i \in DOMAIN ev : ev[i] = "RunLoopStarts" => i = Len(ev) /\ cn.st = "Running" /\ ~cn.handle

\* It stays so when an event is read.
LEMMA EventTaken ==
    ASSUME ConnOK, events # <<>>, events' = Tail(events), conn' = conn
    PROVE  /\ ConnOK'
           /\ StartIsLast(events, conn) =>
                /\ StartIsLast(events', conn)
                /\ Head(events) = "RunLoopStarts" =>
                     events' = <<>> /\ conn.st = "Running" /\ ~conn.handle
<1>1. events \in Seq({"RunLoopStarts", "RunLoopExits", "ConnectedToVsApi"})
  BY DEF ConnOK
<1>2. /\ Head(events) = events[1] /\ 1 \in DOMAIN events /\ DOMAIN events' \subseteq Nat
      /\ \A i \in DOMAIN events' : i + 1 \in DOMAIN events /\ events'[i] = events[i + 1]
  BY <1>1, Places
<1>3. /\ Len(events') = Len(events) - 1 /\ Len(events) \in Nat
      /\ events' \in Seq({"RunLoopStarts", "RunLoopExits", "ConnectedToVsApi"})
  BY <1>1
<1>4. ConnOK'
  BY <1>3 DEF ConnOK
<1>5. ASSUME StartIsLast(events, conn) PROVE StartIsLast(events', conn)
  BY <1>2, <1>3, <1>5 DEF StartIsLast
<1>6. ASSUME StartIsLast(events, conn), Head(events) = "RunLoopStarts"
      PROVE  events' = <<>> /\ conn.st = "Running" /\ ~conn.handle
  <2>1. Len(events) = 1 /\ conn.st = "Running" /\ ~conn.handle
    BY <1>2, <1>6 DEF StartIsLast
  <2>2. Len(events') = 0
    BY <1>3, <2>1
  <2> QED BY <1>3, <2>1, <2>2
<1> QED BY <1>4, <1>5, <1>6

\* The worker's steps leave the adapters alone, but for the commands it sends.
LEMMA WorkerShape ==
    ASSUME TypeOK, Shape, UNCHANGED <<vs, ad>>, ConnOK', AnswersStay,
           \A e \in table' : e \in table \/ e.left,
           \/ cmds' = cmds \/ cmds' = abandoned
           \/ \E c \in Commands :
                /\ cmds' = Append(cmds, c) /\ c.who \in {worker, nobody}
                /\ c.op = "NotifyDisconnect" => c.arg \notin Adapters
    PROVE  Shape'
<1>1. AdaptersOK'
  BY AdaptersSend, AdaptersAbandon DEF Shape
<1>2. VisasOK'
  BY DEF Shape, VisasOK
<1> QED BY <1>1, <1>2 DEF Shape

\* They bring nothing up.
LEMMA WorkerLessens ==
    ASSUME UNCHANGED <<vs, ad>>, AnswersStay, \A e \in table' : e \in table \/ e.left
    PROVE  Lessens /\ Remembers
<1>1. \A a \in Adapters : Up(a)' => Up(a)
  BY DEF Up, AnswersStay
<1>2. \A a \in Adapters : Granted(a)' = Granted(a)
  BY DEF AnswersStay, Granted, asker
<1> QED BY <1>1, <1>2 DEF Lessens, Remembers

\* The run loop has started, or another event is read.
LEMMA StartSync == ASSUME TypeOK, Shape, wait_for_runloop_start PROVE Shape' /\ (Fine => Fine')
<1>1. /\ wk.pc = "Gate" /\ events # <<>> /\ events' = Tail(events)
      /\ wk' = [wk EXCEPT !.pc = IF Head(events) = "RunLoopStarts" THEN "Select" ELSE @]
      /\ UNCHANGED <<vs, conn, cmds, ans, ad, table>>
  BY DEF wait_for_runloop_start
<1>2. DOMAIN wk = {"pc", "flag", "sent", "todo", "deferred"}
  BY DEF TypeOK, WorkerTyped
<1>3. /\ wk'.pc = IF Head(events) = "RunLoopStarts" THEN "Select" ELSE "Gate"
      /\ wk'.flag = wk.flag /\ wk'.todo = wk.todo
  BY <1>1, <1>2
<1>4. ConnOK'
  BY <1>1, EventTaken DEF Shape
<1>5. AnswersStay
  BY <1>1 DEF AnswersStay
<1>6. Shape'
  BY <1>1, <1>4, <1>5, WorkerShape
<1>7. ASSUME Fine PROVE Fine'
  <2>1. ans[worker].st = "none"
    BY <1>1, <1>7 DEF Fine, WorkerOK, Answered
  <2>2. Sole(cmds', ans'[worker].st, wk')
    <3>1. \A op : ~Asks(wk, op)
      BY <1>1 DEF Asks
    <3> QED BY <1>1, <1>7, <3>1, FreeIsSole DEF Fine, WorkerOK
  <2>3. Dialing(ans'[worker].st, wk', events', conn')
    <3>1. /\ StartIsLast(events', conn)
          /\ Head(events) = "RunLoopStarts" => events' = <<>> /\ conn.st = "Running" /\ ~conn.handle
      BY <1>1, <1>7, EventTaken DEF Shape, Fine, WorkerOK, Dialing, StartIsLast
    <3> QED BY <1>1, <1>3, <2>1, <3>1 DEF Dialing, Retrying, StartIsLast
  <2>4. WorkerOK'
    BY <1>1, <2>1, <2>2, <2>3 DEF WorkerOK, Answered
  <2>5. SamePlace
    BY <1>1, <1>3, <2>1 DEF SamePlace, Blank, Retrying
  <2>6. Synced'
    BY <1>1, <1>5, <1>7, <2>5, WorkerLessens, SyncedKept DEF Fine
  <2> QED BY <2>4, <2>6 DEF Fine
<1> QED BY <1>6, <1>7

\* A connect is sent.
LEMMA ConnectSends == ASSUME TypeOK, Shape, connect PROVE Shape' /\ (Fine => Fine')
<1> DEFINE c == command("Connect", worker, wk.flag)
<1>1. /\ wk.pc = "Select" /\ ~wk.sent /\ events = <<>> /\ wk' = [wk EXCEPT !.sent = TRUE]
      /\ cmds' = Append(cmds, c) /\ UNCHANGED <<vs, conn, ans, events, ad, table>>
  BY DEF connect
<1>2. DOMAIN wk = {"pc", "flag", "sent", "todo", "deferred"} /\ wk.flag \in Flags
  BY DEF TypeOK, WorkerTyped
<1>3. wk'.pc = wk.pc /\ wk'.flag = wk.flag /\ wk'.todo = wk.todo /\ wk'.sent
  BY <1>1, <1>2
<1>4. c \in Commands /\ c.who = worker /\ c.op = "Connect" /\ c.arg = wk.flag
  BY <1>2, WorkerCommands DEF command
<1> HIDE DEF c
<1>5. ConnOK'
  BY <1>1 DEF Shape, ConnOK
<1>6. AnswersStay
  BY <1>1 DEF AnswersStay
<1>7. Shape'
  BY <1>1, <1>4, <1>5, <1>6, WorkerShape
<1>8. ASSUME Fine PROVE Fine'
  <2>1. ans[worker].st = "none"
    BY <1>1, <1>8 DEF Fine, WorkerOK, Answered
  <2>2. Free(cmds)
    <3>1. \A op : ~Asks(wk, op)
      BY <1>1 DEF Asks
    <3> QED BY <1>8, <3>1, FreeIsSole DEF Fine, WorkerOK
  <2>3. Sole(cmds', "none", wk')
    <3>1. Asks(wk', c.op)
      BY <1>1, <1>3, <1>4 DEF Asks
    <3> QED BY <1>1, <1>3, <1>4, <2>2, <3>1, SoleAsk DEF TypeOK
  <2>4. Dialing("none", wk', events, conn) /\ SamePlace
    BY <1>1, <1>3, <1>8, <2>1 DEF Fine, WorkerOK, Dialing, Retrying, SamePlace, Blank
  <2>5. WorkerOK'
    BY <1>1, <2>1, <2>3, <2>4 DEF WorkerOK, Answered
  <2>6. Synced'
    BY <1>1, <1>6, <1>8, <2>4, WorkerLessens, SyncedKept DEF Fine
  <2> QED BY <2>5, <2>6 DEF Fine
<1> QED BY <1>7, <1>8

\* The worker takes its answer, and waits for none.
LEMMA WorkerGoesOn ==
    ASSUME TypeOK, Shape, Fine, UNCHANGED <<vs, conn, ad>>, \A e \in table' : e \in table,
           AnswersStay, ans'[worker].st = "none", Free(cmds'),
           events' = events \/ (events # <<>> /\ events' = Tail(events)),
           wk'.pc # "Select", SamePlace,
           Retrying("none", wk') => Retrying(ans[worker].st, wk)
    PROVE  Fine'
<1>1. StartIsLast(events', conn)
  <2>1. StartIsLast(events, conn)
    BY DEF Fine, WorkerOK, Dialing, StartIsLast
  <2> QED BY <2>1, EventTaken DEF Shape
<1>2. Retrying("none", wk') => events' = <<>> /\ ~conn.handle /\ conn.st = "Running"
  BY DEF Fine, WorkerOK, Dialing
<1>3. Dialing(ans'[worker].st, wk', events', conn')
  BY <1>1, <1>2 DEF Dialing, StartIsLast
<1>4. WorkerOK'
  BY <1>3, FreeIsSole DEF WorkerOK, Answered
<1>5. Synced'
  BY WorkerLessens, SyncedKept DEF Fine
<1> QED BY <1>4, <1>5 DEF Fine

\* What WorkerDoes and out_of_sync do to the worker and to the answers.
LEMMA Does ==
    ASSUME TypeOK, NEW pc, NEW sends, WorkerDoes(pc, sends)
    PROVE  /\ wk'.pc = pc /\ wk'.flag = wk.flag /\ wk'.todo = wk.todo
           /\ AnswersStay /\ ans'[worker].st = "none"
           /\ sends = <<>> => cmds' = cmds
           /\ \A c : sends = <<c>> => cmds' = Append(cmds, c)
<1>1. DOMAIN wk = {"pc", "flag", "sent", "todo", "deferred"}
  BY DEF TypeOK, WorkerTyped
<1>2. wk'.pc = pc /\ wk'.flag = wk.flag /\ wk'.todo = wk.todo
  BY <1>1 DEF WorkerDoes
<1>3. ans' = [ans EXCEPT ![worker] = answer("none")] /\ answer("none").st = "none"
  BY DEF WorkerDoes, answer
<1>5. AnswersStay /\ ans'[worker].st = "none"
  BY <1>3, WorkerTakes
<1>6. cmds \in Seq(Commands) /\ cmds' = cmds \o sends
  BY DEF TypeOK, WorkerDoes
<1>7. sends = <<>> => cmds' = cmds
  BY <1>6
<1>8. \A c : sends = <<c>> => cmds' = Append(cmds, c)
  BY <1>6
<1> QED BY <1>2, <1>5, <1>7, <1>8

\* The answer to a connect is read.
LEMMA AnsweredSync == ASSUME TypeOK, Shape, ConnectAnswered PROVE Shape' /\ (Fine => Fine')
<1>1. /\ wk.pc = "Select" /\ ans[worker].st # "none"
      /\ UNCHANGED <<vs, conn, events, ad, table>>
  BY DEF ConnectAnswered
<1>2. ConnOK'
  BY <1>1 DEF Shape, ConnOK
<1>3. Fine => Free(cmds)
  BY <1>1, FreeIsSole DEF Fine, WorkerOK
<1>4. CASE \/ ans[worker].st = "ok" /\ WorkerDoes("Connected", <<>>)
           \/ ans[worker].st = "failed" /\ WorkerDoes("Sleep", <<>>)
  <2>1. /\ wk'.pc = IF ans[worker].st = "ok" THEN "Connected" ELSE "Sleep"
        /\ wk'.flag = wk.flag /\ wk'.todo = wk.todo
        /\ AnswersStay /\ ans'[worker].st = "none" /\ cmds' = cmds
    BY <1>4, Does
  <2>2. Shape'
    BY <1>1, <1>2, <2>1, WorkerShape
  <2>3. SamePlace /\ (Retrying("none", wk') => Retrying(ans[worker].st, wk))
    BY <1>1, <2>1 DEF SamePlace, Blank, Retrying
  <2>4. Fine => Fine'
    BY <1>1, <1>3, <2>1, <2>3, WorkerGoesOn
  <2> QED BY <2>2, <2>4
<1>5. CASE ans[worker].st = "OutOfSync" /\ out_of_sync
  <2>1. DOMAIN wk = {"pc", "flag", "sent", "todo", "deferred"}
    BY DEF TypeOK, WorkerTyped
  <2>2. wk'.pc = "Resetting" /\ wk'.todo = Adapters /\ cmds' = cmds
    BY <1>5, <2>1 DEF out_of_sync
  <2>3. ans' = [ans EXCEPT ![worker] = answer("none")] /\ answer("none").st = "none"
    BY <1>5 DEF out_of_sync, answer
  <2>5. AnswersStay /\ ans'[worker].st = "none"
    BY <2>3, WorkerTakes
  <2>6. Shape'
    BY <1>1, <1>2, <2>2, <2>5, WorkerShape
  <2>7. ASSUME Fine PROVE Fine'
    <3>1. events = <<>> /\ ~conn.handle /\ conn.st = "Running"
      BY <1>1, <1>5, <2>7 DEF Fine, WorkerOK, Dialing, Retrying
    <3>2. Dialing("none", wk', events, conn)
      BY <2>2, <3>1 DEF Dialing
    <3>3. WorkerOK'
      BY <1>1, <1>3, <2>2, <2>5, <2>7, <3>2, FreeIsSole DEF WorkerOK, Answered
    <3>4. \A e \in table' : e.visa.for \in Adapters
      BY <1>1 DEF Shape, VisasOK, TypeOK, Entries
    <3>5. ResetOK'
      BY <2>2, <3>4 DEF ResetOK
    <3>6. Synced'
      BY <2>2, <3>5 DEF Synced, Blank
    <3> QED BY <3>3, <3>6 DEF Fine
  <2> QED BY <2>6, <2>7
<1> QED BY <1>4, <1>5 DEF ConnectAnswered

\* An event comes before the answer to a connect is read: it is that of the
\* same connect.
LEMMA RacedSync == ASSUME TypeOK, Shape, ConnectRaced PROVE Shape' /\ (Fine => Fine')
<1>1. /\ wk.pc = "Select" /\ events # <<>> /\ events' = Tail(events)
      /\ UNCHANGED <<vs, conn, ad, table>>
      /\ ans' = [ans EXCEPT ![worker] = answer("none")] /\ answer("none").st = "none"
      /\ \/ cmds' = abandoned
         \/ ~wk.sent /\ cmds' = Append(cmds, command("Connect", nobody, wk.flag))
  BY DEF ConnectRaced, answer
<1>2. DOMAIN wk = {"pc", "flag", "sent", "todo", "deferred"} /\ wk.flag \in Flags
  BY DEF TypeOK, WorkerTyped
<1>4. AnswersStay /\ ans'[worker].st = "none"
  <2>1. ans' = [ans EXCEPT ![worker] = answer("none")] /\ answer("none").st = "none"
    BY <1>1
  <2> QED BY <2>1, WorkerTakes
<1>5. ConnOK'
  BY <1>1, EventTaken DEF Shape
<1>6. Shape'
  <2> DEFINE c == command("Connect", nobody, wk.flag)
  <2>1. c \in Commands /\ c.who = nobody /\ c.op = "Connect"
    BY <1>2, WorkerCommands DEF command
  <2>2. cmds' = abandoned \/ cmds' = Append(cmds, c)
    BY <1>1
  <2> HIDE DEF c
  <2> QED BY <1>1, <1>4, <1>5, <2>1, <2>2, WorkerShape
<1>7. ASSUME Fine PROVE Fine'
  <2>1. ans[worker].st = "ok" /\ Head(events) = "ConnectedToVsApi" /\ wk.sent
    BY <1>1, <1>7 DEF Fine, WorkerOK, Dialing, Retrying, Answered
  <2>2. Free(cmds)
    BY <1>7, <2>1, FreeIsSole DEF Fine, WorkerOK
  <2>3. Free(cmds')
    <3>1. cmds' = abandoned
      BY <1>1, <2>1
    <3>2. DOMAIN cmds' = DOMAIN cmds /\ \A i \in DOMAIN cmds : cmds'[i] = cmds[i]
      BY <2>2, <3>1 DEF abandoned, Free
    <3> QED BY <2>2, <3>2 DEF Free
  <2>4. wk'.pc = "Connected" /\ wk'.flag = wk.flag /\ wk'.todo = wk.todo
    <3>1. wk' = [wk EXCEPT !.sent = FALSE, !.pc = "Connected"]
      BY <2>1 DEF ConnectRaced
    <3> QED BY <1>2, <3>1
  <2>5. SamePlace /\ ~Retrying("none", wk')
    BY <1>1, <1>4, <2>1, <2>4 DEF SamePlace, Blank, Retrying
  <2> QED BY <1>1, <1>4, <1>7, <2>3, <2>4, <2>5, WorkerGoesOn
<1> QED BY <1>6, <1>7

\* The worker asks for the next thing.
LEMMA WorkerAsks ==
    ASSUME TypeOK, Shape, UNCHANGED <<vs, conn, events, ad, table>>, AnswersStay,
           NEW c \in Commands, c.who = worker, c.op \in {"AuthorizeConnect", "RegisterVss"},
           cmds' = Append(cmds, c), Asks(wk', c.op), wk'.pc \in {"Deferred", "Register"},
           wk'.todo = wk.todo, wk.pc \in {"Connected", "Deferred"},
           Fine => ans'[worker].st = "none" /\ Free(cmds)
    PROVE  Shape' /\ (Fine => Fine')
<1>1. ConnOK'
  BY DEF Shape, ConnOK
<1>2. Shape'
  BY <1>1, WorkerShape
<1>3. ASSUME Fine PROVE Fine'
  <2>1. Sole(cmds', "none", wk')
    BY <1>3, SoleAsk DEF TypeOK
  <2>2. Dialing("none", wk', events, conn)
    BY <1>3 DEF Fine, WorkerOK, Dialing, Retrying
  <2>3. WorkerOK'
    BY <1>3, <2>1, <2>2 DEF WorkerOK, Answered
  <2>4. SamePlace
    BY DEF SamePlace, Blank, Retrying
  <2>5. Synced'
    BY <1>3, <2>4, WorkerLessens, SyncedKept DEF Fine
  <2> QED BY <2>3, <2>5 DEF Fine
<1> QED BY <1>2, <1>3

\* The VSS is registered; when that fails the worker has escaped.
LEMMA RegisterSync ==
    ASSUME TypeOK, Shape, register_vss
    PROVE  Shape' /\ (Fine => Escaped' \/ Fine')
<1>1. UNCHANGED <<vs, conn, events, ad, table>>
  BY DEF register_vss
<1>2. DOMAIN wk = {"pc", "flag", "sent", "todo", "deferred"}
  BY DEF TypeOK, WorkerTyped
<1> DEFINE c == command("AuthorizeConnect", worker, "nobody")
           d == command("RegisterVss", worker, "nobody")
           n == command("NotifyDisconnect", worker, "nobody")
<1>3. /\ {c, d, n} \subseteq Commands /\ \A x \in {c, d, n} : x.who = worker
      /\ c.op = "AuthorizeConnect" /\ d.op = "RegisterVss" /\ n.arg \notin Adapters
      /\ n.op = "NotifyDisconnect"
  BY WorkerCommands, VsConnAssumption DEF command
<1>4. ASSUME Fine, wk.pc = "Connected" PROVE ans[worker].st = "none" /\ Free(cmds)
  <2>1. \A op : ~Asks(wk, op)
    BY <1>4 DEF Asks
  <2>2. ans[worker].st = "none"
    BY <1>4 DEF Fine, WorkerOK, Answered
  <2> QED BY <1>4, <2>1, <2>2, FreeIsSole DEF Fine, WorkerOK
<1>5. ASSUME Fine, ans[worker].st = "ok" PROVE Free(cmds)
  BY <1>5, FreeIsSole DEF Fine, WorkerOK
<1>6. CASE /\ wk.pc = "Connected" /\ wk.deferred
           /\ wk' = [wk EXCEPT !.pc = "Deferred", !.deferred = FALSE] /\ UNCHANGED ans
           /\ cmds' = Append(cmds, c)
  <2> HIDE DEF c
  <2>1. wk'.pc = "Deferred" /\ wk'.todo = wk.todo /\ Asks(wk', c.op)
    BY <1>2, <1>3, <1>6 DEF Asks
  <2>2. AnswersStay
    BY <1>6 DEF AnswersStay
  <2> QED BY <1>1, <1>3, <1>4, <1>6, <2>1, <2>2, WorkerAsks
<1>7. CASE /\ wk.pc = "Connected" \/ (wk.pc = "Deferred" /\ ans[worker].st = "ok")
           /\ WorkerDoes("Register", <<d>>)
  <2> HIDE DEF d
  <2>1. /\ wk'.pc = "Register" /\ wk'.todo = wk.todo /\ Asks(wk', d.op)
        /\ AnswersStay /\ ans'[worker].st = "none" /\ cmds' = Append(cmds, d)
    BY <1>3, <1>7, Does DEF Asks
  <2> QED BY <1>1, <1>3, <1>4, <1>5, <1>7, <2>1, WorkerAsks
<1>8. CASE \/ WorkerDoes("Panicked", <<>>) \/ WorkerDoes("Disconnect", <<n>>)
           \/ WorkerDoes("Sleep", <<>>) /\ refused'
  <2> HIDE DEF n
  <2>1. /\ Escaped' /\ AnswersStay
        /\ cmds' = cmds \/ cmds' = Append(cmds, n)
    BY <1>8, Does DEF Escaped
  <2>2. ConnOK'
    BY <1>1 DEF Shape, ConnOK
  <2>3. Shape'
    BY <1>1, <1>3, <2>1, <2>2, WorkerShape
  <2> QED BY <2>1, <2>3
<1> HIDE DEF c, d, n
<1>9. \/ /\ wk.pc = "Connected" /\ wk.deferred
         /\ wk' = [wk EXCEPT !.pc = "Deferred", !.deferred = FALSE] /\ UNCHANGED ans
         /\ cmds' = Append(cmds, c)
      \/ /\ wk.pc = "Connected" \/ (wk.pc = "Deferred" /\ ans[worker].st = "ok")
         /\ WorkerDoes("Register", <<d>>)
      \/ WorkerDoes("Panicked", <<>>) \/ WorkerDoes("Disconnect", <<n>>)
      \/ WorkerDoes("Sleep", <<>>) /\ refused'
  BY DEF register_vss, c, d, n
<1> QED BY <1>6, <1>7, <1>8, <1>9 DEF c, d, n

\* The registration is done, or one of the operations that were pending is.
LEMMA RegisteredSync == ASSUME TypeOK, Shape, registered PROVE Shape' /\ (Fine => Fine')
<1>1. /\ wk.pc = "Register" /\ ans[worker].st = "ok"
      /\ UNCHANGED <<vs, conn, cmds, events, ad>>
  BY DEF registered
<1>2. ConnOK'
  BY <1>1 DEF Shape, ConnOK
<1>3. DOMAIN wk = {"pc", "flag", "sent", "todo", "deferred"}
  BY DEF TypeOK, WorkerTyped
<1>4. Fine => Free(cmds)
  BY <1>1, FreeIsSole DEF Fine, WorkerOK
<1>5. CASE ans[worker].ops = {}
  <2>1. /\ wk' = [wk EXCEPT !.pc = "Gate", !.flag = "HasState"] /\ UNCHANGED table
        /\ ans' = [ans EXCEPT ![worker] = answer("none")]
    BY <1>5 DEF registered
  <2>2. wk'.pc = "Gate" /\ wk'.flag = "HasState" /\ wk'.todo = wk.todo
    BY <1>3, <2>1
  <2>4. answer("none").st = "none"
    BY DEF answer
  <2>5. AnswersStay /\ ans'[worker].st = "none"
    BY <2>1, <2>4, WorkerTakes
  <2>6. Shape'
    BY <1>1, <1>2, <2>1, <2>5, WorkerShape
  <2>7. SamePlace /\ ~Retrying("none", wk')
    BY <1>1, <2>2 DEF SamePlace, Blank, Retrying
  <2>8. Fine => Fine'
    BY <1>1, <1>4, <2>1, <2>2, <2>5, <2>7, WorkerGoesOn
  <2> QED BY <2>6, <2>8
<1>6. CASE ans[worker].ops # {}
  <2>1. PICK o \in ans[worker].ops, done \in BOOLEAN :
          /\ process_visaop(o, done)
          /\ ans' = [ans EXCEPT ![worker].ops = @ \ {o}] /\ UNCHANGED wk
    BY <1>6 DEF registered
  <2>2. \A e \in table' : e \in table \/ e.left
    <3>1. o \in VisaOps
      BY SameParts DEF Answers
    <3> QED BY <2>1, <3>1, VisaOpTable
  <2>3. \A w \in Callers : w # worker => ans'[w] = ans[w]
    BY <2>1 DEF TypeOK
  <2>4. ans'[worker].st = ans[worker].st
    BY <2>1, DifferentCallers DEF TypeOK
  <2>5. AnswersStay
    BY <2>3, DifferentCallers DEF AnswersStay
  <2>6. Shape'
    BY <1>1, <1>2, <2>2, <2>5, WorkerShape
  <2>7. ASSUME Fine PROVE Fine'
    <3>1. WorkerOK'
      BY <1>1, <2>1, <2>4, <2>7 DEF Fine, WorkerOK
    <3>2. SamePlace
      BY <2>1, <2>4 DEF SamePlace
    <3>3. Synced'
      BY <1>1, <2>2, <2>5, <2>7, <3>2, WorkerLessens, SyncedKept DEF Fine
    <3> QED BY <3>1, <3>3 DEF Fine
  <2> QED BY <2>6, <2>7
<1> QED BY <1>5, <1>6

\* The worker tries again, or ends when the run loop has.
LEMMA RetrySync == ASSUME TypeOK, Shape, Retry PROVE Shape' /\ (Fine => conn.st = "Stopped" \/ Fine')
<1>1. UNCHANGED <<vs, conn, cmds, ans, events, ad, table>>
  BY DEF Retry
<1>2. ConnOK' /\ AnswersStay
  BY <1>1 DEF Shape, ConnOK, AnswersStay
<1>3. Shape'
  BY <1>1, <1>2, WorkerShape
<1>4. ASSUME Fine, conn.st # "Stopped" PROVE Fine'
  <2>1. wk.pc = "Sleep" /\ wk' = [wk EXCEPT !.pc = "Select"]
    BY <1>4 DEF Retry
  <2>2. DOMAIN wk = {"pc", "flag", "sent", "todo", "deferred"}
    BY DEF TypeOK, WorkerTyped
  <2>3. wk'.pc = "Select" /\ wk'.flag = wk.flag /\ wk'.todo = wk.todo
    BY <2>1, <2>2
  <2>4. ans[worker].st = "none"
    BY <1>4, <2>1 DEF Fine, WorkerOK, Answered
  <2>5. Free(cmds)
    <3>1. \A op : ~Asks(wk, op)
      BY <2>1 DEF Asks
    <3> QED BY <1>4, <3>1, FreeIsSole DEF Fine, WorkerOK
  <2>6. Dialing("none", wk', events, conn) /\ SamePlace
    BY <1>1, <1>4, <2>1, <2>3, <2>4 DEF Fine, WorkerOK, Dialing, Retrying, SamePlace, Blank
  <2>7. WorkerOK'
    BY <1>1, <2>4, <2>5, <2>6, FreeIsSole DEF WorkerOK, Answered
  <2>8. Synced'
    BY <1>1, <1>2, <1>4, <2>6, WorkerLessens, SyncedKept DEF Fine
  <2> QED BY <2>7, <2>8 DEF Fine
<1> QED BY <1>3, <1>4

-----------------------------------------------------------------------------
(* Adapters.                                                               *)

\* One adapter changes: its link, its answers and a command at most.
LEMMA OneAdapter ==
    ASSUME TypeOK, AdaptersOK, NEW a \in Adapters,
           NEW d \in [st : {"down", "asking", "gone", "up"}, asks : {"none", "asked", "orphan"}],
           ad' = [ad EXCEPT ![a] = d],
           \A b \in Adapters \ {a} : ans'[actor(b)] = ans[actor(b)] /\ ans'[asker(b)] = ans[asker(b)],
           \/ cmds' = cmds
           \/ \E c \in Commands : /\ cmds' = Append(cmds, c) /\ c.arg = a
                                  /\ c.who \in {nobody, actor(a), asker(a)},
           AdapterOK(a, d, cmds', ans'[actor(a)], ans'[asker(a)])
    PROVE  AdaptersOK'
<1>1. ad' \in [Adapters -> [st : {"down", "asking", "gone", "up"},
                            asks : {"none", "asked", "orphan"}]]
  BY DEF AdaptersOK
<1>2. ad'[a] = d /\ \A b \in Adapters \ {a} : ad'[b] = ad[b]
  BY DEF AdaptersOK
<1>3. ASSUME NEW b \in Adapters \ {a}
      PROVE  AdapterOK(b, ad[b], cmds', ans[actor(b)], ans[asker(b)])
  <2>1. AdapterOK(b, ad[b], cmds, ans[actor(b)], ans[asker(b)]) /\ cmds \in Seq(Commands)
    BY DEF AdaptersOK, TypeOK
  <2>2. CASE cmds' = cmds
    BY <2>1, <2>2
  <2>3. ASSUME NEW c \in Commands, cmds' = Append(cmds, c), c.arg = a,
               c.who \in {nobody, actor(a), asker(a)}
        PROVE  AdapterOK(b, ad[b], cmds', ans[actor(b)], ans[asker(b)])
    <3>1. c.who # actor(b) /\ c.who # asker(b) /\ c.arg # b
      BY <2>3, DifferentCallers
    <3> QED BY <2>1, <2>3, <3>1, AdapterSend
  <2> QED BY <2>2, <2>3
<1>4. \A b \in Adapters : AdapterOK(b, ad'[b], cmds', ans'[actor(b)], ans'[asker(b)])
  BY <1>2, <1>3
<1> QED BY <1>1, <1>4 DEF AdaptersOK

\* The worker does nothing, and no command of its is sent.
LEMMA WorkerRests ==
    ASSUME TypeOK, WorkerOK, ans'[worker] = ans[worker], conn' = conn, events' = events,
           wk'.pc = wk.pc, wk'.flag = wk.flag, wk'.sent = wk.sent,
           \/ cmds' = cmds
           \/ \E c \in Commands : /\ cmds' = Append(cmds, c)
                                  /\ c.who # worker /\ c.op # "Connect"
    PROVE  /\ WorkerOK'
           /\ Blank(ans'[worker].st, wk') <=> Blank(ans[worker].st, wk)
<1>1. Sole(cmds', ans[worker].st, wk)
  <2>1. CASE cmds' = cmds
    BY <2>1 DEF WorkerOK
  <2>2. ASSUME NEW c \in Commands, cmds' = Append(cmds, c), c.who # worker, c.op # "Connect"
        PROVE  Sole(cmds', ans[worker].st, wk)
    BY <2>2, SoleSend DEF WorkerOK, TypeOK
  <2> QED BY <2>1, <2>2
<1>2. Sole(cmds', ans[worker].st, wk')
  BY <1>1 DEF Sole, Asks
<1>3. Dialing(ans[worker].st, wk', events, conn) /\ Answered(ans[worker].st, wk')
  BY DEF WorkerOK, Dialing, Retrying, Answered
<1>4. Blank(ans[worker].st, wk') <=> Blank(ans[worker].st, wk)
  BY DEF Blank, Retrying
<1> QED BY <1>2, <1>3, <1>4 DEF WorkerOK

\* A link is reset: its adapter is not up any more, and the notice of that comes
\* before the adapter can ask again.
LEMMA ResetPeer ==
    ASSUME TypeOK, Shape, NEW a \in Adapters, reset_peer(a), UNCHANGED <<vs, conn, ans, events>>
    PROVE  /\ Shape' /\ Lessens /\ ~Up(a)'
           /\ \A e \in table' : e \in table /\ (e.left \/ e.visa.for # a)
           /\ \/ cmds' = cmds
              \/ \E c \in Commands : /\ cmds' = Append(cmds, c)
                                     /\ c.who # worker /\ c.op # "Connect"
<1> DEFINE o == ad[a]
           d == [st |-> CASE o.st = "asking" -> "gone" [] o.st = "up" -> "down" [] OTHER -> o.st,
                 asks |-> IF o.asks = "asked" THEN "orphan" ELSE o.asks]
           c == command("NotifyDisconnect", nobody, a)
<1>1. /\ ad' = [ad EXCEPT ![a] = d] /\ cmds' = IF o.st = "up" THEN Append(cmds, c) ELSE cmds
      /\ table' = {v \in table : ~(v.bound /\ v.visa.for = a)}
  BY DEF reset_peer
<1>2. /\ ad \in [Adapters -> [st : {"down", "asking", "gone", "up"},
                              asks : {"none", "asked", "orphan"}]]
      /\ o.st \in {"down", "asking", "gone", "up"} /\ o.asks \in {"none", "asked", "orphan"}
      /\ AdapterOK(a, o, cmds, ans[actor(a)], ans[asker(a)]) /\ cmds \in Seq(Commands)
  BY DEF Shape, AdaptersOK, TypeOK
<1>3. /\ d \in [st : {"down", "asking", "gone", "up"}, asks : {"none", "asked", "orphan"}]
      /\ d.st = CASE o.st = "asking" -> "gone" [] o.st = "up" -> "down" [] OTHER -> o.st
      /\ d.asks = IF o.asks = "asked" THEN "orphan" ELSE o.asks
  BY <1>2
<1>4. c \in Commands /\ c.who = nobody /\ c.op = "NotifyDisconnect" /\ c.arg = a
  BY AdapterCommands DEF command
<1> HIDE DEF o, d, c
<1>5. /\ d.asks # "asked" /\ (o.asks # "none" <=> d.asks # "none")
      /\ o.st = "down" => d.st = "down"
      /\ o.st \in {"asking", "gone"} => d.st = "gone"
      /\ o.st = "up" => d.st = "down"
  BY <1>2, <1>3
<1>6. AdapterOK(a, d, cmds, ans[actor(a)], ans[asker(a)])
  <2> DEFINE q == cmds  n == ans[actor(a)]  p == ans[asker(a)]
  <2>1. /\ \A i \in DOMAIN q : q[i].who = actor(a) =>
             /\ d.st \in {"asking", "gone"} /\ n.st = "none"
             /\ \A j \in DOMAIN q : q[j].who = actor(a) => i = j
        /\ \A i \in DOMAIN q : q[i].who = asker(a) =>
             /\ d.asks # "none" /\ p.st = "none"
             /\ \A j \in DOMAIN q : q[j].who = asker(a) => i = j
    BY <1>2, <1>5 DEF AdapterOK
  <2>2. \A i \in DOMAIN q : q[i].op = "NotifyDisconnect" /\ q[i].arg = a =>
         \/ d.st = "down"
         \/ d.st \in {"asking", "gone"} /\ \E j \in DOMAIN q : j > i /\ q[j].who = actor(a)
    BY <1>2, <1>5 DEF AdapterOK
  <2>3. /\ n.st # "none" => d.st \in {"asking", "gone"}
        /\ p.st # "none" => d.asks # "none"
        /\ p.st = "none" => p.ops = {}
        /\ \A x \in p.ops : x.visa.for = a
    BY <1>2, <1>5 DEF AdapterOK
  <2> HIDE DEF q, n, p
  <2> QED BY <1>5, <2>1, <2>2, <2>3 DEF AdapterOK, q, n, p
<1>7. AdapterOK(a, d, cmds', ans[actor(a)], ans[asker(a)])
  <2>1. CASE o.st = "up"
    <3>1. d.st = "down" /\ cmds' = Append(cmds, c)
      BY <1>1, <1>5, <2>1
    <3>2. c.who # actor(a) /\ c.who # asker(a)
      BY <1>4, DifferentCallers
    <3> QED BY <1>2, <1>4, <1>6, <3>1, <3>2, AdapterSend
  <2>2. CASE o.st # "up"
    BY <1>1, <1>6, <2>2
  <2> QED BY <2>1, <2>2
<1>8. \/ cmds' = cmds
      \/ \E k \in Commands : /\ cmds' = Append(cmds, k) /\ k.arg = a /\ k.who = nobody
                             /\ k.op # "Connect"
  BY <1>1, <1>4
<1>9. AdaptersOK'
  BY <1>1, <1>3, <1>7, <1>8, OneAdapter DEF Shape
<1>10. \A e \in table' : e \in table /\ (e.left \/ e.visa.for # a)
  BY <1>1 DEF Shape, VisasOK
<1>11. VisasOK'
  BY <1>10 DEF Shape, VisasOK
<1>12. ConnOK'
  BY DEF Shape, ConnOK
<1>13. ad'[a] = d /\ \A b \in Adapters : b # a => ad'[b] = ad[b]
  BY <1>1, <1>2
<1>14. ~Up(a)'
  BY <1>2, <1>5, <1>13 DEF Up
<1>15. Lessens
  <2>1. \A b \in Adapters : Up(b)' => Up(b)
    BY <1>13, <1>14 DEF Up
  <2>2. \A b \in Adapters : Granted(b)' = Granted(b) /\ (ad'[b].asks = "asked" => ad[b].asks = "asked")
    BY <1>5, <1>13 DEF Granted
  <2> QED BY <1>10, <2>1, <2>2 DEF Lessens
<1>16. \/ cmds' = cmds
       \/ \E k \in Commands : cmds' = Append(cmds, k) /\ k.who # worker /\ k.op # "Connect"
  BY <1>8, DifferentCallers
<1> QED BY <1>9, <1>10, <1>11, <1>12, <1>14, <1>15, <1>16 DEF Shape

\* The worker resets the adapters, one by one; then there is nothing left that
\* the visa service does not know.
LEMMA DisconnectSync == ASSUME TypeOK, Shape, disconnect_adapters PROVE Shape' /\ (Fine => Fine')
<1>1. wk.pc = "Resetting" /\ UNCHANGED <<vs, conn, ans, events>>
  BY DEF disconnect_adapters
<1>2. DOMAIN wk = {"pc", "flag", "sent", "todo", "deferred"} /\ wk.todo \subseteq Adapters
  BY DEF TypeOK, WorkerTyped
<1>3. ASSUME NEW a \in wk.todo, reset_peer(a), wk' = [wk EXCEPT !.todo = @ \ {a}]
      PROVE  Shape' /\ (Fine => Fine')
  <2>1. a \in Adapters
    BY <1>2
  <2>2. /\ Shape' /\ Lessens /\ ~Up(a)'
        /\ \A e \in table' : e \in table /\ (e.left \/ e.visa.for # a)
        /\ \/ cmds' = cmds
           \/ \E c \in Commands : /\ cmds' = Append(cmds, c)
                                  /\ c.who # worker /\ c.op # "Connect"
    BY <1>1, <1>3, <2>1, ResetPeer
  <2>3. /\ wk'.pc = wk.pc /\ wk'.flag = wk.flag /\ wk'.sent = wk.sent
        /\ wk'.todo = wk.todo \ {a}
    BY <1>2, <1>3
  <2>4. ASSUME Fine PROVE Fine'
    <3>1. WorkerOK'
      BY <1>1, <2>2, <2>3, <2>4, WorkerRests DEF Fine
    <3>2. ResetOK
      BY <1>1, <2>4 DEF Fine, Synced
    <3>3. \A b \in Adapters : Up(b)' => b \in wk'.todo
      BY <2>2, <2>3, <3>2 DEF ResetOK, Lessens
    <3>4. \A e \in table' : e.left \/ e.visa.for \in wk'.todo
      BY <2>2, <2>3, <3>2 DEF ResetOK
    <3>5. ResetOK'
      BY <3>3, <3>4 DEF ResetOK
    <3>6. Synced'
      BY <1>1, <2>3, <3>5 DEF Synced, Blank
    <3> QED BY <3>1, <3>6 DEF Fine
  <2> QED BY <2>2, <2>4
<1>4. CASE /\ wk.todo = {} /\ wk' = [wk EXCEPT !.pc = "Sleep"]
           /\ table' = {[v EXCEPT !.left = TRUE] : v \in table} /\ UNCHANGED <<ad, cmds>>
  <2>1. wk'.pc = "Sleep" /\ wk'.flag = wk.flag
    BY <1>2, <1>4
  <2>2. \A e \in table' : e.left
    <3>1. \A v \in table : [v EXCEPT !.left = TRUE].left
      BY DEF TypeOK, Entries
    <3> QED BY <1>4, <3>1
  <2>3. Shape'
    <3>1. AdaptersOK'
      BY <1>1, <1>4 DEF Shape, AdaptersOK
    <3>2. VisasOK'
      BY <1>1, <2>2 DEF Shape, VisasOK
    <3>3. ConnOK'
      BY <1>1 DEF Shape, ConnOK
    <3> QED BY <3>1, <3>2, <3>3 DEF Shape
  <2>4. ASSUME Fine PROVE Fine'
    <3>1. ans[worker].st = "none" /\ Retrying(ans[worker].st, wk)
      BY <1>1, <2>4 DEF Fine, WorkerOK, Answered, Retrying
    <3>2. Free(cmds)
      <4>1. \A op : ~Asks(wk, op)
        BY <1>1 DEF Asks
      <4> QED BY <2>4, <4>1, FreeIsSole DEF Fine, WorkerOK
    <3>3. ~conn.handle /\ Dialing("none", wk', events, conn)
      BY <2>1, <2>4, <3>1 DEF Fine, WorkerOK, Dialing
    <3>4. WorkerOK'
      BY <1>1, <1>4, <3>1, <3>2, <3>3, FreeIsSole DEF WorkerOK, Answered
    <3>5. \A a \in Adapters : ~Up(a)'
      <4>1. \A a \in Adapters : ~Up(a)
        BY <1>1, <1>4, <2>4 DEF Fine, Synced, ResetOK
      <4> QED BY <1>1, <1>4, <4>1 DEF Up
    <3>6. \A a \in Adapters : ad'[a].asks # "asked"
      BY <3>5, <2>3 DEF Shape, AdaptersOK, AdapterOK, Up
    <3>7. BlankOK' /\ KnownOK'
      BY <1>1, <2>2, <3>3, <3>5, <3>6 DEF BlankOK, KnownOK
    <3>8. Synced'
      BY <2>1, <3>7 DEF Synced
    <3> QED BY <3>4, <3>8 DEF Fine
  <2> QED BY <2>3, <2>4
<1> QED BY <1>3, <1>4 DEF disconnect_adapters

\* A step of the adapters that brings nothing up keeps all that is known.
LEMMA AdapterQuiet ==
    ASSUME TypeOK, Fine, UNCHANGED <<vs, conn, events, wk>>, ans'[worker] = ans[worker], Lessens,
           \/ cmds' = cmds
           \/ \E c \in Commands : /\ cmds' = Append(cmds, c)
                                  /\ c.who # worker /\ c.op # "Connect"
    PROVE  Fine'
<1>1. WorkerOK' /\ (Blank(ans'[worker].st, wk') <=> Blank(ans[worker].st, wk))
  BY WorkerRests DEF Fine
<1>2. Remembers
  BY DEF Remembers
<1>3. Synced'
  BY <1>1, <1>2, SyncedKept DEF Fine, SamePlace
<1> QED BY <1>1, <1>3 DEF Fine

\* An adapter asks to be authorized, after any notice that it had gone; or goes.
LEMMA ChangeSync ==
    ASSUME TypeOK, Shape, NEW a \in Adapters, AdapterChanges(a)
    PROVE  Shape' /\ (Fine => Fine')
<1>1. UNCHANGED <<vs, conn, ans, events, wk>>
  BY DEF AdapterChanges
<1> DEFINE o == ad[a]  d == [o EXCEPT !.st = "asking"]
           c == command("AuthorizeConnect", actor(a), a)
<1>2. /\ ad \in [Adapters -> [st : {"down", "asking", "gone", "up"},
                              asks : {"none", "asked", "orphan"}]]
      /\ o \in [st : {"down", "asking", "gone", "up"}, asks : {"none", "asked", "orphan"}]
      /\ AdapterOK(a, o, cmds, ans[actor(a)], ans[asker(a)]) /\ cmds \in Seq(Commands)
  BY DEF Shape, AdaptersOK, TypeOK
<1>3. CASE /\ o.st = "down" /\ ad' = [ad EXCEPT ![a].st = "asking"]
           /\ cmds' = Append(cmds, c) /\ UNCHANGED table
  <2>1. c \in Commands /\ c.who = actor(a) /\ c.op = "AuthorizeConnect" /\ c.arg = a
    BY AdapterCommands DEF command, actor
  <2>2. ad' = [ad EXCEPT ![a] = d]
    BY <1>2, <1>3
  <2>3. /\ d \in [st : {"down", "asking", "gone", "up"}, asks : {"none", "asked", "orphan"}]
        /\ d.st = "asking" /\ d.asks = o.asks
    BY <1>2
  <2> HIDE DEF o, d, c
  <2>4. AdapterOK(a, d, cmds', ans[actor(a)], ans[asker(a)])
    <3> DEFINE q == cmds  n == ans[actor(a)]  p == ans[asker(a)]  k == cmds'  l == Len(cmds) + 1
    <3>1. /\ n.st = "none" /\ o.asks # "asked"
          /\ \A i \in DOMAIN q : q[i].who # actor(a)
      BY <1>2, <1>3 DEF AdapterOK
    <3>2. /\ \A i \in DOMAIN q : i \in DOMAIN k /\ k[i] = q[i] /\ i < l
          /\ l \in DOMAIN k /\ k[l] = c
          /\ \A i \in DOMAIN k : i \in DOMAIN q \/ i = l
      BY <1>2, <1>3, <2>1, Places
    <3>3. AdapterOK(a, o, q, n, p) /\ actor(a) # asker(a)
      BY <1>2, DifferentCallers
    <3> HIDE DEF q, n, p, k, l
    <3>4. \A i \in DOMAIN k : k[i].who = actor(a) =>
             /\ d.st \in {"asking", "gone"} /\ n.st = "none"
             /\ \A j \in DOMAIN k : k[j].who = actor(a) => i = j
      BY <2>3, <3>1, <3>2
    <3>5. \A i \in DOMAIN k : k[i].who = asker(a) =>
             /\ d.asks # "none" /\ p.st = "none"
             /\ \A j \in DOMAIN k : k[j].who = asker(a) => i = j
      <4>1. \A i \in DOMAIN k : k[i].who = asker(a) => i \in DOMAIN q /\ k[i] = q[i]
        BY <2>1, <3>2, <3>3
      <4> QED BY <2>3, <3>3, <4>1 DEF AdapterOK
    <3>6. ASSUME NEW i \in DOMAIN k, k[i].op = "NotifyDisconnect", k[i].arg = a
          PROVE  \E j \in DOMAIN k : j > i /\ k[j].who = actor(a)
      <4>1. i \in DOMAIN q /\ i < l /\ l \in DOMAIN k /\ k[l] = c
        BY <2>1, <3>2, <3>6
      <4>2. l > i
        BY <1>2, <4>1 DEF l, q
      <4> QED BY <2>1, <4>1, <4>2
    <3>7. /\ n.st # "none" => d.st \in {"asking", "gone"}
          /\ p.st # "none" => d.asks # "none"
          /\ p.st = "none" => p.ops = {}
          /\ \A x \in p.ops : x.visa.for = a
          /\ d.asks = "asked" => d.st = "up"
      BY <2>3, <3>1, <3>3 DEF AdapterOK
    <3>8. AdapterOK(a, d, k, n, p)
      BY <2>3, <3>4, <3>5, <3>6, <3>7 DEF AdapterOK
    <3> QED BY <3>8 DEF k, n, p
  <2>5. AdaptersOK'
    <3>1. \E k \in Commands : /\ cmds' = Append(cmds, k) /\ k.arg = a
                              /\ k.who \in {nobody, actor(a), asker(a)}
      BY <1>3, <2>1
    <3> QED BY <1>1, <2>2, <2>3, <2>4, <3>1, OneAdapter DEF Shape
  <2>6. VisasOK' /\ ConnOK'
    BY <1>1, <1>3 DEF Shape, VisasOK, ConnOK
  <2>7. Lessens
    <3>1. ad'[a] = d /\ \A b \in Adapters : b # a => ad'[b] = ad[b]
      BY <1>2, <2>2
    <3>2. ans[actor(a)].st = "none"
      BY <1>2, <1>3 DEF AdapterOK
    <3>3. \A b \in Adapters : Up(b)' => Up(b)
      BY <1>1, <2>3, <3>1, <3>2 DEF Up
    <3>4. \A b \in Adapters : ad'[b].asks = ad[b].asks /\ Granted(b)' = Granted(b)
      BY <1>1, <2>3, <3>1 DEF Granted, o
    <3> QED BY <1>3, <3>3, <3>4 DEF Lessens
  <2>8. Fine => Fine'
    <3>1. c.who # worker /\ c.op # "Connect"
      BY <2>1, DifferentCallers
    <3> QED BY <1>1, <1>3, <2>1, <2>7, <3>1, AdapterQuiet
  <2> QED BY <2>5, <2>6, <2>8 DEF Shape
<1>4. CASE reset_peer(a)
  BY <1>1, <1>4, ResetPeer, AdapterQuiet
<1> QED BY <1>3, <1>4 DEF AdapterChanges, actor

\* The answer to an authorization is taken.
LEMMA ResultSync ==
    ASSUME TypeOK, Shape, NEW a \in Adapters, authorization_result(a)
    PROVE  Shape' /\ (Fine => Fine')
<1> DEFINE r == ans[actor(a)].st  o == ad[a]  c == command("NotifyDisconnect", nobody, a)
           d == [o EXCEPT !.st = IF r = "ok" /\ o.st = "asking" THEN "up" ELSE "down"]
<1>1. /\ r # "none" /\ ans' = [ans EXCEPT ![actor(a)] = answer("none")]
      /\ cmds' = IF r = "ok" /\ o.st = "gone" THEN Append(cmds, c) ELSE cmds
      /\ UNCHANGED <<vs, conn, events, wk, table>>
      /\ ad' = [ad EXCEPT ![a].st = IF r = "ok" /\ @ = "asking" THEN "up" ELSE "down"]
  BY DEF authorization_result, actor
<1>2. /\ ad \in [Adapters -> [st : {"down", "asking", "gone", "up"},
                              asks : {"none", "asked", "orphan"}]]
      /\ o \in [st : {"down", "asking", "gone", "up"}, asks : {"none", "asked", "orphan"}]
      /\ AdapterOK(a, o, cmds, ans[actor(a)], ans[asker(a)]) /\ cmds \in Seq(Commands)
  BY DEF Shape, AdaptersOK, TypeOK
<1>3. ad' = [ad EXCEPT ![a] = d]
  BY <1>1, <1>2
<1>4. /\ d \in [st : {"down", "asking", "gone", "up"}, asks : {"none", "asked", "orphan"}]
      /\ d.st = (IF r = "ok" /\ o.st = "asking" THEN "up" ELSE "down") /\ d.asks = o.asks
  BY <1>2
<1>5. c \in Commands /\ c.who = nobody /\ c.op = "NotifyDisconnect" /\ c.arg = a
  BY AdapterCommands DEF command
<1>6. \A w \in Callers : ans'[w] = IF w = actor(a) THEN answer("none") ELSE ans[w]
  <2>1. ans' = [ans EXCEPT ![actor(a)] = answer("none")] /\ actor(a) \in Callers
    BY <1>1, DifferentCallers
  <2> QED BY <2>1, AnswerTakenAt
<1>7. /\ ans'[actor(a)] = answer("none") /\ ans'[asker(a)] = ans[asker(a)]
      /\ ans'[worker] = ans[worker]
      /\ \A b \in Adapters : b # a => ans'[actor(b)] = ans[actor(b)]
      /\ \A b \in Adapters : ans'[asker(b)] = ans[asker(b)]
  BY <1>6, DifferentCallers
<1>8. answer("none").st = "none"
  BY DEF answer
<1> HIDE DEF r, o, c, d
<1>9. /\ o.st \in {"asking", "gone"} /\ o.asks # "asked"
      /\ \A i \in DOMAIN cmds : cmds[i].who # actor(a)
      /\ \A i \in DOMAIN cmds : ~(cmds[i].op = "NotifyDisconnect" /\ cmds[i].arg = a)
  <2>1. o.st \in {"asking", "gone"} /\ \A i \in DOMAIN cmds : cmds[i].who # actor(a)
    BY <1>1, <1>2 DEF AdapterOK, r
  <2> QED BY <1>2, <2>1 DEF AdapterOK
<1>10. AdapterOK(a, d, cmds, ans'[actor(a)], ans'[asker(a)])
  <2>1. \A i \in DOMAIN cmds : cmds[i].who = asker(a) =>
             /\ d.asks # "none" /\ ans[asker(a)].st = "none"
             /\ \A j \in DOMAIN cmds : cmds[j].who = asker(a) => i = j
    BY <1>2, <1>4 DEF AdapterOK
  <2>2. /\ ans[asker(a)].st # "none" => d.asks # "none"
        /\ ans[asker(a)].st = "none" => ans[asker(a)].ops = {}
        /\ \A x \in ans[asker(a)].ops : x.visa.for = a
    BY <1>2, <1>4 DEF AdapterOK
  <2> QED BY <1>4, <1>7, <1>8, <1>9, <2>1, <2>2 DEF AdapterOK
<1>11. AdapterOK(a, d, cmds', ans'[actor(a)], ans'[asker(a)])
  <2>1. CASE r = "ok" /\ o.st = "gone"
    <3>1. d.st = "down" /\ cmds' = Append(cmds, c)
      BY <1>1, <1>4, <2>1
    <3>2. c.who # actor(a) /\ c.who # asker(a)
      BY <1>5, DifferentCallers
    <3> QED BY <1>2, <1>5, <1>10, <3>1, <3>2, AdapterSend
  <2>2. CASE ~(r = "ok" /\ o.st = "gone")
    BY <1>1, <1>10, <2>2
  <2> QED BY <2>1, <2>2
<1>12. AdaptersOK'
  <2>1. \/ cmds' = cmds
        \/ \E k \in Commands : /\ cmds' = Append(cmds, k) /\ k.arg = a
                               /\ k.who \in {nobody, actor(a), asker(a)}
    BY <1>1, <1>5
  <2>2. \A b \in Adapters \ {a} :
          ans'[actor(b)] = ans[actor(b)] /\ ans'[asker(b)] = ans[asker(b)]
    BY <1>7
  <2> QED BY <1>3, <1>4, <1>11, <2>1, <2>2, OneAdapter DEF Shape
<1>13. VisasOK' /\ ConnOK'
  BY <1>1 DEF Shape, VisasOK, ConnOK
<1>14. Lessens
  <2>1. ad'[a] = d /\ \A b \in Adapters : b # a => ad'[b] = ad[b]
    BY <1>2, <1>3
  <2>2. \A b \in Adapters : Up(b)' => Up(b)
    BY <1>4, <1>7, <1>8, <2>1 DEF Up, r, o
  <2>3. \A b \in Adapters : ad'[b].asks = ad[b].asks /\ Granted(b)' = Granted(b)
    BY <1>4, <1>7, <2>1 DEF Granted, o, asker
  <2> QED BY <1>1, <2>2, <2>3 DEF Lessens
<1>15. Fine => Fine'
  <2>1. c.who # worker /\ c.op # "Connect"
    BY <1>5, DifferentCallers
  <2> QED BY <1>1, <1>5, <1>7, <1>14, <2>1, AdapterQuiet
<1> QED BY <1>12, <1>13, <1>15 DEF Shape

\* An adapter asks for a visa,
LEMMA AskSync ==
    ASSUME TypeOK, Shape, NEW a \in Adapters,
           ad[a] = [st |-> "up", asks |-> "none"], ad' = [ad EXCEPT ![a].asks = "asked"],
           cmds' = Append(cmds, command("VisaRequest", asker(a), a)),
           UNCHANGED <<vs, conn, events, wk, ans, table>>
    PROVE  Shape' /\ (Fine => Fine')
<1> DEFINE c == command("VisaRequest", asker(a), a)  d == [st |-> "up", asks |-> "asked"]
<1>1. /\ ad \in [Adapters -> [st : {"down", "asking", "gone", "up"},
                              asks : {"none", "asked", "orphan"}]]
      /\ AdapterOK(a, ad[a], cmds, ans[actor(a)], ans[asker(a)]) /\ cmds \in Seq(Commands)
  BY DEF Shape, AdaptersOK, TypeOK
<1>2. c \in Commands /\ c.who = asker(a) /\ c.op = "VisaRequest" /\ c.arg = a
  BY AdapterCommands DEF command, asker
<1>3. ad' = [ad EXCEPT ![a] = d]
  <2>1. [ad[a] EXCEPT !.asks = "asked"] = d
    OBVIOUS
  <2>2. ad' = [ad EXCEPT ![a] = [ad[a] EXCEPT !.asks = "asked"]]
    OBVIOUS
  <2> QED BY <2>1, <2>2
<1>4. ad[a].st = "up" /\ ad[a].asks = "none"
  OBVIOUS
<1>5. /\ d \in [st : {"down", "asking", "gone", "up"}, asks : {"none", "asked", "orphan"}]
      /\ d.st = "up" /\ d.asks = "asked"
  OBVIOUS
<1> HIDE DEF c, d
<1>6. AdapterOK(a, d, cmds', ans[actor(a)], ans[asker(a)])
  <2> DEFINE q == cmds  n == ans[actor(a)]  p == ans[asker(a)]  k == cmds'  l == Len(cmds) + 1
  <2>1. /\ n.st = "none" /\ p.st = "none" /\ p.ops = {}
        /\ \A i \in DOMAIN q : q[i].who # actor(a) /\ q[i].who # asker(a)
        /\ \A i \in DOMAIN q : ~(q[i].op = "NotifyDisconnect" /\ q[i].arg = a)
    BY <1>1, <1>4 DEF AdapterOK
  <2>2. /\ \A i \in DOMAIN q : k[i] = q[i]
        /\ k[l] = c /\ \A i \in DOMAIN k : i \in DOMAIN q \/ i = l
    BY <1>1, <1>2, Places DEF c
  <2>3. actor(a) # asker(a)
    BY DifferentCallers
  <2> HIDE DEF q, n, p, k, l
  <2>4. /\ \A i \in DOMAIN k : k[i].who # actor(a)
        /\ \A i \in DOMAIN k : k[i].who = asker(a) => i = l
        /\ \A i \in DOMAIN k : ~(k[i].op = "NotifyDisconnect" /\ k[i].arg = a)
    BY <1>2, <2>1, <2>2, <2>3
  <2>5. AdapterOK(a, d, k, n, p)
    BY <1>5, <2>1, <2>4 DEF AdapterOK
  <2> QED BY <2>5 DEF k, n, p
<1>7. AdaptersOK'
  <2>1. \E k \in Commands : /\ cmds' = Append(cmds, k) /\ k.arg = a
                            /\ k.who \in {nobody, actor(a), asker(a)}
    BY <1>2 DEF c
  <2> QED BY <1>3, <1>5, <1>6, <2>1, OneAdapter DEF Shape
<1>8. VisasOK' /\ ConnOK'
  BY DEF Shape, VisasOK, ConnOK
<1>9. Lessens
  <2>1. ad'[a] = d /\ \A b \in Adapters : b # a => ad'[b] = ad[b]
    BY <1>1, <1>3
  <2>2. \A b \in Adapters : Up(b)' => Up(b)
    BY <1>4, <2>1 DEF Up
  <2>3. Granted(a)' = {} /\ \A b \in Adapters : Granted(b)' = Granted(b)
    <3>1. ans[asker(a)].ops = {}
      BY <1>1, <1>4 DEF AdapterOK
    <3> QED BY <3>1 DEF Granted, asker
  <2>4. \A b \in Adapters : ad'[b].asks = "asked" =>
          \A v \in Granted(b)' : ad[b].asks = "asked" /\ v \in Granted(b)
    BY <2>1, <2>3
  <2> QED BY <2>2, <2>4 DEF Lessens
<1>10. Fine => Fine'
  <2>1. cmds' = Append(cmds, c) /\ c.who # worker /\ c.op # "Connect"
    BY <1>2, DifferentCallers DEF c
  <2> QED BY <1>2, <1>9, <2>1, AdapterQuiet
<1> QED BY <1>7, <1>8, <1>10 DEF Shape

\* takes the answer, when the visa service knows what it has granted, or it does
\* not matter,
LEMMA GrantSync ==
    ASSUME TypeOK, Shape, NEW a \in Adapters, ans[asker(a)].st # "none",
           ans' = [ans EXCEPT ![asker(a)] = answer("none")],
           \A e \in table' : \/ e \in table
                            \/ \E o \in ans[asker(a)].ops : e = entry(o.visa, ad[a].asks = "asked"),
           ad' = [ad EXCEPT ![a].asks = "none"],
           UNCHANGED <<vs, conn, events, wk, cmds>>
    PROVE  Shape' /\ (Fine => Fine')
<1> DEFINE o == ad[a]  d == [o EXCEPT !.asks = "none"]  p == ans[asker(a)]
           bound == (o.asks = "asked")  new == {entry(x.visa, bound) : x \in p.ops}
<1>1. /\ ad \in [Adapters -> [st : {"down", "asking", "gone", "up"},
                              asks : {"none", "asked", "orphan"}]]
      /\ o \in [st : {"down", "asking", "gone", "up"}, asks : {"none", "asked", "orphan"}]
      /\ AdapterOK(a, o, cmds, ans[actor(a)], p) /\ cmds \in Seq(Commands)
  BY DEF Shape, AdaptersOK, TypeOK
<1>2. ad' = [ad EXCEPT ![a] = d]
  BY <1>1
<1>3. /\ d \in [st : {"down", "asking", "gone", "up"}, asks : {"none", "asked", "orphan"}]
      /\ d.st = o.st /\ d.asks = "none"
  BY <1>1
<1>4. \A w \in Callers : ans'[w] = IF w = asker(a) THEN answer("none") ELSE ans[w]
  <2>1. asker(a) \in Callers
    BY DifferentCallers
  <2>2. ans' = [ans EXCEPT ![asker(a)] = answer("none")]
    OBVIOUS
  <2> QED BY <2>1, <2>2, AnswerTakenAt
<1>5. /\ ans'[asker(a)] = answer("none") /\ ans'[worker] = ans[worker]
      /\ \A b \in Adapters : ans'[actor(b)] = ans[actor(b)]
      /\ \A b \in Adapters : b # a => ans'[asker(b)] = ans[asker(b)]
  BY <1>4, DifferentCallers
<1>6. answer("none").st = "none" /\ answer("none").ops = {}
  BY DEF answer
<1>7. \A e \in new : (\E x \in p.ops : e.visa = x.visa) /\ e.bound = bound /\ e.left = ~bound
  BY DEF entry
<1>8. table' \subseteq table \cup new
  OBVIOUS
<1> HIDE DEF o, d, bound, new
<1>9. AdapterOK(a, d, cmds, ans'[actor(a)], ans'[asker(a)])
  <2>1. \A i \in DOMAIN cmds : cmds[i].who # asker(a)
    BY <1>1 DEF AdapterOK
  <2>2. \A i \in DOMAIN cmds : cmds[i].who = actor(a) =>
         /\ d.st \in {"asking", "gone"} /\ ans[actor(a)].st = "none"
         /\ \A j \in DOMAIN cmds : cmds[j].who = actor(a) => i = j
    BY <1>1, <1>3 DEF AdapterOK
  <2>3. \A i \in DOMAIN cmds : cmds[i].op = "NotifyDisconnect" /\ cmds[i].arg = a =>
         \/ d.st = "down"
         \/ /\ d.st \in {"asking", "gone"}
            /\ \E j \in DOMAIN cmds : j > i /\ cmds[j].who = actor(a)
    BY <1>1, <1>3 DEF AdapterOK
  <2>4. ans[actor(a)].st # "none" => d.st \in {"asking", "gone"}
    BY <1>1, <1>3 DEF AdapterOK
  <2> QED BY <1>3, <1>5, <1>6, <2>1, <2>2, <2>3, <2>4 DEF AdapterOK
<1>10. AdaptersOK'
  <2>1. \A b \in Adapters \ {a} :
          ans'[actor(b)] = ans[actor(b)] /\ ans'[asker(b)] = ans[asker(b)]
    BY <1>5
  <2> QED BY <1>2, <1>3, <1>9, <2>1, OneAdapter DEF Shape
<1>11. bound \in BOOLEAN
  BY DEF bound
<1>12. VisasOK' /\ ConnOK'
  <2>1. \A e \in new : e.bound \/ e.left
    BY <1>7, <1>11
  <2> QED BY <1>8, <2>1 DEF Shape, VisasOK, ConnOK
<1>13. ad'[a] = d /\ \A b \in Adapters : b # a => ad'[b] = ad[b]
  BY <1>1, <1>2
<1>14. \A b \in Adapters : Up(b)' <=> Up(b)
  BY <1>3, <1>5, <1>13 DEF Up, o
<1>15. \A b \in Adapters : ad'[b].asks = "asked" => ad[b].asks = "asked" /\ Granted(b)' = Granted(b)
  BY <1>3, <1>5, <1>13 DEF Granted, asker
<1>16. bound => Up(a)
  BY <1>1 DEF AdapterOK, bound, Up, o
<1>17. ASSUME Fine PROVE Fine'
  <2>1. WorkerOK' /\ (Blank(ans'[worker].st, wk') <=> Blank(ans[worker].st, wk))
    BY <1>5, <1>17, WorkerRests DEF Fine
  <2>2. ASSUME BlankOK PROVE BlankOK'
    <3>1. \A e \in new : e.left
      BY <1>7, <1>11, <1>16, <2>2 DEF BlankOK
    <3> QED BY <1>8, <1>14, <2>2, <3>1 DEF BlankOK
  <2>3. ASSUME ResetOK PROVE ResetOK'
    <3>1. \A e \in new : e.left \/ e.visa.for \in wk.todo
      <4>1. \A x \in p.ops : x.visa.for = a
        BY <1>1 DEF AdapterOK
      <4> QED BY <1>7, <1>11, <1>16, <2>3, <4>1 DEF ResetOK
    <3> QED BY <1>8, <1>14, <2>3, <3>1 DEF ResetOK
  <2>4. ASSUME KnownOK PROVE KnownOK'
    <3>1. ASSUME vs.node PROVE \A e \in new : e.left \/ e.visa.gen = vs.gen
      <4>1. bound => \A x \in p.ops : x.visa.gen = vs.gen
        BY <2>4, <3>1 DEF KnownOK, bound, o, Granted, asker, p
      <4> QED BY <1>7, <1>11, <4>1
    <3>2. vs.node => \A b \in Adapters : Up(b)' => b \in vs.known
      BY <1>14, <2>4 DEF KnownOK
    <3>3. vs.node => \A b \in Adapters : ad'[b].asks = "asked" => \A v \in Granted(b)' : v.gen = vs.gen
      BY <1>15, <2>4 DEF KnownOK
    <3>4. vs.node => \A e \in table' : e.left \/ e.visa.gen = vs.gen
      BY <1>8, <2>4, <3>1 DEF KnownOK
    <3> QED BY <3>2, <3>3, <3>4 DEF KnownOK
  <2>5. Synced'
    BY <1>17, <2>1, <2>2, <2>3, <2>4 DEF Fine, Synced
  <2> QED BY <2>1, <2>5 DEF Fine
<1> QED BY <1>10, <1>12, <1>17 DEF Shape

\* or uses a visa that is there.
LEMMA VisaSync ==
    ASSUME TypeOK, Shape, NEW a \in Adapters, visa_request_task(a)
    PROVE  Shape' /\ (Fine => Fine')
<1>1. UNCHANGED <<vs, conn, events, wk>>
  BY DEF visa_request_task
<1>2. CASE /\ ad[a] = [st |-> "up", asks |-> "none"] /\ ad' = [ad EXCEPT ![a].asks = "asked"]
           /\ cmds' = Append(cmds, command("VisaRequest", asker(a), a)) /\ UNCHANGED <<ans, table>>
  BY <1>1, <1>2, AskSync
<1>3. CASE /\ ans[asker(a)].st # "none" /\ ans' = [ans EXCEPT ![asker(a)] = answer("none")]
           /\ \/ table' = table
              \/ table' = table \cup {entry(v, ad[a].asks = "asked") : v \in visas("Grant", ans[asker(a)].ops)}
           /\ ad' = [ad EXCEPT ![a].asks = "none"] /\ UNCHANGED cmds
  <2>1. \A e \in table' : \/ e \in table
                         \/ \E o \in ans[asker(a)].ops : e = entry(o.visa, ad[a].asks = "asked")
    BY <1>3, GrantEntries
  <2> QED BY <1>1, <1>3, <2>1, GrantSync
<1>4. ASSUME NEW e \in table, table' = (table \ {e}) \cup {[e EXCEPT !.bound = TRUE]},
             UNCHANGED <<ad, cmds, ans>>
      PROVE  Shape' /\ (Fine => Fine')
  <2> DEFINE f == [e EXCEPT !.bound = TRUE]
  <2>1. f.visa = e.visa /\ f.left = e.left /\ f.bound
    BY DEF TypeOK, Entries
  <2> HIDE DEF f
  <2>2. table' = (table \ {e}) \cup {f}
    BY <1>4 DEF f
  <2>3. Shape'
    <3>1. \A x \in table' : x.bound \/ x.left
      BY <2>1, <2>2 DEF Shape, VisasOK
    <3>2. VisasOK' /\ ConnOK'
      BY <1>1, <3>1 DEF Shape, VisasOK, ConnOK
    <3>3. AdaptersOK'
      BY <1>4 DEF Shape, AdaptersOK
    <3> QED BY <3>2, <3>3 DEF Shape
  <2>4. Lessens
    <3>1. \A x \in table' : x.left \/ \E y \in table : y.visa = x.visa /\ ~y.left
      BY <2>1, <2>2
    <3> QED BY <1>4, <3>1 DEF Lessens, Up, Granted
  <2>5. Fine => Fine'
    BY <1>1, <1>4, <2>4, AdapterQuiet
  <2> QED BY <2>3, <2>5
<1> QED BY <1>2, <1>3, <1>4 DEF visa_request_task, asker

-----------------------------------------------------------------------------
(* The VSS, and what goes wrong.                                           *)

\* The visa service changes without any effect on what the node has.
LEMMA ServiceSync ==
    ASSUME TypeOK, Shape, UNCHANGED <<cmds, ans, events, wk, ad>>, Sane(vs'), Remembers,
           conn' = conn \/ conn' = [conn EXCEPT !.live = FALSE],
           \A e \in table' : e \in table \/ e.left
    PROVE  Shape' /\ (Fine => Fine')
<1>1. conn'.st = conn.st /\ conn'.handle = conn.handle /\ DOMAIN conn' = DOMAIN conn
  BY DEF Shape, ConnOK
<1>2. AdaptersOK' /\ ConnOK' /\ VisasOK'
  BY <1>1 DEF Shape, AdaptersOK, ConnOK, VisasOK, Sane
<1>3. Lessens
  BY DEF Lessens, Up, Granted
<1>4. ASSUME Fine PROVE Fine'
  <2>1. WorkerOK'
    BY <1>1, <1>4 DEF Fine, WorkerOK, Dialing
  <2>2. Synced'
    BY <1>1, <1>3, <1>4, SyncedKept DEF Fine, SamePlace
  <2> QED BY <2>1, <2>2 DEF Fine
<1> QED BY <1>2, <1>4 DEF Shape

\* Operations are pushed or done, and the visa service comes and goes.
LEMMA OutsideSync ==
    ASSUME TypeOK, Shape, vss_worker \/ (\E new \in Decisions : push_visa_op(new)) \/ Crash \/ Restart
    PROVE  Shape' /\ (Fine => Fine')
<1>1. DOMAIN vs = {"up", "gen", "node", "handle", "known", "vss", "issued", "revoked",
                    "pending"}
  BY DEF TypeOK
<1>2. Sane(vs)
  BY DEF Shape, VisasOK, Sane
<1>3. CASE vss_worker
  <2>1. UNCHANGED <<conn, cmds, ans, events, wk, ad>> /\ vssq # <<>>
    BY <1>3 DEF vss_worker
  <2>2. PICK done \in BOOLEAN : process_visaop(Head(vssq).do, done)
    BY <1>3 DEF vss_worker
  <2>3. \A e \in table' : e \in table \/ e.left
    <3>1. Head(vssq).do \in VisaOps
      BY <2>1, QueueParts DEF Items
    <3> QED BY <2>2, <3>1, VisaOpTable
  <2>4. vs' = vs \/ \E x : vs' = [vs EXCEPT !.pending = x]
    BY <1>3 DEF vss_worker
  <2>5. Sane(vs') /\ Remembers
    BY <1>1, <1>2, <2>4 DEF Sane, Remembers
  <2> QED BY <2>1, <2>3, <2>5, ServiceSync
<1>4. ASSUME NEW new \in Decisions, push_visa_op(new) PROVE Shape' /\ (Fine => Fine')
  <2>1. UNCHANGED <<conn, cmds, ans, events, wk, ad, table>>
    BY <1>4 DEF push_visa_op
  <2>2. \A a : NewVisa(a).for = a
    BY DEF NewVisa
  <2>3. /\ vs'.issued = vs.issued \/ \E a \in Adapters : vs'.issued = vs.issued \cup {NewVisa(a)}
        /\ vs'.node = vs.node /\ vs'.handle = vs.handle /\ vs'.gen = vs.gen /\ vs'.known = vs.known
    BY <1>4, PushParts
  <2>4. Sane(vs') /\ Remembers
    BY <1>2, <2>2, <2>3 DEF Sane, Remembers
  <2> QED BY <2>1, <2>4, ServiceSync
<1>5. CASE Crash
  <2>1. /\ UNCHANGED <<cmds, ans, events, wk, ad, table>> /\ conn' = [conn EXCEPT !.live = FALSE]
        /\ vs' = [vs EXCEPT !.up = FALSE, !.node = FALSE, !.handle = FALSE, !.known = {},
                            !.vss = FALSE, !.gen = NextGen, !.revoked = {}, !.pending = {}]
    BY <1>5 DEF Crash
  <2>2. Sane(vs') /\ Remembers
    BY <1>1, <1>2, <2>1 DEF Sane, Remembers
  <2> QED BY <2>1, <2>2, ServiceSync
<1>6. CASE Restart
  <2>1. UNCHANGED <<conn, cmds, ans, events, wk, ad, table>> /\ vs' = [vs EXCEPT !.up = TRUE]
    BY <1>6 DEF Restart
  <2>2. Sane(vs') /\ Remembers
    BY <1>1, <1>2, <2>1 DEF Sane, Remembers
  <2> QED BY <2>1, <2>2, ServiceSync
<1> QED BY <1>3, <1>4, <1>5, <1>6

\* A stop is sent.
LEMMA StopSends == ASSUME TypeOK, Shape, stop PROVE Shape' /\ (Fine => Fine')
<1>1. PICK how \in {"deregister", "leave"} : cmds' = Append(cmds, command("Stop", nobody, how))
  BY DEF stop
<1>2. UNCHANGED <<vs, conn, ans, events, wk, ad, table>>
  BY DEF stop
<1> DEFINE c == command("Stop", nobody, how)
<1>3. c \in Commands /\ c.who = nobody /\ c.op = "Stop"
  BY WorkerCommands DEF command
<1>4. cmds' = Append(cmds, c)
  BY <1>1
<1> HIDE DEF c
<1>5. AnswersStay /\ ConnOK'
  BY <1>2 DEF AnswersStay, Shape, ConnOK
<1>6. Shape'
  BY <1>2, <1>3, <1>4, <1>5, WorkerShape
<1>7. c.who # worker /\ c.op # "Connect"
  BY <1>3, DifferentCallers
<1>8. Lessens
  BY <1>2 DEF Lessens, Up, Granted
<1>9. Fine => Fine'
  BY <1>2, <1>3, <1>4, <1>7, <1>8, AdapterQuiet
<1> QED BY <1>6, <1>9

\* What has escaped stays so.
LEMMA EscapedStays == ASSUME TypeOK, Shape, Escaped, Next PROVE Escaped'
<1>1. /\ DOMAIN wk = {"pc", "flag", "sent", "todo", "deferred"}
      /\ DOMAIN conn = {"st", "live", "handle", "ping_failures"}
  BY DEF TypeOK, WorkerTyped, Shape, ConnOK
<1>2. ASSUME UNCHANGED <<wk, refused>>, conn.st = "Stopped" => conn'.st = "Stopped"
      PROVE  Escaped'
  BY <1>2 DEF Escaped
<1>3. CASE Loop \/ Ping
  <2>1. UNCHANGED <<wk, refused>>
    BY <1>3 DEF Loop, Ping, handle_command, drop_command, run_with_reconnect, run, ping
  <2>2. conn.st = "Stopped" => conn' = conn
    <3>1. conn.st = "Stopped" => drop_command
      BY <1>3 DEF Loop, Ping, handle_command, run_with_reconnect, run, ping
    <3> QED BY <3>1 DEF drop_command
  <2> QED BY <1>2, <2>1, <2>2
<1>4. CASE Worker
  <2>1. UNCHANGED conn
    BY <1>4 DEF Worker, wait_for_runloop_start, connect, ConnectAnswered, ConnectRaced,
                register_vss, registered, Retry, disconnect_adapters
  <2>2. refused => refused'
    BY <1>4 DEF Worker, wait_for_runloop_start, connect, ConnectAnswered, ConnectRaced,
                register_vss, registered, Retry, disconnect_adapters
  <2>3. ASSUME wk.pc \in {"Disconnect", "Panicked"} PROVE Escaped'
    <3>1. register_vss /\ wk.pc = "Disconnect"
      BY <1>4, <2>3 DEF Worker, Alive, wait_for_runloop_start, connect, ConnectAnswered,
                        ConnectRaced, registered, Retry, disconnect_adapters
    <3>2. \/ refused' = TRUE
          \/ WorkerDoes("Panicked", <<>>)
      BY <3>1 DEF register_vss
    <3> QED BY <3>2, Does DEF Escaped
  <2> QED BY <2>1, <2>2, <2>3 DEF Escaped
<1>5. CASE Tasks \/ Requests
  <2>1. UNCHANGED <<wk, refused, conn>>
    BY <1>5 DEF Tasks, Requests, authorization_result, visa_request_task, vss_worker,
                AdapterChanges, stop
  <2> QED BY <1>2, <2>1
<1>6. CASE (\E new \in Decisions : push_visa_op(new)) \/ Crash \/ Restart
  <2>1. UNCHANGED <<wk, refused>>
    BY <1>6 DEF push_visa_op, Crash, Restart
  <2>2. conn' = conn \/ conn' = [conn EXCEPT !.live = FALSE]
    BY <1>6 DEF push_visa_op, Crash, Restart
  <2>3. conn'.st = conn.st
    BY <1>1, <2>2
  <2> QED BY <1>2, <2>1, <2>3
<1> QED BY <1>3, <1>4, <1>5, <1>6 DEF Next

\* Every step keeps the invariant.
LEMMA StepSync == TypeOK /\ SyncInv /\ [Next]_vars => SyncInv'
<1> SUFFICES ASSUME TypeOK, SyncInv, [Next]_vars PROVE SyncInv'
  OBVIOUS
<1>1. Shape /\ (Escaped \/ Fine)
  BY DEF SyncInv, Fine
<1>2. ASSUME Shape' /\ (Fine => Escaped \/ Escaped' \/ Fine'), Next PROVE SyncInv'
  BY <1>1, <1>2, EscapedStays DEF SyncInv, Fine
<1>3. conn.st = "Stopped" => Escaped
  BY DEF Escaped
<1>4. CASE Loop \/ Ping
  BY <1>1, <1>2, <1>3, <1>4, HandleShape, HandleSync, DropSync, RunSync, PingSync
     DEF Next, Loop, Ping
<1>5. CASE Worker
  BY <1>1, <1>2, <1>3, <1>5, StartSync, ConnectSends, AnsweredSync, RacedSync, RegisterSync,
     RegisteredSync, RetrySync, DisconnectSync
     DEF Next, Worker
<1>6. CASE Tasks \/ Requests
  <2>1. CASE vss_worker
    BY <1>1, <1>2, <1>6, <2>1, OutsideSync DEF Next
  <2>2. CASE stop
    BY <1>1, <1>2, <1>6, <2>2, StopSends DEF Next
  <2>3. ASSUME NEW a \in Adapters,
               authorization_result(a) \/ visa_request_task(a) \/ AdapterChanges(a)
        PROVE  SyncInv'
    BY <1>1, <1>2, <1>6, <2>3, ResultSync, VisaSync, ChangeSync DEF Next
  <2> QED BY <1>6, <2>1, <2>2, <2>3 DEF Tasks, Requests
<1>7. CASE (\E new \in Decisions : push_visa_op(new)) \/ Crash \/ Restart
  BY <1>1, <1>2, <1>7, OutsideSync DEF Next
<1>8. CASE UNCHANGED vars
  <2>1. UNCHANGED <<vs, cmds, ans, events, wk, ad, conn, table, refused>>
    BY <1>8 DEF vars
  <2>2. Sane(vs') /\ Remembers
    BY <1>1, <2>1 DEF Shape, VisasOK, Sane, Remembers
  <2>3. Shape' /\ (Fine => Fine')
    BY <1>1, <2>1, <2>2, ServiceSync
  <2>4. Escaped => Escaped'
    BY <2>1 DEF Escaped
  <2> QED BY <1>1, <2>3, <2>4 DEF SyncInv, Fine
<1> QED BY <1>4, <1>5, <1>6, <1>7, <1>8 DEF Next

\* Every state of the node has its shape, and unless the worker has escaped it
\* is in step with the run loop, and the visa service with both.
THEOREM SyncInvariance == Spec => []SyncInv
<1>1. Init => SyncInv
  BY InitSync
<1>2. TypeOK /\ SyncInv /\ [Next]_vars => SyncInv'
  BY StepSync
<1> QED BY <1>1, <1>2, VsConnTypes, PTL DEF Spec

\* Whenever the node has registered, and no registration of the VSS was refused
\* before, the visa service knows the adapters that are up, and has issued the
\* visas that are in use since it lost its state, but for those that had no
\* forwarding entry when the adapters were reset: whatever the run loop,
\* vs_worker, the adapters' tasks and the visa service did in between.
THEOREM ServesWhatIsKnown == Spec => []SyncedWhenServing
<1>1. SyncInv => SyncedWhenServing
  <2> SUFFICES ASSUME SyncInv, serving, ~refused
               PROVE  /\ \A a \in Adapters : ad[a].st = "up" => a \in vs.known
                      /\ \A e \in table : e.bound => e.visa.gen = vs.gen \/ e.left
    BY DEF SyncedWhenServing
  <2>1. wk.pc = "Gate" /\ wk.flag = "HasState" /\ conn.handle /\ vs.handle
    BY DEF serving, connected
  <2>2. Shape /\ vs.node /\ conn.st = "Running"
    BY <2>1 DEF SyncInv, Shape, VisasOK, ConnOK
  <2>3. ~Escaped
    BY <2>1, <2>2 DEF Escaped
  <2>4. ~Blank(ans[worker].st, wk)
    BY <2>1 DEF Blank
  <2>5. KnownOK
    BY <2>1, <2>3, <2>4 DEF SyncInv, Synced
  <2> QED BY <2>2, <2>5 DEF KnownOK, Up
<1> QED BY <1>1, SyncInvariance, PTL

-----------------------------------------------------------------------------
(* No revocation is lost.                                                  *)

\* What the worker waits for, whether or not its session is being ended.
Awaits(w, op) == Asks(w, op) \/ (w.pc = "Disconnect" /\ op = "NotifyDisconnect")

\* There is one command of the worker, w, at most, with r for the status of its
\* answer, and no one else registers the VSS.
OneCall(q, r, w) ==
    /\ \A i \in DOMAIN q : q[i].who = worker =>
         /\ r = "none" /\ Awaits(w, q[i].op)
         /\ \A j \in DOMAIN q : q[j].who = worker => i = j
    /\ \A i \in DOMAIN q : q[i].op = "RegisterVss" => q[i].who = worker

\* Its answer, n, is to what it waits for, and has operations only if it is that
\* to a registration.
OwnAnswer(n, w) ==
    /\ n.st # "none" => \E op : Awaits(w, op)
    /\ n.ops # {} => w.pc = "Register" /\ n.st = "ok"

CallsOK == OneCall(cmds, ans[worker].st, wk) /\ OwnAnswer(ans[worker], wk)

\* A visa whose revocation the node has been told of is not granted after that:
\* the visa service revokes none that it has yet to grant, and a grant which is
\* ahead of it in an answer is what overtaken records.
NotGranted == \A v \in vs.revoked : grant(v) \notin vs.pending

GrantsFirst ==
    \A v \in vs.revoked \ overtaken : revoke(v) \notin vs.pending =>
        /\ ~InAnswer(v)
        /\ \A i \in DOMAIN vssq : vssq[i].do = grant(v) =>
             \E j \in DOMAIN vssq : j > i /\ vssq[j].do = revoke(v)

\* The inductive invariant, on top of the types.
RevocationInv == NotGranted /\ GrantsFirst /\ NoRevocationLost

\* No command of the worker is under way.
NoCall(q) == \A i \in DOMAIN q : q[i].who # worker /\ q[i].op # "RegisterVss"

\* That is so when it has its answer, and where it waits for none.
LEMMA NoCallParts ==
    ASSUME NEW q, NEW r, NEW w
    PROVE  /\ NoCall(q) => OneCall(q, r, w)
           /\ OneCall(q, r, w) /\ r # "none" => NoCall(q)
           /\ OneCall(q, r, w) /\ (\A op : ~Awaits(w, op)) => NoCall(q)
  BY DEF NoCall, OneCall

\* The run loop takes a command,
LEMMA CallTaken ==
    ASSUME NEW q \in Seq(Commands), q # <<>>, NEW r, NEW w, OneCall(q, r, w),
           NEW s, s = r \/ Head(q).who = worker
    PROVE  /\ OneCall(Tail(q), s, w)
           /\ Head(q).who = worker => r = "none" /\ Awaits(w, Head(q).op)
           /\ Head(q).op = "RegisterVss" => Head(q).who = worker
<1>1. /\ Head(q) = q[1] /\ 1 \in DOMAIN q /\ DOMAIN q \subseteq Nat
      /\ \A i \in DOMAIN Tail(q) : i + 1 \in DOMAIN q /\ Tail(q)[i] = q[i + 1]
  BY Places
<1>2. DOMAIN Tail(q) \subseteq Nat \ {0}
  OBVIOUS
<1>3. \A i \in DOMAIN Tail(q) : Tail(q)[i].op = "RegisterVss" => Tail(q)[i].who = worker
  BY <1>1 DEF OneCall
<1>4. ASSUME NEW i \in DOMAIN Tail(q), Tail(q)[i].who = worker
      PROVE  /\ s = "none" /\ Awaits(w, Tail(q)[i].op)
             /\ \A j \in DOMAIN Tail(q) : Tail(q)[j].who = worker => i = j
  <2>1. i \in Nat \ {0} /\ i + 1 \in DOMAIN q /\ q[i + 1].who = worker /\ Tail(q)[i] = q[i + 1]
    BY <1>1, <1>2, <1>4
  <2>2. /\ r = "none" /\ Awaits(w, q[i + 1].op)
        /\ \A j \in DOMAIN q : q[j].who = worker => i + 1 = j
    BY <2>1 DEF OneCall
  <2>3. q[1].who # worker
    BY <1>1, <2>1, <2>2
  <2>4. \A j \in DOMAIN Tail(q) : Tail(q)[j].who = worker => i = j
    BY <1>1, <1>2, <2>1, <2>2
  <2> QED BY <1>1, <2>1, <2>2, <2>3, <2>4
<1> QED BY <1>1, <1>3, <1>4 DEF OneCall

\* another one sends a command,
LEMMA CallSent ==
    ASSUME NEW q \in Seq(Commands), NEW c \in Commands, c.who # worker, c.op # "RegisterVss"
    PROVE  /\ \A r, w : OneCall(q, r, w) => OneCall(Append(q, c), r, w)
           /\ NoCall(q) => NoCall(Append(q, c))
<1> DEFINE k == Append(q, c)
<1>1. /\ \A i \in DOMAIN q : k[i] = q[i]
      /\ \A i \in DOMAIN k : i \in DOMAIN q \/ (i = Len(q) + 1 /\ k[i] = c)
  BY Places
<1> HIDE DEF k
<1>2. \A i \in DOMAIN k : k[i].who = worker \/ k[i].op = "RegisterVss" => i \in DOMAIN q /\ k[i] = q[i]
  BY <1>1
<1>3. NoCall(q) => NoCall(k)
  BY <1>2 DEF NoCall
<1>4. ASSUME NEW r, NEW w, OneCall(q, r, w) PROVE OneCall(k, r, w)
  BY <1>2, <1>4 DEF OneCall
<1> QED BY <1>3, <1>4 DEF k

\* the worker sends its own,
LEMMA CallMade ==
    ASSUME NEW q \in Seq(Commands), NoCall(q), NEW c \in Commands, NEW w,
           c.who = worker, Awaits(w, c.op)
    PROVE  OneCall(Append(q, c), "none", w)
<1> DEFINE k == Append(q, c)
<1>1. /\ \A i \in DOMAIN q : k[i] = q[i]
      /\ \A i \in DOMAIN k : i \in DOMAIN q \/ (i = Len(q) + 1 /\ k[i] = c)
  BY Places
<1> HIDE DEF k
<1>2. \A i \in DOMAIN k : k[i].who = worker \/ k[i].op = "RegisterVss" => i = Len(q) + 1 /\ k[i] = c
  BY <1>1 DEF NoCall
<1>3. OneCall(k, "none", w)
  BY <1>2 DEF OneCall
<1> QED BY <1>3 DEF k

\* or drops it.
LEMMA CallDropped ==
    ASSUME TypeOK, NEW r, OneCall(cmds, r, wk), wk.pc = "Select"
    PROVE  NoCall(abandoned)
<1>1. DOMAIN abandoned = DOMAIN cmds
  BY DEF abandoned
<1>2. ASSUME NEW i \in DOMAIN cmds
      PROVE  /\ abandoned[i].op = cmds[i].op
             /\ abandoned[i].who = IF cmds[i].who = worker THEN nobody ELSE cmds[i].who
  <2>1. cmds[i] \in Commands
    BY DEF TypeOK
  <2>2. DOMAIN cmds[i] = {"op", "who", "arg"}
    BY <2>1 DEF Commands
  <2> QED BY <2>2 DEF abandoned
<1>3. \A i \in DOMAIN cmds : cmds[i].op # "RegisterVss"
  BY DEF OneCall, Awaits, Asks
<1> QED BY <1>1, <1>2, <1>3, DifferentCallers DEF NoCall

\* Where the worker waits for nothing there is nothing.
LEMMA WorkerIdle ==
    ASSUME CallsOK, \A op : ~Awaits(wk, op)
    PROVE  NoCall(cmds) /\ ans[worker].st = "none" /\ ans[worker].ops = {}
  BY NoCallParts DEF CallsOK, OwnAnswer

\* An empty answer and no command are fine wherever the worker is.
LEMMA NothingUnderway ==
    ASSUME NoCall(cmds'), ans'[worker].st = "none", ans'[worker].ops = {}
    PROVE  CallsOK'
  BY NoCallParts DEF CallsOK, OwnAnswer

\* A command is taken, and answered perhaps.
LEMMA CallAnswered ==
    ASSUME TypeOK, CallsOK, cmds # <<>>, cmds' = Tail(cmds), wk' = wk,
           NEW r, ans' = reply(ans, Head(cmds).who, r) \/ ans' = ans,
           r.ops # {} => Head(cmds).who # worker \/ (Head(cmds).op = "RegisterVss" /\ r.st = "ok")
    PROVE  CallsOK'
<1> DEFINE c == Head(cmds)
<1>1. cmds \in Seq(Commands) /\ worker \in Callers
  BY DifferentCallers DEF TypeOK
<1>2. /\ c.who = worker => ans[worker].st = "none" /\ Awaits(wk, c.op)
      /\ OneCall(Tail(cmds), ans[worker].st, wk)
      /\ c.who = worker => \A s : OneCall(Tail(cmds), s, wk)
  BY <1>1, CallTaken DEF CallsOK
<1>3. ans'[worker] = ans[worker] \/ (c.who = worker /\ ans'[worker] = r)
  BY <1>1, AnswerAt
<1> HIDE DEF c
<1>4. CASE ans'[worker] = ans[worker]
  BY <1>2, <1>4 DEF CallsOK
<1>5. CASE c.who = worker /\ ans'[worker] = r
  <2>1. r.ops # {} => wk.pc = "Register" /\ r.st = "ok"
    BY <1>2, <1>5 DEF c, Awaits, Asks
  <2>2. OwnAnswer(r, wk)
    BY <1>2, <1>5, <2>1 DEF OwnAnswer
  <2> QED BY <1>2, <1>5, <2>2 DEF CallsOK
<1> QED BY <1>3, <1>4, <1>5

\* The worker stays where it is, and others send commands.
LEMMA OthersCall ==
    ASSUME TypeOK, CallsOK, wk' = wk, ans'[worker] = ans[worker],
           \/ cmds' = cmds
           \/ \E c \in Commands : cmds' = Append(cmds, c) /\ c.who # worker /\ c.op # "RegisterVss"
    PROVE  CallsOK'
<1>1. cmds \in Seq(Commands)
  BY DEF TypeOK
<1> QED BY <1>1, CallSent DEF CallsOK

\* The worker goes on, and sends a command perhaps.
LEMMA WorkerCalls ==
    ASSUME TypeOK, NoCall(cmds), NEW pc, NEW sends, WorkerDoes(pc, sends),
           \/ sends = <<>>
           \/ \E c \in Commands : sends = <<c>> /\ c.who = worker /\ (wk'.pc = pc => Awaits(wk', c.op))
    PROVE  CallsOK'
<1>0. ans' = [ans EXCEPT ![worker] = answer("none")]
  BY DEF WorkerDoes
<1>1. wk'.pc = pc /\ ans'[worker] = answer("none")
  BY <1>0, Does, WorkerTakes
<1>2. answer("none").st = "none" /\ answer("none").ops = {}
  BY DEF answer
<1>3. CASE sends = <<>>
  <2>1. cmds' = cmds
    BY <1>3, Does
  <2> QED BY <1>1, <1>2, <2>1, NothingUnderway
<1>4. ASSUME NEW c \in Commands, sends = <<c>>, c.who = worker, Awaits(wk', c.op)
      PROVE  CallsOK'
  <2>1. cmds' = Append(cmds, c) /\ cmds \in Seq(Commands)
    BY <1>4, Does DEF TypeOK
  <2>2. OneCall(cmds', "none", wk')
    BY <1>4, <2>1, CallMade
  <2> QED BY <1>1, <1>2, <2>2 DEF CallsOK, OwnAnswer
<1> QED BY <1>1, <1>3, <1>4

\* The run loop serves a command.
LEMMA HandleCalls == ASSUME TypeOK, CallsOK, handle_command PROVE CallsOK'
<1> DEFINE c == Head(cmds)
<1>1. /\ cmds # <<>> /\ cmds' = Tail(cmds) /\ c \in Commands /\ wk' = wk
      /\ \/ c.op = "Stop" /\ handle_stop(c) /\ UNCHANGED ans
         \/ c.op = "Connect" /\ handle_connect(c)
         \/ \E served, a, r : Effects(c, served, a) /\ Performs(c, served, a, r)
  BY Handles
<1>2. \A r \in {ok, answer("OutOfSync"), Failed} : r.ops = {}
  BY DEF ok, Failed, answer
<1>3. c.op = "VisaRequest" => c.who # worker
  BY <1>1, DifferentCallers DEF Commands, asker
<1>4. CASE c.op = "Stop" /\ UNCHANGED ans
  BY <1>1, <1>2, <1>4, CallAnswered
<1>5. CASE c.op = "Connect" /\ handle_connect(c)
  <2>1. PICK r \in {ok, answer("OutOfSync"), Failed} : ans' = reply(ans, c.who, r)
    BY <1>5 DEF handle_connect
  <2> QED BY <1>1, <1>2, <2>1, CallAnswered
<1>6. ASSUME NEW served, NEW a, NEW r, Effects(c, served, a), Performs(c, served, a, r)
      PROVE  CallsOK'
  <2>1. ans' = reply(ans, c.who, r) /\ r \in {a, Failed}
    BY <1>6 DEF Performs
  <2>2. a.ops # {} => c.who # worker \/ (c.op = "RegisterVss" /\ a.st = "ok")
    BY <1>2, <1>3, <1>6 DEF Effects
  <2>3. r.ops # {} => c.who # worker \/ (c.op = "RegisterVss" /\ r.st = "ok")
    BY <1>2, <2>1, <2>2
  <2> QED BY <1>1, <2>1, <2>3, CallAnswered
<1> QED BY <1>1, <1>4, <1>5, <1>6

\* The worker's steps.
LEMMA WorkerCallsOK == ASSUME TypeOK, CallsOK, Worker PROVE CallsOK'
<1>1. DOMAIN wk = {"pc", "flag", "sent", "todo", "deferred"} /\ wk.flag \in Flags
  BY DEF TypeOK, WorkerTyped
<1>2. cmds \in Seq(Commands) /\ worker \in Callers
  BY DifferentCallers DEF TypeOK
<1>3. answer("none").st = "none" /\ answer("none").ops = {}
  BY DEF answer
<1>4. ASSUME wk.pc \notin {"Select", "Deferred", "Register", "Disconnect"}
             \/ (wk.pc = "Select" /\ ~wk.sent)
      PROVE  NoCall(cmds) /\ ans[worker].st = "none" /\ ans[worker].ops = {}
  <2>1. \A op : ~Awaits(wk, op)
    BY <1>4 DEF Awaits, Asks
  <2> QED BY <2>1, WorkerIdle
<1>5. ans[worker].st # "none" => NoCall(cmds)
  BY NoCallParts DEF CallsOK
<1>6. ASSUME wait_for_runloop_start \/ Retry PROVE CallsOK'
  <2>1. UNCHANGED <<cmds, ans>>
    BY <1>6 DEF wait_for_runloop_start, Retry
  <2>2. wk.pc \notin {"Select", "Deferred", "Register", "Disconnect"} \/ (wk.pc = "Select" /\ ~wk.sent)
    BY <1>6 DEF wait_for_runloop_start, Retry
  <2> QED BY <1>4, <2>1, <2>2, NothingUnderway
<1>7. ASSUME connect PROVE CallsOK'
  <2>1. /\ wk.pc = "Select" /\ ~wk.sent /\ wk' = [wk EXCEPT !.sent = TRUE] /\ UNCHANGED ans
        /\ cmds' = Append(cmds, command("Connect", worker, wk.flag))
    BY <1>7 DEF connect
  <2>2. command("Connect", worker, wk.flag) \in Commands
    BY <1>1, WorkerCommands
  <2>3. /\ command("Connect", worker, wk.flag).who = worker
        /\ command("Connect", worker, wk.flag).op = "Connect"
    BY DEF command
  <2>4. Awaits(wk', "Connect")
    BY <1>1, <2>1 DEF Awaits, Asks
  <2>5. OneCall(cmds', "none", wk')
    BY <1>2, <1>4, <2>1, <2>2, <2>3, <2>4, CallMade
  <2> QED BY <1>4, <2>1, <2>5 DEF CallsOK, OwnAnswer
<1>8. ASSUME ConnectAnswered PROVE CallsOK'
  <2>1. ans[worker].st # "none"
    BY <1>8 DEF ConnectAnswered
  <2>2. CASE \E pc : WorkerDoes(pc, <<>>)
    BY <1>5, <2>1, <2>2, WorkerCalls
  <2>3. CASE out_of_sync
    <3>1. cmds' = cmds /\ ans'[worker] = answer("none")
      BY <2>3, WorkerTakes DEF out_of_sync
    <3> QED BY <1>3, <1>5, <2>1, <3>1, NothingUnderway
  <2> QED BY <1>8, <2>2, <2>3 DEF ConnectAnswered
<1>9. ASSUME ConnectRaced PROVE CallsOK'
  <2>1. wk.pc = "Select" /\ ans' = [ans EXCEPT ![worker] = answer("none")]
    BY <1>9 DEF ConnectRaced
  <2>2. ans'[worker] = answer("none")
    BY <2>1, WorkerTakes
  <2>3. NoCall(cmds')
    <3>1. CASE cmds' = abandoned
      BY <2>1, <3>1, CallDropped DEF CallsOK
    <3>2. CASE ~wk.sent /\ cmds' = Append(cmds, command("Connect", nobody, wk.flag))
      <4>1. command("Connect", nobody, wk.flag) \in Commands
        BY <1>1, WorkerCommands
      <4>2. /\ command("Connect", nobody, wk.flag).who # worker
            /\ command("Connect", nobody, wk.flag).op # "RegisterVss"
        BY DifferentCallers DEF command
      <4> QED BY <1>2, <1>4, <2>1, <3>2, <4>1, <4>2, CallSent
    <3> QED BY <1>9, <3>1, <3>2 DEF ConnectRaced
  <2> QED BY <1>3, <2>2, <2>3, NothingUnderway
<1>10. ASSUME register_vss PROVE CallsOK'
  <2> DEFINE A == command("AuthorizeConnect", worker, "nobody")
             R == command("RegisterVss", worker, "nobody")
             D == command("NotifyDisconnect", worker, "nobody")
  <2>1. {A, R, D} \subseteq Commands
    BY WorkerCommands
  <2>2. /\ A.who = worker /\ R.who = worker /\ D.who = worker
        /\ A.op = "AuthorizeConnect" /\ R.op = "RegisterVss" /\ D.op = "NotifyDisconnect"
    BY DEF command
  <2> HIDE DEF A, R, D
  <2>3. ASSUME wk.pc = "Connected", wk' = [wk EXCEPT !.pc = "Deferred", !.deferred = FALSE],
               cmds' = Append(cmds, A), UNCHANGED ans
        PROVE  CallsOK'
    <3>1. Awaits(wk', "AuthorizeConnect")
      BY <1>1, <2>3 DEF Awaits, Asks
    <3>2. OneCall(cmds', "none", wk')
      BY <1>2, <1>4, <2>1, <2>2, <2>3, <3>1, CallMade
    <3> QED BY <1>4, <2>3, <3>2 DEF CallsOK, OwnAnswer
  <2>4. ASSUME wk.pc = "Connected" \/ ans[worker].st # "none", WorkerDoes("Register", <<R>>)
        PROVE  CallsOK'
    <3>1. wk'.pc = "Register" => Awaits(wk', R.op)
      BY <2>2 DEF Awaits, Asks
    <3>2. NoCall(cmds)
      BY <1>4, <1>5, <2>4
    <3> QED BY <2>1, <2>2, <2>4, <3>1, <3>2, WorkerCalls
  <2>5. ASSUME ans[worker].st # "none", WorkerDoes("Disconnect", <<D>>) PROVE CallsOK'
    <3>1. wk'.pc = "Disconnect" => Awaits(wk', D.op)
      BY <2>2 DEF Awaits
    <3> QED BY <1>5, <2>1, <2>2, <2>5, <3>1, WorkerCalls
  <2>6. ASSUME ans[worker].st # "none", NEW pc, WorkerDoes(pc, <<>>) PROVE CallsOK'
    BY <1>5, <2>6, WorkerCalls
  <2>7. \/ /\ wk.pc = "Connected" /\ wk' = [wk EXCEPT !.pc = "Deferred", !.deferred = FALSE]
           /\ cmds' = Append(cmds, A) /\ UNCHANGED ans
        \/ (wk.pc = "Connected" \/ ans[worker].st # "none") /\ WorkerDoes("Register", <<R>>)
        \/ ans[worker].st # "none" /\ WorkerDoes("Disconnect", <<D>>)
        \/ ans[worker].st # "none" /\ \E pc : WorkerDoes(pc, <<>>)
    BY <1>10 DEF register_vss, A, R, D
  <2> QED BY <2>3, <2>4, <2>5, <2>6, <2>7
<1>11. ASSUME registered PROVE CallsOK'
  <2>1. wk.pc = "Register" /\ ans[worker].st = "ok" /\ UNCHANGED cmds
    BY <1>11 DEF registered
  <2>2. CASE ans' = [ans EXCEPT ![worker] = answer("none")]
    <3>1. ans'[worker] = answer("none")
      BY <2>2, WorkerTakes
    <3> QED BY <1>3, <1>5, <2>1, <3>1, NothingUnderway
  <2>3. ASSUME NEW o, ans' = [ans EXCEPT ![worker].ops = @ \ {o}], UNCHANGED wk PROVE CallsOK'
    <3>1. ans'[worker].st = "ok"
      BY <1>2, <2>1, <2>3 DEF TypeOK, Answers
    <3>2. OwnAnswer(ans'[worker], wk')
      BY <2>1, <2>3, <3>1 DEF OwnAnswer, Awaits, Asks
    <3> QED BY <1>5, <2>1, <3>2, NoCallParts DEF CallsOK
  <2> QED BY <1>11, <2>2, <2>3 DEF registered
<1>12. ASSUME disconnect_adapters PROVE CallsOK'
  <2>1. wk.pc = "Resetting" /\ UNCHANGED ans
    BY <1>12 DEF disconnect_adapters
  <2>2. \/ cmds' = cmds
        \/ \E a \in Adapters : cmds' = Append(cmds, command("NotifyDisconnect", nobody, a))
    BY <1>12 DEF disconnect_adapters, reset_peer, TypeOK, WorkerTyped
  <2>3. ASSUME NEW a \in Adapters
        PROVE  /\ command("NotifyDisconnect", nobody, a) \in Commands
               /\ command("NotifyDisconnect", nobody, a).who # worker
               /\ command("NotifyDisconnect", nobody, a).op # "RegisterVss"
    BY AdapterCommands, DifferentCallers DEF command
  <2>4. NoCall(cmds')
    BY <1>2, <1>4, <2>1, <2>2, <2>3, CallSent
  <2> QED BY <1>4, <2>1, <2>4, NothingUnderway
<1> QED BY <1>6, <1>7, <1>8, <1>9, <1>10, <1>11, <1>12 DEF Worker

\* The adapters' tasks, the VSS and what comes from outside.
LEMMA OtherCallsOK ==
    ASSUME TypeOK, CallsOK,
           Tasks \/ Requests \/ (\E new \in Decisions : push_visa_op(new)) \/ Crash \/ Restart
    PROVE  CallsOK'
<1>1. \A op, who, arg : command(op, who, arg).op = op /\ command(op, who, arg).who = who
  BY DEF command
<1>2. ASSUME NEW a \in Adapters
      PROVE  /\ actor(a) # worker /\ asker(a) # worker /\ nobody # worker
             /\ actor(a) \in Callers /\ asker(a) \in Callers
             /\ command("NotifyDisconnect", nobody, a) \in Commands
             /\ command("AuthorizeConnect", actor(a), a) \in Commands
             /\ command("VisaRequest", asker(a), a) \in Commands
  BY AdapterCommands, DifferentCallers DEF actor, asker
<1>3. ASSUME NEW a \in Adapters, reset_peer(a), wk' = wk, ans' = ans PROVE CallsOK'
  <2>1. cmds' = cmds \/ cmds' = Append(cmds, command("NotifyDisconnect", nobody, a))
    BY <1>3 DEF reset_peer
  <2> QED BY <1>1, <1>2, <1>3, <2>1, OthersCall
<1>4. ASSUME NEW a \in Adapters, AdapterChanges(a) PROVE CallsOK'
  <2>1. wk' = wk /\ ans' = ans
    BY <1>4 DEF AdapterChanges
  <2>2. reset_peer(a) \/ cmds' = Append(cmds, command("AuthorizeConnect", actor(a), a))
    BY <1>4 DEF AdapterChanges, actor
  <2> QED BY <1>1, <1>2, <1>3, <2>1, <2>2, OthersCall
<1>5. ASSUME NEW w \in Callers, w # worker, ans' = [ans EXCEPT ![w] = answer("none")]
      PROVE  ans'[worker] = ans[worker]
  BY <1>5, AnswerTakenAt, DifferentCallers
<1>6. ASSUME NEW a \in Adapters, authorization_result(a) PROVE CallsOK'
  <2>1. wk' = wk /\ ans' = [ans EXCEPT ![actor(a)] = answer("none")]
    BY <1>6 DEF authorization_result, actor
  <2>2. cmds' = cmds \/ cmds' = Append(cmds, command("NotifyDisconnect", nobody, a))
    BY <1>6 DEF authorization_result
  <2>3. ans'[worker] = ans[worker]
    BY <1>2, <1>5, <2>1
  <2> QED BY <1>1, <1>2, <2>1, <2>2, <2>3, OthersCall
<1>7. ASSUME NEW a \in Adapters, visa_request_task(a) PROVE CallsOK'
  <2>1. wk' = wk /\ (ans' = ans \/ ans' = [ans EXCEPT ![asker(a)] = answer("none")])
    BY <1>7 DEF visa_request_task, asker
  <2>2. cmds' = cmds \/ cmds' = Append(cmds, command("VisaRequest", asker(a), a))
    BY <1>7 DEF visa_request_task, asker
  <2>3. ans'[worker] = ans[worker]
    BY <1>2, <1>5, <2>1
  <2> QED BY <1>1, <1>2, <2>1, <2>2, <2>3, OthersCall
<1>8. ASSUME stop PROVE CallsOK'
  <2>1. wk' = wk /\ ans' = ans
    BY <1>8 DEF stop
  <2>2. PICK how \in {"deregister", "leave"} : cmds' = Append(cmds, command("Stop", nobody, how))
    BY <1>8 DEF stop
  <2>3. command("Stop", nobody, how) \in Commands /\ nobody # worker
    BY WorkerCommands, DifferentCallers
  <2> QED BY <1>1, <2>1, <2>2, <2>3, OthersCall
<1>9. ASSUME UNCHANGED <<wk, ans, cmds>> PROVE CallsOK'
  BY <1>9 DEF CallsOK
<1>10. ASSUME vss_worker \/ Crash \/ Restart PROVE UNCHANGED <<wk, ans, cmds>>
  <2>1. CASE vss_worker
    BY <2>1 DEF vss_worker
  <2>2. CASE Crash \/ Restart
    BY <2>2 DEF Crash, Restart
  <2> QED BY <1>10, <2>1, <2>2
<1>11. ASSUME NEW new \in Decisions, push_visa_op(new) PROVE UNCHANGED <<wk, ans, cmds>>
  BY <1>11 DEF push_visa_op
<1> QED BY <1>4, <1>6, <1>7, <1>8, <1>9, <1>10, <1>11 DEF Tasks, Requests

\* Every step keeps the worker's one call.
LEMMA StepCalls == TypeOK /\ CallsOK /\ [Next]_vars => CallsOK'
<1> SUFFICES ASSUME TypeOK, CallsOK, [Next]_vars PROVE CallsOK'
  OBVIOUS
<1>1. CASE UNCHANGED vars
  BY <1>1 DEF vars, CallsOK
<1>2. CASE Loop \/ Ping
  <2>1. CASE handle_command
    BY <2>1, HandleCalls
  <2>2. CASE drop_command
    <3>1. /\ cmds # <<>> /\ cmds' = Tail(cmds) /\ wk' = wk
          /\ ans' = reply(ans, Head(cmds).who, Failed) \/ ans' = ans
      BY <2>2 DEF drop_command
    <3>2. Failed.ops = {}
      BY DEF Failed, answer
    <3> QED BY <3>1, <3>2, CallAnswered
  <2>3. CASE run_with_reconnect \/ run \/ ping
    <3>1. UNCHANGED <<cmds, ans, wk>>
      BY <2>3 DEF run_with_reconnect, run, ping
    <3> QED BY <3>1 DEF CallsOK
  <2> QED BY <1>2, <2>1, <2>2, <2>3 DEF Loop, Ping
<1> QED BY <1>1, <1>2, WorkerCallsOK, OtherCallsOK DEF Next

-----------------------------------------------------------------------------
(* What the node is told, and when.                                        *)

\* The lists and the history stay; no visa is revoked, no revocation handed out,
\* and no revoked visa granted; the table has no visa but those it had and those
\* in an answer; and the worker loses no revocation.
Calm ==
    /\ vssq' = vssq /\ overtaken \subseteq overtaken'
    /\ \A v \in vs'.revoked : /\ v \in vs.revoked
                              /\ revoke(v) \in vs.pending => revoke(v) \in vs'.pending
                              /\ grant(v) \in vs'.pending => grant(v) \in vs.pending
                              /\ InAnswer(v)' => InAnswer(v)
    /\ \A e \in table' : (\E f \in table : f.visa = e.visa) \/ InAnswer(e.visa)
    /\ \A e \in table' : revoke(e.visa) \in ans[worker].ops => revoke(e.visa) \in ans'[worker].ops
    /\ vs'.node /\ ~giving_up' => (vs.node /\ ~giving_up) \/ vs'.revoked = {}

\* Then no revocation is lost.
LEMMA CalmKeeps == ASSUME RevocationInv, Calm PROVE RevocationInv'
<1>1. NotGranted'
  BY DEF RevocationInv, NotGranted, Calm
<1>2. GrantsFirst'
  <2> SUFFICES ASSUME NEW v \in vs'.revoked, v \notin overtaken', revoke(v) \notin vs'.pending
               PROVE  /\ ~InAnswer(v)'
                      /\ \A i \in DOMAIN vssq' : vssq'[i].do = grant(v) =>
                           \E j \in DOMAIN vssq' : j > i /\ vssq'[j].do = revoke(v)
    BY DEF GrantsFirst
  <2>1. /\ v \in vs.revoked \ overtaken /\ revoke(v) \notin vs.pending
        /\ InAnswer(v)' => InAnswer(v) /\ vssq' = vssq
    BY DEF Calm
  <2> QED BY <2>1 DEF RevocationInv, GrantsFirst, Calm
<1>3. NoRevocationLost'
  <2> SUFFICES ASSUME vs'.node, ~giving_up', NEW e \in table', e.visa \in vs'.revoked,
                      ~Queued(revoke(e.visa))', revoke(e.visa) \notin vs'.pending,
                      revoke(e.visa) \notin ans'[worker].ops
               PROVE  e.visa \in overtaken'
    BY DEF NoRevocationLost, Forgotten
  <2> DEFINE v == e.visa
  <2>1. /\ v \in vs.revoked /\ revoke(v) \notin vs.pending /\ vs'.revoked # {}
        /\ revoke(v) \notin ans[worker].ops /\ overtaken \subseteq overtaken'
    BY DEF Calm
  <2>2. vs.node /\ ~giving_up
    BY <2>1 DEF Calm
  <2>3. ~Queued(revoke(v))
    BY DEF Queued, Calm
  <2> HIDE DEF v
  <2>4. CASE \E f \in table : f.visa = v
    <3>1. v \in Forgotten
      BY <2>1, <2>3, <2>4 DEF Forgotten
    <3> QED BY <2>1, <2>2, <3>1 DEF RevocationInv, NoRevocationLost, v
  <2>5. CASE InAnswer(v)
    BY <2>1, <2>5 DEF RevocationInv, GrantsFirst, v
  <2> QED BY <2>4, <2>5 DEF Calm, v
<1> QED BY <1>1, <1>2, <1>3 DEF RevocationInv

\* A step that has nothing to do with visas, or takes some away.
LEMMA QuietKeeps ==
    ASSUME RevocationInv, UNCHANGED <<vs, vssq, overtaken>>,
           \A c \in Callers : ans'[c].ops \subseteq ans[c].ops,
           \A e \in table' : (\E f \in table : f.visa = e.visa) \/ InAnswer(e.visa),
           \A e \in table' : revoke(e.visa) \in ans[worker].ops => revoke(e.visa) \in ans'[worker].ops,
           giving_up => giving_up'
    PROVE  RevocationInv'
<1>1. \A v : InAnswer(v)' => InAnswer(v)
  BY DEF InAnswer
<1>2. Calm
  BY <1>1 DEF Calm
<1> QED BY <1>2, CalmKeeps

\* Who gives up depends on the worker only.
LEMMA SameMood ==
    ASSUME wk'.pc = wk.pc, ans'[worker].st = ans[worker].st PROVE giving_up' <=> giving_up
  BY DEF giving_up, Alive

\* The service after a command, as far as revocations matter.
LEMMA ServedRevoked ==
    ASSUME TypeOK
    PROVE  /\ left.revoked = vs.revoked /\ left.pending = vs.pending /\ ~left.node
           /\ joined("NoState").revoked = {}
           /\ \A f : f # "NoState" => joined(f).revoked = vs.revoked /\ joined(f).pending = vs.pending
           /\ \A x : LET s == [vs EXCEPT !.issued = x]
                     IN  s.revoked = vs.revoked /\ s.pending = vs.pending /\ s.node = vs.node
           /\ \A x : LET s == [vs EXCEPT !.known = x]
                     IN  s.revoked = vs.revoked /\ s.pending = vs.pending /\ s.node = vs.node
           /\ LET s == [vs EXCEPT !.vss = TRUE, !.pending = {}]
              IN  s.revoked = vs.revoked /\ s.pending = {} /\ s.node = vs.node
<1>1. DOMAIN vs = {"up", "gen", "node", "handle", "known", "vss", "issued", "revoked", "pending"}
  BY DEF TypeOK
<1> QED BY <1>1 DEF left, joined

\* What a command that is taken leaves of the answers and of the worker's mood.
LEMMA CommandTaken ==
    ASSUME TypeOK, CallsOK, cmds # <<>>, wk' = wk, NEW r,
           ans' = reply(ans, Head(cmds).who, r) \/ ans' = ans
    PROVE  /\ \A c \in Callers : ans'[c] = ans[c] \/ (c = Head(cmds).who /\ ans'[c] = r)
           /\ Head(cmds).who = worker => /\ ans[worker].st = "none" /\ ans[worker].ops = {}
                                         /\ Awaits(wk, Head(cmds).op)
           /\ Head(cmds).op = "RegisterVss" => Head(cmds).who = worker
           /\ giving_up => giving_up' \/ (Head(cmds).op = "NotifyDisconnect" /\ r.st = "ok"
                                          /\ Head(cmds).who = worker)
<1> DEFINE c == Head(cmds)
<1>1. cmds \in Seq(Commands) /\ worker \in Callers
  BY DifferentCallers DEF TypeOK
<1>2. /\ c.who = worker => ans[worker].st = "none" /\ Awaits(wk, c.op)
      /\ c.op = "RegisterVss" => c.who = worker
  BY <1>1, CallTaken DEF CallsOK
<1>3. c.who = worker => ans[worker].ops = {}
  BY <1>2 DEF CallsOK, OwnAnswer
<1>4. \A w \in Callers : ans'[w] = ans[w] \/ (w = c.who /\ ans'[w] = r)
  BY AnswerAt
<1> HIDE DEF c
<1>5. giving_up => giving_up' \/ (c.op = "NotifyDisconnect" /\ r.st = "ok" /\ c.who = worker)
  <2>1. CASE ans'[worker] = ans[worker]
    BY <2>1, SameMood
  <2>2. CASE c.who = worker /\ ans'[worker] = r
    BY <1>2, <2>2 DEF giving_up, Alive, Awaits, Asks
  <2> QED BY <1>1, <1>4, <2>1, <2>2
<1> QED BY <1>2, <1>3, <1>4, <1>5 DEF c

\* The VSS is registered, or perhaps: the worker gives up if it does not know.
LEMMA RegisterKeeps ==
    ASSUME TypeOK, CallsOK, RevocationInv, cmds # <<>>, Head(cmds).op = "RegisterVss",
           NEW r \in {[st |-> "ok", ops |-> vs.pending], Failed},
           vs' = [vs EXCEPT !.vss = TRUE, !.pending = {}], ans' = reply(ans, Head(cmds).who, r),
           UNCHANGED <<wk, table, vssq>>,
           overtaken' = overtaken \cup {v \in vs.issued : revoke(v) \in vs.pending \ vs'.pending
                                                          /\ (InAnswer(v) \/ Queued(grant(v)))}
    PROVE  RevocationInv'
<1>1. /\ \A c \in Callers : ans'[c] = ans[c] \/ (c = worker /\ ans'[c] = r)
      /\ ans[worker].st = "none" /\ ans[worker].ops = {} /\ Awaits(wk, "RegisterVss")
      /\ Head(cmds).who = worker
  BY CommandTaken
<1>2. wk.pc = "Register" /\ ~giving_up
  BY <1>1 DEF Awaits, Asks, giving_up, Alive
<1>3. vs'.revoked = vs.revoked /\ vs'.pending = {} /\ vs'.node = vs.node
  BY ServedRevoked
<1>4. r.ops \subseteq vs.pending /\ (r = Failed => r.st = "failed") /\ (r # Failed => r.ops = vs.pending)
  BY DEF Failed, answer
<1>5. ans'[worker] = r
  <2>1. worker \in Callers
    BY DifferentCallers
  <2> QED BY <1>1, <2>1, AnswerAt
<1>6. \A v \in vs.revoked : v \in vs.issued /\ grant(v) \notin vs.pending
  BY DEF RevocationInv, NotGranted, TypeOK
<1>7. \A v \in vs.revoked : InAnswer(v)' => InAnswer(v)
  BY <1>1, <1>4, <1>6 DEF InAnswer
<1>8. \A v \in vs.revoked \ overtaken' : revoke(v) \in vs.pending => ~InAnswer(v) /\ ~Queued(grant(v))
  BY <1>3, <1>6
<1>9. NotGranted'
  BY <1>3 DEF NotGranted
<1>10. GrantsFirst'
  <2> SUFFICES ASSUME NEW v \in vs.revoked, v \notin overtaken'
               PROVE  /\ ~InAnswer(v)'
                      /\ \A i \in DOMAIN vssq : vssq[i].do = grant(v) =>
                           \E j \in DOMAIN vssq : j > i /\ vssq[j].do = revoke(v)
    BY <1>3 DEF GrantsFirst
  <2>1. v \notin overtaken
    OBVIOUS
  <2>2. CASE revoke(v) \in vs.pending
    BY <1>7, <1>8, <2>2 DEF Queued
  <2>3. CASE revoke(v) \notin vs.pending
    BY <1>7, <2>1, <2>3 DEF RevocationInv, GrantsFirst
  <2> QED BY <2>2, <2>3
<1>11. NoRevocationLost'
  <2>1. CASE r = Failed
    BY <1>2, <1>4, <1>5, <2>1 DEF NoRevocationLost, giving_up
  <2>2. CASE r # Failed
    <3>1. \A v \in Forgotten' : v \in Forgotten
      BY <1>1, <1>3, <1>4, <1>5, <2>2 DEF Forgotten, Queued
    <3> QED BY <1>2, <1>3, <3>1 DEF RevocationInv, NoRevocationLost
  <2> QED BY <2>1, <2>2
<1> QED BY <1>9, <1>10, <1>11 DEF RevocationInv

\* The run loop serves a command.
LEMMA HandleKeeps ==
    ASSUME TypeOK, CallsOK, RevocationInv, handle_command
    PROVE  RevocationInv'
<1> DEFINE c == Head(cmds)
<1>1. /\ cmds # <<>> /\ cmds' = Tail(cmds) /\ c \in Commands /\ UNCHANGED <<wk, table>>
      /\ \/ c.op = "Stop" /\ handle_stop(c) /\ UNCHANGED ans
         \/ c.op = "Connect" /\ handle_connect(c)
         \/ \E served, a, r : Effects(c, served, a) /\ Performs(c, served, a, r)
  BY Handles
<1>2. /\ vssq' = vssq
      /\ overtaken' = overtaken \cup {v \in vs.issued : revoke(v) \in vs.pending \ vs'.pending
                                                         /\ (InAnswer(v) \/ Queued(grant(v)))}
  BY DEF handle_command
<1>3. \A e \in table' : \E f \in table : f.visa = e.visa
  BY <1>1
<1> HIDE DEF c
<1>4. ASSUME NEW r, ans' = reply(ans, c.who, r) \/ ans' = ans,
             \A v \in vs.revoked : grant(v) \notin r.ops,
             \A v \in vs'.revoked : /\ v \in vs.revoked
                                    /\ revoke(v) \in vs.pending => revoke(v) \in vs'.pending
                                    /\ grant(v) \in vs'.pending => grant(v) \in vs.pending,
             vs'.node => vs.node \/ vs'.revoked = {},
             c.op = "NotifyDisconnect" /\ r.st = "ok" /\ c.who = worker => ~vs'.node
      PROVE  RevocationInv'
  <2>1. /\ \A w \in Callers : ans'[w] = ans[w] \/ (w = c.who /\ ans'[w] = r)
        /\ c.who = worker => ans[worker].ops = {}
        /\ giving_up => giving_up' \/ (c.op = "NotifyDisconnect" /\ r.st = "ok" /\ c.who = worker)
    BY <1>1, <1>4, CommandTaken DEF c
  <2>2. \A v \in vs.revoked : InAnswer(v)' => InAnswer(v)
    BY <1>4, <2>1 DEF InAnswer
  <2>3. worker \in Callers
    BY DifferentCallers
  <2>4. \A x : x \in ans[worker].ops => x \in ans'[worker].ops
    BY <2>1, <2>3
  <2>5. Calm
    BY <1>2, <1>3, <1>4, <2>1, <2>2, <2>4 DEF Calm
  <2> QED BY <2>5, CalmKeeps
<1>5. \A r \in {ok, answer("OutOfSync"), Failed} : r.ops = {}
  BY DEF ok, Failed, answer
<1>6. CASE c.op = "Stop" /\ handle_stop(c) /\ UNCHANGED ans
  <2>1. vs' \in {vs, left}
    BY <1>6, CallServed DEF handle_stop
  <2>2. vs'.revoked = vs.revoked /\ vs'.pending = vs.pending /\ (vs'.node => vs.node)
    BY <2>1, ServedRevoked
  <2> QED BY <1>4, <1>5, <1>6, <2>2
<1>7. CASE c.op = "Connect" /\ handle_connect(c)
  <2>1. c.arg \in Flags
    BY <1>1, <1>7 DEF Commands
  <2>2. PICK r \in {ok, answer("OutOfSync"), Failed} :
           /\ ans' = reply(ans, c.who, r)
           /\ vs' = vs \/ (vs' = joined(c.arg) /\ (c.arg = "HasState" => vs.node))
    BY <1>7, <2>1, Connects
  <2>3. CASE vs' = vs
    BY <1>4, <1>5, <1>7, <2>2, <2>3
  <2>4. CASE vs' = joined("NoState")
    <3>1. vs'.revoked = {}
      BY <2>4, ServedRevoked
    <3> QED BY <1>4, <1>5, <1>7, <2>2, <3>1
  <2>5. CASE vs' = joined("HasState") /\ vs.node
    <3>1. vs'.revoked = vs.revoked /\ vs'.pending = vs.pending
      BY <2>5, ServedRevoked
    <3> QED BY <1>4, <1>5, <1>7, <2>2, <2>5, <3>1
  <2> QED BY <2>1, <2>2, <2>3, <2>4, <2>5 DEF Flags
<1>8. ASSUME NEW served, NEW a, NEW r, Effects(c, served, a), Performs(c, served, a, r)
      PROVE  RevocationInv'
  <2>1. /\ ans' = reply(ans, c.who, r) /\ r \in {a, Failed} /\ vs' \in {vs, served}
        /\ r # Failed => vs' = served
    BY <1>8 DEF Performs
  <2>2. Failed.ops = {} /\ Failed.st # "ok" /\ ok # Failed
    BY DEF Failed, ok, answer
  <2>3. CASE vs' = vs /\ r = Failed
    BY <1>4, <2>1, <2>2, <2>3
  <2>4. CASE vs' = served /\ c.op = "RegisterVss"
    <3>1. served = [vs EXCEPT !.vss = TRUE, !.pending = {}] /\ a = [st |-> "ok", ops |-> vs.pending]
      BY <1>8, <2>4 DEF Effects
    <3> QED BY <1>1, <1>2, <2>1, <2>4, <3>1, RegisterKeeps DEF c
  <2>5. CASE vs' = served /\ c.op # "RegisterVss"
    <3>1. /\ served.revoked = vs.revoked /\ served.pending = vs.pending
          /\ served.node = vs.node \/ served = left
      <4>1. CASE served = [vs EXCEPT !.issued = @ \cup {NewVisa(c.arg)}]
        BY <4>1, ServedRevoked
      <4>2. CASE served = left
        BY <4>2, ServedRevoked
      <4>3. ASSUME NEW x, served = [vs EXCEPT !.known = x]
            PROVE  served.revoked = vs.revoked /\ served.pending = vs.pending /\ served.node = vs.node
        BY <4>3, ServedRevoked
      <4> QED BY <1>8, <2>5, <4>1, <4>2, <4>3 DEF Effects
    <3>2. vs'.node => vs.node
      BY <2>5, <3>1, ServedRevoked
    <3>3. \A v \in vs.revoked : grant(v) \notin a.ops
      <4>1. NewVisa(c.arg) \notin vs.revoked
        BY NewVisaFresh DEF TypeOK
      <4>2. \A v : grant(v) = grant(NewVisa(c.arg)) => v = NewVisa(c.arg)
        BY DEF grant
      <4> QED BY <1>5, <1>8, <2>5, <4>1, <4>2 DEF Effects
    <3>4. \A v \in vs.revoked : grant(v) \notin r.ops
      BY <2>1, <2>2, <3>3
    <3>5. c.op = "NotifyDisconnect" /\ c.who = worker => served = left
      <4>1. c.op = "NotifyDisconnect" /\ c.who = worker => c.arg \notin Adapters
        BY <1>1, DifferentCallers DEF Commands
      <4> QED BY <1>8, <4>1 DEF Effects
    <3>6. c.op = "NotifyDisconnect" /\ c.who = worker => ~vs'.node
      BY <2>5, <3>5, ServedRevoked
    <3> QED BY <1>4, <2>1, <2>5, <3>1, <3>2, <3>4, <3>6
  <2> QED BY <2>1, <2>3, <2>4, <2>5
<1> QED BY <1>1, <1>6, <1>7, <1>8

\* The worker takes its answer, which has no operations or is done with one.
LEMMA WorkerKeeps == ASSUME TypeOK, CallsOK, RevocationInv, Worker PROVE RevocationInv'
<1>1. UNCHANGED <<vs, vssq, overtaken>>
  BY DEF Worker, wait_for_runloop_start, connect, ConnectAnswered, ConnectRaced, register_vss,
         registered, Retry, disconnect_adapters
<1>2. answer("none").st = "none" /\ answer("none").ops = {} /\ worker \in Callers
  BY DifferentCallers DEF answer
<1>3. DOMAIN wk = {"pc", "flag", "sent", "todo", "deferred"}
  BY DEF TypeOK, WorkerTyped
<1>4. ans[worker].ops # {} => wk.pc = "Register" /\ ans[worker].st = "ok"
  BY DEF CallsOK, OwnAnswer
<1>5. ASSUME ans' = ans \/ (ans' = [ans EXCEPT ![worker] = answer("none")] /\ ans[worker].ops = {}),
             \A e \in table' : \E f \in table : f.visa = e.visa, giving_up => giving_up'
      PROVE  RevocationInv'
  <2>1. \A c \in Callers : ans'[c].ops \subseteq ans[c].ops
    BY <1>2, <1>5, AnswerTakenAt
  <2>2. \A x : x \in ans[worker].ops => x \in ans'[worker].ops
    BY <1>5
  <2> QED BY <1>1, <1>5, <2>1, <2>2, QuietKeeps
<1>6. ASSUME wait_for_runloop_start \/ connect \/ Retry PROVE RevocationInv'
  <2>1. UNCHANGED <<ans, table>>
    BY <1>6 DEF wait_for_runloop_start, connect, Retry
  <2>2. ~giving_up
    BY <1>6 DEF wait_for_runloop_start, connect, Retry, giving_up, Alive
  <2> QED BY <1>5, <2>1, <2>2
<1>7. ASSUME ConnectAnswered \/ ConnectRaced PROVE RevocationInv'
  <2>1. wk.pc = "Select" /\ table' = table /\ ans' = [ans EXCEPT ![worker] = answer("none")]
    BY <1>7 DEF ConnectAnswered, ConnectRaced, WorkerDoes, out_of_sync
  <2>2. ~giving_up
    BY <2>1 DEF giving_up, Alive
  <2> QED BY <1>4, <1>5, <2>1, <2>2
<1>8. ASSUME disconnect_adapters PROVE RevocationInv'
  <2>1. wk.pc = "Resetting" /\ ans' = ans
    BY <1>8 DEF disconnect_adapters
  <2>2. ~giving_up
    BY <2>1 DEF giving_up, Alive
  <2>3. \A v \in table : [v EXCEPT !.left = TRUE].visa = v.visa
    BY DEF TypeOK, Entries
  <2>4. \A e \in table' : \E f \in table : f.visa = e.visa
    <3>1. CASE \E a \in wk.todo : reset_peer(a)
      BY <3>1 DEF reset_peer
    <3>2. CASE table' = {[v EXCEPT !.left = TRUE] : v \in table}
      BY <2>3, <3>2
    <3> QED BY <1>8, <3>1, <3>2 DEF disconnect_adapters
  <2> QED BY <1>5, <2>1, <2>2, <2>4
<1>9. ASSUME register_vss PROVE RevocationInv'
  <2>1. table' = table
    BY <1>9 DEF register_vss
  <2>2. CASE wk.pc = "Connected" /\ UNCHANGED ans
    <3>1. ~giving_up
      BY <2>2 DEF giving_up, Alive
    <3> QED BY <1>5, <2>1, <2>2, <3>1
  <2>3. ASSUME NEW pc, NEW sends, WorkerDoes(pc, sends), ans[worker].ops = {}, giving_up => giving_up'
        PROVE  RevocationInv'
    BY <1>5, <2>1, <2>3 DEF WorkerDoes
  <2>4. ASSUME NEW sends, wk.pc \in {"Connected", "Deferred"}, NEW pc, WorkerDoes(pc, sends)
        PROVE  RevocationInv'
    <3>1. ~giving_up /\ ans[worker].ops = {}
      BY <1>4, <2>4 DEF giving_up, Alive
    <3> QED BY <2>3, <2>4, <3>1
  <2>5. ASSUME NEW sends, ans[worker].st = "failed", WorkerDoes("Disconnect", sends)
        PROVE  RevocationInv'
    <3>1. wk'.pc = "Disconnect" /\ ans'[worker].st = "none"
      BY <2>5, Does
    <3>2. giving_up' /\ ans[worker].ops = {}
      BY <1>4, <2>5, <3>1 DEF giving_up
    <3> QED BY <2>3, <2>5, <3>2
  <2>6. ASSUME wk.pc = "Disconnect", ans[worker].st = "ok", WorkerDoes("Sleep", <<>>)
        PROVE  RevocationInv'
    <3>1. ~giving_up /\ ans[worker].ops = {}
      BY <1>4, <2>6 DEF giving_up, Alive
    <3> QED BY <2>3, <2>6, <3>1
  <2>7. ASSUME ans[worker].st = "failed", WorkerDoes("Panicked", <<>>) PROVE RevocationInv'
    <3>1. wk'.pc = "Panicked"
      BY <2>7, Does
    <3>2. giving_up' /\ ans[worker].ops = {}
      BY <1>4, <2>7, <3>1 DEF giving_up, Alive
    <3> QED BY <2>3, <2>7, <3>2
  <2> QED BY <1>9, <2>2, <2>4, <2>5, <2>6, <2>7 DEF register_vss
<1>10. ASSUME registered PROVE RevocationInv'
  <2>1. wk.pc = "Register" /\ ans[worker].st = "ok" /\ ~giving_up
    BY <1>10 DEF registered, giving_up, Alive
  <2>2. CASE ans[worker].ops = {}
    <3>1. ans' = [ans EXCEPT ![worker] = answer("none")] /\ table' = table
      BY <1>10, <2>2 DEF registered
    <3> QED BY <1>5, <2>1, <2>2, <3>1
  <2>3. CASE ans[worker].ops # {}
    <3>1. PICK o \in ans[worker].ops, done \in BOOLEAN :
            process_visaop(o, done) /\ ans' = [ans EXCEPT ![worker].ops = @ \ {o}]
      BY <1>10, <2>3 DEF registered
    <3>2. ans \in [Callers -> Answers] /\ ans[worker] \in Answers
      BY <1>2 DEF TypeOK
    <3>3. o \in VisaOps
      BY <3>1, <3>2 DEF Answers
    <3>4. /\ ans'[worker].ops = ans[worker].ops \ {o}
          /\ \A c \in Callers : c # worker => ans'[c] = ans[c]
      BY <1>2, <3>1, <3>2 DEF Answers
    <3>5. \A c \in Callers : ans'[c].ops \subseteq ans[c].ops
      BY <3>4
    <3>6. /\ \A e \in table' : e \in table \/ o = grant(e.visa)
          /\ o.op = "RevokeVisaId" => \A e \in table' : e.visa # o.visa
      BY <3>1, <3>3, VisaOpTable
    <3>7. \A e \in table' : (\E f \in table : f.visa = e.visa) \/ InAnswer(e.visa)
      BY <1>2, <3>1, <3>6 DEF InAnswer
    <3>8. \A e \in table' : revoke(e.visa) # o
      BY <3>6 DEF revoke
    <3>9. \A e \in table' : revoke(e.visa) \in ans[worker].ops => revoke(e.visa) \in ans'[worker].ops
      BY <3>4, <3>8
    <3> QED BY <1>1, <2>1, <3>5, <3>7, <3>9, QuietKeeps
  <2> QED BY <2>2, <2>3
<1> QED BY <1>6, <1>7, <1>8, <1>9, <1>10 DEF Worker

\* The adapters' tasks: a visa enters the table from its answer.
LEMMA TaskKeeps ==
    ASSUME TypeOK, RevocationInv, NEW a \in Adapters,
           authorization_result(a) \/ visa_request_task(a) \/ AdapterChanges(a)
    PROVE  RevocationInv'
<1>1. UNCHANGED <<vs, vssq, overtaken, wk>>
  BY DEF authorization_result, visa_request_task, AdapterChanges
<1>2. /\ actor(a) \in Callers /\ asker(a) \in Callers /\ worker \in Callers
      /\ actor(a) # worker /\ asker(a) # worker
  BY DifferentCallers
<1>3. answer("none").ops = {}
  BY DEF answer
<1>4. ASSUME ans' = ans \/ \E w \in {actor(a), asker(a)} : ans' = [ans EXCEPT ![w] = answer("none")],
             \A e \in table' : (\E f \in table : f.visa = e.visa) \/ InAnswer(e.visa)
      PROVE  RevocationInv'
  <2>1. \A c \in Callers : ans'[c].ops \subseteq ans[c].ops
    BY <1>2, <1>3, <1>4, AnswerTakenAt
  <2>2. ans'[worker] = ans[worker]
    BY <1>2, <1>4, AnswerTakenAt
  <2>3. giving_up => giving_up'
    BY <1>1, <2>2, SameMood
  <2> QED BY <1>1, <1>4, <2>1, <2>2, <2>3, QuietKeeps
<1>5. CASE authorization_result(a)
  <2>1. ans' = [ans EXCEPT ![actor(a)] = answer("none")] /\ table' = table
    BY <1>5 DEF authorization_result, actor
  <2> QED BY <1>4, <2>1
<1>6. CASE AdapterChanges(a)
  <2>1. ans' = ans /\ \A e \in table' : e \in table
    BY <1>6 DEF AdapterChanges, reset_peer
  <2> QED BY <1>4, <2>1
<1>7. CASE visa_request_task(a)
  <2>1. CASE UNCHANGED <<ans, table>>
    BY <1>4, <2>1
  <2>2. CASE /\ ans' = [ans EXCEPT ![asker(a)] = answer("none")]
             /\ \/ table' = table
                \/ table' = table \cup {entry(v, ad[a].asks = "asked") : v \in visas("Grant", ans[asker(a)].ops)}
    <3>1. \A v, x : entry(v, x).visa = v
      BY DEF entry
    <3>2. ASSUME NEW o \in ans[asker(a)].ops, o.op = "Grant" PROVE InAnswer(o.visa)
      <4>1. ans[asker(a)] \in Answers
        BY <1>2 DEF TypeOK
      <4>2. o \in VisaOps
        BY <4>1 DEF Answers
      <4>3. o = grant(o.visa)
        BY <3>2, <4>2 DEF VisaOps, grant
      <4> QED BY <1>2, <4>3 DEF InAnswer
    <3>3. \A e \in table' : e \in table \/ \E o \in ans[asker(a)].ops :
                                              o.op = "Grant" /\ e = entry(o.visa, ad[a].asks = "asked")
      BY <2>2, GrantEntries
    <3> QED BY <1>4, <2>2, <3>1, <3>2, <3>3
  <2>3. ASSUME NEW e \in table, table' = (table \ {e}) \cup {[e EXCEPT !.bound = TRUE]}, ans' = ans
        PROVE  RevocationInv'
    <3>1. [e EXCEPT !.bound = TRUE].visa = e.visa
      BY DEF TypeOK, Entries
    <3> QED BY <1>4, <2>3, <3>1
  <2> QED BY <1>7, <2>1, <2>2, <2>3 DEF visa_request_task, asker
<1> QED BY <1>5, <1>6, <1>7

\* The elements of a queue behind its first n.
LEMMA PlacesBehind ==
    ASSUME NEW S, NEW q \in Seq(S), NEW n \in Nat, NEW k, k = SubSeq(q, n + 1, Len(q))
    PROVE  /\ DOMAIN k \subseteq Nat
           /\ \A i \in DOMAIN k : i + n \in DOMAIN q /\ k[i] = q[i + n]
           /\ \A i \in DOMAIN q : i > n => i - n \in DOMAIN k
<1> DEFINE m == n + 1  l == Len(q)
<1>1. DOMAIN q = 1 .. l /\ l \in Nat /\ m \in Nat
  OBVIOUS
<1>2. \A i \in m .. l : q[i] \in S
  BY <1>1
<1>3. /\ k \in Seq(S) /\ Len(k) = IF m <= l THEN l-m+1 ELSE 0
      /\ \A i \in 1 .. l-m+1 : k[i] = q[m+i-1]
  BY <1>1, <1>2, SubSeqProperties
<1>4. DOMAIN k = 1 .. Len(k)
  BY <1>3
<1> HIDE DEF l
<1>5. l-m+1 = l - n
  BY <1>1 DEF m
<1>6. \A i \in Nat : m+i-1 = i + n
  BY DEF m
<1>7. DOMAIN k = 1 .. l - n
  BY <1>1, <1>3, <1>4, <1>5 DEF m
<1>8. ASSUME NEW i \in DOMAIN k PROVE i \in Nat /\ k[i] = q[i + n]
  <2>1. i \in 1 .. l-m+1 /\ i \in Nat
    BY <1>1, <1>5, <1>7
  <2>2. k[i] = q[m+i-1]
    BY <1>3, <2>1
  <2>3. m+i-1 = i + n
    BY <1>6, <2>1
  <2> HIDE DEF m
  <2> QED BY <2>1, <2>2, <2>3
<1>9. \A i \in 1 .. l - n : i + n \in 1 .. l
  BY <1>1
<1>10. \A i \in 1 .. l : i > n => i - n \in 1 .. l - n
  BY <1>1
<1> QED BY <1>1, <1>7, <1>8, <1>9, <1>10

\* The VSS worker is done with n operations of its queue, and drops those behind
\* one that has failed; what it has not revoked is pending again.
LEMMA QueueKeeps ==
    ASSUME TypeOK, RevocationInv, UNCHANGED <<ans, wk, overtaken>>, NEW n \in Nat,
           DOMAIN vssq' \subseteq Nat,
           \A i \in DOMAIN vssq' : i + n \in DOMAIN vssq /\ vssq'[i] = vssq[i + n],
           \A i \in DOMAIN vssq : i > n => i - n \in DOMAIN vssq',
           vs'.revoked = vs.revoked, vs'.node = vs.node, vs.pending \subseteq vs'.pending,
           \A v : grant(v) \in vs'.pending => grant(v) \in vs.pending,
           \A e \in table' : \/ \E f \in table : f.visa = e.visa
                             \/ \E i \in DOMAIN vssq : i <= n /\ vssq[i].do = grant(e.visa),
           \A e \in table' : \A i \in DOMAIN vssq :
             i <= n /\ vssq[i].do = revoke(e.visa) /\ e.visa \in vs.revoked =>
               revoke(e.visa) \in vs'.pending
    PROVE  RevocationInv'
<1>1. DOMAIN vssq \subseteq Nat
  <2>1. vssq \in Seq(Items)
    BY DEF TypeOK
  <2> QED BY <2>1
<1>2. \A i \in DOMAIN vssq : i > n => i - n \in DOMAIN vssq' /\ vssq'[i - n] = vssq[i]
  BY <1>1
<1>3. NotGranted'
  BY DEF RevocationInv, NotGranted
<1>4. GrantsFirst'
  <2> SUFFICES ASSUME NEW v \in vs.revoked, v \notin overtaken, revoke(v) \notin vs'.pending
               PROVE  /\ ~InAnswer(v)'
                      /\ \A i \in DOMAIN vssq' : vssq'[i].do = grant(v) =>
                           \E j \in DOMAIN vssq' : j > i /\ vssq'[j].do = revoke(v)
    BY DEF GrantsFirst
  <2>1. /\ ~InAnswer(v)
        /\ \A i \in DOMAIN vssq : vssq[i].do = grant(v) =>
             \E j \in DOMAIN vssq : j > i /\ vssq[j].do = revoke(v)
    BY DEF RevocationInv, GrantsFirst
  <2>2. ~InAnswer(v)'
    BY <2>1 DEF InAnswer
  <2>3. ASSUME NEW i \in DOMAIN vssq', vssq'[i].do = grant(v)
        PROVE  \E j \in DOMAIN vssq' : j > i /\ vssq'[j].do = revoke(v)
    <3>1. PICK j \in DOMAIN vssq : j > i + n /\ vssq[j].do = revoke(v)
      BY <2>1, <2>3
    <3>2. i \in Nat /\ j \in Nat /\ j > n /\ j - n > i
      BY <1>1, <3>1
    <3> QED BY <1>2, <3>1, <3>2
  <2> QED BY <2>2, <2>3
<1>5. NoRevocationLost'
  <2> SUFFICES ASSUME vs'.node, ~giving_up', NEW e \in table', e.visa \in vs'.revoked,
                      ~Queued(revoke(e.visa))', revoke(e.visa) \notin vs'.pending,
                      revoke(e.visa) \notin ans'[worker].ops, e.visa \notin overtaken
               PROVE  FALSE
    BY DEF NoRevocationLost, Forgotten
  <2> DEFINE v == e.visa
  <2>1. /\ v \in vs.revoked /\ revoke(v) \notin vs.pending /\ revoke(v) \notin ans[worker].ops
        /\ v \notin overtaken /\ vs.node
    OBVIOUS
  <2>2. ~giving_up
    BY SameMood
  <2>3. \A i \in DOMAIN vssq : vssq[i].do # revoke(v)
    <3> SUFFICES ASSUME NEW i \in DOMAIN vssq, vssq[i].do = revoke(v) PROVE FALSE
      OBVIOUS
    <3>1. CASE i <= n
      BY <2>1, <3>1
    <3>2. CASE i > n
      BY <1>2, <3>2 DEF Queued
    <3> QED BY <1>1, <3>1, <3>2
  <2>4. \A i \in DOMAIN vssq : vssq[i].do # grant(v)
    BY <2>1, <2>3 DEF RevocationInv, GrantsFirst
  <2>5. \E f \in table : f.visa = v
    BY <2>4
  <2>6. v \in Forgotten
    BY <2>1, <2>3, <2>5 DEF Forgotten, Queued
  <2> QED BY <2>1, <2>2, <2>6 DEF RevocationInv, NoRevocationLost
<1> QED BY <1>3, <1>4, <1>5 DEF RevocationInv

\* It is.
LEMMA VssKeeps == ASSUME TypeOK, RevocationInv, vss_worker PROVE RevocationInv'
<1> DEFINE o == Head(vssq).do
<1>1. vssq # <<>> /\ UNCHANGED <<ans, wk, overtaken>>
  BY DEF vss_worker
<1>2. vssq \in Seq(Items) /\ o \in VisaOps /\ o = vssq[1].do /\ 1 \in DOMAIN vssq
  BY <1>1, QueueParts DEF TypeOK, Items
<1>3. vs.revoked \subseteq vs.issued
  BY DEF TypeOK
<1>4. \A v, w : revoke(v) # grant(w)
  BY DEF revoke, grant
<1>5. ASSUME process_visaop(o, TRUE), vssq' = Tail(vssq), vs' = vs PROVE RevocationInv'
  <2>1. /\ \A e \in table' : e \in table \/ o = grant(e.visa)
        /\ o.op = "RevokeVisaId" => \A e \in table' : e.visa # o.visa
    BY <1>2, <1>5, VisaOpTable
  <2>2. \A e \in table' : o # revoke(e.visa)
    BY <2>1 DEF revoke
  <2>3. /\ DOMAIN vssq' \subseteq Nat
        /\ \A i \in DOMAIN vssq' : i + 1 \in DOMAIN vssq /\ vssq'[i] = vssq[i + 1]
        /\ \A i \in DOMAIN vssq : i > 1 => i - 1 \in DOMAIN vssq'
    BY <1>1, <1>2, <1>5, Places
  <2>4. \A i \in DOMAIN vssq : i <= 1 => i = 1
    BY <1>2
  <2>5. \A e \in table' : \/ \E f \in table : f.visa = e.visa
                          \/ \E i \in DOMAIN vssq : i <= 1 /\ vssq[i].do = grant(e.visa)
    BY <1>2, <2>1
  <2>6. \A e \in table' : \A i \in DOMAIN vssq : ~(i <= 1 /\ vssq[i].do = revoke(e.visa))
    BY <1>2, <2>2, <2>4
  <2> QED BY <1>1, <1>5, <2>3, <2>5, <2>6, QueueKeeps
<1>6. ASSUME NEW n \in Nat, process_visaop(o, FALSE), vssq' = SubSeq(vssq, n + 1, Len(vssq)),
             vs' = [vs EXCEPT !.pending = @ \cup unprocessed(vssq, n)]
      PROVE  RevocationInv'
  <2>1. \A e \in table' : \E f \in table : f.visa = e.visa
    BY <1>6 DEF process_visaop
  <2>2. /\ vs'.revoked = vs.revoked /\ vs'.node = vs.node
        /\ vs'.pending = vs.pending \cup unprocessed(vssq, n)
    BY <1>6 DEF TypeOK
  <2>3. /\ DOMAIN vssq' \subseteq Nat
        /\ \A i \in DOMAIN vssq' : i + n \in DOMAIN vssq /\ vssq'[i] = vssq[i + n]
        /\ \A i \in DOMAIN vssq : i > n => i - n \in DOMAIN vssq'
    BY <1>2, <1>6, PlacesBehind
  <2>4. \A v : grant(v) \in vs'.pending => grant(v) \in vs.pending
    BY <1>4, <2>2 DEF unprocessed
  <2>5. \A e \in table' : \A i \in DOMAIN vssq :
          i <= n /\ vssq[i].do = revoke(e.visa) /\ e.visa \in vs.revoked =>
            revoke(e.visa) \in unprocessed(vssq, n)
    BY DEF unprocessed
  <2> QED BY <1>1, <2>1, <2>2, <2>3, <2>4, <2>5, QueueKeeps
<1>7. Head(vssq).rest + 1 \in Nat
  BY <1>1, QueueParts DEF Items
<1> QED BY <1>5, <1>6, <1>7 DEF vss_worker

\* The visa service decides, and pushes all that is pending if it knows a VSS:
\* what it revokes was granted before, in the queue or the table if not in an
\* answer, and its revocation comes after that.
LEMMA PushKeeps ==
    ASSUME TypeOK, RevocationInv, NEW new \in Decisions, push_visa_op(new) PROVE RevocationInv'
<1> DEFINE all == vs.pending \cup new
<1>1. UNCHANGED <<ans, wk, table>>
  BY DEF push_visa_op
<1>2. /\ vs'.revoked = vs.revoked \cup visas("RevokeVisaId", new)
      /\ vs'.pending = IF vs.vss THEN {} ELSE all
      /\ vs'.node = vs.node /\ vs.revoked \subseteq vs.issued
  BY PushParts DEF TypeOK
<1>3. \A v : /\ grant(v).op = "Grant" /\ grant(v).visa = v
             /\ revoke(v).op = "RevokeVisaId" /\ revoke(v).visa = v
  BY DEF grant, revoke
<1>4. \A v \in visas("RevokeVisaId", new) : /\ revoke(v) \in new
                                            /\ v \in vs.issued /\ grant(v) \notin vs.pending
  BY <1>3, DecisionParts DEF visas
<1>5. \A v \in vs'.revoked : v \in vs.revoked \/ revoke(v) \in new
  BY <1>2, <1>4
<1>6. ASSUME NEW v \in vs'.revoked PROVE grant(v) \notin all
  <2>1. v \in vs.issued /\ grant(v) \notin vs.pending
    BY <1>2, <1>4 DEF RevocationInv, NotGranted
  <2>2. \A a : NewVisa(a) # v
    BY <2>1, NewVisaFresh
  <2> QED BY <1>3, <2>1, <2>2, DecisionParts
<1>7. NotGranted'
  BY <1>2, <1>6 DEF NotGranted
<1>8. \A v : InAnswer(v)' <=> InAnswer(v)
  BY <1>1 DEF InAnswer
<1>9. giving_up' <=> giving_up
  BY <1>1, SameMood
<1>10. ASSUME DOMAIN vssq \subseteq DOMAIN vssq', \A i \in DOMAIN vssq : vssq'[i] = vssq[i],
              overtaken \subseteq overtaken',
              \A v : revoke(v) \in all => revoke(v) \in vs'.pending \/ Queued(revoke(v))'
       PROVE  NoRevocationLost'
  <2> SUFFICES ASSUME vs'.node, ~giving_up', NEW e \in table', e.visa \in vs'.revoked,
                      ~Queued(revoke(e.visa))', revoke(e.visa) \notin vs'.pending,
                      revoke(e.visa) \notin ans'[worker].ops
               PROVE  e.visa \in overtaken'
    BY DEF NoRevocationLost, Forgotten
  <2> DEFINE v == e.visa
  <2>1. revoke(v) \notin all /\ v \in vs.revoked
    BY <1>5, <1>10
  <2>2. ~Queued(revoke(v))
    BY <1>10 DEF Queued
  <2>3. v \in Forgotten
    BY <1>1, <2>1, <2>2 DEF Forgotten
  <2> QED BY <1>2, <1>9, <1>10, <2>3 DEF RevocationInv, NoRevocationLost
<1>11. CASE ~vs.vss
  <2>1. UNCHANGED <<vssq, overtaken>> /\ vs'.pending = all
    BY <1>2, <1>11 DEF push_visa_op
  <2>2. GrantsFirst'
    <3> SUFFICES ASSUME NEW v \in vs'.revoked, v \notin overtaken, revoke(v) \notin all
                 PROVE  /\ ~InAnswer(v)'
                        /\ \A i \in DOMAIN vssq : vssq[i].do = grant(v) =>
                             \E j \in DOMAIN vssq : j > i /\ vssq[j].do = revoke(v)
      BY <2>1 DEF GrantsFirst
    <3> QED BY <1>5, <1>8 DEF RevocationInv, GrantsFirst
  <2>3. NoRevocationLost'
    BY <1>10, <2>1
  <2> QED BY <1>7, <2>2, <2>3 DEF RevocationInv
<1>12. CASE vs.vss
  <2>1. /\ overtaken' = overtaken \cup {v \in visas("RevokeVisaId", all) : InAnswer(v)}
        /\ vs'.pending = {}
    BY <1>2, <1>12 DEF push_visa_op
  <2>2. PICK ops \in Seq(all), q \in Seq(Items') :
          /\ Range(ops) = all
          /\ Len(q) = Len(ops) /\ \A i \in DOMAIN q : q[i].do = ops[i]
          /\ vssq' = vssq \o q
    BY <1>12, PushQueue
  <2>3. /\ DOMAIN vssq \subseteq DOMAIN vssq' /\ DOMAIN vssq' \subseteq Nat
        /\ \A i \in DOMAIN vssq : vssq'[i] = vssq[i]
        /\ \A i \in DOMAIN vssq' : i \in DOMAIN vssq \/ vssq'[i].do \in all
        /\ \A o \in all : \E j \in DOMAIN vssq' : vssq'[j].do = o /\ \A i \in DOMAIN vssq : j > i
    <3> HIDE DEF all
    <3>1. /\ vssq \in Seq(Items') /\ vssq' \in Seq(Items')
          /\ Len(vssq) \in Nat /\ Len(q) \in Nat
          /\ DOMAIN vssq = 1 .. Len(vssq) /\ DOMAIN q = 1 .. Len(q) /\ DOMAIN ops = DOMAIN q
          /\ DOMAIN vssq' = 1 .. (Len(vssq) + Len(q))
      <4>1. vssq \in Seq(Items')
        <5>1. Items \subseteq Items'
          BY PushParts, MoreIssued
        <5> QED BY <5>1 DEF TypeOK
      <4> QED BY <2>2, <4>1
    <3>2. \A i \in 1 .. Len(vssq) : vssq'[i] = vssq[i]
      BY <2>2, <3>1
    <3>3. \A k \in 1 .. Len(q) : vssq'[Len(vssq) + k] = q[k]
      BY <2>2, <3>1
    <3> DEFINE l == Len(vssq)  m == Len(q)
    <3> HIDE DEF l, m
    <3>4. ASSUME NEW i \in DOMAIN vssq', i \notin DOMAIN vssq PROVE vssq'[i].do \in all
      <4>1. i - l \in 1 .. m /\ l + (i - l) = i
        BY <3>1, <3>4 DEF l, m
      <4>2. vssq'[i] = q[i - l]
        BY <3>3, <4>1 DEF l, m
      <4>3. ops[i - l] \in all
        BY <2>2, <3>1, <4>1 DEF m, Range
      <4> QED BY <2>2, <3>1, <4>1, <4>2, <4>3 DEF m
    <3>5. ASSUME NEW o \in all
          PROVE  \E j \in DOMAIN vssq' : vssq'[j].do = o /\ \A i \in DOMAIN vssq : j > i
      <4>1. PICK k \in DOMAIN ops : ops[k] = o
        BY <2>2 DEF Range
      <4>2. k \in 1 .. m /\ l + k \in DOMAIN vssq' /\ \A i \in DOMAIN vssq : l + k > i
        BY <3>1, <4>1 DEF l, m
      <4>3. vssq'[l + k].do = o
        BY <2>2, <3>1, <3>3, <4>1, <4>2 DEF l, m
      <4> QED BY <4>2, <4>3
    <3>6. DOMAIN vssq \subseteq DOMAIN vssq' /\ DOMAIN vssq' \subseteq Nat
      BY <3>1
    <3> QED BY <3>1, <3>2, <3>4, <3>5, <3>6
  <2>4. GrantsFirst'
    <3> SUFFICES ASSUME NEW v \in vs'.revoked, v \notin overtaken'
                 PROVE  /\ ~InAnswer(v)'
                        /\ \A i \in DOMAIN vssq' : vssq'[i].do = grant(v) =>
                             \E j \in DOMAIN vssq' : j > i /\ vssq'[j].do = revoke(v)
      BY DEF GrantsFirst
    <3>1. \A i \in DOMAIN vssq' : vssq'[i].do = grant(v) => i \in DOMAIN vssq /\ vssq[i].do = grant(v)
      BY <1>6, <2>3
    <3>2. CASE revoke(v) \in all
      <4>1. v \in visas("RevokeVisaId", all)
        BY <1>3, <3>2 DEF visas
      <4>2. ~InAnswer(v)'
        BY <1>8, <2>1, <4>1
      <4> QED BY <2>3, <3>1, <3>2, <4>2
    <3>3. CASE revoke(v) \notin all
      <4>1. v \in vs.revoked \ overtaken /\ revoke(v) \notin vs.pending
        BY <1>5, <2>1, <3>3
      <4>2. ~InAnswer(v) /\ \A i \in DOMAIN vssq : vssq[i].do = grant(v) =>
                              \E j \in DOMAIN vssq : j > i /\ vssq[j].do = revoke(v)
        BY <4>1 DEF RevocationInv, GrantsFirst
      <4> QED BY <1>8, <2>3, <3>1, <4>2
    <3> QED BY <3>2, <3>3
  <2>5. \A v : revoke(v) \in all => Queued(revoke(v))'
    BY <2>3 DEF Queued
  <2>6. NoRevocationLost'
    BY <1>10, <2>1, <2>3, <2>5
  <2> QED BY <1>7, <2>4, <2>6 DEF RevocationInv
<1> QED BY <1>11, <1>12

\* Every step keeps the revocations.
LEMMA StepKeeps == TypeOK /\ CallsOK /\ RevocationInv /\ [Next]_vars => RevocationInv'
<1> SUFFICES ASSUME TypeOK, CallsOK, RevocationInv, [Next]_vars PROVE RevocationInv'
  OBVIOUS
<1>1. ASSUME UNCHANGED <<vs, vssq, overtaken, ans, table, wk>> PROVE RevocationInv'
  <2>1. giving_up' <=> giving_up
    BY <1>1, SameMood
  <2> QED BY <1>1, <2>1, QuietKeeps
<1>2. CASE UNCHANGED vars
  <2>1. UNCHANGED <<vs, vssq, overtaken, ans, table, wk>>
    BY <1>2 DEF vars
  <2> QED BY <1>1, <2>1
<1>3. CASE Loop \/ Ping
  <2>1. CASE handle_command
    BY <2>1, HandleKeeps
  <2>2. CASE drop_command
    <3>1. /\ cmds # <<>> /\ wk' = wk /\ UNCHANGED <<vs, vssq, overtaken, table>>
          /\ ans' = reply(ans, Head(cmds).who, Failed) \/ ans' = ans
      BY <2>2 DEF drop_command
    <3>2. Failed.ops = {} /\ Failed.st = "failed" /\ worker \in Callers
      BY DifferentCallers DEF Failed, answer
    <3>3. /\ \A c \in Callers : ans'[c] = ans[c] \/ (c = Head(cmds).who /\ ans'[c] = Failed)
          /\ Head(cmds).who = worker => ans[worker].ops = {}
          /\ giving_up => giving_up'
      BY <3>1, <3>2, CommandTaken
    <3>4. \A c \in Callers : ans'[c].ops \subseteq ans[c].ops
      BY <3>2, <3>3
    <3>5. \A o : o \in ans[worker].ops => o \in ans'[worker].ops
      BY <3>2, <3>3
    <3> QED BY <3>1, <3>3, <3>4, <3>5, QuietKeeps
  <2>3. CASE run_with_reconnect \/ run \/ ping
    <3>1. UNCHANGED <<vs, vssq, overtaken, ans, table, wk>>
      BY <2>3 DEF run_with_reconnect, run, ping
    <3> QED BY <1>1, <3>1
  <2> QED BY <1>3, <2>1, <2>2, <2>3 DEF Loop, Ping
<1>4. CASE Worker
  BY <1>4, WorkerKeeps
<1>5. CASE Tasks
  BY <1>5, TaskKeeps, VssKeeps DEF Tasks
<1>6. CASE Requests
  <2>1. CASE stop
    <3>1. UNCHANGED <<vs, vssq, overtaken, ans, table, wk>>
      BY <2>1 DEF stop
    <3> QED BY <1>1, <3>1
  <2> QED BY <1>6, <2>1, TaskKeeps DEF Requests
<1>7. CASE \E new \in Decisions : push_visa_op(new)
  BY <1>7, PushKeeps
<1>8. CASE Crash
  <2>1. vs'.revoked = {} /\ UNCHANGED <<vssq, overtaken, ans, table, wk>>
    BY <1>8 DEF Crash, TypeOK
  <2>2. Calm
    BY <2>1 DEF Calm
  <2> QED BY <2>2, CalmKeeps
<1>9. CASE Restart
  <2>1. /\ UNCHANGED <<vssq, overtaken, ans, table, wk>>
        /\ vs'.revoked = vs.revoked /\ vs'.pending = vs.pending /\ vs'.node = vs.node
    BY <1>9 DEF Restart, TypeOK
  <2>2. giving_up' <=> giving_up
    BY <2>1, SameMood
  <2>3. \A v : InAnswer(v)' <=> InAnswer(v)
    BY <2>1 DEF InAnswer
  <2>4. Calm
    BY <2>1, <2>2, <2>3 DEF Calm
  <2> QED BY <2>4, CalmKeeps
<1> QED BY <1>2, <1>3, <1>4, <1>5, <1>6, <1>7, <1>8, <1>9 DEF Next

\* Nothing is granted or revoked at first.
LEMMA InitRevocations == Init => CallsOK /\ RevocationInv
<1> SUFFICES ASSUME Init PROVE CallsOK /\ RevocationInv
  OBVIOUS
<1>1. /\ vs.revoked = {} /\ cmds = <<>>
      /\ ans[worker].st = "none" /\ ans[worker].ops = {}
  BY DifferentCallers DEF Init, new_vs, answer
<1>2. NoCall(cmds)
  BY <1>1 DEF NoCall
<1>3. CallsOK
  BY <1>1, <1>2, NoCallParts DEF CallsOK, OwnAnswer
<1>4. RevocationInv
  BY <1>1 DEF RevocationInv, NotGranted, GrantsFirst, NoRevocationLost, Forgotten
<1> QED BY <1>3, <1>4

\* While the visa service knows the node, a visa that it has revoked and that is
\* still in the table has its revocation on the way: pending at the service, in
\* the answer to the registration of the VSS, or in the VSS queue (vss_worker.rs,
\* vs_worker.rs); unless the session is being ended because the VSS could not be
\* registered, or the revocation overtook the grant.
THEOREM NoRevocationIsLost == Spec => []NoRevocationLost
<1> DEFINE I == TypeOK /\ CallsOK /\ RevocationInv
<1>1. Init => I
  BY InitTypes, InitRevocations
<1>2. I /\ [Next]_vars => I'
  BY StepTypes, StepCalls, StepKeeps
<1>3. I => NoRevocationLost
  BY DEF RevocationInv
<1> QED BY <1>1, <1>2, <1>3, PTL DEF Spec

=============================================================================
