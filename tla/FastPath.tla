------------------------------ MODULE FastPath ------------------------------
(***************************************************************************)
(* One fast path worker: its poll loop (fastpath_worker.rs), its I/O       *)
(* routines (fastpath_io.rs) over a batch I/O engine (batch_io.rs), its    *)
(* pool of packet buffers, and the queues that join it to the management   *)
(* threads (packet_queue.rs, two_way_queue.rs, queues.rs, sys/notify.rs).  *)
(*                                                                         *)
(* A packet is 0, or the number of a PRIORITY packet.  What happens inside *)
(* the packets is modelled elsewhere: here every fate the code has for a   *)
(* packet is possible.  Management threads put packets and give buffers    *)
(* back at any time, also between two steps of a receive of the worker;    *)
(* a put and its notification are two steps.                               *)
(***************************************************************************)
EXTENDS Integers, Sequences, FiniteSets

CONSTANTS
    Configs,        \* what a worker may have: [engine, batch, buffers, depth], the
                    \* last one mgmt_datapath_queue_size, with two bounds:
                    \* priority and other packets that come
    ServiceDepth    \* mgmt_dispatch_queue_size, adapter_manager_queue_size

\* fastpath_main asserts the relation of the two sizes.
ASSUME FastPathAssumption ==
    /\ \A c \in Configs : c.batch \in Nat \ {0} /\ c.buffers \in Nat /\ c.buffers >= 5 * c.batch
    /\ \A c \in Configs : c.engine \in {"io_uring", "posix_unbatched"}
    /\ ServiceDepth \in Nat \ {0}

PacketQueues == {"mgmt", "requeue"}
Notified == PacketQueues \cup {"returns"}
Services == {"dispatch", "adapter_manager"}
Devices == {"tun", "substrate"}

VARIABLES
    config,                 \* FastpathWorkerConfig
    buffers,                \* number of free packet buffers
    actor_input_q,          \* number of packets for the actor
    substrate_egress_q,     \* packets for the substrate
    pc, revents,            \* where the worker is, and what poll reported
    todo, avail,            \* locals of a batch: receives left, the length read
    queue,                  \* the packet queues
    return_q,               \* number of buffers on their way back
    notify,                 \* whether each Notify has a notification
    posting,                \* number of puts that are still to be posted
    service,                \* the services' queues and guards: [len, guard]
    ready,                  \* packets the operating system has for the worker
    writable,               \* whether the substrate socket takes a packet
    issued, sent, removed,  \* PRIORITY packets: given, sent, peer gone
    arrived,                \* other packets so far
    panic

worker == <<buffers, actor_input_q, substrate_egress_q, pc, revents, todo, avail>>
outside == <<queue, return_q, notify, posting, service, ready, writable>>
history == <<issued, sent, removed, arrived>>
vars == <<config, worker, outside, history, panic>>

Init ==
    /\ config \in Configs
    /\ buffers = config.buffers /\ actor_input_q = 0 /\ substrate_egress_q = <<>>
    /\ pc = <<"out", "">> /\ revents = {} /\ todo = 0 /\ avail = 0
    /\ queue = [q \in PacketQueues |-> <<>>] /\ return_q = 0
    /\ notify = [n \in Notified |-> FALSE] /\ posting = [n \in Notified |-> 0]
    /\ service = [s \in Services |-> [len |-> 0, guard |-> FALSE]]
    /\ ready = [d \in Devices |-> 0] /\ writable = TRUE
    /\ issued = 0 /\ sent = {} /\ removed = {} /\ arrived = 0 /\ panic = FALSE

-----------------------------------------------------------------------------
(* The management threads and the operating system.                        *)

put(q, packet) ==
    /\ Len(queue[q]) < config.depth
    /\ queue' = [queue EXCEPT ![q] = Append(@, packet)]
    /\ posting' = [posting EXCEPT ![q] = @ + 1]

\* The packet is marked PRIORITY, and the caller waits until there is room.
enqueue_packet ==
    /\ issued < config.priority
    /\ put("mgmt", issued + 1)
    /\ issued' = issued + 1
    /\ UNCHANGED <<config, worker, return_q, notify, service, ready, writable,
                   sent, removed, arrived, panic>>

\* A full queue refuses the packet, and nothing changes.
try_enqueue_packet(q) ==
    /\ arrived < config.other
    /\ put(q, 0)
    /\ arrived' = arrived + 1
    /\ UNCHANGED <<config, worker, return_q, notify, service, ready, writable,
                   issued, sent, removed, panic>>

post(n) ==
    /\ posting[n] > 0
    /\ posting' = [posting EXCEPT ![n] = @ - 1]
    /\ notify' = [notify EXCEPT ![n] = TRUE]
    /\ UNCHANGED <<config, worker, queue, return_q, service, ready, writable,
                   history, panic>>

\* A service takes an item under a guard; the dispatcher handles it and the
\* adapter manager copies it.
recv(s) ==
    /\ ~service[s].guard /\ service[s].len > 0
    /\ service' = [service EXCEPT ![s] = [len |-> @.len - 1, guard |-> TRUE]]
    /\ UNCHANGED <<config, worker, queue, return_q, notify, posting, ready,
                   writable, history, panic>>

\* Dropping the guard sends the buffer back, and posts (in a step of its own).
drop_guard(s) ==
    /\ service[s].guard
    /\ service' = [service EXCEPT ![s].guard = FALSE]
    /\ return_q' = return_q + 1
    /\ posting' = [posting EXCEPT !["returns"] = @ + 1]
    /\ UNCHANGED <<config, worker, queue, notify, ready, writable, history, panic>>

Arrive(d) ==
    /\ arrived < config.other
    /\ arrived' = arrived + 1
    /\ ready' = [ready EXCEPT ![d] = @ + 1]
    /\ UNCHANGED <<config, worker, queue, return_q, notify, posting, service,
                   writable, issued, sent, removed, panic>>

BecomeWritable ==
    /\ ~writable /\ writable' = TRUE
    /\ UNCHANGED <<config, worker, queue, return_q, notify, posting, service,
                   ready, history, panic>>

-----------------------------------------------------------------------------
(* Batch I/O.  With io_uring as many operations as the ring has entries    *)
(* are submitted, and each may find the device busy or not; results are as *)
(* many as the last success.  posix_unbatched stops at the first failure,  *)
(* and reports it as an error when nothing was done before it.             *)

minimum(a, b) == IF a < b THEN a ELSE b

\* The possible sets of operations that succeed out of k.
io_uring_batch(k) == SUBSET (1 .. minimum(k, config.batch))

posix_unbatched_batch(k) == {1 .. n : n \in 0 .. k}

do_batch_op(k) ==
    IF config.engine = "io_uring" THEN io_uring_batch(k) ELSE posix_unbatched_batch(k)

reports_error(k, done) == config.engine = "posix_unbatched" /\ k > 0 /\ done = {}

\* The actor's device takes any of the packets.
try_write_batch(k) == do_batch_op(k)

\* The operating system takes the first packet if it is writable.
try_send_to_from_batch(k) ==
    {done \in do_batch_op(k) : IF writable THEN k > 0 => 1 \in done ELSE done = {}}

-----------------------------------------------------------------------------
(* Output.                                                                 *)

\* Mutant of retain: a packet that stays is not moved to the front.
retain_in_place(q, done, r, i) ==
    IF i \in done \/ q[i] = 0 THEN <<q, r>> ELSE <<q, r + 1>>

\* One step of the tally: un-sent PRIORITY packets move to the front, where
\* r of them are already.
retain(q, done, r, i) ==
    IF i \in done \/ q[i] = 0 THEN <<q, r>>
    ELSE <<[q EXCEPT ![i] = q[r + 1], ![r + 1] = q[i]], r + 1>>

\* The loop over the queue: what it has become after i steps, and how many stay.
tally(q, done) ==
    LET loop[i \in 0 .. Len(q)] ==
          IF i = 0 THEN <<q, 0>> ELSE retain(loop[i - 1][1], done, loop[i - 1][2], i)
    IN  loop[Len(q)]

\* What remains in the queue, what was sent, and the buffers that come free.
process_substrate_egress_queue(done) ==
    LET q == substrate_egress_q
        t == tally(q, done)
    IN  /\ substrate_egress_q' = SubSeq(t[1], 1, t[2])
        /\ sent' = sent \cup ({q[i] : i \in done} \ {0})
        /\ writable' \in {w \in BOOLEAN : done = {} => w = writable}

\* The queue for the actor is written out, and what is not taken is dropped.
\* The engine's error on the TUN is unrecoverable.
process_actor_input_queue ==
    /\ \E done \in try_write_batch(actor_input_q) : panic' = reports_error(actor_input_q, done)
    /\ actor_input_q' = 0

process_out_queues ==
    /\ pc[1] = "out"
    /\ process_actor_input_queue
    /\ \E done \in try_send_to_from_batch(Len(substrate_egress_q)) :
        process_substrate_egress_queue(done)
    /\ buffers' = buffers + actor_input_q + Len(substrate_egress_q) - Len(substrate_egress_q')
    /\ pc' = <<"poll", "">>
    /\ UNCHANGED <<config, revents, todo, avail, queue, return_q, notify, posting,
                   service, ready, issued, removed, arrived>>

-----------------------------------------------------------------------------
(* The loop: poll, then each source in a fixed order.                      *)

position == [returns |-> 1, pollout |-> 2, mgmt |-> 3, requeue |-> 4, tun |-> 5, substrate |-> 6]

\* The events that are still to be handled after those of slot: reading takes
\* a free buffer.
events_after(slot, events, free) ==
    {e \in events : /\ position[e] > position[slot]
                    /\ e \in {"returns", "pollout"} \/ free > 0}

\* Go on with the first of events, or with the next round.
goto(events) ==
    /\ revents' = events
    /\ IF events = {}
       THEN pc' = <<"out", "">> /\ todo' = 0
       ELSE LET slot == CHOOSE e \in events :
                            \A f \in events : position[e] <= position[f]
            IN  /\ pc' = <<slot, IF slot \in Notified THEN "consume" ELSE "">>
                /\ todo' = IF slot \in PacketQueues THEN config.batch ELSE 0

leave(slot, free) == goto(events_after(slot, revents, free))

\* Mutant of polled: without a buffer the returns are not polled either.
polled_for_buffers ==
    {n \in Notified : notify[n] /\ buffers > 0}
    \cup {d \in Devices : ready[d] > 0 /\ buffers > 0}
    \cup {o \in {"pollout"} : substrate_egress_q # <<>> /\ writable}

\* Without a buffer nothing is polled for reading but the returns.
polled ==
    {n \in Notified : notify[n] /\ (n = "returns" \/ buffers > 0)}
    \cup {d \in Devices : ready[d] > 0 /\ buffers > 0}
    \cup {o \in {"pollout"} : substrate_egress_q # <<>> /\ writable}

poll ==
    /\ pc[1] = "poll" /\ polled # {}
    /\ goto(polled)
    /\ UNCHANGED <<config, buffers, actor_input_q, substrate_egress_q, avail,
                   outside, history, panic>>

process_substrate_socket_out ==
    /\ pc[1] = "pollout"
    /\ \E done \in try_send_to_from_batch(Len(substrate_egress_q)) :
        process_substrate_egress_queue(done)
    /\ buffers' = buffers + Len(substrate_egress_q) - Len(substrate_egress_q')
    /\ leave("pollout", buffers')
    /\ UNCHANGED <<config, actor_input_q, avail, queue, return_q, notify,
                   posting, service, ready, issued, removed, arrived, panic>>

\* A receive on a queue with a Notify: consume the notification, ...
consume(n) ==
    /\ pc = <<n, "consume">>
    /\ notify' = [notify EXCEPT ![n] = FALSE]
    /\ IF notify[n] THEN pc' = <<n, "len">> /\ UNCHANGED <<todo, revents>> ELSE leave(n, buffers)
    /\ UNCHANGED <<config, buffers, actor_input_q, substrate_egress_q, avail, queue,
                   return_q, posting, service, ready, writable, history, panic>>

\* ... look how many items there are, ...
len(n) ==
    LET l == IF n = "returns" THEN return_q ELSE Len(queue[n])
    IN  /\ pc = <<n, "len">>
        /\ avail' = l
        /\ IF l = 0 THEN leave(n, buffers) ELSE pc' = <<n, "recv">> /\ UNCHANGED <<todo, revents>>
        /\ UNCHANGED <<config, buffers, actor_input_q, substrate_egress_q, outside,
                       history, panic>>

\* Mutant of reposted: what is left is not announced again.
never_reposted(n, taken) == notify

\* ... take some, and post again if more were seen than were taken.
reposted(n, taken) == [notify EXCEPT ![n] = @ \/ avail > taken]

try_recv_many_returns ==
    /\ pc = <<"returns", "recv">>
    /\ \E taken \in {IF return_q < config.buffers THEN return_q ELSE config.buffers} :
        /\ buffers' = buffers + taken
        /\ return_q' = return_q - taken
        /\ notify' = reposted("returns", taken)
    /\ avail' = 0 /\ leave("returns", buffers')
    /\ UNCHANGED <<config, actor_input_q, substrate_egress_q, queue,
                   posting, service, ready, writable, history, panic>>

-----------------------------------------------------------------------------
(* Input.  The fates of packets: for the actor, for the substrate, or      *)
(* dropped, with the buffer going back to the pool.                        *)

enqueued(packet, fate) ==
    /\ actor_input_q' = IF fate = "actor" THEN actor_input_q + 1 ELSE actor_input_q
    /\ substrate_egress_q' =
         IF fate = "substrate" THEN Append(substrate_egress_q, packet) ELSE substrate_egress_q
    /\ buffers' = IF fate = "drop" THEN buffers ELSE buffers - 1

\* substrate_egress drops the packet when its peer is gone or the encryption
\* failed; a packet that was held for a bind may also be for the local actor.
fates == [mgmt |-> {"substrate", "drop"}, requeue |-> {"actor", "substrate", "drop"}]

batch_process_packet_queue(q) ==
    /\ pc = <<q, "recv">>
    /\ LET packet == Head(queue[q])
       IN  \E fate \in fates[q] :
            /\ enqueued(packet, fate)
            /\ removed' = IF fate = "drop" /\ packet # 0 THEN removed \cup {packet} ELSE removed
    /\ queue' = [queue EXCEPT ![q] = Tail(@)]
    /\ notify' = reposted(q, 1)
    /\ avail' = 0
    /\ IF todo > 1 /\ buffers' > 0
       THEN pc' = <<q, "consume">> /\ todo' = todo - 1 /\ UNCHANGED revents
       ELSE leave(q, buffers')
    /\ UNCHANGED <<config, return_q, posting, service, ready,
                   writable, issued, sent, arrived, panic>>

\* Who gets what the fast path cannot handle.
slow_path == [tun |-> "adapter_manager", substrate |-> "dispatch"]

\* A full service queue gives packets back.
refused(s, n) ==
    IF n <= ServiceDepth - service[s].len THEN 0 ELSE n - (ServiceDepth - service[s].len)

\* Mutant of drop_and_count: a packet a service refused is forgotten.
drop_unrefused(s, dropped, slow) == dropped

\* Buffers that go back to the pool: packets dropped by the fast path, and
\* the ones a service refused out of slow.
drop_and_count(s, dropped, slow) == dropped + refused(s, slow)

get_fresh_packets == minimum(buffers, config.batch)

\* The possible results of a read into n buffers: packets read and left.
try_read_buf_batch(n) ==
    {[got |-> minimum(ready["tun"], n), left |-> ready["tun"] - minimum(ready["tun"], n)]}

\* The operating system may discard what it reported (a datagram with a bad
\* checksum).
try_recv_buf_from_to_batch(n) ==
    {[got |-> minimum(k, n), left |-> k - minimum(k, n)] : k \in 0 .. ready["substrate"]}

\* The fates of a batch that was read into fresh buffers.  When nothing was
\* read one of the engines reports an error, and the worker panics.
read_batch(d, read) ==
    LET s == slow_path[d]
        n == read.got
    IN  /\ panic' = reports_error(get_fresh_packets, 1 .. n)
        /\ ready' = [ready EXCEPT ![d] = read.left]
        /\ \E actor, substrate, slow \in 0 .. n :
            /\ actor + substrate + slow <= n
            /\ actor_input_q' = actor_input_q + actor
            /\ substrate_egress_q' = substrate_egress_q \o [i \in 1 .. substrate |-> 0]
            /\ service' = [service EXCEPT ![s].len = @ + slow - refused(s, slow)]
            /\ buffers' = buffers - n + drop_and_count(s, n - actor - substrate - slow, slow)
        /\ leave(d, buffers')
        /\ UNCHANGED <<config, avail, queue, return_q, notify, posting, writable, history>>

process_actor_tun_in ==
    /\ pc[1] = "tun"
    /\ \E read \in try_read_buf_batch(get_fresh_packets) : read_batch("tun", read)

process_substrate_socket_in ==
    /\ pc[1] = "substrate"
    /\ \E read \in try_recv_buf_from_to_batch(get_fresh_packets) : read_batch("substrate", read)

-----------------------------------------------------------------------------
Worker ==
    /\ ~panic
    /\ \/ process_out_queues \/ poll \/ process_substrate_socket_out
       \/ \E n \in Notified : consume(n) \/ len(n)
       \/ try_recv_many_returns
       \/ \E q \in PacketQueues : batch_process_packet_queue(q)
       \/ process_actor_tun_in \/ process_substrate_socket_in

Outside ==
    /\ ~panic
    /\ \/ enqueue_packet
       \/ \E q \in PacketQueues : try_enqueue_packet(q)
       \/ \E n \in Notified : post(n)
       \/ \E s \in Services : recv(s) \/ drop_guard(s)
       \/ \E d \in Devices : Arrive(d)
       \/ BecomeWritable

Next == Worker \/ Outside

Spec == Init /\ [][Next]_vars

\* The worker has a thread of its own; the services and the posts are steps
\* of threads that do not block; the network takes packets in the end.
Fairness ==
    /\ WF_vars(Worker)
    /\ \A n \in Notified : WF_vars(~panic /\ post(n))
    /\ \A s \in Services : WF_vars(~panic /\ (recv(s) \/ drop_guard(s)))
    /\ WF_vars(~panic /\ BecomeWritable)

FairSpec == Spec /\ Fairness

-----------------------------------------------------------------------------
(* Properties.                                                             *)

\* No path through the fast path, the services and the return queue loses a
\* packet buffer or frees one twice: the worker, which never allocates one,
\* would in the end have none to receive with.
BuffersConserved ==
    buffers + actor_input_q + Len(substrate_egress_q) + return_q
      + service["dispatch"].len + service["adapter_manager"].len
      + Cardinality({s \in Services : service[s].guard})
    = config.buffers

\* The worker never goes to sleep on a packet or a buffer it was not told of:
\* what is in a queue has a notification, or a thread is about to post one.
NoLostWakeup ==
    pc[1] \in {"out", "poll"} =>
        /\ \A q \in PacketQueues : queue[q] # <<>> => notify[q] \/ posting[q] > 0
        /\ return_q > 0 => notify["returns"] \/ posting["returns"] > 0

\* Where PRIORITY packet p is.
places(p) ==
    Cardinality({i \in DOMAIN queue["mgmt"] : queue["mgmt"][i] = p})
    + Cardinality({i \in DOMAIN substrate_egress_q : substrate_egress_q[i] = p})
    + Cardinality({x \in {<<"sent", sent>>, <<"removed", removed>>} : p \in x[2]})

\* A PRIORITY packet is sent once: it is not dropped on backpressure, as the
\* packets around it are, and not sent again after it was.
PriorityKeptOnce == \A p \in 1 .. issued : places(p) = 1

\* A PRIORITY packet leaves in the end, however often the socket is full and
\* however few buffers are left (unless its peer goes or the worker panics).
PriorityEventuallySent ==
    Cardinality(sent \cup removed) < issued
        ~> (Cardinality(sent \cup removed) = issued \/ panic)
=============================================================================
