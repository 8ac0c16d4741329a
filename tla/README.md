# A verification project for zpr-core

`zpr-core` implements the packet handler `ph` of a ZPR network: the same binary
is an *adapter* (at an end host, with a TUN device) or a *node* (which connects
adapters and forwards between them under visas).  This project keeps TLA+
models of the parts of `ph` that are hard to test, TLC runs that check them on
small instances, and TLAPS proofs of what matters most for every instance.

Paths below are relative to `src/adapter/ph/src/` unless they start with `src/`.
`PROJECT.json` maps every definition to the lines it models.

## 1. The system

### 1.1 Parts and how they interact

| Part | State it keeps | Operations | Talks to |
|---|---|---|---|
| ZDPR sender (`zdpr.rs`, `Sender`) | window of unacknowledged packets, queue of blocked packets, ids of sent ones, wakers | enqueue, cancel, limit retries, forget, acknowledgement, unblock, age | peer's receiver; futures of `mgmt/core.rs`; retry worker |
| ZDPR receiver (`zdpr.rs`, `Receiver`) | highest sequence number, two 64-bit bitsets | process a packet or a cancel | `mgmt/dispatch.rs`, which answers |
| Management send futures (`mgmt/core.rs`) | `PacketId` of `Sent`, `Acked`, `AckedOrCanceled` | poll, convert, cancel, limit, enqueue, drop | sender, peer table |
| Retry worker (`zdpr_worker.rs`) | whether its timer runs | tick, reset | sender of every peer |
| Transaction manager (`mgmt/txn_mgr.rs`) | next free u16 id, refcount per open id, `Notify` | open, get, reference, dereference | requests that await an answer |
| Link state machine (`link_state.rs`) | state, logical clock, timeout, AAA address, echo handle | start, keying done, hello, keep-alive, timeout, close, terminate, reset, shutdown | key management, actor authorization, TUN, address pool, visa service connection |
| Key management (`km_multiplexor.rs`, `km.rs`, `km_noise.rs`) | key manager per link, security associations | start, restart, rekey, drop | link state (`SaEstablished`) |
| Actor authorization (`actor_auth.rs`) | phase per link, generation counters | link ready and down, authorize, re-authenticate, revoke | link state, auth service, visa service |
| Peer table (`peer_table.rs`) | peers by link id, special peers | insert, look up, remove (RCU) | all of the above |
| Adapter tables (`adapter_tables.rs`, `adapter_manager_worker.rs`) | pending and active tethers | request, bind, unbind | management requests, fast path |
| Visa and forwarding tables (`visa_table.rs`, `visa_mgmt.rs`, `forwarding_tables.rs`) | visas with expiry, forwarding entries | install, expire, revoke | visa service, fast path |
| AAA address pool (`address_pool.rs`) | reserved addresses | allocate, release | link state |
| Visa service connection (`src/libnode2/src/vsconn.rs`) | connection, command queue | connect, reconnect, ping, stop | visa service |
| Visa support service (`src/libnode2/src/vss.rs`) | - | RPC calls in | visa table |
| Queues (`two_way_queue.rs`, `packet_queue.rs`, `queues.rs`) | bounded queues, notification pipes | push, pop, wait | workers |
| Fast path (`fastpath*.rs`, `batch_io.rs`) | packet buffers, egress queues, what is kept for later | poll, receive, post-process, send, requeue | tables, services' queues, sockets and TUN |
| Classifier, compression, packet buffers (`classifier.rs`, `compress.rs`, `packet.rs`) | the packet itself | classify, compress, protect, expand | fast path |
| Assembly, workers, administration, OS interface, CLI | - | start, stop, shut down | link state, peer table |

All management code of a process runs in one tokio `LocalSet`: a handler runs
to its next `await` without interruption, but what it has spawned, and what
arrives while it waits, finds the state as it is by then.  The fast path, the
dispatch of management packets and the acknowledgements run on other threads
and meet the management code under the sender's and receiver's locks.

### 1.2 What is hard here

* packets, cancels and acknowledgements that are lost, repeated and reordered,
  while the sender's window and the receiver's bitsets move (ZDPR);
* a packet whose cancel, retry limit and acknowledgement race, and a future that
  still believes it is in the queue (`mgmt/core.rs`);
* wakers and notifications: a task that sleeps while nobody will wake it
  (`Sent`/`Acked`, `txn_mgr.rs`, the retry timer);
* ids that go round while old handles are still held (`txn_mgr.rs`), and link
  ids that are used again (`peer_table.rs`);
* timeouts that fire after the state has moved on, answered by a logical clock,
  and spawned clean-up tasks that run after a link was restarted (`link_state.rs`);
* handshakes over a network that loses, repeats and delays, between key managers
  that time out, fail and are restarted, while their links are dropped (`km*.rs`);
* bind requests that wait for a visa, the next hop and the peer's tables, each of
  which may go away meanwhile (`adapter_tables.rs`, `mgmt/handlers.rs`,
  `visa_table.rs`, `forwarding_tables.rs`);
* a visa service that loses its state, and calls to it that fail after they had
  their effect, seen through two connections of which either may be the later
  (`vsconn.rs`, `vss.rs`, `vs_worker.rs`);
* buffers and notifications shared by a poll loop and other threads, with full
  queues and sockets that take a part of a batch (`fastpath_worker.rs`);
* headers that are taken apart at one end and put together at the other from what
  both know (`compress.rs`);
* a peer that falls silent in every one of those states.

`PROJECT.json` lists each of these under `hazards`, at its line, with the
properties that would catch it.

### 1.3 What makes each part correct

* **ZDPR**: a packet is processed at most once and never after its cancel was
  confirmed; the sender is told only what happened; the window never slides
  past an undecided packet; every packet sent is eventually answered; what
  waits is eventually sent.
* **Futures**: no lost wake-up; a result that happened; no panic.
* **Transactions**: exact refcounts; no id shared; no missed notification.
* **Link**: ready only with keys, carrier and a live timeout; nothing is held
  once it is down; closing and shutdown complete without the peer.
* **Actor authorization**: both ends agree on the granted address; nothing stays
  registered or installed after a link is lost; a denial is final; no message of
  a correct peer is refused; every attempt ends.
* **Keying**: the two ends never hold different keys and take them for the same;
  hello is said only with sound ones; the link comes up in the end, but for the
  cases that finding 1 and 2 are about.
* **Tethers and visas**: forwarding entries and visas of the node agree; a packet
  reaches only the actor it was sent to; no flow waits for nothing.
* **Visa service connection**: the node serves nothing the visa service does not
  know of; no revocation is lost, whichever way it comes; the node ends up
  registered again after any fault.
* **Fast path**: no buffer is lost; no notification is missed; a PRIORITY packet
  is kept, sent once and in the end.
* **Packets**: buffers have the room that is needed; what arrives is what was sent;
  compression loses nothing of a plain packet.

## 2. Modules

| Module | Models | EXTENDS / INSTANCE |
|---|---|---|
| `ZdprSender` | `Sender`: its state as a record, each method as an operator | |
| `ZdprReceiver` | `Receiver`: the bitsets as sets of bit positions, with their width | |
| `ZdprService` | the abstract promise of one session | |
| `Zdpr` | a session: sender, network, `mgmt/dispatch.rs`, receiver, bounded processor queue, retry worker | both ends; INSTANCEs `ZdprService` |
| `ZdprProofs` | theorems about `Zdpr` | `Zdpr`, `TLAPS` |
| `MgmtSend`, `MCMgmtSend` | futures over `ZdprSender`; the peer is what `ZdprService` promises | `ZdprSender` |
| `TxnMgr` | the transaction manager | |
| `MgmtProofs` | theorems about the futures and the transaction manager | `MgmtSend`, `TxnMgr`, `TLAPS` |
| `LinkState`, `LinkStateProofs` | one encrypted link, either end; theorems about it | |
| `LinkRestart` | what the restart of a link does to a ZDPR session | `Zdpr` |
| `ActorAuth`, `ActorAuthProofs` | authorization of an actor over the links that come and go: adapter's worker, node's session, messages and what their parsers refuse, calls to the visa service; theorems | |
| `Keys`, `KeysProofs` | the key managers at both ends, their signal workers, and the links as far as they start and drop keys; theorems | |
| `Tether`, `MCTether`, `TetherProofs` | adapters and a node: tether requests, binds, visas, forwarding entries and the packets that follow them; theorems | |
| `VsConn`, `VsConnProofs` | the connection to the visa service, its worker, its callers and the VSS; theorems | |
| `FastPath`, `MCFastPath` | one worker of the fast path, with both I/O engines | |
| `Wire`, `MCWire` | a packet's way through two adapters and a node | |
| `FastPathProofs` | theorems about the worker and about a packet's way | `FastPath`, `Wire`, `TLAPS` |

**ZdprSender.**  `unacked` is a function on the sequence numbers of the window
(`base .. next-1`), `blocked` and `sent` functions on packet ids; the deques of
the code are these ranges.  `settle` is the common tail of acknowledging,
cancel-acknowledging and forgetting, with both clean-up loops.  The `u64`
counters of the code start at `MAX` and wrap to 0 with the first packet; here
`MAX` is -1 and the counters are not followed to a second wrap, 2^64 packets on.

**ZdprReceiver.**  `recvd` and `canceled` are sets of positions below `Bits` (64
in the code).  `ShiftLeft` shifts by `n % Bits`, which is what a release build
of `<<=` does; a debug build panics when `n = Bits`.

**Zdpr.**  One action per call: `SendMgmt` is `send_mgmt_helper`,
`HandleAckOrCanceled` is `handle_acknowledgement_canceled_common` with its loop
that sends what the window lets through, `dispatch_mgmt_packet` pushes into the
processor's queue first and tells the receiver only when that succeeded,
`RetryTick` ages and resends.  The network is a set of messages.  With
`Lossy = FALSE` a message is never removed when it is handled: it may be heard
any number of times, in any order, or never, which covers loss and duplication.
With `Lossy = TRUE` handling takes it, it may be lost, and only a retry puts it
back, which is what liveness needs.

**MgmtSend.**  A future is a record of its kind, its `PacketId`, whether its task
is parked and what it resolved to.  `Follow` wakes the futures whose wakers the
sender took in the step.  A panic is recorded in `panicked` with its site.

**TxnMgr.**  `deref_txn` frees an id under the lock and notifies afterwards:
`notifying` counts the threads between the two.  `MgrDropped` models handles
that outlive the manager (a `Weak` that no longer upgrades).

**LinkState.**  Handlers are operators on the link's record, composed in the
order of the code's calls (`continue_close`, `clean_up_link_state`,
`complete_close`); tasks they spawn are counters in the record and actions of
their own.  A timeout callback carries the logical clock it was made with and is
heeded only if the clock has not moved (`heeds`).  The model assumes one thing
about time: clean-up tasks of a link (`drop_link`, the wait for the key manager)
end before its hold-down does, so `process_start` waits for them.

**ActorAuth.**  The adapter's `run()` is one action per point at which it waits
(offer, authentication, grant, acknowledgement of an Abandon, backoff);
`link_down` ends it wherever it is.  The node's handlers take messages from the
link's processor queue in order; a message is acknowledged when it is in that
queue, not when it is handled.  A handler that returns an error ends the link,
as `mgmt_processor_worker.rs` has it.  Authorizations are commands in VSConn's
queue, whose answers find the session that asked for them, or a later one, or
none.  The visa service is external: it assigns any address, denies, or fails.
The model takes from ZDPR that messages of a link are delivered at most once and
do not reach a later link, and from LinkState that a link is closed on both
sides before the next one is made (`LinkRestart` shows what happens to the first
assumption when an adapter's link restarts: finding 1).  `asks` is how many
addresses the adapter asks for; the parsers (`parse_*`, `valid_auth_status`) and
validators are predicates on the fields of a message, and a message that one of
them refuses is an error of the handler that called it.

**LinkRestart.**  `Zdpr` with one more action.  `complete_close` removes the peer
at the node, and the next handshake inserts a new one; the adapter keeps its peer
and calls `process_start` again.  So `Restart` makes one end of the session new
and leaves the other as it is; either end may be the adapter's.

**Keys.**  A handshake is a sequence of draws: two ends hold the same keys exactly
when they have the same transcript, which is all the cryptography is used for.
The key manager's record has the fields of `KmNoise` that control it (state,
message number, timer, keys, peer's certificate, restart request, cancellation
token).  Its methods (`reset`, `handle_message`, `timeout`) are operators on that
record; its thread is the action that takes an event; `km_multiplexor.rs` is the
signal worker's actions, with `ErrorStatus` and the delay before a restart.  The
link is down, keying, helloing or up; `drop_link` may run at any time.  `Crash`
is an adapter's process that ends while another one starts at its address.

The adapter's peer outlives its link (finding 1), and two things of its ZDPR state
decide whether the next link comes up.  `heard`: its receiver has taken packet 0 of
a node's peer, so that packet 0 of the next one, the answer to the next hello, is
acknowledged as a duplicate and not taken (`worn`); the hello then times out and the
link is closed again.  `owed`: its sender holds a terminate that was not
acknowledged, which `zdpr_worker` repeats over the keys of the next link (`Repeat`),
with whatever else is unacknowledged; the node closes its new link on such a
terminate, or as an error on a hello that it does not expect.  That the sequence numbers of
such an adapter are in the end too new for a new receiver (after more links than a
window has numbers) is in the model as a terminate that may get lost without being
counted as a fault.

**Tether.**  One variable per process: an adapter has its pending and active
tethers and its DLT, the node its peer table, forwarding tables, visa table and
the two tables of binds that wait.  Handlers are operators on the node's record
that also collect what it sends, in the code's order of look-up, slot, send and
answer.  A bind response of a transaction that the adapter does not have any more is
an error that closes its link (`adapter_link_down`), and a node that has no
transaction id left for its next hop panics (`no_txn_left`).  A packet is sent over
a tether only from the adapter's own address, and accepted only for it
(`adapter_owns_address`).  A session's messages are dropped with it.  A link id is given out
again as soon as the peer is gone (`DropPeer` is the RCU's last reader), and
whatever still holds the old id meets the new peer.  Traffic classes have a
port or leave it open (0), so one visa may cover two flows.  A panic is
recorded in `panic` and stops the system.  The visa service, external, gives out
each visa id once; a reconnecting adapter is a new process; at most one packet is
under way.

**VsConn.**  `conn` is where `run` and `run_with_reconnect` are, `cmds` the command
channel, `ans` what the callers' oneshot channels hold.  A command is taken, its
call made and its answer sent in one action with three outcomes: it worked, it
failed before it had an effect, or after.  `wk` is `vs_worker` between the
lifecycle events it reads.  The VSS has a connection of its own, so a revocation
may overtake the grant it is about (`overtaken`).

What the visa service decides of its own accord, grants and revocations, is in
`vs.pending` until it has told the node: in a list that it pushes to the VSS if it
knows one, in the order it likes, or in the answer to `register_vss`.  `vss_worker`
goes through a list one operation at a time and stops at the first that fails; the
answer says how many were processed.  `registered` goes through the other list to
its end.  Two assumptions are made of the visa service, which is not in this
repository: it does not push a grant again that failed, and it keeps revocations that
the answer says were not processed.  For the latter it must look at the count: the
answer is `ok` when anything at all was processed (`src/libnode2/src/vss.rs:175`).
What it has put into the answer to `register_vss` it has told.  On a stop, a notice
that it refuses is only logged; one that fails makes the run loop dial again
(`handle_stop`).

**FastPath.**  The worker's loop is followed statement by statement where the
others can come between (`pc`), and batch by batch elsewhere.  Buffers are
counted, only PRIORITY packets have an identity.  The services' queues are
two-way: a guard that is dropped gives the buffer back through `return_q` and
posts.  `Notify` is a pipe that is emptied when it is read (`sys/posix/notify.rs`):
a Boolean.

**Wire.**  Headers are records and the rest of a packet is a sequence of 16 bit
words, so that checksums are computed and compression works by position, as in
the code; `total` adds them up.  `skip_options` follows the chain of extension
headers from one to the next, as `classify_next_header` calls itself.  A packet that
ends where its first extension header or its ICMP header should be (`cut_short`)
makes the classifier panic, which is a result of its own.  A buffer is its
headroom and length, and each operation remembers whether its assertion held.  A
MAC is the value it is computed over.

`Zdpr`, `MgmtSend`, `TxnMgr`, `LinkState`, `ActorAuth` and `Tether` state a
type invariant (`TypeOK`; `TxnTypeOK` in `TxnMgr`).  It is checked in `ZdprSafety`
and proved for `Zdpr`, `TxnMgr` and `LinkState`; the inductive invariants of the other proof modules say what has
which type.  The other runs list only properties that say more.

## 3. Runs

| Run | Instance | What it shows |
|---|---|---|
| `ZdprSafety` | window 2 of 3 bits, queue 1, 4 sequence numbers, 2 queued packets, `RetryMax` 1, retry limit 1, nothing leaves the network | `TypeOK`, `AtMostOnce`, `ReportsAreTrue`, `WindowCoversUndecided`, `OutstandingIsAcceptable`, `RetryIsScheduled`, and that the session implements `ZdprService` |
| `ZdprLive` | 2 sequence numbers, 1 queued packet, lossy network, fairness | `EventuallyAnswered`, `UnblockedUnlessCanceled` |
| `MgmtSend` | 3 futures, window 2, all calls, symmetry | `NoLostWakeup`, `ResultsHappened`, `PollsNeverPanic` |
| `TxnMgr` | 3 ids, 2 tasks, 2 handles an id, 2 notifiers | `RefcountExact`, `NoMissedNotify`, `NoSharedIds`, `FreeIdWakes` |
| `LinkState` | every kind of link, clock 9, 2 events from outside | `ReadyIsSound`, `NothingHeldWhenDown`, `CloseCompletes` (closing and shutting down) |
| `LinkRestart` | a session as in `ZdprLive`, 2 links | *violation* of `AckedIsTaken` (finding 1) |
| `ActorAuth` | 2 links, 3 attempts, 2 transaction ids, 2 addresses, 1 failing call | `AgreedAddress`, `NoOrphanedRegistration`, `NoProtocolErrors`, `DenialIsFinal`, `AttemptsEnd` |
| `Keys` | every certificate, queue of 2, 1 fault, 1 close, 16 draws, 5 before a link is started again over what was kept | `KeysAgree`, `KeyedIsSound`, `EventuallyUp` |
| `Tether` | 2 adapters, 2 link ids, 3 flows, two one way and one back, 2 visas, 2 transaction ids, 1 session that ends, 1 packet, 1 request without answer, tables of 1 and 2 slots | `RoutesFollowVisas`, `DeliveredAsSent`, `PendingIsUnderway` |
| `VsConn` | 1 adapter, 2 visas, requests while there is at most 1 command in the channel, 2 events: faults, stops, or what the visa service decides | `SyncedWhenServing`, `NoRevocationLost`, `EventuallyServing` |
| `FastPath` | io_uring with 5 buffers and batches of 1; both engines with 10 buffers and batches of 2 | `BuffersConserved`, `NoLostWakeup`, `PriorityKeptOnce`, `PriorityEventuallySent` |
| `Wire` | every protocol, IPv4 and IPv6, options, chains of extension headers, headers cut short, fragments, hop limits 0 to 3, damage, a TCP checksum of 0 in both forms; 6 sizes of management messages | `PacketsFit`, `DeliveredIntact`, `PlainArrives` |

Ten more configurations each show one disagreement between the code and what it
says of itself; TLC ends them with a counterexample.  Section 5 discusses them.
They are run by hand: `tlc -config X.cfg M`.

| Configuration | Module | Property that is violated | Finding |
|---|---|---|---|
| `KeysHello` | `Keys` | `HelloTimesOut` | 2 |
| `WireV4` | `MCWire` | `RoundTrip` | 3 |
| `ZdprForget` | `Zdpr` | `EventuallyUnblocked` | 4 |
| `ZdprFullWindow` | `Zdpr` | `AtMostOnce` | 5 |
| `MgmtStatus` | `MCMgmtSend` | `AckedMeansTaken` | 6 |
| `MgmtPanic` | `MCMgmtSend` | `NoPanic` | 7 |
| `VsConnLost` | `VsConn` | `ReconnectsWhenLost` | 8 |
| `TetherAssert` | `MCTether` | `NodeAssertionsHold` | 9 |
| `VsConnRevoked` | `VsConn` | `RevocationsTakeEffect` | 10 |
| `WireShort` | `MCWire` | `ClassifierAnswers` | 11 |

**Why the bounds are enough.**  Window 2 of 3 bits is the smallest instance in
which the window slides, the bitset drops a position and a packet is too old;
four sequence numbers go twice through the window, and the window starts at 1
until the Hello's TLV opens it.  Two queued packets are needed for one that is
canceled behind another.  A retry limit of 1 with `RetryMax` 1 reaches each
branch of `age`.  Three futures on a window of two (of one, before the TLV) have
one in the window, one about to enter and one behind.  Three ids with two tasks
go round with one id still open while a task waits for it.  The clock bound of
LinkState admits a full life of a link, its close, and a restart into a second
life; two outside events suffice to interrupt a close with another (terminate
during disconnecting, reset during closing, shutdown during either).  Two
links and three attempts let the answer of an earlier link meet a second attempt
of a later one, with the same or another transaction id and address.

One fault and one close suffice in `Keys` for a handshake that is cut off at each
of its messages while the other end has gone on.  With 16 draws one more handshake is always
possible, except for an adapter that is stuck and tries for ever, which
`EventuallyUp` names.  A link that is started again although the adapter's peer has
kept something of an earlier one makes no use of its handshake, so those are bounded
on their own (`MaxAgain`): the run that has used them up is one that ends `worn` or
`owed`, as the endless one does.  In `Tether` two binds meet in
each table, whether it has room for one or both; two visas, of which one leaves the
port open, are what is needed for a flow that loses one and is bound again under
the other; one session that ends, of either adapter, is enough for its link id to
be given out again while the old one is still in use; a second packet would only
repeat the first.  In `VsConn` two events are a lost connection with a failure in the
recovery from it, a visa service that loses its state after it has decided something,
or two lists, of a grant and of the revocation of what was granted before, of which
the first may stop half-way.  Requests of the adapter and stops wait while two
commands are in the channel (its capacity in the code is larger); the worker's own
commands and the notices of links that go do not wait, so that there are more at
times.  In `FastPath` 5 packets other than the PRIORITY one use up
the 5 buffers of the smallest worker `fastpath_main` accepts, and batches of 2
are needed for one of which the socket takes a half.  In `Wire` the sizes
(buffer 300, headroom 64, overhead 24) keep the code's proportions, with
messages on both sides of every boundary between them.

The sequence number bound of `Zdpr` is also what keeps the number of messages
finite: the theorems below lift it, and the windows with it.

`CHECK_DEADLOCK FALSE` is given throughout: a session with nothing to send, a
link that was removed and an instance that has used up its bounds may stop.

**Fairness.**
* `Zdpr`: weak fairness of the retry worker and the management processor, which
  are tasks of a running executor; strong fairness, per sequence number, of
  hearing a packet (or its cancel) and of hearing back: the substrate may lose
  any number of copies, but not all of infinitely many.  Callers that forget
  canceled packets (`CallersForget`) are assumed only in `ZdprForget`, because
  the code requires it of them.
* `TxnMgr`: a thread that left the lock to notify does so.
* `LinkState`: timers fire and spawned tasks run; the key manager and VSConn end
  when told to.  **Nothing is assumed of the peer**, so closing and shutdown
  complete by the code's own timeouts.
* `ActorAuth`: tasks run, ZDPR delivers while the link lasts, the visa service or
  a timeout answers each call, and keep-alives tell the adapter that the node has
  given the link up.  No attempt need ever be started.
* `Keys`: weak fairness of `Progress`: threads, the signal worker and timers run,
  and what was sent and not lost arrives.  `EventuallyUp` is claimed of behaviours in
  which the adapter is not for ever `worn` or `owed` (finding 1), and where no end is
  `stuck` (finding 2).  Faults, closes and crashes are bounded
  and need not happen; each message that is lost must be made good by a timeout.
* `VsConn`: the run loop takes commands and connects, pings are made, `vs_worker`
  reads its events, and a visa service that crashed is started again.
* `FastPath`: the worker's thread runs, a put is followed by its post, services
  take packets and drop their guards, and a full socket becomes writable.
* `Tether` and `Wire` state safety only.
* `MgmtSend` states safety only; that a parked future is woken follows from
  `NoLostWakeup` together with `EventuallyAnswered` of `Zdpr`.

Every property of a passing run has a mutant of the code in `PROJECT.json` (a
dropped guard, an off-by-one, a missing clean-up) under which TLC finds it
violated; the mutated forms stand before the definitions they are forms of.

## 4. Proofs

### 4.1 ZdprProofs

All theorems hold for every `Window`, `Bits`, `QueueSize`, `RetryMax`, set of
retry limits and number of packets, under the assumptions of the modules and
`Window < Bits`.  That hypothesis is necessary: `ZdprFullWindow` refutes
`AtMostOnce` for `Window = Bits`.  The configured window (32) satisfies it.

| Theorem | States |
|---|---|
| `Invariance` | `Spec => []IInv` |
| `TypeCorrect` | `Spec => []TypeOK` |
| `DeliveredAtMostOnce` | `Spec => []AtMostOnce` |
| `TrueReports` | `Spec => []ReportsAreTrue` |
| `WindowIsSafe` | `Spec => []WindowCoversUndecided` |
| `Acceptable` | `Spec => []OutstandingIsAcceptable` |
| `NoErrors` | `Spec => []NoWindowErrors` |
| `RetryScheduled` | `Spec => []RetryIsScheduled` |
| `Refinement` | `Spec => ServiceSpec`, the refinement of `ZdprService` |

None of these properties is inductive.  `AtMostOnce` speaks of history, while
the receiver decides by two bitsets that forget; and the receiver may forget a
packet only because the sender's window has not slid past anything undecided.
`IInv` ties the two together:

* `Sound(snd, delivered, refused)`: the sender's ranges and entries have their
  types, everything below `base` was decided, an `Acked` entry was decided and a
  `CancelAcked` one refused, and `next - base <= Window`;
* `Represents(rcv, delivered, refused)`: bit `i` of `recvd` is set exactly when
  `highest_seen - i` was decided (or is below 0), bit `i` of `canceled` exactly when it was
  refused, and everything that has left the bitset was decided;
* `NetSound`: every acknowledgement on its way is for a delivered packet, every
  `Canceled` for a refused one, and no message is for a packet not yet sent;
* the rest: `highest_seen < next`, reports are true, nothing was redelivered,
  and `InvalidAck` is the only error counted.

The argument: a packet within the sender's window is neither too old nor too new
(`NotTooOld`, `NotTooNew`: the oldest packet the receiver misses is not below
`base`, and the window is smaller than the bitset); so what the receiver accepts
is new (`AcceptedIsNew`), the shift keeps the bits exact because it is by less
than `Bits` (`ShiftExact`, `AcceptRepresents`), and what it answers is what
happened (`RepeatedIsDecided`, `AnswerSound`).  On the sender's side each method
keeps `Sound` (`EnqueueSound`, `SettleSound`, `UnblockSound`, ...), and there is
one step lemma per action.  `RetryScheduled` adds the retry timer on top of
`IInv`; `Refinement` maps each action to a step of `ZdprService` or a stutter.

### 4.2 MgmtProofs

**The futures.**  `FuturesAreWoken`, `ResultsAreTrue` and `PollingNeverPanics`
(`NoLostWakeup`, `ResultsHappened`, `PollsNeverPanic`), for any set of futures,
window and retry limits.  None of the three is inductive: whether a poll panics
depends on which of the sender's tables a packet is in, and those move it on while
its future sleeps.  `SendInv` has the two sides of that:

* `SenderOK`: the counters are in order and each deque has an entry for each of its
  numbers (`Counters`, `Deques`), and what has left the window or is marked as
  answered was decided by the peer (`Decided`);
* `FutureOK`, for each future: what it has resolved to, or will, is what happened
  (`Results`); its packet is in `blocked`, or in `sent` under the sequence number it
  was given, or was decided and has left both (`Place`); the `PacketId` it remembers
  is consistent with that, however old it is (`Knows`); and if it is parked its
  waker is in the entry that the next change to its packet goes through (`Waker`);
* no two futures are about the same packet (`Unshared`).

`Keeps(s, t, C, ...)` is what the operations of the sender have in common, seen by
those who have sent packets: those that wait go on waiting with their wakers or are
sent, except the ones (`C`) that were canceled; what was sent stays until it is
decided; what is unanswered was so before and keeps its waker.  There is a lemma
for each operation of `ZdprSender`, the loops that pop answered entries from the
front of a deque included; the loop stops at the first entry that is not, and
`LeastNat` gives it.  A future whose step it is not then keeps `FutureOK` by `Keeps`
alone, and only the future that is polled, converted, canceled or dropped has to be
looked at for itself.

**The transaction manager.**  `TxnInvariance`, `RefcountsExact`, `NotifyNotMissed`
and `IdsNotShared`, for any number of ids, tasks, handles and notifiers.  The
invariant `TxnInv` is `TxnTypeOK /\ RefcountExact /\ NoMissedNotify`: exactness of
refcounts is what makes the freed id the one no handle is left of, and the
notification argument is the one the comment in `deref_txn` gives, now as an
invariant: a task is registered only while the next id is taken or a notification
is on its way.

### 4.3 LinkStateProofs

`LinkTypeCorrect`, `LinkReadyIsSound` and `LinkNothingHeldWhenDown`, for every
kind of link and every bound on its clock and on events from outside.  A handler
is a chain of operators on the link's record, so the invariant has two layers.
`Held` is kept by each operator, also in the middle of a handler: an address of
the pool is reserved exactly while the link has an AAA address, a TUN address
needs an installed one, and a link with a `drop_link` or a wait for its key
manager under way has given up everything else.  `Stated` holds between handlers
and says what each state implies: readiness is being up in `Active`, a link in
`Keying`, `Helloing` or `Active` has its key manager and no clean-up task left,
`Helloing` and `Active` have an association, `Active` a live timeout and, at an
adapter, carrier and authorization, and `Inactive`, `Keying` and `Helloing` have
nothing of an earlier life.  `NothingHeldWhenDown` is
not inductive without the second: what is there when a link goes down is what was
acquired in the states before.

### 4.4 ActorAuthProofs

`AdapterAndNodeAgree`, `NoRegistrationIsOrphaned`, `NothingIsRefused` and
`DenialStays` (an action property), for any transaction ids, finite set of
addresses and number of links, attempts and failed calls.

The agreement of two ends over messages is a statement about where an attempt
is.  `InStep` lists its stages on a link that is up at both ends (`Resting`,
`Asking`, `Offered`, `Proving`, `Acquiring`, ..., `Abandoning`), each with the
adapter's worker, the node's state and the one or two messages between them; every
action leads from one stage to another.  `Flow` and `Reply` say what remains of
that when the link is up at one end only: the node is in the state that the
messages in its queue need, and no reply reaches an adapter that does not wait for
it.  `NothingIsRefused` follows from these two, `AgreedAddress` from the stage.
`Registrations` accounts for each address the visa service holds: the node's, one
in a success that nobody has read, or one that a `notify_disconnect` in the queue
removes; `lost` collects those whose removal failed.  It is stronger than
`NoOrphanedRegistration`, which counts any answer: an answer that is a failure
would be read without deregistering anything.  `Denial` (a latched denial leaves no worker that could ask again) is what
makes `DenialIsFinal` a consequence of single steps.

### 4.5 KeysProofs

`TheEndsAgree` and `HelloIsKeyed`, for any set of certificates, with and without
an authority, and any queue size and number of faults, closes, crashes and draws.

`EndOK` is about one end: what its key manager's state says of its transcript,
that what it signals is of its own handshake, that a key manager which has to agree
on keys while an association of an earlier one is left hears nothing, and what each
state of the link has.  `Keyed` is about both.  Its five parts rest on one fact
about random values, which the model keeps by counting: a draw is new, so draws are
ordered in time.  `Forms` gives the transcripts of the three messages; `Latest`:
the adapter's own draw is the latest in use and it completes one handshake at most
with it; `OnceAnswered`: so does the node; `Ordered`: a handshake that was completed
is the only one of its first draw, and the adapter's later draws come after the
node's; `Remembered`: what the adapter holds is the last it completed, what the node
holds the last it answered.  The last two are what excludes that the ends remember
different handshakes although messages are repeated and come late: for the node to
answer an older first message it would have to have forgotten what it holds, and
`drop_link`, reset and crash all make it draw again.

### 4.6 TetherProofs

`RoutesAreOfVisas`, `ActorsGetTheirOwn` and `PendingFlowsAreUnderway`, for any
adapters, link ids, flows, policy and table sizes and any number of binds, visas,
sessions that end, packets and cancels.  It is assumed that every adapter can have
a link id of its own (an injection into `Links`) and that a flow's port is not 0,
which stands for any port in a traffic class.

The invariant has a part for each table.  `Peers`, `Visas`, `Routes`, `Hops`: link
ids and owners are unique, a visa is the one issued under its id, forwarding
entries and streams correspond and no slot has two, a next hop is asked in a
transaction of its own.  `Messages`: an egress adapter is asked only about a visa
that was issued for traffic to itself.  `Underway` and `Asking` account
for each pending flow and each question to the visa service; they are claimed only
until the node has panicked (finding 9).  `AdaptersOK`: an adapter's tethers are for
flows of its own, a DLT entry for a visa that was issued for traffic to it.
`Carried`: a packet is of a flow of the adapter that has sent it.  `NodeStep` is the lemma the handlers have in common: what a handler that
settles a request or sends something does to all parts at once.  `DeliveredAsSent`
then follows at the egress adapter alone, from its DLT and the MICV, and needs
nothing of the node's tables: that is as it should be, because those may be stale
(section 5).

### 4.7 VsConnProofs

`NoRevocationIsLost` (`NoRevocationLost`), for any finite set of adapters and any
number of visas and events.  A visa and its revocation reach the table on four ways: a
grant in the answer to a request, and both in a list that is pushed and in the one that a
registration brings.  The property is not inductive, because a grant that is
still on its way may undo what a revocation has done.  `RevocationInv` adds:

* `NotGranted`: the visa service has no grant pending of a visa that it has revoked;
* `GrantsFirst`: a grant that is on its way once the node has been told of the
  revocation is ahead of it in the VSS queue, or recorded in `overtaken`.  With a
  list that stops at a failure this rests on `unprocessed`: the revocations of the
  rest of the list are pending again, and what else is in the rest is never done;
* `CallsOK`: one call of `vs_worker` is under way at most, and the list in its answer is
  there only while it waits for a registration.  So no list of revocations reaches a
  worker that has given the call up and will not read it.

`ServesWhatIsKnown` is about what the node serves after it has registered again.
Its invariant `SyncInv` follows commands and lifecycle events in two queues against
where `vs_worker` is:

* `Shape`: an adapter has one authorization and one visa request under way at most,
  and the notice of its last session is ahead of its next authorization in the
  command channel; the visa service has a handle only for a node that is registered;
  every visa was issued for an adapter.
* `WorkerOK`: of `vs_worker` itself one command is in the channel at most, and no
  connect is left from an attempt it has given up (`Sole`); while it retries it has
  read all events and there is no handle, and a start among the events is the last
  one and of a run that has no handle yet (`Dialing`).
* `Synced`, by where the worker is: `BlankOK`, before a connect without state no
  adapter is up and no bound visa is left; `ResetOK`, in the middle of the reset only
  the adapters that remain to be reset are up; `KnownOK`, otherwise the visa service
  knows each adapter that is up or about to be, and has issued each visa in use and
  each one granted, unless it has forgotten the node itself.
* `Escaped`: the last two are claimed until a registration of the VSS has failed
  (which `SyncedWhenServing` excepts), the worker has disconnected or panicked, or
  the run loop has stopped.

The proof rests on the order of the channel: `reset_peer` spawns the notice
(`actor_auth.rs:663`) before a later session can spawn its authorization
(`actor_auth.rs:540`), each task sends before it waits for anything else, and both
run on one `LocalSet`, which polls tasks in the order they were spawned.  A notice
that came second would remove the adapter's new registration.  With that order
`SyncedWhenServing` could be stated without its former exception for an adapter
whose notice is still in the channel: such an adapter is not up.

### 4.8 FastPathProofs

**The worker.**  `BuffersAreConserved`, `NoWakeupIsLost` and `PriorityIsKeptOnce`, for every set of
configurations `fastpath_main` accepts (five batches of buffers at least), both
engines, any depth of the services' queues and any number of packets.  Besides the
types, `HasBuffer` says that the worker receives only when it has a buffer,
`Wakeups` extends `NoLostWakeup` into the middle of a receive, where the pipe is
read before the queue (what came after the worker looked has been told of), and
`Kept` says that a PRIORITY packet is in one place and never twice in a queue.
`TallyKeeps` is the lemma about the loop that sorts a batch by the results of its
operations: for a batch of any length it keeps the PRIORITY packets that were not
sent, each once, and nothing else.  `tally` is a recursive function over the batch,
and the proof looks at the first step of the loop at which its invariant would fail.

**A packet's way.**  `BuffersFit`, `WireDeliversIntact` and `PlainPacketsArrive`
(`PacketsFit`, `DeliveredIntact`, `PlainArrives`), for any set of packets, of
any number of words of any value, every compression mode, every headroom of 64 bytes at
least, and every size of buffer that the packets and messages with their headers
and tags fit into.  `WireAssumption` says so, and what it says besides is what a
packet is: the fields of a version that has them.  Nothing is assumed of checksums or
lengths: the classifier refuses what is wrong, or panics on it (finding 11).

`WireInv` says what the packet and its buffer are at each stage.  The content is
`Forwarded` (the hop limit lowered) or `Compressed`; the buffer is exactly as long as
the headers, content and MACs of that stage, and starts where the headers that have
been pushed and the bytes that compression has freed (`Saved`, 15 to 41) put it.
`PacketsFit` is then arithmetic: in particular the egress adapter, which has to make
room for what `expand` brings back, needs the 64 bytes of headroom.  The rest is about
what the operators compute:

* Sums.  `total` is a recursive function, so there is no induction over the words;
  the proofs look at the first index at which two such functions would differ
  (`FirstNat`, `TotalIsASum`).  `ChecksumInPlace`: a checksum that is computed with 0 in
  its place is the one with which the sum comes out right, and the only one,
  except that 65535 is as good as 0.
* The classifier.  `PacketPassed` and `PlainPassed` say what it takes for a packet to
  be passed: long enough for the headers that are compressed, of the length it
  states, its checksum right.
* Compression.  `UdpRestored`, `TcpRestored` and `PlainRestored`: what `expand` makes of
  `compress` is the packet again, the lengths from the length of the buffer, the ports
  from the traffic class, the checksum from the rest.  `RestoredPasses`: whatever is
  delivered passes the classifier, the IPv4 header with its new checksum too.

The proof of `PlainArrives` failed at first, and rightly: a TCP packet whose
checksum is 0 and was sent as 65535 passes the classifier (`0` and `65535` are the
same in one's complement) but is restored with 0, so its MICV does not hold.
Senders that complement a sum do not make one unless the sum is 0, which a pseudo
header never gives; `PlainArrives` excepts it by name (`minus_zero`) and the run has
such packets.

### 4.9 What is only model-checked

* Liveness (`EventuallyAnswered`, `UnblockedUnlessCanceled`, `FreeIdWakes`,
  `CloseCompletes`, `AttemptsEnd`, `EventuallyUp`, `EventuallyServing`,
  `PriorityEventuallySent`) needs fairness, which is out of the prover's reach.
  Every other property that a passing run lists, invariant, action property or
  refinement, is a theorem.
* The ten configurations of section 3 that are run by hand: they show what does
  not hold.

## 5. Findings

1. **A restarted link acknowledges what it does not take** (`LinkRestart`, listed
   in `PROJECT.json`).  The adapter's peer, with its ZDPR sender and receiver,
   outlives the restart of its link (`link_state.rs:903`), whereas the node's peer
   is new.  The node's first packet, the HelloResponse, has sequence number 0,
   which the adapter's receiver has seen: it is acknowledged as a duplicate and
   never processed.  In the other direction the node's new receiver takes the
   adapter's sequence numbers for too new once they are a window ahead.  The link does
   not come up: the hello of the adapter times out, and so on for ever.  A terminate
   that was not acknowledged is repeated over the next link and closes that.
   `EventuallyUp` in `Keys` excepts exactly these behaviours.
2. **A node's link may wait in Helloing for ever** (`KeysHello`).
   `src/diagrams/actor_authorization.md:22` has `Helloing --> Error: Hello timeout`;
   `link_state.rs:562` sets a timeout at the adapter only, and none in Keying at
   the node either.  With an adapter that has started again meanwhile the link
   never comes up: an end that has an association takes no more handshakes.

3. **No IPv4 packet survives a hop** (`WireV4`).  `decrement_ttl`
   (`fastpath.rs:1125`) does not update the IPv4 header checksum, the MICV is
   computed over the packet with the stale one, and `expand_ipv4` computes it
   afresh: every such packet ends as a MicvFailure.  The round-trip test of
   `compress.rs` has no decrement between its two halves, so it does not see it.
   Latent: actors' addresses must be IPv6 today.
4. **A forgotten packet opens the window and nobody uses it** (`ZdprForget`).
   `forget_canceled_packet` may remove the front of the window; only an
   acknowledgement runs the loop that sends waiting packets, and after the last
   answer none will come.  `zdpr.rs:885` says of `unblock_needed`: "While this is
   true, the caller should process those packets".
5. **A window of 64 shifts a 64-bit set by 64** (`ZdprFullWindow`).  `Receiver::new`
   admits it (`zdpr.rs:1165`, "must be at most `MAX_WINDOW_SIZE`"), the default of
   32 does not reach it.
6. **A canceled packet may be reported as `Acked`** (`MgmtStatus`).
   `clean_sent_queue` drops cancel-acknowledged entries too, so `lookup_seq_num`
   gives `None` for them, against its doc (`zdpr.rs:754`).
7. **Canceling may panic** (`MgmtPanic`): `try_cancel` of a packet behind another
   (`mgmt/core.rs:335`), and `request_cancel` of one that was acknowledged
   meanwhile (`mgmt/core.rs:271`).
8. **A lost connection is not always noticed** (`VsConnLost`).
   `run_with_reconnect` promises to "attempt to reconnect if the connection to the
   VS is lost" (`src/libnode2/src/vsconn.rs:245`), but the run loop learns of the
   loss only from failing pings, and it pings only while it has a handle: a
   connection that dies before the node has registered over it is kept.
   `EventuallyServing` excepts exactly this case.

9. **Assertions of the node that a correct run breaks** (`TetherAssert`).  When the
   egress adapter's link goes down while the visa service is asked,
   `visa_mgmt::insert_visa` finds no egress link for the granted visa, and
   `visa_request_task` panics on it ("Got unexpected error type",
   `mgmt/node.rs:272`).  When the ingress adapter comes back on the link id it had
   while its earlier bind still waits for the next hop,
   `resolve_next_hop_bind_originator` finds no request there ("should never
   happen", `mgmt/node.rs:827`).
10. **A revocation that overtakes its grant has no effect** (`VsConnRevoked`).  The
   revocation of a visa that is not in the table succeeds: "If the visa is gone we
   consider it "revoked"" (`visa_table.rs:301`).  But the visa may not have come
   yet: a grant in the answer to `visa_request` comes over one connection and its
   revocation over the other.  The visa is inserted afterwards, and nobody will
   revoke it.  `NoRevocationLost` excepts such visas by name (`overtaken`).
11. **The classifier panics on headers that are cut short** (`WireShort`).
   `classify_icmp` and `classify_icmpv6` take the first four bytes
   (`classifier.rs:360`, `:379`), `skip_v6_option`, `skip_auth_header` and
   `classify_frag` the first one or two (`classifier.rs:301`, `:320`, `:337`) of what follows
   the IP header, before any check of its length.  A panic ends the process
   (`panic = "abort"`, `src/Cargo.toml:34`), where `actor_output` expects an `Err`, on
   which it drops and counts the packet (`fastpath.rs:260`).

Observations made while modelling, without a configuration of their own.  Links
and keys:

* a `SaEstablished` that was on its way when the link was dropped leaves a
  security association on an inactive link (`km_multiplexor.rs:122`);
* `process_terminate_link` and errors overwrite `Resetting` with `Closing`
  (`link_state.rs:977`), so an adapter's link that was to be destroyed restarts.

Reliable session and futures:

* a `Canceled` that is repeated after the packet was forgotten is counted as
  `InvalidAck`, a protocol error although both peers are correct (this is why
  `NoWindowErrors` leaves it out);
* an `AckedOrCanceled` that is dropped or enqueued while its `PacketId` is still
  `Queued` never forgets its packet, though `forget_canceled_packet` is required.

Authorization and tethers:

* a late success of an old link is deregistered by its address alone
  (`actor_auth.rs:566`).  If the adapter has reconnected and the visa service has
  given it the same address again, the new link's actor is deregistered;
* a denial that was handed to the adapter's worker is not latched if the link goes
  down before the worker reads it;
* when the egress link drops while a bind waits for its next hop, the ingress
  adapter is never answered (the exception that `PendingIsUnderway` names);
* `deny_tether` unwraps a pending tether that need not be there
  (`adapter_manager_worker.rs:108`);
* the node may forward a packet under a visa that is not one for its flow.  The
  removal of a link revokes only the visas whose streams enter on it
  (`visa_table.rs:344`); when the egress adapter starts again meanwhile and slots
  are given out anew, an ingress adapter's stale entry names a slot of another visa.
  The packet then fails at the egress adapter, by its DLT or the MICV: this is why
  `DeliveredAsSent` says that a visa was issued for the packet's flow, and not that
  the node forwarded it under that one.

Visa service:

* `Stop(true)` with a failing `notify_disconnect` returns an error and so
  reconnects, although Stop is documented to break the reconnect loop;
* a failing VSS registration followed by a failing `notify_disconnect` panics; and
  after a refused registration the old handle is kept, so that `connect` is
  refused until pings fail;
* a list of visa operations of which the first is done and the second fails is
  answered with `ok` and an error (`src/libnode2/src/vss.rs:175`);
* resetting the adapters "drops visas too" (`vs_worker.rs:52`), but visas without a
  forwarding entry survive;
* a Stop does not interrupt a TLS handshake; `launch_vss` ends with the first
  handshake that fails; and when the link of the visa service's adapter goes down
  VSConn is stopped for good (`link_state.rs:682`).

Fast path and packets:

* only `enqueue_packet` sets PRIORITY, and nothing calls it; the comment that
  buffers are outstanding only while queued for egress is not true of the services'
  queues; io_uring submits at most a batch and drops the rest; the posix engine
  panics when a device that polled ready would block;
* TCP and UDP behind IPv4 options or IPv6 extension headers are compressed by the
  sender and dropped by the receiver; `PlainArrives` is about the others;
* packet steering compares the packet type with the stream id, so a flow may move
  between workers, against the comments in `fastpath.rs` and `main.rs`.

## 6. What is not modelled, and why

* the Noise cryptography and MACs, certificates, PKI, HTTP authentication services:
  external; their outcomes are choices in `Keys`, `ActorAuth` and `Wire`;
* packet steering: a BPF program without state;
* byte layout of TLVs and headers, and the refusal of IPv4-mapped addresses
  (`classifier.rs:236`): parsing whose outcome, an error, the properties do not tell
  apart from others;
* of a packet's way: lengths in odd bytes (`Wire` counts in words of 16 bits); the NULL
  encryption of key management messages and errors of encryption and decryption
  (`fastpath.rs:744`, `:847`, `:1101`), by which a packet is sent as it is or dropped;
  the headers of the TUN device (`fastpath_io.rs:243`) and of captures
  (`fastpath.rs:698`), which take a few bytes of the headroom for a while.  A
  message starts with its full headroom;
* failures that are only logged: of `clear_address` and `set_carrier(false)` when a
  link or an authorization goes down (`link_state.rs:825`, `:849`,
  `actor_auth.rs:651`).  The TUN device then keeps what the program has given up;
* panics on I/O errors other than `WouldBlock` (`fastpath_io.rs:133`, `:181`, `:277`, `:309`,
  `:325`), and that io_uring makes its ring a power of two: a ring larger than a batch
  changes nothing, because no more than a batch is submitted;
* the moment between the removal of a peer and the last reader of the table:
  `MgmtSend` drops the sender with the peer, while `zdpr_worker.rs:14` may hold it until
  its next tick or notification;
* a failing authorization of the visa service's own adapter in `ActorAuth`
  (`SendDeferred`): the worker panics on it (`vs_worker.rs:95`), as it does in `VsConn`;
* system calls interrupted by signals, start-up, CLI, configuration, logging,
  counters, capture files: no state the properties need;
* of the VSS: services, configuration, topology, revocation of credentials, listing
  of visas, which replace or read whole values;
* stream ids and node-to-node links (refused or unreachable), unbind (handled, but
  nothing sends it), expiry of visas (only tests call `handle_expirations`; it is
  the revocation of what has expired), the two fixed visas of the visa service,
  internal links (always up);
* `assign_special_name` against the removal of the peer: both run in one LocalSet,
  without an await between look-up and use;
* the width of the address pool's counter: it goes round after 2^40 links.

`PROJECT.json` gives the status of every part under `components`.

## 7. Plan

In order of importance; 1 to 12 are done.

1. ZDPR: both ends, the session, the service it promises, proofs.
2. Management futures and transaction manager, proofs of the latter.
3. The link state machine.
4. `ActorAuth`: the adapter's worker and the node's side, with the generation
   guard against answers of an earlier link.
5. `Keys` and `VsConn`: restart of failing key managers, the command loop with
   reconnect and ping, the worker that brings the visa service's state back.
6. `Tether`: peer table with link ids used again, adapter tables against late and
   repeated bind responses, visas and forwarding entries with revocation.
7. `LinkRestart`: `LinkState` with `Zdpr` for the restart of an adapter's link.
8. `FastPath`: buffers, queues with notifications, backpressure, both engines.
9. `Wire`: classifier, compression and packet buffers over the packet's way.
10. Proofs: `ReadyIsSound` and `NothingHeldWhenDown`, `NoOrphanedRegistration` and
    the rest of `ActorAuth`, `KeysAgree`, the invariants of `Tether`,
    `NoRevocationLost`, and those of `FastPath`.
11. Proofs: the futures of `MgmtSend`.
12. Proofs: the packets of `Wire`.
13. A property for a reset that meets a close (`link_state.rs:977`), and the calls
    of the VSS that are left out.
