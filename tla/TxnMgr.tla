------------------------------- MODULE TxnMgr -------------------------------
(***************************************************************************)
(* The transaction manager of a link (mgmt/txn_mgr.rs): it hands out the   *)
(* ids by which a requester tells the responses to its requests apart, in  *)
(* order, and keeps an id for as long as there is a handle to it.          *)
(*                                                                         *)
(* An action is what one thread does under the lock.  deref_txn notifies   *)
(* after it has released the lock, so that is an action of its own.        *)
(***************************************************************************)
EXTENDS Integers

CONSTANTS
    IdCount,        \* 2^16: TxnId is a u16
    Tasks,          \* the tasks that call open()
    MaxHandles,     \* bound: handles to one transaction at a time
    MaxNotifying    \* bound: threads at the end of deref_txn at a time

ASSUME TxnMgrAssumption == /\ IdCount \in Nat \ {0}
                           /\ MaxHandles \in Nat /\ MaxNotifying \in Nat

Ids == 0..(IdCount - 1)
None == -1

VARIABLES
    next_free,      \* the id to use next, which may not be free
    open,           \* the open transactions, with refcount (0 for one handle)
    handles,        \* the TxnHandles there are to each id
    task,           \* "idle", "registered" with the Notify, or "notified"
    notifying,      \* deref_txn calls that have yet to notify_waiters()
    alive           \* handles hold a Weak: the manager may go away first

txn_vars == <<next_free, open, handles, task, notifying, alive>>

Closed == {id \in Ids : open[id] = None}

TxnInit ==
    /\ next_free = 0 /\ open = [id \in Ids |-> None]
    /\ handles = [id \in Ids |-> 0]
    /\ task = [t \in Tasks |-> "idle"]
    /\ notifying = 0 /\ alive = TRUE

-----------------------------------------------------------------------------
\* TxnMgrInner::try_open_raw: the caller gets a handle to next_free.
TakeNext ==
    /\ next_free \in Closed
    /\ open' = [open EXCEPT ![next_free] = 0]
    /\ handles' = [handles EXCEPT ![next_free] = @ + 1]
    /\ next_free' = (next_free + 1) % IdCount

try_open ==
    /\ alive /\ TakeNext
    /\ UNCHANGED <<task, notifying, alive>>

\* One turn of the loop of open_raw: open, or register under the lock.
open_raw(t) ==
    /\ alive /\ task[t] \in {"idle", "notified"}
    /\ \/ TakeNext /\ task' = [task EXCEPT ![t] = "idle"]
       \/ /\ next_free \notin Closed
          /\ task' = [task EXCEPT ![t] = "registered"]
          /\ UNCHANGED <<next_free, open, handles>>
    /\ UNCHANGED <<notifying, alive>>

\* A task that waits in open() may be dropped.
open_dropped(t) ==
    /\ task[t] # "idle" /\ task' = [task EXCEPT ![t] = "idle"]
    /\ UNCHANGED <<next_free, open, handles, notifying, alive>>

\* Mutant of get: looking a transaction up does not count as a reference.
get_uncounted(id) ==
    /\ alive /\ id \notin Closed /\ handles[id] < MaxHandles
    /\ handles' = [handles EXCEPT ![id] = @ + 1]
    /\ UNCHANGED <<next_free, open, task, notifying, alive>>

\* get, for a response that arrives; ref_txn, for a clone of a handle.
get(id) ==
    /\ alive /\ id \notin Closed /\ handles[id] < MaxHandles
    /\ open' = [open EXCEPT ![id] = @ + 1]
    /\ handles' = [handles EXCEPT ![id] = @ + 1]
    /\ UNCHANGED <<next_free, task, notifying, alive>>

ref_txn(id) ==
    /\ handles[id] > 0 /\ handles[id] < MaxHandles
    /\ open' = IF alive THEN [open EXCEPT ![id] = @ + 1] ELSE open
    /\ handles' = [handles EXCEPT ![id] = @ + 1]
    /\ UNCHANGED <<next_free, task, notifying, alive>>

\* Mutant of dereferenced: the first reference counts as 1.
dereferenced_early(id) == IF open[id] > 1 THEN open[id] - 1 ELSE None

dereferenced(id) == IF open[id] > 0 THEN open[id] - 1 ELSE None

\* Mutant of need_notify: off by one.
need_notify_next(id) == next_free = id + 1

need_notify(id) == next_free = id

\* Drop of a handle: deref_txn, up to the release of the lock.
deref_txn(id) ==
    /\ handles[id] > 0 /\ notifying < MaxNotifying
    /\ handles' = [handles EXCEPT ![id] = @ - 1]
    /\ open' = IF alive THEN [open EXCEPT ![id] = dereferenced(id)] ELSE open
    /\ notifying' = IF alive /\ open'[id] = None /\ need_notify(id)
                    THEN notifying + 1 ELSE notifying
    /\ UNCHANGED <<next_free, task, alive>>

\* Mutant of notify_waiters: one waiter is woken.
notify_one ==
    /\ notifying > 0 /\ notifying' = notifying - 1
    /\ LET waiters == {t \in Tasks : task[t] = "registered"}
       IN  \E woken \in SUBSET waiters :
             /\ waiters # {} => \E t \in waiters : woken = {t}
             /\ task' = [t \in Tasks |-> IF t \in woken THEN "notified" ELSE task[t]]
    /\ UNCHANGED <<next_free, open, handles, alive>>

notify_waiters ==
    /\ notifying > 0 /\ notifying' = notifying - 1
    /\ task' = [t \in Tasks |-> IF task[t] = "registered" THEN "notified" ELSE task[t]]
    /\ UNCHANGED <<next_free, open, handles, alive>>

\* The peer goes away with its manager; calls in progress keep it alive.
MgrDropped ==
    /\ alive /\ notifying = 0 /\ \A t \in Tasks : task[t] = "idle"
    /\ alive' = FALSE
    /\ UNCHANGED <<next_free, open, handles, task, notifying>>

TxnNext ==
    \/ try_open
    \/ \E t \in Tasks : open_raw(t) \/ open_dropped(t)
    \/ \E id \in Ids : get(id) \/ ref_txn(id) \/ deref_txn(id)
    \/ notify_waiters
    \/ MgrDropped

TxnSpec == TxnInit /\ [][TxnNext]_txn_vars

\* A thread that is about to notify does so.
FairSpec == TxnSpec /\ WF_txn_vars(notify_waiters)

-----------------------------------------------------------------------------
(* Properties.                                                             *)

\* The manager's fields have their types; next_free stays an id.
TxnTypeOK ==
    /\ next_free \in Ids
    /\ open \in [Ids -> Nat \cup {None}] /\ handles \in [Ids -> Nat]
    /\ task \in [Tasks -> {"idle", "registered", "notified"}]
    /\ notifying \in Nat /\ alive \in BOOLEAN

\* The refcount of every id is exact, so the two panics of ref_txn and
\* deref_txn ("reference/dereference of closed transaction") are out of reach.
RefcountExact ==
    alive => \A id \in Ids : handles[id] = IF open[id] = None THEN 0 ELSE open[id] + 1

\* An id is never given out while somebody still holds a handle of an earlier
\* transaction with it, even when the u16 ids have gone round.
NoSharedIds ==
    [][\A id \in Ids : open[id] = None /\ open'[id] # None => handles[id] = 0]_txn_vars

\* What the comment in deref_txn argues: a task waits in the Notify only
\* while the next id is taken, or while a notification is on its way to it.
NoMissedNotify ==
    (\E t \in Tasks : task[t] = "registered") => next_free \notin Closed \/ notifying > 0

\* A task that waits is woken once the id it waits for is free.
FreeIdWakes ==
    \A t \in Tasks :
        task[t] = "registered" /\ next_free \in Closed ~> task[t] # "registered"

=============================================================================
