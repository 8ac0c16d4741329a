----------------------------- MODULE MCFastPath -----------------------------
(* Workers to check FastPath with: one as small as fastpath_main accepts,  *)
(* with packets enough to use up its buffers; and ones with batches.       *)
EXTENDS FastPath

MCConfigs ==
    {[engine |-> "io_uring", batch |-> 1, buffers |-> 5, depth |-> 1, priority |-> 1, other |-> 5]}
    \cup
    {[engine |-> e, batch |-> 2, buffers |-> 10, depth |-> 2, priority |-> 2, other |-> 1]
        : e \in {"io_uring", "posix_unbatched"}}
=============================================================================
