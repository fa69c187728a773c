---------------------------- MODULE MCDatabaseLock ----------------------------
(***************************************************************************)
(* A run, a request, a feed and two worker threads on one session, with    *)
(* the two attempts of the code.  The three writers that may collide are   *)
(* one more than the attempts, so an append can lose both of them.         *)
(***************************************************************************)
EXTENDS DatabaseLockProps

CONSTANTS run, request, feed, t1, t2, session

MCRuns      == {run}
MCRequests  == {request}
MCPolls     == {feed}
MCThreads   == {t1, t2}
MCSessionOf == [a \in {run, request, feed, t1, t2} |-> session]
=============================================================================
