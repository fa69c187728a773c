--------------------------- MODULE DatabaseLockProps ---------------------------
(***************************************************************************)
(* What DatabaseLock must satisfy.                                         *)
(***************************************************************************)
EXTENDS DatabaseLock

\* Every variable has its type; in particular no append is tried more often than the
\* constant allows, and the loop belongs to a coroutine.
TypeOK ==
  /\ sqlite \in BOOLEAN
  /\ open \subseteq Connections
  /\ loop \in {Nobody} \cup (Actors \ Threads)
  /\ pc \in [Actors -> PC]
  /\ log \in [Sessions -> Seq(Nat)]
  /\ max \in [Actors -> Nat]
  /\ attempt \in [Actors -> 0..MaxAttempts]
  /\ rounds \in [Actors -> 0..MaxRounds]

\* "sequence is monotonic, gap-free, and unique per session" (event_repository.py:2-3), on
\* either database and whoever appends.
GapFree == \A s \in Sessions : log[s] = [i \in 1..Len(log[s]) |-> i]

\* "BEGIN IMMEDIATE closes that window" (database.py:66): on SQLite no append ever loses a
\* race for its number, with any mix of threads and coroutines.
NoRaceOnSqlite == sqlite => \A a \in Actors : attempt[a] = 0

\* The numbers of the events are sound on either database, and on SQLite without a retry.
NumbersAreSound == TypeOK /\ GapFree /\ NoRaceOnSqlite

\* A feed that sleeps between two polls keeps nobody waiting: whoever holds the lock while
\* all coroutines are suspended is a run, a request on its way, or a thread at work.
FeedsHoldNothing ==
  loop = Nobody => \A c \in open : c[1] \notin Polls

\* Whatever the lock does to them, every run, request and worker that was started comes to
\* an end: a wait for a holder that waits for the waiter is cut by the timeout.
EveryCallEnds ==
  <>[](\A a \in Actors \ Polls : pc[a] \in {"ready", "done", "failed"})

\* No path out of a scope, by return, error, timeout or lost race, leaves a transaction
\* open for good: the lock is free again and again.
LockComesFree == []<>(open = {})

\* No mix of runs, requests, feeds and workers blocks for good.
NobodyIsStuck == EveryCallEnds /\ LockComesFree

-----------------------------------------------------------------------------
CanGoOn(a) == a \in Threads \/ pc[a] = "closing" \/ loop \in {a, Nobody}

\* BEGIN IMMEDIATE turns "concurrent writers into a queue (blocking, via the timeout connect
\* arg, rather than racing)" (database.py:67-68): whoever waits in a queue waits for
\* somebody who can go on while he waits.
WritersQueue ==
  \A a \in Actors : Blocked(a) => \A c \in open : CanGoOn(c[1])
=============================================================================
