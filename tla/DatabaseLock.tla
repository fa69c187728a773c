----------------------------- MODULE DatabaseLock -----------------------------
(***************************************************************************)
(* Who waits for whom on the database (DatabaseManager, EventRepository,   *)
(* and the scopes of the runner, the API, the feed and worker threads).    *)
(*                                                                         *)
(* On SQLite every transaction is BEGIN IMMEDIATE: it takes the one write  *)
(* lock at its first statement, a read included, and keeps it to its       *)
(* commit or close.  The repositories commit and then refresh() what they  *)
(* wrote, and that SELECT opens the next transaction.  Coroutines run      *)
(* their statements on the event loop's thread: one that waits for the     *)
(* lock lets no other coroutine run.  Another database knows no such lock, *)
(* and there two writers may compute the same sequence number.             *)
(*                                                                         *)
(* pc names the statement that comes next, or where the actor is parked.   *)
(***************************************************************************)
EXTENDS Naturals, Sequences, SequencesExt

CONSTANTS
  Runs,         \* background tasks, one session_scope() each
  Requests,     \* HTTP requests, one get_db() scope each
  Polls,        \* SSE feeds, one scope per poll
  Threads,      \* writers with a thread and a scope of their own
  SessionOf,    \* the session whose log an actor appends to
  MaxAttempts,  \* EVENT_SEQUENCE_MAX_ATTEMPTS
  MaxRounds     \* bound: stretches of a run

Actors      == Runs \cup Requests \cup Polls \cup Threads
Sessions    == {SessionOf[a] : a \in Actors}
Connections == Actors \X {1, 2}   \* 2: the review payload's own scope
Nobody      == "nobody"

ASSUME ConstantsAssumption ==
  /\ Runs \cap Requests = {} /\ (Runs \cup Requests) \cap Polls = {}
  /\ (Runs \cup Requests \cup Polls) \cap Threads = {}
  /\ DOMAIN SessionOf = Actors
  /\ MaxAttempts \in Nat \ {0}
  /\ MaxRounds \in Nat \ {0}
  /\ Nobody \notin Actors

VARIABLES
  sqlite,    \* the database_url is SQLite's
  open,      \* connections with a transaction under way
  loop,      \* the coroutine that has the event loop
  pc,
  log,       \* the sequence numbers of each session's events, as committed
  max,       \* what SELECT MAX(sequence) told the append() under way
  attempt,   \* attempts of its append() that lost a race
  rounds     \* stretches it has begun

vars == <<sqlite, open, loop, pc, log, max, attempt, rounds>>

Statements == {"require", "update", "select", "insert", "refresh", "inner"}
Parked     == {"ready", "suspended", "asleep", "exiting", "closing", "done", "failed"}
PC         == Statements \cup {"leave", "respond", "innerleave"} \cup Parked

Init ==
  /\ sqlite \in BOOLEAN
  /\ open = {}
  /\ loop = Nobody
  /\ pc = [a \in Actors |-> "ready"]
  /\ log = [s \in Sessions |-> <<>>]
  /\ max = [a \in Actors |-> 0]
  /\ attempt = [a \in Actors |-> 0]
  /\ rounds = [a \in Actors |-> 0]

Goto(a, next) == pc' = [pc EXCEPT ![a] = next]

Executing(a) == a \in Threads \/ loop = a
Conn(a)      == <<a, IF pc[a] \in {"inner", "innerleave"} THEN 2 ELSE 1>>
Scopes(a)    == {a} \X {1, 2}

\* A plain BEGIN: the lock comes with the first write, a read needs none.
CanBeginDeferred(c) == TRUE

\* A statement joins its connection's transaction or begins one: BEGIN IMMEDIATE.
CanBegin(c) == c \in open \/ ~sqlite \/ open = {}

Begins(a)  == CanBegin(Conn(a)) /\ open' = open \cup {Conn(a)}
Commits(a) == CanBegin(Conn(a)) /\ open' = open \ {Conn(a)}

Blocked(a) == Executing(a) /\ pc[a] \in Statements /\ ~CanBegin(Conn(a))

At(a, here) == Executing(a) /\ pc[a] = here

-----------------------------------------------------------------------------
\* The scopes' ends

Park(a, there) == Goto(a, there) /\ loop' = IF loop = a THEN Nobody ELSE loop

\* A scope that closes on success only.
RaisesUnclosed(a) == UNCHANGED open /\ Park(a, "failed")

\* An exception: session_scope() rolls back and closes.  A request's scope is closed by a
\* worker thread on the way out, as after a success; its inner scope is closed at once.
Raises(a) ==
  \/ /\ a \in Requests
     /\ open' = open \ {<<a, 2>>}
     /\ Park(a, "exiting")
  \/ /\ a \notin Requests
     /\ open' = open \ Scopes(a)
     /\ Park(a, "failed")

\* "timeout": 30 on the connection: SQLite gives up, SQLAlchemy raises OperationalError.
Timeout(a) ==
  /\ Blocked(a)
  /\ Raises(a)
  /\ UNCHANGED <<sqlite, log, max, attempt, rounds>>

\* _poll() that leaves its transaction to the next poll.
LeaveLater(a) ==
  /\ At(a, "leave")
  /\ open' = IF a \in Polls THEN open ELSE open \ Scopes(a)
  /\ Park(a, IF a \in Polls THEN "asleep" ELSE "done")
  /\ UNCHANGED <<sqlite, log, max, attempt, rounds>>

\* The `with session_scope()` of a run, a poll or a worker ends.
Leave(a) ==
  /\ At(a, "leave")
  /\ open' = open \ Scopes(a)
  /\ Park(a, IF a \in Polls THEN "asleep" ELSE "done")
  /\ UNCHANGED <<sqlite, log, max, attempt, rounds>>

\* A handler returns.  get_db() is a plain generator: FastAPI has a worker thread leave it,
\* which the event loop must get round to (Exit) and the thread must do (Close).
Respond(a) ==
  /\ At(a, "respond")
  /\ Park(a, "exiting")
  /\ UNCHANGED <<sqlite, open, log, max, attempt, rounds>>

Exit(a) ==
  /\ loop = Nobody
  /\ pc[a] = "exiting"
  /\ Goto(a, "closing")
  /\ UNCHANGED <<sqlite, open, loop, log, max, attempt, rounds>>

Close(a) ==
  /\ pc[a] = "closing"
  /\ open' = open \ Scopes(a)
  /\ Goto(a, "done")
  /\ UNCHANGED <<sqlite, loop, log, max, attempt, rounds>>

-----------------------------------------------------------------------------
\* Coroutines and threads

\* A worker appends at once; POST /sessions inserts; everything else looks its row up.
Start(a) ==
  /\ pc[a] = "ready"
  /\ \/ a \in Threads /\ Goto(a, "select") /\ UNCHANGED loop
     \/ a \notin Threads /\ loop = Nobody /\ loop' = a /\ Goto(a, "require")
     \/ a \in Requests /\ loop = Nobody /\ loop' = a /\ Goto(a, "update")
  /\ UNCHANGED <<sqlite, open, log, max, attempt, rounds>>

\* What was awaited is there.  A run goes on or ends, a feed polls again.
Resume(a) ==
  /\ loop = Nobody
  /\ loop' = a
  /\ \/ /\ pc[a] = "suspended" /\ a \in Runs
        /\ Goto(a, "leave") \/ (rounds[a] < MaxRounds /\ Goto(a, "require"))
     \/ /\ pc[a] = "suspended" /\ a \in Requests
        /\ Goto(a, IF <<a, 2>> \in open THEN "innerleave" ELSE "respond")
     \/ pc[a] = "asleep" /\ Goto(a, "require")
  /\ UNCHANGED <<sqlite, open, log, max, attempt, rounds>>

\* Reading one's row.  A request then writes (cancel, approval), awaits git with its
\* transaction open (diff), asks for the review payload, or has its answer.
Require(a) ==
  /\ At(a, "require")
  /\ Begins(a)
  /\ \/ a \in Runs /\ Goto(a, "update") /\ UNCHANGED loop
     \/ a \in Polls /\ Goto(a, "leave") /\ UNCHANGED loop
     \/ a \in Requests /\ \E next \in {"update", "inner", "respond"} : Goto(a, next) /\ UNCHANGED loop
     \/ a \in Requests /\ Park(a, "suspended")
  /\ rounds' = IF a \in Runs THEN [rounds EXCEPT ![a] = @ + 1] ELSE rounds
  /\ UNCHANGED <<sqlite, log, max, attempt>>

\* A repository's write up to its commit; its refresh() goes with the SELECT that follows.
Update(a) ==
  /\ At(a, "update")
  /\ Commits(a)
  /\ Goto(a, "select")
  /\ UNCHANGED <<sqlite, loop, log, max, attempt, rounds>>

-----------------------------------------------------------------------------
\* EventRepository.append()

\* _next_sequence(): SELECT MAX(sequence)
Select(a) ==
  /\ At(a, "select")
  /\ Begins(a)
  /\ max' = [max EXCEPT ![a] = Len(log[SessionOf[a]])]
  /\ Goto(a, "insert")
  /\ UNCHANGED <<sqlite, loop, log, attempt, rounds>>

\* INSERT and commit against the unique (session_id, sequence).
Insert(a) ==
  /\ At(a, "insert")
  /\ max[a] + 1 \notin ToSet(log[SessionOf[a]])
  /\ Commits(a)
  /\ log' = [log EXCEPT ![SessionOf[a]] = Append(@, max[a] + 1)]
  /\ max' = [max EXCEPT ![a] = 0]
  /\ attempt' = [attempt EXCEPT ![a] = 0]
  /\ Goto(a, "refresh")
  /\ UNCHANGED <<sqlite, loop, rounds>>

\* IntegrityError: roll back and try once more, or give up.
Conflict(a) ==
  /\ At(a, "insert")
  /\ max[a] + 1 \in ToSet(log[SessionOf[a]])
  /\ attempt' = [attempt EXCEPT ![a] = @ + 1]
  /\ \/ attempt'[a] < MaxAttempts /\ Commits(a) /\ Goto(a, "select") /\ UNCHANGED loop
     \/ attempt'[a] = MaxAttempts /\ Raises(a)
  /\ UNCHANGED <<sqlite, log, max, rounds>>

\* refresh(event) begins a transaction, and that is how the caller finds its connection.
Refresh(a) ==
  /\ At(a, "refresh")
  /\ Begins(a)
  /\ \/ a \in Runs /\ Park(a, "suspended")
     \/ a \in Requests /\ Goto(a, "respond") /\ UNCHANGED loop
     \/ a \in Threads /\ Goto(a, "leave") /\ UNCHANGED loop
  /\ UNCHANGED <<sqlite, log, max, attempt, rounds>>

-----------------------------------------------------------------------------
\* ReviewPayloadService.build(): a second scope inside the request's, and a model call in it
Inner(a) ==
  /\ At(a, "inner")
  /\ Begins(a)
  /\ Park(a, "suspended")
  /\ UNCHANGED <<sqlite, log, max, attempt, rounds>>

InnerLeave(a) ==
  /\ At(a, "innerleave")
  /\ open' = open \ {Conn(a)}
  /\ Goto(a, "respond")
  /\ UNCHANGED <<sqlite, loop, log, max, attempt, rounds>>

-----------------------------------------------------------------------------
TakeLoop(a) == Resume(a) \/ Exit(a)

Act(a) ==
  \/ Require(a) \/ Update(a) \/ Select(a) \/ Insert(a) \/ Conflict(a) \/ Refresh(a)
  \/ Inner(a) \/ InnerLeave(a) \/ Leave(a) \/ Respond(a) \/ Close(a) \/ Timeout(a)

Next == \E a \in Actors : Start(a) \/ TakeLoop(a) \/ Act(a)

\* A statement that can go on does, or times out; asyncio's queue of ready callbacks passes
\* over nobody, and every await of a run or a request has a timeout.
Fairness == \A a \in Actors : WF_vars(Act(a)) /\ SF_vars(TakeLoop(a))

Spec == Init /\ [][Next]_vars /\ Fairness
=============================================================================
