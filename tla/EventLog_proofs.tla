--------------------------- MODULE EventLog_proofs ---------------------------
(***************************************************************************)
(* Theorems about a session's event log: about those who write it          *)
(* (DatabaseLock) and about those who follow it (EventStream).             *)
(*                                                                         *)
(* DatabaseLock, for any number of runs, requests, feeds and worker        *)
(* threads on any number of sessions, and on either database.  A number    *)
(* that was read is never more than the log is long (MaxInv), so what is   *)
(* not yet taken is the next one.  On SQLite at most one connection has a  *)
(* transaction (OneHolder), and whoever is about to insert has it since    *)
(* its SELECT: nobody has appended in between (InsertInv).                 *)
(*                                                                         *)
(* EventStream, for every batch and page size, every length of the log and *)
(* every number of lost connections.  What keeps a resumed feed exact is   *)
(* that what was received, what is on the wire and what is left of the     *)
(* batch always form one run of consecutive numbers, with the cursor       *)
(* between the wire and the batch (Consecutive).  A lost connection cuts   *)
(* that run behind what was received, and the new cursor is taken from     *)
(* there.                                                                  *)
(***************************************************************************)
EXTENDS DatabaseLockProps, EventStreamProps, SequenceTheorems, TLAPS

-----------------------------------------------------------------------------
(* The writers. *)

\* What SELECT MAX(sequence) told an append may be old, but is no more than there is.
MaxInv == \A a \in Actors : max[a] <= Len(log[SessionOf[a]])

\* SQLite's write lock has one holder.
OneHolder == sqlite => \A c, d \in open : c = d

\* An append keeps its transaction from its SELECT to its INSERT.
InsertInv ==
  \A a \in Actors : pc[a] = "insert" =>
    /\ <<a, 1>> \in open
    /\ sqlite => max[a] = Len(log[SessionOf[a]])

\* A feed has a transaction only while it has the event loop.
FeedInv == \A c \in open : c[1] \in Polls => loop = c[1]

\* Which statements an actor can be at.
PlaceInv ==
  \A a \in Actors :
    /\ pc[a] = "ready" => rounds[a] = 0
    /\ pc[a] = "require" /\ a \in Runs => rounds[a] < MaxRounds
    /\ pc[a] = "asleep" => a \in Polls
    /\ a \in Polls => pc[a] \in {"ready", "require", "leave", "asleep", "failed"}

IInv ==
  /\ TypeOK /\ GapFree /\ NoRaceOnSqlite
  /\ MaxInv /\ OneHolder /\ InsertInv /\ FeedInv /\ PlaceInv

-----------------------------------------------------------------------------
\* Every step is one actor's: it begins or ends transactions of its own connections only,
\* takes the loop when it is free and gives up no loop but its own.
Touches(a) ==
  /\ open' \subseteq open \/ (CanBegin(Conn(a)) /\ open' = open \cup {Conn(a)})
  /\ \A c \in open \ open' : c[1] = a

Moves(a, p) ==
  /\ pc' = [pc EXCEPT ![a] = p] /\ sqlite' = sqlite /\ Touches(a)
  /\ loop' = loop \/ (loop \in {Nobody, a} /\ loop' \in {Nobody, a})
  /\ loop' = a => a \notin Threads
  /\ a \in Polls => loop' = a \/ \A c \in open' : c[1] # a
  /\ \/ rounds' = rounds
     \/ a \in Runs /\ rounds[a] < MaxRounds /\ rounds' = [rounds EXCEPT ![a] = @ + 1]
  /\ p # "ready"
  /\ p = "require" /\ a \in Runs => rounds'[a] < MaxRounds
  /\ p = "asleep" => a \in Polls
  /\ a \in Polls => p \in {"require", "leave", "asleep", "failed"}

\* The connection an actor uses is its own, and it has two at most.
LEMMA OwnConnections ==
  ASSUME NEW a \in Actors
  PROVE  /\ Conn(a) \in Connections /\ Conn(a)[1] = a /\ Conn(a) \in Scopes(a)
         /\ \A c \in Connections : c \in Scopes(a) <=> c[1] = a
         /\ pc[a] \notin {"inner", "innerleave"} => Conn(a) = <<a, 1>>
  BY DEF Conn, Connections, Scopes

\* The kinds of an actor.
LEMMA KindsDiffer ==
  /\ Runs \cap Requests = {} /\ (Runs \cup Requests) \cap Polls = {}
  /\ (Runs \cup Requests \cup Polls) \cap Threads = {}
  /\ Nobody \notin Actors
  /\ \A a \in Actors : a \in Runs \/ a \in Requests \/ a \in Polls \/ a \in Threads
  BY ConstantsAssumption DEF Actors

\* What the actions do to the open transactions.
LEMMA TouchesOwn ==
  ASSUME TypeOK, NEW a \in Actors,
         \/ Begins(a) \/ Commits(a) \/ UNCHANGED open
         \/ open' = open \ Scopes(a) \/ open' = open \ {Conn(a)} \/ open' = open \ {<<a, 2>>}
  PROVE  Touches(a)
  <1>1. \A c \in open : c \in Scopes(a) => c[1] = a
    BY OwnConnections DEF TypeOK
  <1> QED
    BY <1>1, OwnConnections DEF Touches, Begins, Commits

\* What a move does to the invariant's parts that do not speak of numbers.
LEMMA MovesFacts ==
  ASSUME IInv, NEW a \in Actors, NEW p \in PC, Moves(a, p)
  PROVE  /\ pc' \in [Actors -> PC] /\ pc'[a] = p
         /\ \A b \in Actors \ {a} : pc'[b] = pc[b]
         /\ sqlite' = sqlite /\ sqlite \in BOOLEAN
         /\ open' \subseteq Connections
         /\ \A c \in open \ open' : c[1] = a
         /\ loop' \in {Nobody} \cup (Actors \ Threads)
         /\ rounds' \in [Actors -> 0..MaxRounds]
         /\ OneHolder' /\ FeedInv' /\ PlaceInv'
  <1>1. /\ pc' \in [Actors -> PC] /\ pc'[a] = p
        /\ \A b \in Actors \ {a} : pc'[b] = pc[b]
        /\ sqlite' = sqlite /\ sqlite \in BOOLEAN
    BY DEF IInv, TypeOK, Moves
  <1>2. /\ open' \subseteq Connections /\ \A c \in open \ open' : c[1] = a
        /\ \A c \in open' : c[1] # a => c \in open
    BY OwnConnections DEF IInv, TypeOK, Moves, Touches
  <1>3. loop' \in {Nobody} \cup (Actors \ Threads)
    BY DEF IInv, TypeOK, Moves
  <1>4. /\ rounds' \in [Actors -> 0..MaxRounds]
        /\ \A b \in Actors \ {a} : rounds'[b] = rounds[b]
    <2>1. CASE rounds' = rounds
      BY <2>1 DEF IInv, TypeOK
    <2>2. CASE rounds[a] < MaxRounds /\ rounds' = [rounds EXCEPT ![a] = @ + 1]
      <3>1. rounds \in [Actors -> 0..MaxRounds] /\ MaxRounds \in Nat
        BY ConstantsAssumption DEF IInv, TypeOK
      <3>2. rounds[a] + 1 \in 0..MaxRounds
        BY <2>2, <3>1
      <3> QED
        BY <2>2, <3>1, <3>2
    <2> QED
      BY <2>1, <2>2 DEF Moves
  <1>5. OneHolder'
    <2> SUFFICES ASSUME sqlite, NEW c \in open', NEW d \in open'
                 PROVE  c = d
      BY <1>1 DEF OneHolder
    <2>1. CASE open' \subseteq open
      BY <2>1 DEF IInv, OneHolder
    <2>2. CASE CanBegin(Conn(a)) /\ open' = open \cup {Conn(a)}
      BY <2>2 DEF IInv, OneHolder, CanBegin
    <2> QED
      BY <2>1, <2>2 DEF Moves, Touches
  <1>6. FeedInv'
    <2> SUFFICES ASSUME NEW c \in open', c[1] \in Polls
                 PROVE  loop' = c[1]
      BY DEF FeedInv
    <2>1. CASE c[1] = a
      BY <2>1 DEF Moves
    <2>2. CASE c[1] # a
      <3>1. loop = c[1]
        BY <1>2, <2>2 DEF IInv, FeedInv
      <3>2. c[1] # Nobody
        BY KindsDiffer DEF Actors
      <3> QED
        BY <2>2, <3>1, <3>2 DEF Moves
    <2> QED
      BY <2>1, <2>2
  <1>7. PlaceInv'
    <2> SUFFICES ASSUME NEW b \in Actors
                 PROVE  /\ pc'[b] = "ready" => rounds'[b] = 0
                        /\ pc'[b] = "require" /\ b \in Runs => rounds'[b] < MaxRounds
                        /\ pc'[b] = "asleep" => b \in Polls
                        /\ b \in Polls => pc'[b] \in {"ready", "require", "leave", "asleep", "failed"}
      BY DEF PlaceInv
    <2>1. CASE b = a
      BY <1>1, <2>1 DEF Moves
    <2>2. CASE b # a
      BY <1>1, <1>4, <2>2 DEF IInv, PlaceInv
    <2> QED
      BY <2>1, <2>2
  <1> QED
    BY <1>1, <1>2, <1>3, <1>4, <1>5, <1>6, <1>7

\* Attempts are counted where there is no write lock.
Tries == attempt' = attempt \/ (~sqlite /\ attempt' \in [Actors -> 0..MaxAttempts])

\* A step that appends nothing and reads no number.
LEMMA QuietKeeps ==
  ASSUME IInv, NEW a \in Actors, NEW p \in PC, Moves(a, p), p # "insert",
         UNCHANGED <<log, max>>, Tries
  PROVE  IInv'
  <1>1. /\ pc' \in [Actors -> PC] /\ pc'[a] = p
        /\ \A b \in Actors \ {a} : pc'[b] = pc[b]
        /\ sqlite' = sqlite /\ sqlite \in BOOLEAN
        /\ open' \subseteq Connections
        /\ \A c \in open \ open' : c[1] = a
        /\ loop' \in {Nobody} \cup (Actors \ Threads)
        /\ rounds' \in [Actors -> 0..MaxRounds]
        /\ OneHolder' /\ FeedInv' /\ PlaceInv'
    BY MovesFacts
  <1>2. TypeOK'
    BY <1>1 DEF IInv, TypeOK, Tries
  <1>3. GapFree' /\ MaxInv'
    BY DEF IInv, GapFree, MaxInv
  <1>4. NoRaceOnSqlite'
    BY <1>1 DEF IInv, NoRaceOnSqlite, Tries
  <1>5. InsertInv'
    <2> SUFFICES ASSUME NEW b \in Actors, pc'[b] = "insert"
                 PROVE  <<b, 1>> \in open' /\ (sqlite => max[b] = Len(log[SessionOf[b]]))
      BY <1>1 DEF InsertInv
    <2>1. b # a /\ pc[b] = "insert"
      BY <1>1
    <2>2. <<b, 1>> \in open /\ (sqlite => max[b] = Len(log[SessionOf[b]]))
      BY <2>1 DEF IInv, InsertInv
    <2>3. <<b, 1>>[1] # a
      BY <2>1
    <2> QED
      BY <1>1, <2>2, <2>3
  <1> QED
    BY <1>1, <1>2, <1>3, <1>4, <1>5 DEF IInv

\* An actor that executes has the loop, or is a thread.
LEMMA ParkMoves ==
  ASSUME IInv, NEW a \in Actors, NEW p \in Parked, Executing(a), Park(a, p), sqlite' = sqlite,
         Touches(a), rounds' = rounds \/ (a \in Runs /\ rounds[a] < MaxRounds
                                          /\ rounds' = [rounds EXCEPT ![a] = @ + 1]),
         p # "ready", p = "asleep" => a \in Polls,
         a \in Polls => p \in {"asleep", "failed"} /\ \A c \in open' : c[1] # a
  PROVE  Moves(a, p) /\ p \in PC /\ p # "insert"
  <1>1. p \in PC /\ p \notin {"require", "insert"}
    BY DEF PC, Parked
  <1>2. a \in Threads => loop # a
    BY KindsDiffer DEF IInv, TypeOK
  <1>3. Nobody # a
    BY KindsDiffer
  <1> QED
    BY <1>1, <1>2, <1>3 DEF Moves, Park, Goto, Executing

\* A move to the next statement of the same actor.
LEMMA StatementMoves ==
  ASSUME IInv, NEW a \in Actors, NEW p \in PC, Executing(a), Goto(a, p), sqlite' = sqlite,
         loop' = loop, Touches(a),
         rounds' = rounds \/ (a \in Runs /\ rounds[a] < MaxRounds
                              /\ rounds' = [rounds EXCEPT ![a] = @ + 1]),
         p \notin {"ready", "require", "asleep"},
         a \in Polls => p = "leave"
  PROVE  Moves(a, p)
  <1>1. a \in Threads => loop # a
    BY KindsDiffer DEF IInv, TypeOK
  <1>2. a \in Polls => loop' = a
    BY KindsDiffer DEF Executing
  <1> QED
    BY <1>1, <1>2 DEF Moves, Goto

\* An exception, whatever raised it, ends the scopes of its actor.
LEMMA RaisesKeeps ==
  ASSUME IInv, NEW a \in Actors, Executing(a), Raises(a), UNCHANGED <<sqlite, log, max, rounds>>, Tries
  PROVE  IInv'
  <1>1. ASSUME a \in Requests
        PROVE  IInv'
    <2>1. Touches(a) /\ Park(a, "exiting") /\ a \notin Polls
      BY <1>1, TouchesOwn, KindsDiffer DEF Raises, IInv
    <2>2. Moves(a, "exiting") /\ "exiting" \in PC
      BY <2>1, ParkMoves DEF Parked
    <2> QED
      BY <2>2, QuietKeeps
  <1>2. ASSUME a \notin Requests
        PROVE  IInv'
    <2>1. Touches(a) /\ Park(a, "failed") /\ open' = open \ Scopes(a)
      BY <1>2, TouchesOwn DEF Raises, IInv
    <2>2. \A c \in open' : c[1] # a
      BY <2>1, OwnConnections DEF IInv, TypeOK
    <2>3. Moves(a, "failed") /\ "failed" \in PC
      BY <2>1, <2>2, ParkMoves DEF Parked
    <2> QED
      BY <2>3, QuietKeeps
  <1> QED
    BY <1>1, <1>2

\* The ends of the scopes: after a timeout, a return, or by a worker thread.
LEMMA EndsKeep ==
  ASSUME IInv, NEW a \in Actors,
         Timeout(a) \/ Leave(a) \/ Respond(a) \/ Exit(a) \/ Close(a) \/ InnerLeave(a)
  PROVE  IInv'
  <1>1. CASE Timeout(a)
    BY <1>1, RaisesKeeps DEF Timeout, Blocked, Tries
  <1>2. CASE Leave(a)
    <2>1. /\ Executing(a) /\ Touches(a) /\ open' = open \ Scopes(a)
          /\ Park(a, IF a \in Polls THEN "asleep" ELSE "done")
      BY <1>2, TouchesOwn DEF Leave, At, IInv
    <2>2. \A c \in open' : c[1] # a
      BY <2>1, OwnConnections DEF IInv, TypeOK
    <2>3. ASSUME NEW p \in {"asleep", "done"}, p = IF a \in Polls THEN "asleep" ELSE "done"
          PROVE  Moves(a, p) /\ p \in PC
      <3>1. Park(a, p) /\ p \in Parked /\ UNCHANGED <<sqlite, rounds>>
        BY <1>2, <2>1, <2>3 DEF Leave, Parked
      <3> QED
        BY <2>1, <2>2, <2>3, <3>1, ParkMoves
    <2> QED
      BY <1>2, <2>3, QuietKeeps DEF Leave, Tries
  <1>3. CASE Respond(a)
    <2>1. /\ Executing(a) /\ Touches(a) /\ Park(a, "exiting") /\ UNCHANGED <<sqlite, rounds>>
          /\ a \notin Polls
      BY <1>3, TouchesOwn DEF Respond, At, IInv, PlaceInv
    <2>2. Moves(a, "exiting") /\ "exiting" \in PC
      BY <2>1, ParkMoves DEF Parked
    <2> QED
      BY <1>3, <2>2, QuietKeeps DEF Respond, Tries
  <1>4. CASE Exit(a) \/ Close(a)
    <2>1. PICK p \in {"closing", "done"} :
            /\ Goto(a, p) /\ Touches(a) /\ UNCHANGED <<sqlite, loop, rounds, log, max, attempt>>
            /\ pc[a] \in {"exiting", "closing"}
      BY <1>4, TouchesOwn DEF Exit, Close, IInv
    <2>2. a \notin Polls
      BY <2>1 DEF IInv, PlaceInv
    <2>3. loop = a => a \notin Threads
      BY KindsDiffer DEF IInv, TypeOK
    <2>4. Moves(a, p) /\ p \in PC /\ p # "insert"
      BY <2>1, <2>2, <2>3 DEF Moves, Goto, PC, Parked
    <2> QED
      BY <2>1, <2>4, QuietKeeps DEF Tries
  <1>5. CASE InnerLeave(a)
    <2>1. /\ Executing(a) /\ Touches(a) /\ Goto(a, "respond") /\ UNCHANGED <<sqlite, loop, rounds>>
          /\ a \notin Polls
      BY <1>5, TouchesOwn DEF InnerLeave, At, IInv, PlaceInv
    <2>2. Moves(a, "respond") /\ "respond" \in PC
      BY <2>1, StatementMoves DEF PC
    <2> QED
      BY <1>5, <2>2, QuietKeeps DEF InnerLeave, Tries
  <1> QED
    BY <1>1, <1>2, <1>3, <1>4, <1>5

\* The loop is taken only when nobody has it, and no thread takes it.
LEMMA TakesKeep ==
  ASSUME IInv, NEW a \in Actors, Start(a) \/ Resume(a)
  PROVE  IInv'
  <1>1. UNCHANGED <<sqlite, open, log, max, attempt, rounds>>
    BY DEF Start, Resume
  <1>2. Touches(a)
    BY <1>1, TouchesOwn DEF IInv
  <1>3. /\ rounds[a] \in 0..MaxRounds /\ MaxRounds \in Nat \ {0}
        /\ pc[a] = "ready" => rounds[a] = 0
    BY ConstantsAssumption DEF IInv, TypeOK, PlaceInv
  <1>4. CASE a \in Threads /\ Start(a)
    <2>1. Goto(a, "select") /\ UNCHANGED loop /\ loop # a /\ a \notin Polls
      BY <1>4, KindsDiffer DEF Start, IInv, TypeOK
    <2>2. Moves(a, "select") /\ "select" \in PC
      BY <1>1, <1>2, <2>1 DEF Moves, Goto, PC, Statements
    <2> QED
      BY <1>1, <2>2, QuietKeeps DEF Tries
  <1>5. CASE a \notin Threads /\ Start(a)
    <2>1. PICK p \in {"require", "update"} :
            Goto(a, p) /\ loop = Nobody /\ loop' = a /\ (p = "update" => a \in Requests)
      BY <1>5 DEF Start
    <2>2. pc[a] = "ready"
      BY <1>5 DEF Start
    <2>3. rounds'[a] < MaxRounds
      BY <1>1, <1>3, <2>2
    <2>4. a \in Requests => a \notin Polls
      BY KindsDiffer
    <2>5. Moves(a, p) /\ p \in PC /\ p # "insert"
      BY <1>1, <1>2, <1>5, <2>1, <2>3, <2>4 DEF Moves, Goto, PC, Statements
    <2> QED
      BY <1>1, <2>5, QuietKeeps DEF Tries
  <1>6. CASE Resume(a)
    <2>1. PICK p \in {"leave", "require", "innerleave", "respond"} :
            /\ Goto(a, p) /\ loop = Nobody /\ loop' = a
            /\ p = "require" /\ a \in Runs => rounds[a] < MaxRounds
            /\ pc[a] = "asleep" => p = "require"
            /\ pc[a] = "asleep" \/ a \in Runs \/ a \in Requests
            /\ a \notin Runs \/ pc[a] # "asleep"
      <3>1. pc[a] = "asleep" => a \in Polls /\ a \notin Runs
        BY KindsDiffer DEF IInv, PlaceInv
      <3>2. /\ loop = Nobody /\ loop' = a
            /\ \/ pc[a] = "suspended" /\ a \in Runs /\ Goto(a, "leave")
               \/ pc[a] = "suspended" /\ a \in Runs /\ rounds[a] < MaxRounds /\ Goto(a, "require")
               \/ pc[a] = "suspended" /\ a \in Requests /\ Goto(a, "innerleave")
               \/ pc[a] = "suspended" /\ a \in Requests /\ Goto(a, "respond")
               \/ pc[a] = "asleep" /\ Goto(a, "require")
        BY <1>6 DEF Resume
      <3>3. a \in Requests => a \notin Runs
        BY KindsDiffer
      <3> QED
        BY <3>1, <3>2, <3>3
    <2>2. a \notin Threads /\ (a \in Polls => p = "require")
      BY <2>1, KindsDiffer DEF IInv, PlaceInv
    <2>3. Moves(a, p) /\ p \in PC /\ p # "insert"
      BY <1>1, <1>2, <2>1, <2>2 DEF Moves, Goto, PC, Statements
    <2> QED
      BY <1>1, <2>3, QuietKeeps DEF Tries
  <1> QED
    BY <1>4, <1>5, <1>6

-----------------------------------------------------------------------------
\* Statements that read or write no number.
LEMMA StatementsKeep ==
  ASSUME IInv, NEW a \in Actors, Require(a) \/ Update(a) \/ Refresh(a) \/ Inner(a)
  PROVE  IInv'
  <1>0. UNCHANGED <<sqlite, log, max, attempt>> /\ Executing(a) /\ Touches(a)
    BY TouchesOwn DEF Require, Update, Refresh, Inner, At, IInv
  <1>1. a \in Polls => pc[a] \notin {"update", "refresh", "inner"}
    BY DEF IInv, PlaceInv
  <1>2. rounds' = rounds \/ (a \in Runs /\ rounds[a] < MaxRounds /\ rounds' = [rounds EXCEPT ![a] = @ + 1])
    BY DEF Require, Update, Refresh, Inner, At, IInv, PlaceInv
  <1>3. \/ Park(a, "suspended")
        \/ UNCHANGED loop /\ \E p \in {"update", "leave", "inner", "respond", "select"} : Goto(a, p)
    BY DEF Require, Update, Refresh, Inner
  <1>4. ASSUME a \in Polls
        PROVE  UNCHANGED loop /\ Goto(a, "leave")
    <2>1. Require(a) /\ a \notin Runs /\ a \notin Requests
      BY <1>1, <1>4, KindsDiffer DEF Update, Refresh, Inner, At
    <2> QED
      BY <1>4, <2>1 DEF Require
  <1>5. ASSUME a \notin Polls, Park(a, "suspended")
        PROVE  IInv'
    <2>1. Moves(a, "suspended") /\ "suspended" \in PC
      BY <1>0, <1>2, <1>5, ParkMoves DEF Parked
    <2> QED
      BY <1>0, <2>1, QuietKeeps DEF Tries
  <1>6. ASSUME NEW p \in {"update", "leave", "inner", "respond", "select"}, UNCHANGED loop,
               Goto(a, p), a \in Polls => p = "leave"
        PROVE  IInv'
    <2>1. Moves(a, p) /\ p \in PC /\ p # "insert"
      BY <1>0, <1>2, <1>6, StatementMoves DEF PC, Statements
    <2> QED
      BY <1>0, <2>1, QuietKeeps DEF Tries
  <1> QED
    BY <1>3, <1>4, <1>5, <1>6

-----------------------------------------------------------------------------
\* The log of a session, and the session of an actor.
LEMMA LogsTyped ==
  ASSUME IInv, NEW a \in Actors
  PROVE  /\ SessionOf[a] \in Sessions
         /\ log[SessionOf[a]] \in Seq(Nat) /\ Len(log[SessionOf[a]]) \in Nat
         /\ max[a] \in Nat /\ max[a] <= Len(log[SessionOf[a]])
         /\ ToSet(log[SessionOf[a]]) = 1..Len(log[SessionOf[a]])
  <1>1. SessionOf[a] \in Sessions
    BY DEF Sessions
  <1>2. log[SessionOf[a]] \in Seq(Nat) /\ Len(log[SessionOf[a]]) \in Nat
    BY <1>1 DEF IInv, TypeOK
  <1>3. max[a] \in Nat /\ max[a] <= Len(log[SessionOf[a]])
    BY DEF IInv, TypeOK, MaxInv
  <1>4. ToSet(log[SessionOf[a]]) = 1..Len(log[SessionOf[a]])
    <2>1. log[SessionOf[a]] = [i \in 1..Len(log[SessionOf[a]]) |-> i]
      BY <1>1 DEF IInv, GapFree
    <2>2. /\ DOMAIN log[SessionOf[a]] = 1..Len(log[SessionOf[a]])
          /\ \A i \in 1..Len(log[SessionOf[a]]) : log[SessionOf[a]][i] = i
      BY <1>2, <2>1
    <2> QED
      BY <2>2 DEF ToSet
  <1> QED
    BY <1>1, <1>2, <1>3, <1>4

\* SELECT MAX(sequence) begins the transaction that the INSERT needs.
LEMMA SelectKeeps ==
  ASSUME IInv, NEW a \in Actors, Select(a)
  PROVE  IInv'
  <1>0. /\ pc[a] = "select" /\ Executing(a) /\ a \notin Polls
        /\ Goto(a, "insert") /\ UNCHANGED <<sqlite, loop, log, attempt, rounds>>
        /\ Begins(a) /\ Touches(a) /\ Conn(a) = <<a, 1>>
    BY TouchesOwn, OwnConnections DEF Select, At, IInv, PlaceInv
  <1>1. Moves(a, "insert") /\ "insert" \in PC
    BY <1>0, StatementMoves DEF PC, Statements
  <1>2. /\ pc' \in [Actors -> PC] /\ pc'[a] = "insert"
        /\ \A b \in Actors \ {a} : pc'[b] = pc[b]
        /\ sqlite' = sqlite /\ sqlite \in BOOLEAN
        /\ open' \subseteq Connections
        /\ \A c \in open \ open' : c[1] = a
        /\ loop' \in {Nobody} \cup (Actors \ Threads)
        /\ rounds' \in [Actors -> 0..MaxRounds]
        /\ OneHolder' /\ FeedInv' /\ PlaceInv'
    BY <1>1, MovesFacts
  <1>3. /\ max' \in [Actors -> Nat] /\ max'[a] = Len(log[SessionOf[a]])
        /\ \A b \in Actors \ {a} : max'[b] = max[b]
    BY LogsTyped DEF Select, IInv, TypeOK
  <1>4. TypeOK'
    BY <1>0, <1>2, <1>3 DEF IInv, TypeOK
  <1>5. GapFree'
    BY <1>0 DEF IInv, GapFree
  <1>6. MaxInv'
    <2> SUFFICES ASSUME NEW b \in Actors
                 PROVE  max'[b] <= Len(log[SessionOf[b]])
      BY <1>0 DEF MaxInv
    <2>1. max[b] <= Len(log[SessionOf[b]]) /\ Len(log[SessionOf[b]]) \in Nat
      BY LogsTyped
    <2>2. max'[b] = max[b] \/ max'[b] = Len(log[SessionOf[b]])
      BY <1>3
    <2> QED
      BY <2>1, <2>2
  <1>7. NoRaceOnSqlite'
    BY <1>0 DEF IInv, NoRaceOnSqlite
  <1>8. InsertInv'
    <2> SUFFICES ASSUME NEW b \in Actors, pc'[b] = "insert"
                 PROVE  <<b, 1>> \in open' /\ (sqlite => max'[b] = Len(log[SessionOf[b]]))
      BY <1>0 DEF InsertInv
    <2>1. CASE b = a
      BY <1>0, <1>3, <2>1 DEF Begins
    <2>2. CASE b # a
      <3>1. <<b, 1>> \in open /\ (sqlite => max[b] = Len(log[SessionOf[b]]))
        BY <1>2, <2>2 DEF IInv, InsertInv
      <3>2. <<b, 1>> \in open'
        BY <1>2, <2>2, <3>1
      <3> QED
        BY <1>3, <2>2, <3>1, <3>2
    <2> QED
      BY <2>1, <2>2
  <1> QED
    BY <1>2, <1>4, <1>5, <1>6, <1>7, <1>8 DEF IInv

\* What is inserted is the next number, and nobody else was about to insert on SQLite.
LEMMA InsertKeeps ==
  ASSUME IInv, NEW a \in Actors, Insert(a)
  PROVE  IInv'
  <1> DEFINE s == SessionOf[a]
  <1>0. /\ pc[a] = "insert" /\ Executing(a) /\ a \notin Polls
        /\ Goto(a, "refresh") /\ UNCHANGED <<sqlite, loop, rounds>> /\ Touches(a)
    BY TouchesOwn DEF Insert, At, IInv, PlaceInv
  <1>1. Moves(a, "refresh") /\ "refresh" \in PC
    BY <1>0, StatementMoves DEF PC, Statements
  <1>2. /\ pc' \in [Actors -> PC] /\ pc'[a] = "refresh"
        /\ \A b \in Actors \ {a} : pc'[b] = pc[b]
        /\ sqlite' = sqlite /\ sqlite \in BOOLEAN
        /\ open' \subseteq Connections
        /\ \A c \in open \ open' : c[1] = a
        /\ loop' \in {Nobody} \cup (Actors \ Threads)
        /\ rounds' \in [Actors -> 0..MaxRounds]
        /\ OneHolder' /\ FeedInv' /\ PlaceInv'
    BY <1>1, MovesFacts
  <1>3. /\ s \in Sessions /\ log[s] \in Seq(Nat) /\ Len(log[s]) \in Nat
        /\ max[a] = Len(log[s])
    <2>1. max[a] + 1 \notin 1..Len(log[s])
      BY LogsTyped DEF Insert
    <2> QED
      BY <2>1, LogsTyped
  <1>4. /\ log' \in [Sessions -> Seq(Nat)] /\ log'[s] = Append(log[s], Len(log[s]) + 1)
        /\ \A r \in Sessions \ {s} : log'[r] = log[r]
    <2>1. log \in [Sessions -> Seq(Nat)] /\ Append(log[s], Len(log[s]) + 1) \in Seq(Nat)
      BY <1>3, AppendProperties DEF IInv, TypeOK
    <2>2. log' = [log EXCEPT ![s] = Append(log[s], Len(log[s]) + 1)]
      BY <1>3, <2>1 DEF Insert
    <2> QED
      BY <1>3, <2>1, <2>2
  <1>5. Len(log'[s]) = Len(log[s]) + 1
    BY <1>3, <1>4, AppendProperties
  <1>6. /\ max' \in [Actors -> Nat] /\ max'[a] = 0
        /\ \A b \in Actors \ {a} : max'[b] = max[b]
        /\ attempt' \in [Actors -> 0..MaxAttempts] /\ attempt'[a] = 0
        /\ \A b \in Actors \ {a} : attempt'[b] = attempt[b]
    BY ConstantsAssumption DEF Insert, IInv, TypeOK
  <1>7. TypeOK'
    BY <1>2, <1>4, <1>6 DEF IInv, TypeOK
  <1>8. GapFree'
    <2> SUFFICES ASSUME NEW r \in Sessions
                 PROVE  log'[r] = [i \in 1..Len(log'[r]) |-> i]
      BY DEF GapFree
    <2>1. CASE r # s
      BY <1>4, <2>1 DEF IInv, GapFree
    <2>2. CASE r = s
      <3>1. log[s] = [i \in 1..Len(log[s]) |-> i]
        BY <1>3 DEF IInv, GapFree
      <3>2. \A i \in 1..Len(log[s]) : log[s][i] = i
        BY <3>1
      <3>3. /\ log'[s] \in Seq(Nat) /\ DOMAIN log'[s] = 1..Len(log'[s])
            /\ \A i \in 1..Len(log'[s]) : log'[s][i] = i
        BY <1>3, <1>4, <1>5, <3>2, AppendProperties
      <3> QED
        BY <2>2, <3>3
    <2> QED
      BY <2>1, <2>2
  <1>9. \A b \in Actors : Len(log[SessionOf[b]]) \in Nat /\ Len(log'[SessionOf[b]]) >= Len(log[SessionOf[b]])
    <2> TAKE b \in Actors
    <2>1. SessionOf[b] \in Sessions /\ Len(log[SessionOf[b]]) \in Nat
      BY LogsTyped
    <2> QED
      BY <1>3, <1>4, <1>5, <2>1
  <1>10. MaxInv'
    <2> SUFFICES ASSUME NEW b \in Actors
                 PROVE  max'[b] <= Len(log'[SessionOf[b]])
      BY DEF MaxInv
    <2>1. max[b] \in Nat /\ max[b] <= Len(log[SessionOf[b]]) /\ Len(log[SessionOf[b]]) \in Nat
      BY LogsTyped
    <2>2. SessionOf[b] \in Sessions
      BY LogsTyped
    <2>3. log'[SessionOf[b]] \in Seq(Nat)
      BY <1>7, <2>2 DEF TypeOK
    <2>4. Len(log'[SessionOf[b]]) \in Nat
      BY <2>3
    <2> QED
      BY <1>6, <1>9, <2>1, <2>4
  <1>11. NoRaceOnSqlite'
    BY <1>2, <1>6 DEF IInv, NoRaceOnSqlite
  <1>12. InsertInv'
    <2> SUFFICES ASSUME NEW b \in Actors, pc'[b] = "insert"
                 PROVE  <<b, 1>> \in open' /\ (sqlite' => max'[b] = Len(log'[SessionOf[b]]))
      BY DEF InsertInv
    <2>1. b # a /\ pc[b] = "insert"
      BY <1>2
    <2>2. <<b, 1>> \in open /\ <<a, 1>> \in open
      BY <1>0, <2>1 DEF IInv, InsertInv
    <2>3. ~sqlite
      BY <2>1, <2>2 DEF IInv, OneHolder
    <2>4. <<b, 1>>[1] = b
      OBVIOUS
    <2> QED
      BY <1>2, <2>1, <2>2, <2>3, <2>4
  <1> QED
    BY <1>2, <1>7, <1>8, <1>10, <1>11, <1>12 DEF IInv

\* A lost race happens on another database only, and ends in one more attempt or an error.
LEMMA ConflictKeeps ==
  ASSUME IInv, NEW a \in Actors, Conflict(a)
  PROVE  IInv'
  <1>0. /\ pc[a] = "insert" /\ Executing(a) /\ a \notin Polls
        /\ UNCHANGED <<sqlite, log, max, rounds>>
    BY DEF Conflict, At, IInv, PlaceInv
  <1>1. ~sqlite
    <2>1. max[a] + 1 \in 1..Len(log[SessionOf[a]])
      BY LogsTyped DEF Conflict
    <2>2. max[a] # Len(log[SessionOf[a]])
      BY <2>1, LogsTyped
    <2> QED
      BY <1>0, <2>2 DEF IInv, InsertInv
  <1>2. Tries
    <2>1. /\ attempt \in [Actors -> 0..MaxAttempts] /\ MaxAttempts \in Nat
          /\ attempt' = [attempt EXCEPT ![a] = attempt[a] + 1]
          /\ attempt'[a] < MaxAttempts \/ attempt'[a] = MaxAttempts
      BY ConstantsAssumption DEF Conflict, IInv, TypeOK
    <2>2. attempt[a] + 1 \in 0..MaxAttempts
      BY <2>1
    <2>3. attempt' \in [Actors -> 0..MaxAttempts]
      BY <2>1, <2>2
    <2> QED
      BY <1>1, <2>3 DEF Tries
  <1>3. CASE Raises(a)
    BY <1>0, <1>2, <1>3, RaisesKeeps
  <1>4. CASE Commits(a) /\ Goto(a, "select") /\ UNCHANGED loop
    <2>1. Moves(a, "select") /\ "select" \in PC
      BY <1>0, <1>4, TouchesOwn, StatementMoves DEF PC, Statements, IInv
    <2> QED
      BY <1>0, <1>2, <2>1, QuietKeeps
  <1> QED
    BY <1>3, <1>4 DEF Conflict

-----------------------------------------------------------------------------
\* Nobody has begun, and the logs are empty.
LEMMA InitIInv == Init => IInv
  <1> SUFFICES ASSUME Init
               PROVE  IInv
    OBVIOUS
  <1>1. TypeOK
    <2>1. log \in [Sessions -> Seq(Nat)]
      BY EmptySeq DEF Init
    <2>2. /\ max \in [Actors -> Nat] /\ attempt \in [Actors -> 0..MaxAttempts]
          /\ rounds \in [Actors -> 0..MaxRounds]
      BY ConstantsAssumption DEF Init
    <2>3. pc \in [Actors -> PC]
      BY DEF Init, PC, Parked
    <2> QED
      BY <2>1, <2>2, <2>3 DEF Init, TypeOK
  <1>2. \A s \in Sessions : log[s] = <<>>
    BY DEF Init
  <1>3. GapFree
    BY <1>2 DEF GapFree
  <1>4. NoRaceOnSqlite
    BY DEF Init, NoRaceOnSqlite
  <1>5. MaxInv
    BY <1>2 DEF Init, MaxInv, Sessions
  <1>6. OneHolder /\ InsertInv /\ FeedInv
    BY DEF Init, OneHolder, InsertInv, FeedInv
  <1>7. PlaceInv
    BY DEF Init, PlaceInv
  <1> QED
    BY <1>1, <1>3, <1>4, <1>5, <1>6, <1>7 DEF IInv

\* Every step keeps the invariant.
LEMMA NextKeepsIInv == IInv /\ [Next]_vars => IInv'
  <1> SUFFICES ASSUME IInv, [Next]_vars
               PROVE  IInv'
    OBVIOUS
  <1>1. ASSUME NEW a \in Actors, Start(a) \/ TakeLoop(a) \/ Act(a)
        PROVE  IInv'
    <2>1. CASE Start(a) \/ Resume(a)
      BY <2>1, TakesKeep
    <2>2. CASE Timeout(a) \/ Leave(a) \/ Respond(a) \/ Exit(a) \/ Close(a) \/ InnerLeave(a)
      BY <2>2, EndsKeep
    <2>3. CASE Require(a) \/ Update(a) \/ Refresh(a) \/ Inner(a)
      BY <2>3, StatementsKeep
    <2>4. CASE Select(a)
      BY <2>4, SelectKeeps
    <2>5. CASE Insert(a)
      BY <2>5, InsertKeeps
    <2>6. CASE Conflict(a)
      BY <2>6, ConflictKeeps
    <2> QED
      BY <1>1, <2>1, <2>2, <2>3, <2>4, <2>5, <2>6 DEF TakeLoop, Act
  <1>2. CASE UNCHANGED vars
    <2>1. TypeOK' /\ GapFree' /\ NoRaceOnSqlite'
      BY <1>2 DEF vars, IInv, TypeOK, GapFree, NoRaceOnSqlite
    <2>2. MaxInv' /\ OneHolder' /\ InsertInv' /\ FeedInv' /\ PlaceInv'
      BY <1>2 DEF vars, IInv, MaxInv, OneHolder, InsertInv, FeedInv, PlaceInv
    <2> QED
      BY <2>1, <2>2 DEF IInv
  <1> QED
    BY <1>1, <1>2 DEF Next

\* The strengthening of both theorems holds of every behaviour.
LEMMA Inductive == Spec => []IInv
  BY InitIInv, NextKeepsIInv, PTL DEF Spec

\* The events of every session are numbered without a gap or a repetition on either
\* database, and on SQLite no append ever loses a race (EventRepository.append).
THEOREM NumbersSound == Spec => []NumbersAreSound
  <1>1. IInv => NumbersAreSound
    BY DEF IInv, NumbersAreSound
  <1> QED
    BY Inductive, <1>1, PTL

\* No feed keeps a transaction over its sleep (EventStreamService: one scope per poll).
THEOREM FeedsLetGo == Spec => []FeedsHoldNothing
  <1>1. IInv => FeedsHoldNothing
    <2> SUFFICES ASSUME IInv, loop = Nobody, NEW c \in open, c[1] \in Polls
                 PROVE  FALSE
      BY DEF FeedsHoldNothing
    <2>1. c[1] = Nobody
      BY DEF IInv, FeedInv
    <2> QED
      BY <2>1, KindsDiffer DEF Actors
  <1> QED
    BY Inductive, <1>1, PTL

-----------------------------------------------------------------------------
(* The followers. *)

\* got, wire and batch count on from one another.
Consecutive ==
  /\ \A i \in 1..Len(got) : got[i] = i
  /\ \A i \in 1..Len(wire) : wire[i] = Len(got) + i
  /\ \A i \in 1..Len(batch) : batch[i] = cursor + i
  /\ Len(got) + Len(wire) <= written
  /\ cursor + Len(batch) <= written
  /\ IF conn = "none" THEN wire = <<>> ELSE cursor = Len(got) + Len(wire)

\* The feed that will return after its batch saw the session over, and what it has sent
\* and has still to send reaches to the end unless it polled a full batch.
LastBatchInv ==
  /\ conn = "ended" => last
  /\ conn \in {"sending", "ended"} /\ last =>
       /\ terminal
       /\ ~full => cursor + Len(batch) >= atEnd

\* watch() stops only after a page that it asked for when it knew the session over.
WatchInv ==
  /\ wpc \in {"events", "done"} /\ finished => terminal
  /\ wpc = "done" => finished
  /\ wpc = "done" /\ ~wfull => after >= atEnd

StreamIInv == StreamTypeOK /\ Consecutive /\ LastBatchInv /\ WatchInv

-----------------------------------------------------------------------------
\* list_since() returns consecutive numbers behind n, and all of them unless it is full.
LEMMA ListSinceIsConsecutive ==
  ASSUME written \in Nat, NEW n \in 0..written, NEW limit \in Nat \ {0}
  PROVE  /\ ListSince(n, limit) \in Seq(1..written)
         /\ Len(ListSince(n, limit)) \in 0..limit
         /\ \A i \in 1..Len(ListSince(n, limit)) : ListSince(n, limit)[i] = n + i
         /\ n + Len(ListSince(n, limit)) <= written
         /\ Len(ListSince(n, limit)) # limit => n + Len(ListSince(n, limit)) = written
  <1> DEFINE size == IF written - n < limit THEN written - n ELSE limit
  <1>1. size \in 0..limit /\ n + size <= written /\ (size # limit => n + size = written)
    OBVIOUS
  <1>2. ListSince(n, limit) = [i \in 1..size |-> n + i]
    BY DEF ListSince
  <1>3. \A i \in 1..size : n + i \in 1..written
    BY <1>1
  <1> HIDE DEF size
  <1>4. /\ [i \in 1..size |-> n + i] \in Seq(1..written)
        /\ Len([i \in 1..size |-> n + i]) = size
        /\ \A i \in 1..size : [j \in 1..size |-> n + j][i] = n + i
    BY <1>1, <1>3
  <1> QED
    BY <1>1, <1>2, <1>4

\* A longer log leaves every sequence of sequence numbers one.
LEMMA LogGrows ==
  ASSUME written \in Nat, written' \in Nat, written <= written', NEW s \in Seq(1..written)
  PROVE  s \in Seq(1..written')
  <1>1. 1..written \subseteq 1..written'
    OBVIOUS
  <1> QED
    BY <1>1, SeqMonotonic

\* Nothing written, sent or shown.
LEMMA StreamStarts == StreamInit => StreamIInv
  <1> SUFFICES ASSUME StreamInit
               PROVE  StreamIInv
    OBVIOUS
  <1>1. <<>> \in Seq(1..written) /\ Len(<<>>) = 0
    OBVIOUS
  <1>2. /\ batch \in Seq(1..written) /\ Len(batch) <= Batch
        /\ wire \in Seq(1..written) /\ got \in Seq(1..written)
    BY <1>1, StreamAssumption DEF StreamInit
  <1>3. (conn = "sending") = (batch # <<>>)
    BY DEF StreamInit
  <1>4. StreamTypeOK
    <2>1. /\ written \in 0..MaxEvents /\ atEnd \in 0..written
          /\ cursor \in 0..written /\ seen \in 0..written /\ after \in 0..written
          /\ drops \in 0..MaxDrops
      BY StreamAssumption DEF StreamInit
    <2>2. /\ terminal \in BOOLEAN /\ active \in BOOLEAN /\ last \in BOOLEAN
          /\ full \in BOOLEAN /\ finished \in BOOLEAN /\ wfull \in BOOLEAN
          /\ conn \in {"none", "asleep", "sending", "ended"}
          /\ wpc \in {"status", "events", "done", "dead"}
      BY DEF StreamInit
    <2> QED
      BY <1>2, <1>3, <2>1, <2>2 DEF StreamTypeOK
  <1>5. Consecutive
    BY <1>1 DEF StreamInit, Consecutive
  <1> QED
    BY <1>4, <1>5 DEF StreamInit, StreamIInv, LastBatchInv, WatchInv

\* Steps of the writers.
LEMMA WritersKeep ==
  ASSUME StreamIInv, Append1 \/ Terminate \/ RunEnds
  PROVE  StreamIInv'
  <1> USE StreamAssumption DEF StreamIInv, streamVars, watchVars
  <1>1. CASE Append1
    <2>1. written' = written + 1 /\ written' \in 0..MaxEvents
      BY <1>1 DEF Append1, StreamTypeOK
    <2>2. StreamTypeOK'
      BY <1>1, <2>1, LogGrows DEF Append1, StreamTypeOK
    <2> QED
      BY <1>1, <2>2 DEF Append1, StreamTypeOK, Consecutive, LastBatchInv, WatchInv
  <1>2. CASE Terminate
    <2>1. /\ written' \in 0..MaxEvents /\ written <= written'
          /\ atEnd' = written' /\ terminal' = TRUE /\ active' \in BOOLEAN /\ ~terminal
          /\ UNCHANGED <<streamVars, watchVars, drops>>
      BY <1>2 DEF Terminate, StreamTypeOK
    <2>2. StreamTypeOK'
      BY <2>1, LogGrows DEF StreamTypeOK
    <2>3. ~(conn \in {"sending", "ended"} /\ last) /\ conn # "ended" /\ wpc # "done"
      BY <2>1 DEF LastBatchInv, WatchInv
    <2> QED
      BY <2>1, <2>2, <2>3 DEF StreamTypeOK, Consecutive, LastBatchInv, WatchInv
  <1>3. CASE RunEnds
    BY <1>3 DEF RunEnds, StreamTypeOK, Consecutive, LastBatchInv, WatchInv
  <1> QED
    BY <1>1, <1>2, <1>3

\* Losing the connection keeps what was received.
LEMMA HangupKeeps ==
  ASSUME StreamIInv, Hangup, UNCHANGED written
  PROVE  /\ batch' \in Seq(1..written) /\ Len(batch') <= Batch
         /\ wire' \in Seq(1..written) /\ got' \in Seq(1..written)
         /\ (conn' = "sending") = (batch' # <<>>)
         /\ cursor' \in 0..written /\ seen' \in 0..written
         /\ Consecutive'
  BY StreamAssumption DEF Hangup, StreamIInv, StreamTypeOK, Consecutive

\* A (re)connected feed starts behind the last event its client has, so nothing is on the wire
\* and the next batch goes on from there.
LEMMA ConnectKeeps ==
  ASSUME StreamIInv, Connect
  PROVE  StreamIInv'
  <1> USE DEF Connect, StreamIInv, logVars, watchVars
  <1>1. cursor' = Len(got) /\ wire = <<>> /\ Len(got) \in Nat /\ Len(got) <= written
    BY DEF StreamTypeOK, Consecutive, LastEventId
  <1>2. batch = <<>>
    BY DEF StreamTypeOK
  <1>3. StreamTypeOK'
    BY <1>1, <1>2 DEF StreamTypeOK
  <1>4. Consecutive'
    BY <1>1, <1>2 DEF StreamTypeOK, Consecutive
  <1> QED
    BY <1>3, <1>4 DEF LastBatchInv, WatchInv

\* A poll reads the stretch of the log right behind its cursor, or nothing and then decides
\* whether the log is complete.
LEMMA PollKeeps ==
  ASSUME StreamIInv, Poll
  PROVE  StreamIInv'
  <1> USE DEF StreamIInv, logVars, watchVars
  <1>0. /\ written \in Nat /\ cursor \in 0..written /\ Batch \in Nat \ {0}
        /\ written \in 0..MaxEvents /\ atEnd \in 0..written /\ terminal \in BOOLEAN
        /\ conn = "asleep" /\ batch = <<>>
    BY StreamAssumption DEF StreamTypeOK, Poll
  <1>1. /\ batch' = ListSince(cursor, Batch)
        /\ last' = terminal /\ full' = (Len(batch') = Batch) /\ seen' = written
        /\ conn' = IF batch' = <<>> THEN IF terminal THEN "ended" ELSE "asleep" ELSE "sending"
        /\ UNCHANGED <<logVars, watchVars, cursor, wire, got, drops>>
    BY DEF Poll, Rest
  <1>2. /\ batch' \in Seq(1..written)
        /\ Len(batch') \in 0..Batch
        /\ \A i \in 1..Len(batch') : batch'[i] = cursor + i
        /\ cursor + Len(batch') <= written
        /\ Len(batch') # Batch => cursor + Len(batch') = written
    BY <1>0, <1>1, ListSinceIsConsecutive
  <1>3. StreamTypeOK'
    BY <1>0, <1>1, <1>2 DEF StreamTypeOK
  <1>4. Consecutive'
    BY <1>0, <1>1, <1>2 DEF Consecutive
  <1>5. LastBatchInv'
    BY <1>0, <1>1, <1>2 DEF LastBatchInv
  <1> QED
    BY <1>1, <1>3, <1>4, <1>5 DEF WatchInv

\* Sending moves one event from the batch to the wire: what is received, on the wire and in the
\* batch stays one run of numbers.
LEMMA SendKeeps ==
  ASSUME StreamIInv, Send
  PROVE  StreamIInv'
  <1> USE DEF StreamIInv, logVars, watchVars
  <1>0. /\ batch \in Seq(1..written) /\ batch # <<>> /\ conn = "sending"
        /\ wire \in Seq(1..written) /\ got \in Seq(1..written) /\ written \in Nat
        /\ cursor \in 0..written
    BY StreamAssumption DEF StreamTypeOK, Send
  <1>1. /\ Head(batch) = cursor + 1 /\ Head(batch) \in 1..written
        /\ Tail(batch) \in Seq(1..written) /\ Len(Tail(batch)) = Len(batch) - 1
        /\ \A i \in 1..Len(Tail(batch)) : Tail(batch)[i] = cursor + 1 + i
        /\ Tail(batch) = <<>> <=> Len(batch) = 1
    <2>1. Len(batch) \in Nat \ {0} /\ Head(batch) = batch[1]
      BY <1>0
    <2>2. batch[1] = cursor + 1
      BY <2>1 DEF Consecutive
    <2>3. /\ Tail(batch) \in Seq(1..written) /\ Len(Tail(batch)) = Len(batch) - 1
          /\ \A i \in 1..Len(Tail(batch)) : Tail(batch)[i] = batch[i + 1]
      BY <1>0, HeadTailProperties
    <2>4. \A i \in 1..Len(Tail(batch)) : batch[i + 1] = cursor + (i + 1)
      BY <2>1, <2>3 DEF Consecutive
    <2>5. cursor + 1 \in 1..written
      BY <1>0, <2>1 DEF Consecutive
    <2>6. Tail(batch) = <<>> <=> Len(batch) = 1
      <3>1. Tail(batch) \in Seq(1..written) /\ Len(Tail(batch)) = Len(batch) - 1 /\ Len(batch) \in Nat
        BY <2>1, <2>3
      <3>2. Tail(batch) = <<>> <=> Len(Tail(batch)) = 0
        BY <3>1, EmptySeq
      <3> QED
        BY <3>1, <3>2
    <2>7. ASSUME NEW i \in 1..Len(Tail(batch))
          PROVE  Tail(batch)[i] = cursor + 1 + i
      <3>1. i \in Int /\ cursor \in Int
        BY <1>0, <2>1, <2>3
      <3>2. Tail(batch)[i] = cursor + (i + 1)
        BY <2>3, <2>4
      <3> QED
        BY <3>1, <3>2
    <2>8. Head(batch) = cursor + 1
      BY <2>1, <2>2
    <2> QED
      BY <2>3, <2>5, <2>6, <2>7, <2>8
  <1>2. /\ wire' = Append(wire, cursor + 1) /\ cursor' = cursor + 1 /\ batch' = Tail(batch)
        /\ conn' = IF Len(batch) = 1 THEN IF last THEN "ended" ELSE "asleep" ELSE "sending"
        /\ UNCHANGED <<logVars, watchVars, last, full, seen, got, drops>>
    BY <1>1 DEF Send, Rest
  <1>3. cursor = Len(got) + Len(wire) /\ cursor + Len(batch) <= written /\ Len(batch) \in Nat \ {0}
    BY <1>0 DEF Consecutive
  <1>4. StreamTypeOK'
    <2>1. /\ batch' \in Seq(1..written') /\ Len(batch') <= Batch
          /\ wire' \in Seq(1..written') /\ cursor' \in 0..written'
      <3>1. written' = written /\ Len(batch) <= Batch /\ Batch \in Nat
        BY <1>2, StreamAssumption DEF StreamTypeOK
      <3>2. Append(wire, cursor + 1) \in Seq(1..written)
        BY <1>0, <1>1, AppendProperties
      <3> QED
        BY <1>0, <1>1, <1>2, <3>1, <3>2
    <2>2. (conn' = "sending") = (batch' # <<>>)
      BY <1>1, <1>2, <1>3
    <2> QED
      BY <1>0, <1>2, <2>1, <2>2 DEF StreamTypeOK
  <1>5. Consecutive'
    <2>1. Len(wire') = Len(wire) + 1
      BY <1>0, <1>1, <1>2, AppendProperties
    <2>2. \A i \in 1..Len(wire') : wire'[i] = Len(got) + i
      <3>1. \A i \in 1..Len(wire) : wire'[i] = wire[i]
        BY <1>0, <1>1, <1>2, AppendProperties
      <3>2. wire'[Len(wire) + 1] = Len(got) + (Len(wire) + 1)
        BY <1>0, <1>1, <1>2, <1>3, AppendProperties
      <3>3. \A i \in 1..Len(wire) : wire[i] = Len(got) + i
        BY DEF Consecutive
      <3>4. Len(wire) \in Nat
        BY <1>0
      <3>5. \A i \in 1..Len(wire') : i \in 1..Len(wire) \/ i = Len(wire) + 1
        BY <2>1, <3>4
      <3> QED
        BY <3>1, <3>2, <3>3, <3>5
    <2>3. \A i \in 1..Len(batch') : batch'[i] = cursor' + i
      BY <1>1, <1>2, <1>3
    <2>4. cursor' = Len(got') + Len(wire') /\ cursor' + Len(batch') <= written'
      BY <1>0, <1>1, <1>2, <1>3, <2>1
    <2>5. Len(got') + Len(wire') <= written'
      BY <1>0, <1>2, <1>3, <2>4
    <2> QED
      BY <1>0, <1>2, <1>3, <2>2, <2>3, <2>4, <2>5 DEF Consecutive
  <1>6. LastBatchInv'
    BY <1>0, <1>1, <1>2, <1>3 DEF LastBatchInv, StreamTypeOK
  <1> QED
    BY <1>2, <1>4, <1>5, <1>6 DEF WatchInv

\* The next frame on the wire is the next number.
LEMMA FrameIsNext ==
  ASSUME StreamIInv, wire # <<>>
  PROVE  Head(wire) = Len(got) + 1 /\ Len(got) < written
  <1>1. wire \in Seq(1..written) /\ Len(wire) \in Nat \ {0} /\ Len(got) \in Nat /\ written \in Nat
    BY StreamAssumption DEF StreamIInv, StreamTypeOK
  <1>2. Head(wire) = wire[1]
    BY <1>1
  <1> QED
    BY <1>1, <1>2 DEF StreamIInv, Consecutive

\* The client takes the next number off the wire, which is the one behind those it has.
LEMMA ReceiveKeeps ==
  ASSUME StreamIInv, Receive
  PROVE  StreamIInv'
  <1> USE DEF StreamIInv, logVars, watchVars
  <1>0. /\ wire \in Seq(1..written) /\ wire # <<>> /\ got \in Seq(1..written) /\ written \in Nat
        /\ Len(wire) \in Nat \ {0} /\ Len(got) \in Nat
    BY StreamAssumption DEF StreamTypeOK, Receive
  <1>1. /\ got' = Append(got, Len(got) + 1) /\ wire' = Tail(wire) /\ Len(got) + 1 \in 1..written
        /\ UNCHANGED <<logVars, watchVars, conn, cursor, batch, last, full, seen, drops>>
    BY <1>0, FrameIsNext DEF Receive
  <1>2. /\ wire' \in Seq(1..written) /\ Len(wire') = Len(wire) - 1
        /\ \A i \in 1..Len(wire') : wire'[i] = wire[i + 1]
    BY <1>0, <1>1, HeadTailProperties
  <1>3. /\ got' \in Seq(1..written) /\ Len(got') = Len(got) + 1
        /\ \A i \in 1..Len(got') : got'[i] = i
    BY <1>0, <1>1 DEF Consecutive
  <1>4. ASSUME NEW i \in 1..Len(wire')
        PROVE  wire'[i] = Len(got') + i
    <2>1. i \in Int /\ i + 1 \in 1..Len(wire)
      BY <1>0, <1>2
    <2>2. wire[i + 1] = Len(got) + (i + 1)
      BY <2>1 DEF Consecutive
    <2>3. wire'[i] = wire[i + 1] /\ Len(got') = Len(got) + 1
      BY <1>2, <1>3
    <2> QED
      BY <1>0, <2>1, <2>2, <2>3
  <1>5. StreamTypeOK'
    BY <1>1, <1>2, <1>3 DEF StreamTypeOK
  <1>6. Consecutive'
    BY <1>0, <1>1, <1>2, <1>3, <1>4 DEF Consecutive
  <1> QED
    BY <1>1, <1>5, <1>6 DEF LastBatchInv, WatchInv

\* The three ways to lose a connection: its end, the network and the process.
LEMMA LossKeeps ==
  ASSUME StreamIInv, EndOfStream \/ Disconnect \/ Crash
  PROVE  StreamIInv'
  <1> USE StreamAssumption DEF StreamIInv, logVars, watchVars
  <1>1. Hangup /\ UNCHANGED written /\ conn' = "none"
    BY DEF EndOfStream, Disconnect, Crash, Hangup
  <1>2. Consecutive'
    BY <1>1, HangupKeeps
  <1>3. CASE EndOfStream \/ Disconnect
    <2>1. StreamTypeOK'
      BY <1>1, <1>3, HangupKeeps DEF EndOfStream, Disconnect, Hangup, StreamTypeOK
    <2> QED
      BY <1>1, <1>2, <1>3, <2>1 DEF EndOfStream, Disconnect, LastBatchInv, WatchInv
  <1>4. CASE Crash
    <2>1. StreamTypeOK'
      <3>1. /\ drops' \in 0..MaxDrops /\ active' \in BOOLEAN /\ terminal' \in BOOLEAN
            /\ atEnd' \in 0..written' /\ wpc' \in {"status", "events", "done", "dead"}
        <4>1. drops' \in 0..MaxDrops
          BY <1>4 DEF Crash, StreamTypeOK
        <4>2. active' \in BOOLEAN /\ terminal' \in BOOLEAN
          <5>1. active' = FALSE /\ (terminal' = terminal \/ terminal' = TRUE)
            BY <1>4 DEF Crash
          <5> QED
            BY <5>1 DEF StreamTypeOK
        <4>3. atEnd' \in 0..written'
          BY <1>4 DEF Crash, StreamTypeOK
        <4>4. wpc' \in {"status", "events", "done", "dead"}
          BY <1>4 DEF Crash, StreamTypeOK
        <4> QED
          BY <4>1, <4>2, <4>3, <4>4
      <3> QED
        BY <1>1, <1>4, <3>1, HangupKeeps DEF Crash, Hangup, StreamTypeOK
    <2>2. WatchInv'
      BY <1>4 DEF Crash, WatchInv, StreamTypeOK
    <2> QED
      BY <1>1, <1>2, <2>1, <2>2 DEF LastBatchInv
  <1> QED
    BY <1>3, <1>4

\* The CLI's watch reads a status, then a page behind its own cursor: a terminal status seen
\* before a page that is not full means the page ends the log.
LEMMA WatchKeeps ==
  ASSUME StreamIInv, WatchStatus \/ WatchEvents
  PROVE  StreamIInv'
  <1> USE DEF StreamIInv, logVars, streamVars
  <1>1. CASE WatchStatus
    BY <1>1 DEF WatchStatus, StreamTypeOK, Consecutive, LastBatchInv, WatchInv
  <1>2. CASE WatchEvents
    <2> DEFINE page == ListSince(after, Page)
    <2>0. /\ written \in Nat /\ after \in 0..written /\ Page \in Nat \ {0} /\ atEnd \in 0..written
          /\ finished \in BOOLEAN
      BY StreamAssumption DEF StreamTypeOK
    <2>1. /\ Len(page) \in Nat /\ after + Len(page) <= written
          /\ Len(page) # Page => after + Len(page) = written
      BY <2>0, ListSinceIsConsecutive
    <2>2. /\ after' = after + Len(page) /\ wfull' = (Len(page) = Page)
          /\ wpc = "events" /\ wpc' = (IF finished THEN "done" ELSE "status")
          /\ UNCHANGED <<logVars, streamVars, finished, drops>>
      BY <1>2 DEF WatchEvents
    <2> HIDE DEF page
    <2>3. StreamTypeOK'
      BY <2>0, <2>1, <2>2 DEF StreamTypeOK
    <2>4. WatchInv'
      BY <2>0, <2>1, <2>2 DEF WatchInv
    <2> QED
      BY <2>2, <2>3, <2>4 DEF Consecutive, LastBatchInv
  <1> QED
    BY <1>1, <1>2

\* IInv holds in every state of every behaviour.
LEMMA StreamInductive == StreamSpec => []StreamIInv
  <1>1. StreamIInv /\ [StreamNext]_followingVars => StreamIInv'
    <2> SUFFICES ASSUME StreamIInv, [StreamNext]_followingVars
                 PROVE  StreamIInv'
      OBVIOUS
    <2>1. CASE Append1 \/ Terminate \/ RunEnds
      BY <2>1, WritersKeep
    <2>2. CASE Connect \/ Poll \/ Send \/ Receive
      BY <2>2, ConnectKeeps, PollKeeps, SendKeeps, ReceiveKeeps
    <2>3. CASE EndOfStream \/ Disconnect \/ Crash
      BY <2>3, LossKeeps
    <2>4. CASE WatchStatus \/ WatchEvents
      BY <2>4, WatchKeeps
    <2>5. CASE UNCHANGED followingVars
      BY <2>5 DEF followingVars, logVars, streamVars, watchVars, StreamIInv, StreamTypeOK, Consecutive, LastBatchInv, WatchInv
    <2> QED
      BY <2>1, <2>2, <2>3, <2>4, <2>5 DEF StreamNext
  <1> QED
    BY StreamStarts, <1>1, PTL DEF StreamSpec

-----------------------------------------------------------------------------
\* Whatever the connection does, and whether it is followed by the feed or by the CLI, the
\* follower is told of the session's end only with or after all that was there by then
\* (_poll(), watch()).
THEOREM EndComesLast == StreamSpec => []NothingMissedAtEnd
  <1>1. StreamIInv => NothingMissedAtEnd
    <2> SUFFICES ASSUME StreamIInv
                 PROVE  NothingMissedAtEnd
      OBVIOUS
    <2>1. EndIsComplete
      <3> SUFFICES ASSUME conn = "ended", ~full
                   PROVE  Len(got) + Len(wire) >= atEnd /\ terminal
        BY DEF EndIsComplete
      <3>1. last /\ cursor = Len(got) + Len(wire) /\ batch = <<>>
        BY DEF StreamIInv, StreamTypeOK, Consecutive, LastBatchInv
      <3>2. terminal /\ cursor + Len(batch) >= atEnd
        BY <3>1 DEF StreamIInv, LastBatchInv
      <3> QED
        BY <3>1, <3>2 DEF StreamIInv, StreamTypeOK
    <2>2. WatchShowsTheEnd
      BY DEF StreamIInv, WatchInv, WatchShowsTheEnd
    <2> QED
      BY <2>1, <2>2 DEF StreamIInv, NothingMissedAtEnd
  <1> QED
    BY StreamInductive, <1>1, PTL

\* Over any number of lost connections the client is handed each event once, in order and
\* without a gap (stream(), Last-Event-ID).
THEOREM ResumesExactly == StreamSpec => ExactlyOnceInOrder
  <1>1. StreamIInv /\ [StreamNext]_followingVars =>
          [got' # got => Len(got) < written /\ got' = Append(got, Len(got) + 1)]_got
    <2> SUFFICES ASSUME StreamIInv, [StreamNext]_followingVars, got' # got
                 PROVE  Len(got) < written /\ got' = Append(got, Len(got) + 1)
      OBVIOUS
    <2>1. Receive
      BY DEF StreamNext, Append1, Terminate, RunEnds, Connect, Poll, Send, EndOfStream, Disconnect,
             WatchStatus, WatchEvents, Crash, Hangup, followingVars, streamVars
    <2> QED
      BY <2>1, FrameIsNext DEF Receive
  <1> QED
    BY StreamInductive, <1>1, PTL DEF StreamSpec, ExactlyOnceInOrder
=============================================================================
