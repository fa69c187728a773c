----------------------------- MODULE EventStream -----------------------------
(***************************************************************************)
(* Two ways to follow one session's event log: the SSE feed of             *)
(* EventStreamService.stream() and the polling loop of the CLI's watch().  *)
(*                                                                         *)
(* The log is the numbers 1..written: EventRepository.append() allocates   *)
(* MAX+1 under SQLite's write lock.  The poller shares the event loop with *)
(* the writers, so it never sees the inside of a stretch of theirs; it is  *)
(* suspended at every `yield` and at its sleep, and a frame it yielded is  *)
(* on the wire until the client reads it or the connection is lost.        *)
(***************************************************************************)
EXTENDS Naturals, Sequences, SequencesExt

CONSTANTS
  Batch,       \* SSE_STREAM_BATCH_LIMIT
  Page,        \* API_MAX_PAGE_LIMIT, the limit of a GET .../events without one
  MaxEvents,   \* bound: the length of the log
  MaxDrops     \* bound: lost connections

ASSUME StreamAssumption ==
  /\ Batch \in Nat \ {0}
  /\ Page \in Nat \ {0}
  /\ MaxEvents \in Nat
  /\ MaxDrops \in Nat

VARIABLES
  written,     \* the highest sequence of the session
  terminal,    \* sessions.status is terminal
  active,      \* some coroutine may still append
  atEnd,       \* history: `written` when the status became terminal
  conn,        \* where stream() stands: none, asleep, sending, ended
  cursor,      \* its `cursor`
  batch,       \* what is left of its `events`
  last,        \* its `terminal`: return after this batch
  full,        \* history: its last poll returned Batch rows
  seen,        \* history: `written` at its last poll
  wire,        \* frames sent and not received yet
  got,         \* what the client has received since it first connected
  drops,
  wpc,         \* where watch() stands: status, events, done, dead
  after,       \* its `after`
  finished,    \* the status it read is terminal
  wfull        \* history: its last page was full

logVars    == <<written, terminal, active, atEnd>>
streamVars == <<conn, cursor, batch, last, full, seen, wire, got>>
watchVars  == <<wpc, after, finished, wfull>>
followingVars == <<logVars, streamVars, watchVars, drops>>

StreamInit ==
  /\ written = 0 /\ terminal = FALSE /\ active = TRUE /\ atEnd = 0
  /\ conn = "none" /\ cursor = 0 /\ batch = <<>> /\ last = FALSE
  /\ full = FALSE /\ seen = 0 /\ wire = <<>> /\ got = <<>>
  /\ drops = 0
  /\ wpc = "status" /\ after = 0 /\ finished = FALSE /\ wfull = FALSE

\* EventRepository.list_since(): at most `limit` sequences above n, in order.
ListSince(n, limit) ==
  [i \in 1..(IF written - n < limit THEN written - n ELSE limit) |-> n + i]

-----------------------------------------------------------------------------
\* The writers

Append1 ==
  /\ active /\ written < MaxEvents
  /\ written' = written + 1
  /\ UNCHANGED <<terminal, active, atEnd, streamVars, watchVars, drops>>

\* A transition to a terminal status and, in the same stretch, STATE_CHANGED and
\* perhaps SESSION_FAILED.  The run of a cancelled session goes on for a while.
Terminate ==
  /\ active /\ ~terminal
  /\ \E k \in 1..2 :
       /\ written + k <= MaxEvents
       /\ written' = written + k
       /\ atEnd' = written + k
  /\ terminal' = TRUE
  /\ active' \in BOOLEAN
  /\ UNCHANGED <<streamVars, watchVars, drops>>

RunEnds ==
  /\ active /\ terminal
  /\ active' = FALSE
  /\ UNCHANGED <<written, terminal, atEnd, streamVars, watchVars, drops>>

-----------------------------------------------------------------------------
\* The feed

Hangup ==
  /\ conn' = "none"
  /\ wire' = <<>> /\ batch' = <<>>
  /\ UNCHANGED <<cursor, last, full, seen, got>>

\* The router that forgets the Last-Event-ID header.
LastEventIdIgnored(received) == 0

\* Last-Event-ID is the last frame the client read; without one the feed starts at 0.
LastEventId(received) == Len(received)

Connect ==
  /\ conn = "none"
  /\ conn' = "asleep"
  /\ cursor' = (IF got = <<>> THEN 0 ELSE LastEventId(got))
  /\ UNCHANGED <<logVars, watchVars, batch, last, full, seen, wire, got, drops>>

\* stream() after the last frame of a batch.
Rest(ending) == IF ending THEN "ended" ELSE "asleep"

\* A poll that returns on a terminal status before it yields what it read.
PollDropsTail ==
  /\ conn = "asleep"
  /\ LET rows == ListSince(cursor, Batch) IN
       /\ batch' = IF terminal THEN <<>> ELSE rows
       /\ last' = terminal
       /\ full' = (Len(rows) = Batch)
       /\ conn' = IF batch' = <<>> THEN Rest(terminal) ELSE "sending"
  /\ seen' = written
  /\ UNCHANGED <<logVars, watchVars, cursor, wire, got, drops>>

\* _poll(): rows and status in one unit of work.
Poll ==
  /\ conn = "asleep"
  /\ LET rows == ListSince(cursor, Batch) IN
       /\ batch' = rows
       /\ last' = terminal
       /\ full' = (Len(rows) = Batch)
       /\ conn' = IF rows = <<>> THEN Rest(terminal) ELSE "sending"
  /\ seen' = written
  /\ UNCHANGED <<logVars, watchVars, cursor, wire, got, drops>>

\* One yield, and the assignment to `cursor` when it is resumed.
Send ==
  /\ conn = "sending"
  /\ wire' = Append(wire, Head(batch))
  /\ cursor' = Head(batch)
  /\ batch' = Tail(batch)
  /\ conn' = IF Len(batch) = 1 THEN Rest(last) ELSE "sending"
  /\ UNCHANGED <<logVars, watchVars, last, full, seen, got, drops>>

Receive ==
  /\ wire # <<>>
  /\ got' = Append(got, Head(wire))
  /\ wire' = Tail(wire)
  /\ UNCHANGED <<logVars, watchVars, conn, cursor, batch, last, full, seen, drops>>

\* The client reads the end of the response; an EventSource connects again.
EndOfStream ==
  /\ conn = "ended" /\ wire = <<>>
  /\ Hangup
  /\ UNCHANGED <<logVars, watchVars, drops>>

Disconnect ==
  /\ conn # "none" /\ drops < MaxDrops
  /\ drops' = drops + 1
  /\ Hangup
  /\ UNCHANGED <<logVars, watchVars>>

-----------------------------------------------------------------------------
\* DevMindCLI.watch()

\* watch() that returns on a terminal status without the last page.
WatchStatusReturns ==
  /\ wpc = "status"
  /\ finished' = terminal
  /\ wpc' = IF terminal THEN "done" ELSE "events"
  /\ UNCHANGED <<logVars, streamVars, after, wfull, drops>>

WatchStatus ==
  /\ wpc = "status"
  /\ finished' = terminal
  /\ wpc' = "events"
  /\ UNCHANGED <<logVars, streamVars, after, wfull, drops>>

WatchEvents ==
  /\ wpc = "events"
  /\ LET page == ListSince(after, Page) IN
       /\ after' = after + Len(page)
       /\ wfull' = (Len(page) = Page)
  /\ wpc' = IF finished THEN "done" ELSE "status"
  /\ UNCHANGED <<logVars, streamVars, finished, drops>>

\* The process dies, perhaps between a terminal status and its event: every connection
\* is lost, nobody resumes the run, and watch() fails on its next request.
Crash ==
  /\ active /\ drops < MaxDrops
  /\ drops' = drops + 1
  /\ active' = FALSE
  /\ \/ UNCHANGED <<terminal, atEnd>>
     \/ ~terminal /\ terminal' = TRUE /\ atEnd' = written
  /\ Hangup
  /\ wpc' = IF wpc = "done" THEN "done" ELSE "dead"
  /\ UNCHANGED <<written, after, finished, wfull>>

StreamNext ==
  \/ Append1 \/ Terminate \/ RunEnds
  \/ Connect \/ Poll \/ Send \/ Receive \/ EndOfStream \/ Disconnect
  \/ WatchStatus \/ WatchEvents
  \/ Crash

\* The poller's timer and the event loop, the network and a client that reconnects.
StreamFairness ==
  /\ WF_followingVars(Poll) /\ WF_followingVars(Send) /\ WF_followingVars(Receive)
  /\ WF_followingVars(Connect \/ EndOfStream)

StreamSpec == StreamInit /\ [][StreamNext]_followingVars /\ StreamFairness
=============================================================================
