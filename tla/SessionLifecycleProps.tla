------------------------ MODULE SessionLifecycleProps ------------------------
(***************************************************************************)
(* What SessionLifecycle must satisfy.                                     *)
(***************************************************************************)
EXTENDS SessionLifecycle, SequencesExt

\* Every variable has its type: the status column holds enum members, the events only
\* entries the orchestrator writes, the semaphore stays within its bounds.
TypeOK ==
  /\ status \in [Sessions -> Status \cup {Absent}]
  /\ log \in [Sessions -> Seq(Entries)]
  /\ fixAttempts \in [Sessions -> Nat]
  /\ pc \in [Sessions -> PC]
  /\ attempt \in [Sessions -> 0..MaxFixAttempts]
  /\ targets \in [Sessions -> BOOLEAN]
  /\ hasSuite \in [Sessions -> BOOLEAN]
  /\ verified \in [Sessions -> BOOLEAN]
  /\ sandbox \in [Sessions -> BOOLEAN]
  /\ workbench \in [Sessions -> BOOLEAN]
  /\ unlogged \in Seq(Notes)
  /\ slots \in Nat
  /\ waiters \in Seq(Sessions)
  /\ faults \in 0..MaxFaults

\* A task at p goes with a session whose status is st.
Coherent(p, st) ==
  \/ p = "idle" /\ st = Absent
  \/ p \in {"posted", "waiting", "starting"} /\ st = "CREATED"
  \/ p \in {"ingest", "failing"} /\ st = "INGESTING"
  \/ p = "plan" /\ st = "PLANNING"
  \/ p \in {"build", "install", "baseline", "investigate"} /\ st = "INVESTIGATING"
  \/ p \in {"edit", "diff", "increment", "retrydiff", "retryedit", "retrycheck"} /\ st = "EDITING"
  \/ p \in {"test", "confirm", "nosuite", "exhaust", "retry"} /\ st = "TESTING"
  \/ p \in {"cleanup", "return", "done"} /\ st \in {"SUMMARIZING"} \cup Terminal
  \/ p \in {"unwind", "raise", "crashed", "lost"} /\ st \in Status
  \/ p # "idle" /\ st = "HALTED"

\* The status column tells the truth about the running task: it is the one the task's
\* await stands for unless an operator halted the session meanwhile, and a run that
\* returned without an exception leaves no session in the middle of its work.
PhaseMatchesStatus == \A s \in Sessions : Coherent(pc[s], status[s])

\* "A full suite run precedes SUMMARIZING": a repository with a suite is handed to the
\* approval gate only if the whole suite was green on the tree as it stands, with no edit
\* after that run and no narrowed run in its place.
VerifiedBeforeSummarizing ==
  \A s \in Sessions : status[s] = "SUMMARIZING" /\ hasSuite[s] => verified[s]

\* No slot is lost or invented on any way out of a run, whether it returned, was cancelled
\* or raised, nobody waits while one is free, and no session waits unknown to the queue.
SlotsConserved ==
  /\ slots + Cardinality({s \in Sessions : pc[s] \in Holding}) = MaxConcurrent
  /\ waiters # <<>> => slots = 0
  /\ ToSet(waiters) = {s \in Sessions : pc[s] = "waiting"}

IsMove(e) == e.event = "STATE_CHANGED"

\* The last move among the first n events of a log is one to st, or none is a move and st is
\* where everyone starts.
Leading(l, n, st) ==
  \/ st = "CREATED" /\ \A i \in 1..n : ~IsMove(l[i])
  \/ \E i \in 1..n :
       /\ IsMove(l[i]) /\ l[i].to = st
       /\ \A k \in (i + 1)..n : ~IsMove(l[k])

\* A move follows the first n events of a log: it starts where they lead, or is that of an
\* ingestion which failed after its session was cancelled and still took it for INGESTING.
Follows(l, n, e) ==
  \/ Leading(l, n, e.from)
  \/ e = Changed("INGESTING", "FAILED") /\ Leading(l, n, "HALTED")

\* Replaying a session's STATE_CHANGED events from CREATED leads, edge by edge, to the
\* status it has, whoever wrote them; only the FAILED of a cancelled ingestion names a status
\* the session had left.  The clause that nothing failed excludes a commit lost between a
\* status and its event.
LogReplaysStatus ==
  faults = 0 /\ unlogged = <<>> =>
    \A s \in Sessions :
      /\ \A i \in DOMAIN log[s] : IsMove(log[s][i]) => Follows(log[s], i - 1, log[s][i])
      /\ IF status[s] = Absent THEN log[s] = <<>>
                               ELSE Leading(log[s], Len(log[s]), status[s])

Retries(s) == Cardinality({i \in DOMAIN log[s] : log[s][i] = Changed("TESTING", "EDITING")})

\* The counter the operator sees is the number of times the session really went back from
\* TESTING to EDITING, it never runs ahead of the log, and max_fix_attempts test runs
\* leave room for one edit less.
FixAttemptsMatchLog ==
  \A s \in Sessions :
    /\ fixAttempts[s] <= Retries(s)
    /\ Retries(s) < MaxFixAttempts
    /\ faults = 0 /\ LoopFree => fixAttempts[s] = Retries(s)

\* A run that ends leaves no sandbox behind: none after a return, and none after an
\* exception (the one fault) that met run() with its workbench in hand.
SandboxReleased ==
  \A s \in Sessions :
    \/ faults = 0 /\ pc[s] = "done"
    \/ faults = 1 /\ pc[s] = "crashed" /\ workbench[s]
    => ~sandbox[s]

\* What a run takes it gives back on every way out of it: its slot, and its sandbox.
NothingHeld == SlotsConserved /\ SandboxReleased

\* The event log an operator reads is true: of the status, and of the retries.
LogIsTrue == LogReplaysStatus /\ FixAttemptsMatchLog

\* No agent phase starts on a session that was cancelled before it, however many awaits
\* lie between the cancellation and the phase.
NoPhaseAfterHalt ==
  [][\A s \in Sessions :
       status[s] = "HALTED" /\ pc[s] \notin Phases => pc'[s] \notin Phases]_vars

\* Every accepted session's run comes to an end, also when it queued for a slot and when
\* the run before it was cancelled or crashed.
EveryRunEnds == \A s \in Sessions : pc[s] = "posted" ~> pc[s] \in Ended

\* Sessions that were cancelled while their repository was being ingested.
CancelledIngesting == {s \in Sessions : status[s] = "HALTED" /\ pc[s] \in {"ingest", "failing"}}

Contract ==
  INSTANCE SessionContract WITH late <- CancelledIngesting, signed <- {}, delivered <- {}

\* Until the approval gate the machinery only makes moves the contract allows: along the map,
\* and out of HALTED only where an ingestion fails that was already under way.
ImplementsContract == Contract!Spec

-----------------------------------------------------------------------------
\* "There is exactly one code path that changes status, and it refuses anything the
\* legal-transition map doesn't allow" (session_state_machine.py:7-8): a cancelled session
\* stays HALTED.
HaltedIsFinal ==
  [][\A s \in Sessions : status[s] = "HALTED" => status'[s] = "HALTED"]_vars

\* "Any unhandled error is logged and the session is left FAILED by the orchestrator's own
\* finally" (session_runner.py:9-11), or at least in a status it can rest in.
CrashedRunIsTerminal ==
  \A s \in Sessions : pc[s] = "crashed" => status[s] \in Terminal
=============================================================================
